----------------------------- MODULE FilesProofs -----------------------------
(***************************************************************************)
(* Nothing but the last descriptor is inherited, and reads return the file *)
(* in order, for any table size, any image and any number of slots; the    *)
(* tests of syserr pass; grep stays in its buffer and finds every line; and *)
(* a listing of the directory, at the end, hands out every name once.      *)
(***************************************************************************)
EXTENDS Programs, Directory, SequenceTheorems, FiniteSetTheorems, WellFoundedInduction, TLAPS

EntryFields == {"type", "inode_", "file_position_", "flags_"}

\* The tables have an entry with all its fields for every descriptor.  What a
\* position is does not matter for what is inherited.
Shape ==
    /\ role \in [Pid -> {"none", "base", "child"}]
    /\ own \in [Pid -> SUBSET Fds]
    /\ DOMAIN file_descriptor = Pid
    /\ \A p \in Pid : DOMAIN file_descriptor[p] = Fds
    /\ \A p \in Pid, ds \in Fds : DOMAIN file_descriptor[p][ds] = EntryFields

\* What a step of slot p does to the descriptors: the entries of other slots
\* stay, and those of its own keep their fields.
Touches(p) ==
    /\ DOMAIN file_descriptor' = Pid
    /\ \A q \in Pid : DOMAIN file_descriptor'[q] = Fds
    /\ \A q \in Pid, ds \in Fds : DOMAIN file_descriptor'[q][ds] = EntryFields
    /\ \A q \in Pid \ {p}, ds \in Fds : file_descriptor'[q][ds] = file_descriptor[q][ds]

-----------------------------------------------------------------------------
\* Every table is the initial one, empty, for slots that have run nothing.
LEMMA InitShape == Init => Shape /\ OnlyOwnFiles
  BY DEF Init, Shape, EntryFields, Closed, OnlyOwnFiles, Running, Fds

\* init_pcb clears every descriptor but the last.
LEMMA InitPcbKeeps ==
  ASSUME Shape, OnlyOwnFiles, NEW p \in Pid, NEW r \in {"base", "child"}, init_pcb(p, r)
  PROVE  Shape' /\ OnlyOwnFiles'
<1>1. Touches(p)
  BY DEF init_pcb, Shape, Touches, EntryFields
<1>2. \A ds \in Fds \ {END_OF_FDA} : file_descriptor'[p][ds].flags_ = 0
  <2>1. Fds \ {END_OF_FDA} \subseteq Cleared
    BY TableAssumption DEF Fds, Cleared, BEGINING_FDA
  <2> QED
    BY <2>1 DEF init_pcb, Shape, EntryFields
<1>3. role' \in [Pid -> {"none", "base", "child"}] /\ own' \in [Pid -> SUBSET Fds]
  BY DEF init_pcb, Shape
<1>4. \A q \in Pid \ {p} : role'[q] = role[q] /\ own'[q] = own[q]
  BY DEF init_pcb, Shape
<1> QED
  BY <1>1, <1>2, <1>3, <1>4 DEF Shape, Touches, OnlyOwnFiles, Running, IsFree

\* open opens a descriptor of the process itself.
LEMMA OpenKeeps ==
  ASSUME Shape, OnlyOwnFiles, NEW p \in Pid, NEW item \in Name, NEW k \in Fds, open(p, item, k)
  PROVE  Shape' /\ OnlyOwnFiles'
<1>1. Touches(p)
  BY DEF open, Shape, Touches, EntryFields
<1>2. \A ds \in Fds \ {k} : file_descriptor'[p][ds] = file_descriptor[p][ds]
  BY DEF open, Shape
<1>3. /\ role' = role
      /\ own' \in [Pid -> SUBSET Fds]
      /\ own'[p] = own[p] \cup {k}
      /\ \A q \in Pid \ {p} : own'[q] = own[q]
  BY DEF open, Shape
<1> QED
  BY <1>1, <1>2, <1>3 DEF Shape, Touches, OnlyOwnFiles, Running, IsFree

\* close frees the descriptor that it disowns.
LEMMA CloseKeeps ==
  ASSUME Shape, OnlyOwnFiles, NEW p \in Pid, NEW k \in Fds, close(p, k)
  PROVE  Shape' /\ OnlyOwnFiles'
<1>1. Touches(p)
  BY DEF close, Shape, Touches, EntryFields, ClosedEntry
<1>2. /\ \A ds \in Fds \ {k} : file_descriptor'[p][ds] = file_descriptor[p][ds]
      /\ file_descriptor'[p][k].flags_ = 0
  BY DEF close, Shape, ClosedEntry, EntryFields
<1>3. /\ role' = role
      /\ own' \in [Pid -> SUBSET Fds]
      /\ own'[p] = own[p] \ {k}
      /\ \A q \in Pid \ {p} : own'[q] = own[q]
  BY DEF close, Shape
<1> QED
  BY <1>1, <1>2, <1>3 DEF Shape, Touches, OnlyOwnFiles, Running, IsFree

\* read moves a position and opens nothing.
LEMMA ReadKeeps ==
  ASSUME Shape, OnlyOwnFiles, NEW p \in Pid, NEW k \in Fds, NEW n, read(p, k, n)
  PROVE  Shape' /\ OnlyOwnFiles'
<1>1. PICK position :
        file_descriptor' = [file_descriptor EXCEPT ![p][k].file_position_ = position]
  BY DEF read
<1>2. Touches(p)
  BY <1>1 DEF Shape, Touches, EntryFields
<1>3. \A ds \in Fds : file_descriptor'[p][ds].flags_ = file_descriptor[p][ds].flags_
  BY <1>1 DEF Shape, EntryFields
<1>4. role' = role /\ own' = own
  BY DEF read
<1> QED
  BY <1>2, <1>3, <1>4 DEF Shape, Touches, OnlyOwnFiles, Running, IsFree

\* halt leaves a slot in which nothing runs, whatever it closes.
LEMMA HaltKeeps ==
  ASSUME Shape, OnlyOwnFiles, NEW p \in Pid, halt(p)
  PROVE  Shape' /\ OnlyOwnFiles'
<1>1. Touches(p)
  <2>1. CASE role[p] = "base"
    BY <2>1 DEF halt, Shape, Touches
  <2>2. CASE role[p] # "base"
    BY <2>2 DEF halt, Shape, Touches, EntryFields, ClosedEntry
  <2> QED
    BY <2>1, <2>2
<1>2. /\ role' \in [Pid -> {"none", "base", "child"}]
      /\ role'[p] = "none"
      /\ \A q \in Pid \ {p} : role'[q] = role[q]
      /\ own' = own
  BY DEF halt, Shape
<1> QED
  BY <1>1, <1>2 DEF Shape, Touches, OnlyOwnFiles, Running, IsFree

-----------------------------------------------------------------------------
\* A call of some program, which may read with any size.
FileStep ==
  \E p \in Pid :
     \/ \E r \in {"base", "child"} : init_pcb(p, r)
     \/ \E item \in Name, k \in Fds : open(p, item, k)
     \/ \E k \in Fds : close(p, k)
     \/ \E k \in Fds, n \in Nat : read(p, k, n)
     \/ halt(p)

\* The steps of Files are such calls.
LEMMA NextIsFileStep == [Next]_vars => [FileStep]_vars
BY ImageAssumption DEF Next, FileStep

\* What is inherited is inductive: one step per call of the kernel.
LEMMA InheritedStep == Shape /\ OnlyOwnFiles /\ [FileStep]_vars => Shape' /\ OnlyOwnFiles'
<1> SUFFICES ASSUME Shape, OnlyOwnFiles, [FileStep]_vars
             PROVE  Shape' /\ OnlyOwnFiles'
  OBVIOUS
<1>1. CASE UNCHANGED vars
  BY <1>1 DEF vars, Shape, OnlyOwnFiles, Running, IsFree
<1>2. CASE FileStep
  BY <1>2, InitPcbKeeps, OpenKeeps, CloseKeeps, ReadKeeps, HaltKeeps DEF FileStep
<1> QED
  BY <1>1, <1>2

\* Whatever the processes of a slot open, read and leave open, its next process
\* finds no descriptor open that it did not open itself, the last one excepted.
THEOREM NothingInherited == Spec => []OnlyOwnFiles
BY InitShape, InheritedStep, NextIsFileStep, PTL DEF Spec

-----------------------------------------------------------------------------
(* What read_data returns: induction over the rounds of its loop *)

Less == {mn \in Nat \X Nat : mn[1] < mn[2]}

\* A set of numbers with 0 and with the successor of each of its elements is all
\* of Nat: its complement would have a least element.
LEMMA Induction ==
  ASSUME NEW T, T \subseteq Nat, 0 \in T, \A n \in T : n + 1 \in T
  PROVE  Nat \subseteq T
<1> SUFFICES ASSUME Nat \ T # {} PROVE FALSE
  OBVIOUS
<1>1. IsWellFoundedOn(Less, Nat)
  BY NatLessThanWellFounded DEF OpToRel, Less
<1>2. PICK m \in Nat \ T : \A k \in Nat \ T : ~(<<k, m>> \in Less)
  BY <1>1, WFMin
<1>3. m - 1 \in Nat /\ <<m - 1, m>> \in Less
  BY DEF Less
<1>4. m - 1 \in T
  BY <1>2, <1>3
<1> QED
  BY <1>3, <1>4

\* The state of the loop before its first round, and after another one.
Start(position) ==
  [block_index |-> position \div KB4, offset |-> position % KB4, data |-> <<>>]
Round(inode, z) == IF AtLimit(z) THEN z ELSE CopyByte(inode, z)
Rounds(z, inode, position, n) ==
  z = [i \in 0 .. n |-> IF i = 0 THEN Start(position) ELSE Round(inode, z[i - 1])]

\* The loop has a state after any number of rounds.
LEMMA RoundsExist ==
  ASSUME NEW inode, NEW position, NEW n \in Nat
  PROVE  \E z : Rounds(z, inode, position, n)
<1> DEFINE T == {m \in Nat : \E z : Rounds(z, inode, position, m)}
<1>1. 0 \in T
  <2> DEFINE z == [i \in 0 .. 0 |-> Start(position)]
  <2>1. Rounds(z, inode, position, 0)
    BY DEF Rounds
  <2> QED
    BY <2>1
<1>2. ASSUME NEW m \in T PROVE m + 1 \in T
  <2>1. PICK z : Rounds(z, inode, position, m)
    OBVIOUS
  <2> DEFINE r == [i \in 0 .. m + 1 |-> IF i = m + 1 THEN Round(inode, z[m]) ELSE z[i]]
  <2>2. ASSUME NEW i \in 0 .. m + 1
        PROVE  r[i] = IF i = 0 THEN Start(position) ELSE Round(inode, r[i - 1])
    <3>1. CASE i = m + 1
      BY <3>1
    <3>2. CASE i # m + 1
      <4>1. i \in 0 .. m /\ (i # 0 => i - 1 \in 0 .. m /\ i - 1 # m + 1)
        BY <3>2
      <4>2. z[i] = IF i = 0 THEN Start(position) ELSE Round(inode, z[i - 1])
        BY <2>1, <4>1 DEF Rounds
      <4> QED
        BY <3>2, <4>1, <4>2
    <3> QED
      BY <3>1, <3>2
  <2>3. Rounds(r, inode, position, m + 1)
    BY <2>2 DEF Rounds
  <2> HIDE DEF r
  <2> QED
    BY <2>3
<1> HIDE DEF T
<1>3. T \subseteq Nat
  BY DEF T
<1>4. Nat \subseteq T
  BY <1>1, <1>2, <1>3, Induction
<1> QED
  BY <1>4 DEF T

\* Where the loop is in the file and what it has copied so far belong together.
Copied(inode, position) ==
  {z \in [block_index : 0 .. KB - 2, offset : 0 .. KB4, data : Seq(Nat)] :
     /\ z.block_index * KB4 + z.offset = position + Len(z.data)
     /\ \A k \in 1 .. Len(z.data) : z.data[k] = ByteAt(inode, position + (k - 1))}

\* The block and the offset of a position, and the position of an offset in a block.
LEMMA Blocks ==
  /\ KB4 \in Nat /\ KB4 > 0 /\ KB \in Nat /\ KB > 2
  /\ \A n \in Nat : /\ n \div KB4 \in Nat /\ n % KB4 \in 0 .. KB4 - 1
                    /\ n = (n \div KB4) * KB4 + (n % KB4)
  /\ \A b, o \in Nat : o < KB4 => /\ (b * KB4 + o) \div KB4 = b
                                  /\ (b * KB4 + o) % KB4 = o
  /\ \A b, c \in Nat : /\ b * KB4 \in Nat
                       /\ (b + 1) * KB4 = b * KB4 + KB4
                       /\ b < c => b * KB4 + KB4 <= c * KB4
<1>1. KB4 \in Nat /\ KB4 > 0 /\ KB \in Nat /\ KB > 2
  BY BlockAssumption
<1>2. \A n, K \in Nat : K > 0 => /\ n \div K \in Nat /\ n % K \in 0 .. K - 1
                                 /\ n = (n \div K) * K + (n % K)
  OBVIOUS
<1>3. \A b, o, K \in Nat : o < K => (b * K + o) \div K = b /\ (b * K + o) % K = o
  OBVIOUS
<1>4. \A b, c, K \in Nat : /\ b * K \in Nat
                           /\ (b + 1) * K = b * K + K
                           /\ b < c => b * K + K <= c * K
  OBVIOUS
<1> QED
  BY <1>1, <1>2, <1>3, <1>4

\* The loop starts in a block of the file.
LEMMA StartCopied ==
  ASSUME NEW inode \in Inode, NEW position \in Nat, position < length_[inode]
  PROVE  Start(position) \in Copied(inode, position)
<1> DEFINE b == position \div KB4
           o == position % KB4
<1>1. b \in Nat /\ o \in 0 .. KB4 - 1 /\ position = b * KB4 + o /\ KB - 2 \in Nat
  BY Blocks
<1>2. position < (KB - 2) * KB4
  <2>1. length_[inode] \in Nat /\ length_[inode] <= (KB - 2) * KB4
    BY ImageAssumption
  <2>2. (KB - 2) * KB4 \in Nat
    BY <1>1, Blocks
  <2> QED
    BY <2>1, <2>2
<1> HIDE DEF b, o
<1>3. b < KB - 2
  <2> SUFFICES ASSUME b >= KB - 2 PROVE FALSE
    BY <1>1
  <2>1. (KB - 2) * KB4 <= b * KB4
    BY <1>1, Blocks
  <2>2. b * KB4 \in Nat /\ (KB - 2) * KB4 \in Nat
    BY <1>1, Blocks
  <2> QED
    BY <1>1, <1>2, <2>1, <2>2
<1> DEFINE z == Start(position)
<1>4. z.block_index = b /\ z.offset = o /\ z.data = <<>>
  BY DEF Start, b, o
<1>5. Len(<<>>) = 0 /\ <<>> \in Seq(Nat)
  OBVIOUS
<1>6. b \in 0 .. KB - 2 /\ o \in 0 .. KB4
  BY <1>1, <1>3, Blocks
<1>7. z \in [block_index : 0 .. KB - 2, offset : 0 .. KB4, data : Seq(Nat)]
  BY <1>5, <1>6 DEF Start, b, o
<1>8. z.block_index * KB4 + z.offset = position + Len(z.data)
  BY <1>1, <1>4, <1>5
<1>9. \A k \in 1 .. Len(z.data) : z.data[k] = ByteAt(inode, position + (k - 1))
  BY <1>4, <1>5
<1> HIDE DEF z
<1>10. z \in Copied(inode, position)
  BY <1>7, <1>8, <1>9 DEF Copied
<1> QED
  BY <1>10 DEF z

\* A round copies the byte at the position that the loop has reached.
LEMMA RoundCopies ==
  ASSUME NEW inode \in Inode, NEW position \in Nat, NEW z \in Copied(inode, position)
  PROVE  Round(inode, z) \in Copied(inode, position)
<1>1. CASE AtLimit(z)
  BY <1>1 DEF Round
<1>2. CASE ~AtLimit(z)
  <2> DEFINE b == IF BlockDone(z.offset) THEN z.block_index + 1 ELSE z.block_index
             o == IF BlockDone(z.offset) THEN 0 ELSE z.offset
             d == Len(z.data)
             byte == Byte(data_block_[inode][b], o)
  <2>1. /\ z.block_index \in 0 .. KB - 2 /\ z.offset \in 0 .. KB4 /\ z.data \in Seq(Nat)
        /\ z.block_index * KB4 + z.offset = position + d
        /\ z.block_index # KB - 2
    BY <1>2 DEF Copied, AtLimit
  <2>2. d \in Nat
    BY <2>1
  <2>3. /\ b \in 0 .. KB - 2 /\ o \in 0 .. KB4 - 1
        /\ b * KB4 + o = position + d
    <3>1. CASE z.offset = KB4
      <4>1. b = z.block_index + 1 /\ o = 0
        BY <3>1 DEF BlockDone
      <4>2. (z.block_index + 1) * KB4 = z.block_index * KB4 + KB4 /\ z.block_index * KB4 \in Nat
        BY <2>1, Blocks
      <4> HIDE DEF b, o
      <4>3. b \in 0 .. KB - 2 /\ o \in 0 .. KB4 - 1
        BY <2>1, <4>1, Blocks
      <4>4. b * KB4 + o = z.block_index * KB4 + z.offset
        BY <2>1, <3>1, <4>1, <4>2, Blocks
      <4> QED
        BY <2>1, <4>3, <4>4
    <3>2. CASE z.offset # KB4
      <4>1. b = z.block_index /\ o = z.offset
        BY <3>2 DEF BlockDone
      <4> QED
        BY <2>1, <3>2, <4>1, Blocks
    <3> QED
      BY <3>1, <3>2
  <2>4. Round(inode, z) = [block_index |-> b, offset |-> o + 1, data |-> Append(z.data, byte)]
    BY <1>2 DEF Round, CopyByte
  <2> HIDE DEF b, o
  <2>5. (position + d) \div KB4 = b /\ (position + d) % KB4 = o
    <3>1. b \in Nat /\ o \in Nat /\ o < KB4
      BY <2>3, Blocks
    <3> QED
      BY <2>3, <3>1, Blocks
  <2>6. byte = ByteAt(inode, position + d)
    BY <2>5 DEF ByteAt
  <2>7. byte \in Nat
    <3>1. data_block_[inode][b] \in Nat
      BY <2>3, ImageAssumption, BlockAssumption
    <3>2. data_block_[inode][b] * KB4 \in Nat
      BY <3>1, Blocks
    <3> QED
      BY <2>3, <3>2, Blocks DEF Byte
  <2> HIDE DEF d, byte
  <2>8. /\ Append(z.data, byte) \in Seq(Nat) /\ Len(Append(z.data, byte)) = d + 1
        /\ Append(z.data, byte)[d + 1] = byte
        /\ \A k \in 1 .. d : Append(z.data, byte)[k] = z.data[k]
    BY <2>1, <2>7 DEF d
  <2>9. \A k \in 1 .. d : z.data[k] = ByteAt(inode, position + (k - 1))
    BY DEF Copied, d
  <2>10. \A k \in 1 .. d + 1 : Append(z.data, byte)[k] = ByteAt(inode, position + (k - 1))
    <3> SUFFICES ASSUME NEW k \in 1 .. d + 1
                 PROVE  Append(z.data, byte)[k] = ByteAt(inode, position + (k - 1))
      OBVIOUS
    <3>1. CASE k = d + 1
      <4>1. k - 1 = d
        BY <2>2, <3>1
      <4> QED
        BY <2>6, <2>8, <3>1, <4>1
    <3>2. CASE k # d + 1
      <4>1. k \in 1 .. d
        BY <2>2, <3>2
      <4> QED
        BY <2>8, <2>9, <4>1
    <3> QED
      BY <3>1, <3>2
  <2>11. b * KB4 + (o + 1) = position + (d + 1) /\ o + 1 \in 0 .. KB4
    <3>1. b * KB4 \in Nat /\ o \in Nat
      BY <2>3, Blocks
    <3> QED
      BY <2>2, <2>3, <3>1, Blocks
  <2> DEFINE bytes == Append(z.data, byte)
             r == [block_index |-> b, offset |-> o + 1, data |-> bytes]
  <2> HIDE DEF bytes
  <2>12. r \in [block_index : 0 .. KB - 2, offset : 0 .. KB4, data : Seq(Nat)]
    BY <2>3, <2>8, <2>11 DEF bytes
  <2>13. r.block_index * KB4 + r.offset = position + Len(r.data)
    BY <2>8, <2>11 DEF bytes
  <2>14. \A k \in 1 .. Len(r.data) : r.data[k] = ByteAt(inode, position + (k - 1))
    BY <2>8, <2>10 DEF bytes
  <2>15. Round(inode, z) = r
    BY <2>4 DEF bytes
  <2> HIDE DEF r
  <2> QED
    BY <2>12, <2>13, <2>14, <2>15 DEF Copied
<1> QED
  BY <1>1, <1>2

\* A round copies one byte, or none at the limit, where the file is over.
LEMMA RoundAdds ==
  ASSUME NEW inode, NEW z, z.data \in Seq(Nat), Round(inode, z).data \in Seq(Nat)
  PROVE  \/ AtLimit(z) /\ Round(inode, z) = z
         \/ ~AtLimit(z) /\ Len(Round(inode, z).data) = Len(z.data) + 1
<1>1. CASE AtLimit(z)
  BY <1>1 DEF Round
<1>2. CASE ~AtLimit(z)
  <2>1. PICK byte : Round(inode, z).data = Append(z.data, byte)
    BY <1>2 DEF Round, CopyByte
  <2> QED
    BY <1>2, <2>1
<1> QED
  BY <1>1, <1>2

\* Behind the limit there is nothing of the file.
LEMMA LimitIs ==
  ASSUME NEW inode \in Inode, NEW position \in Nat, NEW z \in Copied(inode, position), AtLimit(z)
  PROVE  position + Len(z.data) >= length_[inode]
<1> DEFINE b == z.block_index
           o == z.offset
           d == position + Len(z.data)
<1>1. b \in Nat /\ o \in Nat /\ b * KB4 + o = d /\ d \in Nat
  BY Blocks DEF Copied
<1>2. PICK limit \in Nat : limit <= b /\ length_[inode] <= limit * KB4 /\ length_[inode] \in Nat
  <2>1. CASE b = KB - 2
    BY <1>1, <2>1, ImageAssumption
  <2>2. CASE DATA_BLOCK_NUM <= b
    BY <1>1, <2>2, ImageAssumption, BlockAssumption
  <2> QED
    BY <2>1, <2>2 DEF AtLimit
<1> HIDE DEF b, o, d
<1>3. limit * KB4 <= b * KB4 /\ limit * KB4 \in Nat /\ b * KB4 \in Nat
  BY <1>1, <1>2, Blocks
<1>4. d >= length_[inode]
  BY <1>1, <1>2, <1>3
<1> QED
  BY <1>4 DEF d

\* read_data returns bytes of the inode's blocks, in their order, from the
\* position on; as many as it was asked for, or fewer if the file is over.
LEMMA ReadData ==
  ASSUME NEW inode \in Inode, NEW position \in Nat, NEW n \in Nat
  PROVE  LET copy == read_data(inode, position, n)
         IN /\ copy \in Seq(Nat) /\ Len(copy) <= n
            /\ \A k \in 1 .. Len(copy) : copy[k] = ByteAt(inode, position + (k - 1))
            /\ Len(copy) = n \/ position + Len(copy) >= length_[inode]
<1>1. CASE position >= length_[inode]
  <2>1. read_data(inode, position, n) = <<>>
    BY <1>1 DEF read_data
  <2>2. Len(<<>>) = 0 /\ <<>> \in Seq(Nat) /\ position + 0 >= length_[inode]
    BY <1>1
  <2> QED
    BY <2>1, <2>2
<1>2. CASE ~(position >= length_[inode])
  <2> DEFINE z == CHOOSE z : Rounds(z, inode, position, n)
  <2>1. read_data(inode, position, n) = z[n].data
    BY <1>2 DEF read_data, Rounds, Start, Round
  <2>2. Rounds(z, inode, position, n)
    BY RoundsExist
  <2> HIDE DEF z
  <2> DEFINE Good(m) == /\ z[m] \in Copied(inode, position) /\ Len(z[m].data) <= m
                        /\ Len(z[m].data) = m \/ AtLimit(z[m])
             T == {m \in Nat : m <= n => Good(m)}
  <2>3. 0 \in T
    <3>1. position < length_[inode]
      BY <1>2, ImageAssumption
    <3>2. z[0] = Start(position)
      BY <2>2 DEF Rounds
    <3>3. Start(position) \in Copied(inode, position) /\ Len(Start(position).data) = 0
      BY <3>1, StartCopied DEF Start
    <3>4. Good(0)
      BY <3>2, <3>3
    <3> HIDE DEF Good
    <3> QED
      BY <3>4
  <2>4. ASSUME NEW m \in T PROVE m + 1 \in T
    <3> SUFFICES ASSUME m + 1 <= n PROVE Good(m + 1)
      <4> HIDE DEF Good
      <4> QED
        OBVIOUS
    <3>0. Good(m) /\ m \in Nat
      <4> HIDE DEF Good
      <4> QED
        OBVIOUS
    <3>1. z[m + 1] = Round(inode, z[m])
      BY <2>2 DEF Rounds
    <3>2. /\ z[m] \in Copied(inode, position) /\ Len(z[m].data) <= m
          /\ Len(z[m].data) = m \/ AtLimit(z[m])
      BY <3>0
    <3>3. z[m + 1] \in Copied(inode, position)
      BY <3>1, <3>2, RoundCopies
    <3>4. z[m].data \in Seq(Nat) /\ z[m + 1].data \in Seq(Nat)
      BY <3>2, <3>3 DEF Copied
    <3>5. \/ AtLimit(z[m]) /\ z[m + 1] = z[m]
          \/ ~AtLimit(z[m]) /\ Len(z[m + 1].data) = Len(z[m].data) + 1
      BY <3>1, <3>4, RoundAdds
    <3> QED
      BY <3>0, <3>2, <3>3, <3>4, <3>5
  <2> HIDE DEF T
  <2>5. T \subseteq Nat
    BY DEF T
  <2>6. /\ z[n] \in Copied(inode, position) /\ Len(z[n].data) <= n
        /\ Len(z[n].data) = n \/ AtLimit(z[n])
    <3>1. n \in T
      BY <2>3, <2>4, <2>5, Induction
    <3>2. Good(n)
      <4> HIDE DEF Good
      <4> QED
        BY <3>1 DEF T
    <3> QED
      BY <3>2
  <2>7. Len(z[n].data) = n \/ position + Len(z[n].data) >= length_[inode]
    BY <2>6, LimitIs
  <2> QED
    BY <2>1, <2>6, <2>7 DEF Copied
<1> QED
  BY <1>1, <1>2

-----------------------------------------------------------------------------
(* Types, and what positions count *)

\* PositionCounts for one descriptor.
Counts(p, ds) ==
  /\ Open(p, ds) => file_descriptor[p][ds].inode_ \in Inode
  /\ Running(p) /\ ds \in own[p] => ~IsFree(p, ds)
  /\ Running(p) /\ ds \in own[p] /\ Open(p, ds) =>
       /\ file_descriptor[p][ds].file_position_ = Len(seen[p][ds])
       /\ \A k \in 1 .. Len(seen[p][ds]) :
             seen[p][ds][k] = ByteAt(file_descriptor[p][ds].inode_, k - 1)

\* PositionCounts says the same of every descriptor of every slot.
LEMMA CountsMeans == PositionCounts <=> \A p \in Pid, ds \in Fds : Counts(p, ds)
BY DEF PositionCounts, Counts

\* A step that leaves a descriptor alone keeps its position right.
LEMMA Untouched ==
  ASSUME NEW p, NEW ds, Counts(p, ds), role'[p] = role[p],
         file_descriptor'[p][ds] = file_descriptor[p][ds], seen'[p][ds] = seen[p][ds],
         ds \in own'[p] <=> ds \in own[p]
  PROVE  Counts(p, ds)'
BY DEF Counts, Open, Running, IsFree

\* Nothing can be wrong with a descriptor that is free and that nobody owns.
LEMMA Unused ==
  ASSUME NEW p, NEW ds, file_descriptor'[p][ds].flags_ = 0, ds \notin own'[p]
  PROVE  Counts(p, ds)'
BY DEF Counts, Open, IsFree

\* A descriptor that is closed or cleared is one, and free.
LEMMA ClosedType ==
  ASSUME NEW d \in Descriptor
  PROVE  /\ ClosedEntry(d) \in Descriptor /\ ClosedEntry(d).flags_ = 0
         /\ [d EXCEPT !.flags_ = 0] \in Descriptor /\ [d EXCEPT !.flags_ = 0].flags_ = 0
<1>1. ClosedEntry(d) = [type |-> d.type, inode_ |-> 0, file_position_ |-> 0, flags_ |-> 0]
  <2> DEFINE d1 == [d EXCEPT !.inode_ = 0]
             d2 == [d1 EXCEPT !.file_position_ = 0]
  <2>1. ClosedEntry(d) = [d2 EXCEPT !.flags_ = 0]
    BY DEF ClosedEntry
  <2>2. d1 = [type |-> d.type, inode_ |-> 0, file_position_ |-> d.file_position_,
              flags_ |-> d.flags_]
    BY DEF Descriptor
  <2> HIDE DEF d1
  <2>3. d2 = [type |-> d.type, inode_ |-> 0, file_position_ |-> 0, flags_ |-> d.flags_]
    BY <2>2
  <2> HIDE DEF d2
  <2> QED
    BY <2>1, <2>3
<1>2. ClosedEntry(d) \in Descriptor /\ ClosedEntry(d).flags_ = 0
  BY <1>1 DEF Descriptor
<1>3. [d EXCEPT !.flags_ = 0] = [type |-> d.type, inode_ |-> d.inode_,
                                file_position_ |-> d.file_position_, flags_ |-> 0]
  BY DEF Descriptor
<1> QED
  BY <1>2, <1>3 DEF Descriptor

\* What comes after the first of two sequences is the second one.
LEMMA SecondPart ==
  ASSUME NEW z \in Seq(Nat), NEW u \in Seq(Nat), NEW i \in Len(z) + 1 .. Len(z) + Len(u)
  PROVE  (z \o u)[i] = u[i - Len(z)]
OBVIOUS

\* Initially every descriptor is free and nobody's.
LEMMA CountsInit == Init => TypeOK /\ PositionCounts
<1> SUFFICES ASSUME Init PROVE TypeOK /\ PositionCounts
  OBVIOUS
<1>1. Closed \in Descriptor /\ Closed.flags_ = 0 /\ <<>> \in Seq(Nat)
  BY DEF Closed, Descriptor
<1> HIDE DEF Closed
<1>2. TypeOK
  BY <1>1 DEF Init, TypeOK
<1>3. PositionCounts
  BY <1>1 DEF Init, PositionCounts, Open, IsFree
<1> QED
  BY <1>2, <1>3

\* init_pcb: the descriptors of the new process are nobody's, and the last one
\* may be open.
LEMMA InitPcbCounts ==
  ASSUME TypeOK, PositionCounts, NEW p \in Pid, NEW r \in {"base", "child"}, init_pcb(p, r)
  PROVE  TypeOK' /\ PositionCounts'
<1> DEFINE table == [ds \in Fds |-> IF ds \in Cleared
                                    THEN [file_descriptor[p][ds] EXCEPT !.flags_ = 0]
                                    ELSE file_descriptor[p][ds]]
<1>1. file_descriptor' = [file_descriptor EXCEPT ![p] = table]
  BY DEF init_pcb
<1>2. \A ds \in Fds : /\ table[ds] \in Descriptor
                      /\ table[ds] = file_descriptor[p][ds] \/ table[ds].flags_ = 0
  <2>1. \A ds \in Fds : file_descriptor[p][ds] \in Descriptor
    BY DEF TypeOK
  <2> QED
    BY <2>1, ClosedType
<1>3. table \in [Fds -> Descriptor]
  BY <1>2
<1> HIDE DEF table
<1>4. TypeOK'
  <2>1. file_descriptor' \in [Pid -> [Fds -> Descriptor]]
    BY <1>1, <1>3 DEF TypeOK
  <2>2. /\ role' \in [Pid -> {"none", "base", "child"}]
        /\ own' \in [Pid -> SUBSET Fds]
    BY DEF init_pcb, TypeOK
  <2>3. seen' \in [Pid -> [Fds -> Seq(Nat)]]
    <3>1. [ds \in Fds |-> <<>>] \in [Fds -> Seq(Nat)]
      OBVIOUS
    <3> QED
      BY <3>1 DEF init_pcb, TypeOK
  <2> QED
    BY <2>1, <2>2, <2>3 DEF TypeOK
<1>5. ASSUME NEW q \in Pid, NEW ds \in Fds
      PROVE  Counts(q, ds)'
  <2>1. Counts(q, ds)
    BY CountsMeans
  <2>2. CASE q = p
    <3>1. own'[q] = {} /\ file_descriptor'[q][ds] = table[ds]
      BY <1>1, <2>2 DEF init_pcb, TypeOK
    <3>2. CASE table[ds] = file_descriptor[p][ds]
      BY <2>1, <2>2, <3>1, <3>2 DEF Counts, Open, IsFree
    <3>3. CASE table[ds].flags_ = 0
      BY <3>1, <3>3, Unused
    <3> QED
      BY <1>2, <3>2, <3>3
  <2>3. CASE q # p
    <3>1. /\ role'[q] = role[q] /\ file_descriptor'[q] = file_descriptor[q]
          /\ seen'[q] = seen[q] /\ own'[q] = own[q]
      BY <1>1, <2>3 DEF init_pcb, TypeOK
    <3> QED
      BY <2>1, <3>1, Untouched
  <2> QED
    BY <2>2, <2>3
<1> QED
  BY <1>4, <1>5 DEF PositionCounts, Counts

\* open, close and read change one descriptor p, k of a running process.
LEMMA OneDescriptor ==
  ASSUME TypeOK, PositionCounts, NEW p \in Pid, NEW k \in Fds,
         NEW entry \in Descriptor, NEW bytes \in Seq(Nat), NEW mine \in SUBSET Fds,
         \A ds \in Fds \ {k} : ds \in mine <=> ds \in own[p],
         role' = role,
         file_descriptor' = [file_descriptor EXCEPT ![p][k] = entry],
         seen' = [seen EXCEPT ![p][k] = bytes],
         own' = [own EXCEPT ![p] = mine],
         entry.flags_ # 0 /\ entry.type = FILE_TYPE => entry.inode_ \in Inode,
         k \in mine => entry.flags_ # 0,
         k \in mine /\ entry.flags_ # 0 /\ entry.type = FILE_TYPE =>
            /\ entry.file_position_ = Len(bytes)
            /\ \A i \in 1 .. Len(bytes) : bytes[i] = ByteAt(entry.inode_, i - 1)
  PROVE  TypeOK' /\ PositionCounts'
<1>1. TypeOK'
  BY DEF TypeOK
<1>2. ASSUME NEW q \in Pid, NEW ds \in Fds
      PROVE  Counts(q, ds)'
  <2>1. Counts(q, ds)
    BY CountsMeans
  <2>2. CASE q = p /\ ds = k
    <3>1. file_descriptor'[q][ds] = entry /\ seen'[q][ds] = bytes /\ own'[q] = mine
      BY <2>2 DEF TypeOK
    <3> QED
      BY <2>2, <3>1 DEF Counts, Open, IsFree, Running
  <2>3. CASE ~(q = p /\ ds = k)
    <3>1. /\ file_descriptor'[q][ds] = file_descriptor[q][ds] /\ seen'[q][ds] = seen[q][ds]
          /\ ds \in own'[q] <=> ds \in own[q]
      BY <2>3 DEF TypeOK
    <3> QED
      BY <2>1, <3>1, Untouched
  <2> QED
    BY <2>2, <2>3
<1> QED
  BY <1>1, <1>2 DEF PositionCounts, Counts

\* open: the position is 0, and nothing has been read.
LEMMA OpenCounts ==
  ASSUME TypeOK, PositionCounts, NEW p \in Pid, NEW item \in Name, NEW k \in Fds, open(p, item, k)
  PROVE  TypeOK' /\ PositionCounts'
<1> DEFINE type == file_type_[item]
           entry == [type |-> type, inode_ |-> IF type = FILE_TYPE THEN inode_num_[item] ELSE 0,
                     file_position_ |-> 0, flags_ |-> 1]
<1>1. /\ file_descriptor' = [file_descriptor EXCEPT ![p][k] = entry]
      /\ seen' = [seen EXCEPT ![p][k] = <<>>]
      /\ own' = [own EXCEPT ![p] = own[p] \cup {k}]
      /\ role' = role
  BY DEF open, read_dentry_by_name
<1>2. type \in {RTC_TYPE, DIR_TYPE, FILE_TYPE} /\ inode_num_[item] \in Inode
  BY DirectoryAssumption
<1>3. /\ entry \in Descriptor
      /\ entry.type = FILE_TYPE => entry.inode_ \in Inode
      /\ entry.flags_ # 0
      /\ entry.file_position_ = 0
  BY <1>2 DEF Descriptor
<1>4. <<>> \in Seq(Nat) /\ Len(<<>>) = 0 /\ 1 .. 0 = {}
  OBVIOUS
<1>5. own[p] \cup {k} \in SUBSET Fds
  BY DEF TypeOK
<1> HIDE DEF entry
<1> QED
  BY <1>1, <1>3, <1>4, <1>5, OneDescriptor

\* close: the descriptor is free and nobody's.
LEMMA CloseCounts ==
  ASSUME TypeOK, PositionCounts, NEW p \in Pid, NEW k \in Fds, close(p, k)
  PROVE  TypeOK' /\ PositionCounts'
<1> DEFINE entry == ClosedEntry(file_descriptor[p][k])
<1>1. /\ file_descriptor' = [file_descriptor EXCEPT ![p][k] = entry]
      /\ seen' = [seen EXCEPT ![p][k] = <<>>]
      /\ own' = [own EXCEPT ![p] = own[p] \ {k}]
      /\ role' = role
  BY DEF close
<1>2. entry \in Descriptor /\ entry.flags_ = 0
  BY ClosedType DEF TypeOK
<1>3. <<>> \in Seq(Nat) /\ own[p] \ {k} \in SUBSET Fds
  BY DEF TypeOK
<1> HIDE DEF entry
<1> QED
  BY <1>1, <1>2, <1>3, OneDescriptor

\* read: what it returns continues what was read before.
LEMMA ReadCounts ==
  ASSUME TypeOK, PositionCounts, NEW p \in Pid, NEW k \in Fds, NEW n \in Nat, read(p, k, n)
  PROVE  TypeOK' /\ PositionCounts'
<1> DEFINE old == file_descriptor[p][k]
           copy == read_data(old.inode_, old.file_position_, n)
           entry == [old EXCEPT !.file_position_ = old.file_position_ + Len(copy)]
           bytes == seen[p][k] \o copy
<1>1. /\ file_descriptor' = [file_descriptor EXCEPT ![p][k] = entry]
      /\ seen' = [seen EXCEPT ![p][k] = bytes]
      /\ role' = role /\ own' = own
  BY DEF read, file_read, Advance, TypeOK
<1>2. /\ old \in Descriptor /\ seen[p][k] \in Seq(Nat) /\ n \in Nat
      /\ own = [own EXCEPT ![p] = own[p]] /\ own[p] \in SUBSET Fds
  BY DEF TypeOK
<1>3. Counts(p, k) /\ Running(p) /\ Open(p, k) /\ old.type = FILE_TYPE /\ old.flags_ # 0
  BY CountsMeans DEF read, Open, IsFree
<1>4. old.inode_ \in Inode /\ old.file_position_ \in Nat
  BY <1>2, <1>3 DEF Counts, Descriptor
<1>5. /\ copy \in Seq(Nat)
      /\ \A i \in 1 .. Len(copy) : copy[i] = ByteAt(old.inode_, old.file_position_ + (i - 1))
  BY <1>2, <1>4, ReadData
<1> HIDE DEF copy
<1>6. /\ entry \in Descriptor /\ entry.flags_ # 0 /\ entry.type = FILE_TYPE
      /\ entry.inode_ = old.inode_
      /\ entry.file_position_ = old.file_position_ + Len(copy)
  <2>1. old.file_position_ + Len(copy) \in Nat
    BY <1>4, <1>5
  <2> QED
    BY <1>2, <1>3, <2>1 DEF Descriptor
<1> HIDE DEF entry
<1>7. bytes \in Seq(Nat) /\ Len(bytes) = Len(seen[p][k]) + Len(copy)
  BY <1>2, <1>5
<1>8. ASSUME k \in own[p]
      PROVE  /\ entry.file_position_ = Len(bytes)
             /\ \A i \in 1 .. Len(bytes) : bytes[i] = ByteAt(entry.inode_, i - 1)
  <2>1. /\ old.file_position_ = Len(seen[p][k])
        /\ \A i \in 1 .. Len(seen[p][k]) : seen[p][k][i] = ByteAt(old.inode_, i - 1)
    BY <1>3, <1>8 DEF Counts
  <2> DEFINE m == Len(seen[p][k])
  <2>2. m \in Nat /\ Len(copy) \in Nat
    BY <1>2, <1>5
  <2>3. ASSUME NEW i \in 1 .. m + Len(copy)
        PROVE  bytes[i] = ByteAt(old.inode_, i - 1)
    <3>1. CASE i <= m
      <4>1. i \in 1 .. m /\ bytes[i] = seen[p][k][i]
        BY <1>2, <1>5, <2>2, <3>1
      <4> QED
        BY <2>1, <4>1
    <3>2. CASE i > m
      <4>1. i - m \in 1 .. Len(copy) /\ i \in m + 1 .. m + Len(copy)
        BY <2>2, <3>2
      <4>2. bytes[i] = copy[i - m]
        BY <1>2, <1>5, <4>1, SecondPart
      <4>3. m + ((i - m) - 1) = i - 1
        BY <2>2
      <4> QED
        BY <1>5, <2>1, <4>1, <4>2, <4>3
    <3> QED
      BY <2>2, <3>1, <3>2
  <2> QED
    BY <1>6, <1>7, <2>1, <2>3
<1> HIDE DEF bytes
<1> QED
  BY <1>1, <1>2, <1>4, <1>6, <1>7, <1>8, OneDescriptor

\* halt: nothing runs in the slot, so nothing counts.
LEMMA HaltCounts ==
  ASSUME TypeOK, PositionCounts, NEW p \in Pid, halt(p)
  PROVE  TypeOK' /\ PositionCounts'
<1>1. PICK table \in [Fds -> Descriptor] :
        /\ file_descriptor' = [file_descriptor EXCEPT ![p] = table]
        /\ \A ds \in Fds : table[ds] = file_descriptor[p][ds] \/ table[ds].flags_ = 0
  <2>1. CASE role[p] = "base"
    <3>1. file_descriptor' = [file_descriptor EXCEPT ![p] = file_descriptor[p]]
      BY <2>1 DEF halt, TypeOK
    <3>2. file_descriptor[p] \in [Fds -> Descriptor]
      BY DEF TypeOK
    <3> QED
      BY <3>1, <3>2
  <2>2. CASE role[p] # "base"
    <3> DEFINE table == [ds \in Fds |-> IF IsFree(p, ds) THEN file_descriptor[p][ds]
                                        ELSE ClosedEntry(file_descriptor[p][ds])]
    <3>1. file_descriptor' = [file_descriptor EXCEPT ![p] = table]
      BY <2>2 DEF halt
    <3>2. \A ds \in Fds : /\ file_descriptor[p][ds] \in Descriptor
                          /\ ClosedEntry(file_descriptor[p][ds]) \in Descriptor
                          /\ ClosedEntry(file_descriptor[p][ds]).flags_ = 0
      BY ClosedType DEF TypeOK
    <3>3. table \in [Fds -> Descriptor]
      BY <3>2
    <3>4. \A ds \in Fds : table[ds] = file_descriptor[p][ds] \/ table[ds].flags_ = 0
      BY <3>2
    <3> HIDE DEF table
    <3> QED
      BY <3>1, <3>3, <3>4
  <2> QED
    BY <2>1, <2>2
<1>2. TypeOK'
  BY <1>1 DEF halt, TypeOK
<1>3. ASSUME NEW q \in Pid, NEW ds \in Fds
      PROVE  Counts(q, ds)'
  <2>1. Counts(q, ds)
    BY CountsMeans
  <2>2. CASE q = p
    <3>1. ~Running(q)' /\ file_descriptor'[q][ds] = table[ds]
      BY <1>1, <2>2 DEF halt, Running, TypeOK
    <3> QED
      BY <1>1, <2>1, <2>2, <3>1 DEF Counts, Open, IsFree
  <2>3. CASE q # p
    <3>1. /\ role'[q] = role[q] /\ file_descriptor'[q] = file_descriptor[q]
          /\ seen' = seen /\ own' = own
      BY <1>1, <2>3 DEF halt, TypeOK
    <3> QED
      BY <2>1, <3>1, Untouched
  <2> QED
    BY <2>2, <2>3
<1> QED
  BY <1>2, <1>3 DEF PositionCounts, Counts

\* The two invariants are inductive: one step per call of the kernel.
LEMMA CountsStep == TypeOK /\ PositionCounts /\ [FileStep]_vars => TypeOK' /\ PositionCounts'
<1> SUFFICES ASSUME TypeOK, PositionCounts, [FileStep]_vars
             PROVE  TypeOK' /\ PositionCounts'
  OBVIOUS
<1>1. CASE UNCHANGED vars
  BY <1>1 DEF vars, TypeOK, PositionCounts, Open, Running, IsFree
<1>2. CASE FileStep
  BY <1>2, InitPcbCounts, OpenCounts, CloseCounts, ReadCounts, HaltCounts DEF FileStep
<1> QED
  BY <1>1, <1>2

\* Descriptors are always well formed: no read, of whatever size and wherever the
\* file ends, leaves a position or an inode that is none.
THEOREM TypeCorrect == Spec => []TypeOK
BY CountsInit, CountsStep, NextIsFileStep, PTL DEF Spec

\* What positions count is what the property says of the file.
LEMMA CountsContent == TypeOK /\ PositionCounts => ReadsContent
<1> SUFFICES ASSUME TypeOK, PositionCounts, NEW p \in Pid, NEW ds \in own[p],
                    file_descriptor[p][ds].type = FILE_TYPE, Running(p),
                    NEW k \in 1 .. Shorter(Len(seen[p][ds]),
                                           length_[file_descriptor[p][ds].inode_])
             PROVE  seen[p][ds][k] = Content(file_descriptor[p][ds].inode_)[k]
  BY DEF ReadsContent
<1> DEFINE inode == file_descriptor[p][ds].inode_
<1>1. ds \in Fds /\ seen[p][ds] \in Seq(Nat)
  BY DEF TypeOK
<1>2. inode \in Inode /\ \A i \in 1 .. Len(seen[p][ds]) : seen[p][ds][i] = ByteAt(inode, i - 1)
  BY <1>1, CountsMeans DEF Counts, Open
<1> HIDE DEF inode
<1>3. Len(seen[p][ds]) \in Nat /\ length_[inode] \in Nat
  BY <1>1, <1>2, ImageAssumption
<1>4. k \in 1 .. Len(seen[p][ds]) /\ k \in 1 .. length_[inode]
  BY <1>3 DEF Shorter, inode
<1>5. Content(inode)[k] = ByteAt(inode, k - 1)
  BY <1>4 DEF Content, ByteAt
<1> QED
  BY <1>2, <1>4, <1>5 DEF inode

\* Reads of any sizes return the bytes of the file in their order, none twice and
\* none left out, for every size of a block, every image and every block list.
THEOREM ReadsInOrder == Spec => []ReadsContent
BY CountsInit, CountsStep, CountsContent, NextIsFileStep, PTL DEF Spec

-----------------------------------------------------------------------------
(* The tests of syserr *)

\* Where syserr runs.
LEMMA SlotIs == slot \in Pid
BY SyserrAssumption DEF slot

\* Calls that fail whatever is open.
Hopeless ==
    {Call(op, arg) : op \in {"read", "write", "close"}, arg \in {NEG_FD, BIG_FD}}
        \cup {Call("open", item) : item \in {"helloo", "shel", EMPTY}}
        \cup {Call("vidmap", "null"), Call("vidmap", "kernel"), Call("write", 0), Call("read", 1),
              Call("number", "big"), Call("number", "negative"), Call("number", "0")}

\* They do: bad descriptors, names that no file has, and operations that are
\* never there.
LEMMA HopelessFail == ASSUME NEW c \in Hopeless PROVE ~Succeeds(c)
<1>1. CASE \E op \in {"read", "write", "close"}, arg \in {NEG_FD, BIG_FD} : c = Call(op, arg)
    <2>1. c.op \in {"read", "write", "close"} /\ c.arg \in {NEG_FD, BIG_FD}
        BY <1>1 DEF Call
    <2>2. ~InRange(c.arg) /\ c.arg \notin Fds
        BY <2>1, TableAssumption DEF InRange, Fds, NEG_FD, BIG_FD, BEGINING_FDA
    <2> QED
        BY <2>1, <2>2 DEF Succeeds
<1>2. CASE \E item \in {"helloo", "shel", EMPTY} : c = Call("open", item)
    <2>1. c.op = "open" /\ c.arg \in {"helloo", "shel", EMPTY}
        BY <1>2 DEF Call
    <2>2. ~(NameGiven(c.arg) /\ Known(c.arg))
        BY <2>1, SyserrAssumption DEF NameGiven, Known, EMPTY
    <2> QED
        BY <2>1, <2>2 DEF Succeeds
<1>3. CASE c \in {Call("vidmap", "null"), Call("vidmap", "kernel")}
    <2>1. c.op = "vidmap" /\ c.arg # "user"
        BY <1>3 DEF Call
    <2> QED
        BY <2>1 DEF Succeeds
<1>4. CASE c \in {Call("number", "big"), Call("number", "negative"), Call("number", "0")}
    <2>1. c.op = "number" /\ c.arg # "1..10"
        BY <1>4 DEF Call
    <2> QED
        BY <2>1 DEF Succeeds
<1>5. CASE c \in {Call("write", 0), Call("read", 1)}
    <2>1. c.op \in {"read", "write"} /\ <<c.op, Operations(c.arg)>> \in init_fops_table
        BY <1>5 DEF Call, Operations, init_fops_table
    <2> QED
        BY <2>1 DEF Succeeds
<1> QED
    BY <1>1, <1>2, <1>3, <1>4, <1>5 DEF Hopeless

\* What the tests call.
LEMMA CallsAre ==
    ASSUME NEW op, NEW from \in Nat, NEW to \in Nat, from <= to + 1
    PROVE  /\ Len(Calls(op, from, to)) = to - from + 1
           /\ Calls(op, from, to) \in Seq({Call(op, n) : n \in from .. to})
           /\ \A i \in 1 .. to - from + 1 : Calls(op, from, to)[i] = Call(op, from + i - 1)
<1>1. to - from + 1 \in Nat
    OBVIOUS
<1>2. \A i \in 1 .. to - from + 1 : Call(op, from + i - 1) \in {Call(op, n) : n \in from .. to}
    OBVIOUS
<1>3. Calls(op, from, to) = [i \in 1 .. to - from + 1 |-> Call(op, from + i - 1)]
    BY DEF Calls
<1> DEFINE n == to - from + 1
           C == {Call(op, m) : m \in from .. to}
<1>4. \A f, S : f \in [1 .. n -> S] => f \in Seq(S) /\ Len(f) = n
    BY <1>1
<1>5. Calls(op, from, to) \in [1 .. n -> C]
    BY <1>2, <1>3
<1> QED
    BY <1>3, <1>4, <1>5

\* err_open_lots opens the directory more often than there are descriptors, and
\* closes them all.
LEMMA OpenLots ==
    /\ Len(Test[OPEN_LOTS]) = END_OF_FDA + (END_OF_FDA - 1)
    /\ \A i \in 1 .. Len(Test[OPEN_LOTS]) :
          Test[OPEN_LOTS][i] = IF i <= END_OF_FDA THEN Call("open", ".")
                               ELSE Call("close", i - END_OF_FDA + 1)
<1> DEFINE opens == [i \in 1 .. END_OF_FDA |-> Call("open", ".")]
           closes == Calls("close", BEGINING_FDA, END_OF_FDA)
           C == {Call("open", ".")} \cup {Call("close", n) : n \in BEGINING_FDA .. END_OF_FDA}
<1>1. Test[OPEN_LOTS] = opens \o closes
    BY DEF Test, OPEN_LOTS, err_open_lots
<1>2. opens \in Seq(C) /\ Len(opens) = END_OF_FDA /\ \A i \in 1 .. END_OF_FDA : opens[i] = Call("open", ".")
    BY TableAssumption
<1>3. /\ Len(closes) = END_OF_FDA - 1 /\ closes \in Seq(C)
      /\ \A i \in 1 .. END_OF_FDA - 1 : closes[i] = Call("close", i + 1)
    <2>1. BEGINING_FDA = 2 /\ END_OF_FDA \in Nat /\ END_OF_FDA >= 2
        BY TableAssumption DEF BEGINING_FDA
    <2>2. /\ Len(closes) = END_OF_FDA - 1
          /\ closes \in Seq({Call("close", n) : n \in BEGINING_FDA .. END_OF_FDA})
          /\ \A i \in 1 .. END_OF_FDA - 1 : closes[i] = Call("close", 2 + i - 1)
        <3>1. BEGINING_FDA \in Nat /\ BEGINING_FDA <= END_OF_FDA + 1 /\ END_OF_FDA - BEGINING_FDA + 1 = END_OF_FDA - 1
            BY <2>1
        <3>2. /\ Len(closes) = END_OF_FDA - BEGINING_FDA + 1
              /\ closes \in Seq({Call("close", n) : n \in BEGINING_FDA .. END_OF_FDA})
              /\ \A i \in 1 .. END_OF_FDA - BEGINING_FDA + 1 :
                    closes[i] = Call("close", BEGINING_FDA + i - 1)
            BY <2>1, <3>1, CallsAre
        <3> QED
            BY <2>1, <3>1, <3>2
    <2>3. {Call("close", n) : n \in BEGINING_FDA .. END_OF_FDA} \subseteq C
        OBVIOUS
    <2>4. closes \in Seq(C)
        BY <2>2, <2>3
    <2>5. \A i \in 1 .. END_OF_FDA - 1 : 2 + i - 1 = i + 1
        BY <2>1
    <2> QED
        BY <2>2, <2>4, <2>5
<1> HIDE DEF opens, closes, C
<1>4. Len(opens \o closes) = END_OF_FDA + (END_OF_FDA - 1)
    BY <1>2, <1>3
<1>5. ASSUME NEW i \in 1 .. END_OF_FDA + (END_OF_FDA - 1)
      PROVE  (opens \o closes)[i] = IF i <= END_OF_FDA THEN Call("open", ".")
                                    ELSE Call("close", i - END_OF_FDA + 1)
    <2>1. CASE i <= END_OF_FDA
        BY <1>2, <1>3, <2>1
    <2>2. CASE i > END_OF_FDA
        <3>1. i - END_OF_FDA \in 1 .. END_OF_FDA - 1
            BY <2>2, TableAssumption
        <3>2. (opens \o closes)[i] = closes[i - END_OF_FDA]
            BY <1>2, <1>3, <2>2, TableAssumption
        <3> QED
            BY <1>3, <2>2, <3>1, <3>2, TableAssumption
    <2> QED
        <3>1. i <= END_OF_FDA \/ i > END_OF_FDA
            BY TableAssumption
        <3> QED
            BY <2>1, <2>2, <3>1
<1> QED
    BY <1>1, <1>4, <1>5

\* err_unopened closes every descriptor, and then reads and writes them.
LEMMA Unopened ==
    /\ Len(Test[UNOPENED]) \in Nat /\ Len(Test[UNOPENED]) > END_OF_FDA
    /\ \A i \in 1 .. Len(Test[UNOPENED]) :
          IF i <= END_OF_FDA + 1 THEN Test[UNOPENED][i] = Call("close", i - 1)
          ELSE \E op \in {"read", "write"}, ds \in Fds : Test[UNOPENED][i] = Call(op, ds)
<1> DEFINE closes == Calls("close", 0, END_OF_FDA)
           reads == Calls("read", BEGINING_FDA, END_OF_FDA)
           writes == Calls("write", BEGINING_FDA, END_OF_FDA)
           C == {Call("close", n) : n \in 0 .. END_OF_FDA}
           R == {Call("read", n) : n \in BEGINING_FDA .. END_OF_FDA}
           W == {Call("write", n) : n \in BEGINING_FDA .. END_OF_FDA}
<1>0. /\ END_OF_FDA \in Nat /\ BEGINING_FDA \in Nat /\ 0 \in Nat
      /\ 0 <= END_OF_FDA + 1 /\ BEGINING_FDA <= END_OF_FDA + 1
    BY TableAssumption DEF BEGINING_FDA
<1>1. Test[UNOPENED] = closes \o reads \o writes
    BY DEF Test, UNOPENED, err_unopened
<1>2. /\ closes \in Seq(C) /\ Len(closes) = END_OF_FDA + 1
      /\ \A i \in 1 .. END_OF_FDA + 1 : closes[i] = Call("close", i - 1)
    <2>1. /\ Len(closes) = END_OF_FDA - 0 + 1 /\ closes \in Seq(C)
          /\ \A i \in 1 .. END_OF_FDA - 0 + 1 : closes[i] = Call("close", 0 + i - 1)
        BY <1>0, CallsAre
    <2>2. END_OF_FDA - 0 + 1 = END_OF_FDA + 1 /\ \A i \in Int : 0 + i - 1 = i - 1
        BY <1>0
    <2> QED
        BY <2>1, <2>2
<1>3. reads \in Seq(R) /\ writes \in Seq(W)
    BY <1>0, CallsAre
<1> HIDE DEF closes, reads, writes
<1>4. R \cup W \subseteq {Call(op, ds) : op \in {"read", "write"}, ds \in Fds}
    BY DEF Fds
<1> DEFINE rest == reads \o writes
<1> HIDE DEF C, R, W
<1>5. rest \in Seq(R \cup W)
    BY <1>3
<1>6. closes \o reads \o writes = closes \o rest
    <2> DEFINE A == C \cup R \cup W
    <2> HIDE DEF A
    <2>1. closes \in Seq(A) /\ reads \in Seq(A) /\ writes \in Seq(A)
        BY <1>2, <1>3 DEF A
    <2> QED
        BY <2>1, ConcatAssociative
<1> HIDE DEF rest
<1>7. /\ closes \in Seq(C \cup R \cup W) /\ rest \in Seq(C \cup R \cup W)
    BY <1>2, <1>5
<1>8. Len(closes \o rest) = END_OF_FDA + 1 + Len(rest) /\ Len(rest) \in Nat
    BY <1>2, <1>5
<1>9. ASSUME NEW i \in 1 .. END_OF_FDA + 1 + Len(rest)
      PROVE  IF i <= END_OF_FDA + 1 THEN (closes \o rest)[i] = Call("close", i - 1)
             ELSE \E op \in {"read", "write"}, ds \in Fds : (closes \o rest)[i] = Call(op, ds)
    <2>1. CASE i <= END_OF_FDA + 1
        <3>1. i \in 1 .. END_OF_FDA + 1 /\ (closes \o rest)[i] = closes[i]
            BY <1>0, <1>2, <1>7, <1>8, <2>1
        <3> QED
            BY <1>2, <2>1, <3>1
    <2>2. CASE ~(i <= END_OF_FDA + 1)
        <3>1. i - (END_OF_FDA + 1) \in 1 .. Len(rest)
            BY <1>0, <1>8, <2>2
        <3>2. (closes \o rest)[i] = rest[i - (END_OF_FDA + 1)]
            BY <1>0, <1>2, <1>7, <1>8, <2>2
        <3>3. rest[i - (END_OF_FDA + 1)] \in R \cup W
            BY <1>5, <3>1
        <3> QED
            BY <1>4, <2>2, <3>2, <3>3
    <2> QED
        BY <2>1, <2>2
<1>10. /\ Test[UNOPENED] = closes \o rest
       /\ Len(Test[UNOPENED]) = END_OF_FDA + 1 + Len(rest)
    BY <1>1, <1>6, <1>8
<1>11. Len(Test[UNOPENED]) \in Nat /\ Len(Test[UNOPENED]) > END_OF_FDA
    BY <1>0, <1>8, <1>10
<1> QED
    BY <1>9, <1>10, <1>11

\* The other tests make hopeless calls only.
LEMMA OtherTests ==
    ASSUME NEW k \in DOMAIN Test, k # OPEN_LOTS, k # UNOPENED
    PROVE  Test[k] \in Seq(Hopeless)
<1>1. k \in 1 .. 8
    BY DEF Test
<1>2. \A x, y, z \in Hopeless : <<x, y>> \in Seq(Hopeless) /\ <<x, y, z>> \in Seq(Hopeless)
    OBVIOUS
<1>3. err_neg_fd \in Seq(Hopeless)
    BY <1>2 DEF err_neg_fd, Hopeless
<1>4. err_big_fd \in Seq(Hopeless)
    BY <1>2 DEF err_big_fd, Hopeless
<1>5. err_open \in Seq(Hopeless)
    BY <1>2 DEF err_open, Hopeless
<1>6. err_vidmap \in Seq(Hopeless)
    BY <1>2 DEF err_vidmap, Hopeless
<1>7. err_stdin_out \in Seq(Hopeless)
    BY <1>2 DEF err_stdin_out, Hopeless
<1>8. err_syscall_num \in Seq(Hopeless)
    BY <1>2 DEF err_syscall_num, Hopeless
<1>9. /\ Test[1] = err_neg_fd /\ Test[2] = err_big_fd /\ Test[4] = err_open
      /\ Test[6] = err_vidmap /\ Test[7] = err_stdin_out /\ Test[8] = err_syscall_num
    BY DEF Test
<1>10. k \in {1, 2, 4, 6, 7, 8}
    BY <1>1 DEF OPEN_LOTS, UNOPENED
<1> QED
    BY <1>3, <1>4, <1>5, <1>6, <1>7, <1>8, <1>9, <1>10

\* The tests are numbered, and each has a number of calls.
LEMMA TestSizes ==
    /\ DOMAIN Test = 1 .. 8 /\ OPEN_LOTS \in DOMAIN Test /\ UNOPENED \in DOMAIN Test
    /\ \A k \in DOMAIN Test : Len(Test[k]) \in Nat
<1>1. DOMAIN Test = 1 .. 8
    BY DEF Test
<1>2. OPEN_LOTS \in DOMAIN Test /\ UNOPENED \in DOMAIN Test
    BY <1>1 DEF OPEN_LOTS, UNOPENED
<1>3. ASSUME NEW k \in DOMAIN Test, k # OPEN_LOTS, k # UNOPENED PROVE Len(Test[k]) \in Nat
    BY <1>3, OtherTests
<1>4. Len(Test[OPEN_LOTS]) \in Nat
    BY OpenLots, TableAssumption DEF BEGINING_FDA
<1> QED
    BY <1>1, <1>2, <1>3, <1>4, Unopened

-----------------------------------------------------------------------------
(* A call of a test *)

Opens == {ds \in Fds : ~IsFree(slot, ds)}

\* open adds a descriptor, close removes one.
LEMMA OpenOpens ==
    ASSUME TypeOK, NEW ds \in Fds, open(slot, ".", ds)
    PROVE  Opens' = Opens \cup {ds} /\ role' = role
<1> DEFINE type == read_dentry_by_name(".").type
           entry == [type |-> type,
                     inode_ |-> IF type = FILE_TYPE THEN read_dentry_by_name(".").inode ELSE 0,
                     file_position_ |-> 0, flags_ |-> 1]
<1>1. /\ entry.flags_ = 1
      /\ file_descriptor' = [file_descriptor EXCEPT ![slot][ds] = entry]
    BY DEF open
<1> HIDE DEF entry
<1>2. /\ file_descriptor'[slot][ds].flags_ = 1
      /\ \A k \in Fds \ {ds} : file_descriptor'[slot][k] = file_descriptor[slot][k]
    BY <1>1, SlotIs DEF TypeOK
<1> QED
    BY <1>2 DEF open, Opens, IsFree

\* The descriptor that close is called with is free afterwards.
LEMMA CloseCloses ==
    ASSUME TypeOK, NEW ds \in Fds, close(slot, ds)
    PROVE  Opens' = Opens \ {ds} /\ role' = role
<1>1. file_descriptor' = [file_descriptor EXCEPT ![slot][ds] = ClosedEntry(file_descriptor[slot][ds])]
    BY DEF close
<1>2. ClosedEntry(file_descriptor[slot][ds]).flags_ = 0
    BY ClosedType, SlotIs DEF TypeOK
<1>3. /\ file_descriptor'[slot][ds].flags_ = 0
      /\ \A k \in Fds \ {ds} : file_descriptor'[slot][k] = file_descriptor[slot][k]
    BY <1>1, <1>2, SlotIs DEF TypeOK
<1> QED
    BY <1>3 DEF close, Opens, IsFree

\* A call that fails changes nothing.
LEMMA FailedCall ==
    ASSUME NEW c, ~Succeeds(c), Effect(c)
    PROVE  Opens' = Opens /\ role' = role
<1>1. UNCHANGED vars
    BY DEF Effect
<1> QED
    BY <1>1 DEF vars, Opens, IsFree

\* The calls that a test makes of descriptors, and what they do.
LEMMA DescriptorCalls ==
    ASSUME TypeOK
    PROVE  /\ \A ds : Succeeds(Call("close", ds)) <=> ds \in Opens
           /\ \A ds \in Fds, op \in {"read", "write"} : Succeeds(Call(op, ds)) => ds \in Opens
           /\ Succeeds(Call("open", ".")) <=> Opens # Fds
           /\ \A ds \in Fds : Succeeds(Call("close", ds)) /\ Effect(Call("close", ds)) =>
                 Opens' = Opens \ {ds} /\ role' = role
           /\ Succeeds(Call("open", ".")) /\ Effect(Call("open", ".")) =>
                 /\ role' = role
                 /\ \E ds \in Fds \ Opens : /\ \A k \in Fds : k < ds => k \in Opens
                                            /\ Opens' = Opens \cup {ds}
<1>0. \A ds \in Fds : ds \notin {0, 1} /\ (IsOpen(ds) <=> ds \in Opens)
    BY TableAssumption DEF Fds, BEGINING_FDA, IsOpen, Opens
<1>1. ASSUME NEW ds PROVE Succeeds(Call("close", ds)) <=> ds \in Opens
    BY <1>0 DEF Succeeds, Call, Opens
<1>2. ASSUME NEW ds \in Fds, NEW op \in {"read", "write"}, Succeeds(Call(op, ds))
      PROVE  ds \in Opens
    <2>1. Call(op, ds).op = op /\ Call(op, ds).arg = ds
        BY DEF Call
    <2>2. IsOpen(ds)
        BY <1>2, <2>1 DEF Succeeds
    <2> QED
        BY <1>0, <2>2
<1>3. Succeeds(Call("open", ".")) <=> Opens # Fds
    <2>1. NameGiven(".") /\ Known(".")
        BY SyserrAssumption DEF NameGiven, Known, EMPTY
    <2>2. (\E ds \in Fds : IsFree(slot, ds)) <=> Opens # Fds
        BY DEF Opens
    <2> QED
        BY <2>1, <2>2 DEF Succeeds, Call
<1>4. ASSUME NEW ds \in Fds, Succeeds(Call("close", ds)), Effect(Call("close", ds))
      PROVE  Opens' = Opens \ {ds} /\ role' = role
    <2>1. close(slot, ds)
        BY <1>4 DEF Effect, Call
    <2> QED
        BY <2>1, CloseCloses
<1>5. ASSUME Succeeds(Call("open", ".")), Effect(Call("open", "."))
      PROVE  /\ role' = role
             /\ \E ds \in Fds \ Opens : /\ \A k \in Fds : k < ds => k \in Opens
                                        /\ Opens' = Opens \cup {ds}
    <2>1. PICK ds \in Fds : open(slot, ".", ds)
        BY <1>5 DEF Effect, Call
    <2>2. ds \notin Opens /\ \A k \in Fds : k < ds => k \in Opens
        BY <2>1 DEF open, Opens
    <2> QED
        BY <2>1, <2>2, OpenOpens
<1> QED
    BY <1>1, <1>2, <1>3, <1>4, <1>5

\* What is open and what has failed after each call is what the invariant says.
Right(test, n) ==
    /\ fail' = FailsAfter(test, n)
    /\ Opens' = OpenAfter(test, n)
    /\ role' = role

Made(test, n) ==
    /\ Effect(Test[test][n + 1])
    /\ LET c == Test[test][n + 1]
           counted == IF test = OPEN_LOTS THEN c.op = "open" /\ ~Succeeds(c) ELSE Succeeds(c)
       IN fail' = IF counted THEN fail + 1 ELSE fail

\* The invariant, read for the two tests that meet open descriptors.
LEMMA After ==
    ASSUME NEW n \in Nat
    PROVE  /\ OpenAfter(UNOPENED, n) = IF n > END_OF_FDA THEN {} ELSE Left(UNOPENED)
           /\ FailsAfter(UNOPENED, n) = IF n > END_OF_FDA /\ UNOPENED \in given THEN 1 ELSE 0
           /\ n <= END_OF_FDA => OpenAfter(OPEN_LOTS, n) =
                 2 .. Shorter(n + 1, Limit(OPEN_LOTS)) \cup Left(OPEN_LOTS)
           /\ n > END_OF_FDA => OpenAfter(OPEN_LOTS, n) = n - END_OF_FDA + 2 .. END_OF_FDA
           /\ FailsAfter(OPEN_LOTS, n) = IF n < Limit(OPEN_LOTS) THEN 0
                                         ELSE Shorter(n, END_OF_FDA) - (Limit(OPEN_LOTS) - 1)
<1>1. OPEN_LOTS # UNOPENED
    BY DEF OPEN_LOTS, UNOPENED
<1>2. /\ OpenAfter(UNOPENED, n) = IF n > END_OF_FDA THEN {} ELSE Left(UNOPENED)
      /\ FailsAfter(UNOPENED, n) = IF n > END_OF_FDA /\ UNOPENED \in given THEN 1 ELSE 0
    BY <1>1 DEF OpenAfter, FailsAfter
<1>3. FailsAfter(OPEN_LOTS, n) = IF n < Limit(OPEN_LOTS) THEN 0
                                 ELSE Shorter(n, END_OF_FDA) - (Limit(OPEN_LOTS) - 1)
    BY <1>1 DEF FailsAfter
<1>4. n <= END_OF_FDA => OpenAfter(OPEN_LOTS, n) =
         2 .. Shorter(n + 1, Limit(OPEN_LOTS)) \cup Left(OPEN_LOTS)
    BY <1>1, TableAssumption DEF OpenAfter, BEGINING_FDA
<1>5. n > END_OF_FDA => OpenAfter(OPEN_LOTS, n) = n - END_OF_FDA + 2 .. END_OF_FDA
    <2>1. n > END_OF_FDA => ~(n <= END_OF_FDA)
        BY TableAssumption
    <2> QED
        BY <1>1, <2>1 DEF OpenAfter, BEGINING_FDA
<1> QED
    BY <1>2, <1>3, <1>4, <1>5

\* A call of a test that makes hopeless calls only.
LEMMA OtherCall ==
    ASSUME NEW k \in DOMAIN Test, k # OPEN_LOTS, k # UNOPENED, NEW n \in Nat, n < Len(Test[k]),
           Opens = OpenAfter(k, n), fail = FailsAfter(k, n), Made(k, n)
    PROVE  Right(k, n + 1)
<1> DEFINE c == Test[k][n + 1]
<1>1. c \in Hopeless
    <2>1. n + 1 \in 1 .. Len(Test[k])
        BY TestSizes
    <2> QED
        BY <2>1, OtherTests
<1>2. ~Succeeds(c)
    BY <1>1, HopelessFail
<1>3. Opens' = Opens /\ role' = role
    BY <1>2, FailedCall DEF Made
<1>4. fail' = fail
    BY <1>2 DEF Made
<1> QED
    BY <1>3, <1>4 DEF Right, OpenAfter, FailsAfter

\* An open of err_open_lots takes the next descriptor, or fails when the table
\* is full.
LEMMA OpenLotsOpen ==
    ASSUME TypeOK, NEW n \in Nat, n < END_OF_FDA,
           Opens = OpenAfter(OPEN_LOTS, n), fail = FailsAfter(OPEN_LOTS, n), Made(OPEN_LOTS, n)
    PROVE  Right(OPEN_LOTS, n + 1)
<1> DEFINE c == Test[OPEN_LOTS][n + 1]
           L == Limit(OPEN_LOTS)
           E == Left(OPEN_LOTS)
<1>0. /\ END_OF_FDA \in Nat /\ END_OF_FDA >= 2 /\ Fds = 2 .. END_OF_FDA /\ BEGINING_FDA = 2
      /\ \/ L = END_OF_FDA /\ E = {}
         \/ L = END_OF_FDA - 1 /\ E = {END_OF_FDA}
    BY TableAssumption DEF Fds, BEGINING_FDA, Limit, Left
<1>1. c = Call("open", ".") /\ c.op = "open"
    <2>1. n + 1 \in 1 .. Len(Test[OPEN_LOTS]) /\ n + 1 <= END_OF_FDA
        BY <1>0, OpenLots
    <2>2. c = IF n + 1 <= END_OF_FDA THEN Call("open", ".") ELSE Call("close", n + 1 - END_OF_FDA + 1)
        BY <2>1, OpenLots
    <2> QED
        BY <2>1, <2>2 DEF Call
<1>2. /\ Opens = 2 .. Shorter(n + 1, L) \cup E
      /\ OpenAfter(OPEN_LOTS, n + 1) = 2 .. Shorter(n + 2, L) \cup E
    <2>1. n <= END_OF_FDA /\ n + 1 <= END_OF_FDA /\ n + 1 + 1 = n + 2
        BY <1>0
    <2> QED
        BY <2>1, After
<1> DEFINE m == n + 1
<1>00. m \in Nat /\ m <= END_OF_FDA
    BY <1>0
<1> HIDE DEF m
<1>3. /\ fail = IF n < L THEN 0 ELSE n - (L - 1)
      /\ FailsAfter(OPEN_LOTS, m) = IF m < L THEN 0 ELSE m - (L - 1)
    <2>1. Shorter(n, END_OF_FDA) = n /\ Shorter(m, END_OF_FDA) = m
        BY <1>0, <1>00 DEF Shorter
    <2> QED
        BY <1>00, <2>1, After
<1> USE DEF m
<1> HIDE DEF L, E
<1>4. CASE n + 1 < L
    <2>1. Shorter(n + 1, L) = n + 1 /\ Shorter(n + 2, L) = n + 2
        <3>1. n + 1 <= L /\ n + 2 <= L
            BY <1>0, <1>4
        <3> QED
            BY <3>1 DEF Shorter
    <2>2. n + 2 \in Fds /\ n + 2 \notin Opens /\ \A k \in Fds \ Opens : k >= n + 2
        BY <1>0, <1>2, <1>4, <2>1
    <2>3. Succeeds(c)
        BY <1>1, <2>2, DescriptorCalls
    <2>4. PICK ds \in Fds \ Opens : /\ \A k \in Fds : k < ds => k \in Opens
                                    /\ Opens' = Opens \cup {ds}
        BY <1>1, <2>3, DescriptorCalls DEF Made
    <2>5. ds = n + 2
        BY <1>0, <2>2, <2>4
    <2>6. Opens' = 2 .. n + 2 \cup E
        BY <1>0, <1>2, <2>1, <2>4, <2>5
    <2>7. role' = role
        BY <1>1, <2>3, DescriptorCalls DEF Made
    <2>8. fail' = 0
        BY <1>0, <1>3, <1>4, <2>3 DEF Made
    <2> QED
        BY <1>2, <1>3, <1>4, <2>1, <2>6, <2>7, <2>8 DEF Right
<1>5. CASE ~(n + 1 < L)
    <2>1. Shorter(n + 1, L) = L /\ Shorter(n + 2, L) = L
        BY <1>0, <1>5 DEF Shorter
    <2>2. Opens = Fds
        BY <1>0, <1>2, <2>1
    <2>3. ~Succeeds(c)
        BY <1>1, <2>2, DescriptorCalls
    <2>4. Opens' = Opens /\ role' = role
        BY <2>3, FailedCall DEF Made
    <2>5. fail' = fail + 1
        BY <1>1, <2>3 DEF Made
    <2>6. FailsAfter(OPEN_LOTS, n + 1) = fail + 1
        BY <1>0, <1>3, <1>5
    <2> QED
        BY <1>2, <2>1, <2>4, <2>5, <2>6 DEF Right
<1> QED
    BY <1>4, <1>5

\* A close of err_open_lots frees the next descriptor.
LEMMA OpenLotsClose ==
    ASSUME TypeOK, NEW n \in Nat, n >= END_OF_FDA, n < Len(Test[OPEN_LOTS]),
           Opens = OpenAfter(OPEN_LOTS, n), fail = FailsAfter(OPEN_LOTS, n), Made(OPEN_LOTS, n)
    PROVE  Right(OPEN_LOTS, n + 1)
<1> DEFINE c == Test[OPEN_LOTS][n + 1]
           f == n - END_OF_FDA + 2
<1>0. END_OF_FDA \in Nat /\ END_OF_FDA >= 2 /\ Fds = 2 .. END_OF_FDA /\ BEGINING_FDA = 2
    BY TableAssumption DEF Fds, BEGINING_FDA
<1>1. c = Call("close", f) /\ c.op = "close" /\ f \in Fds
    <2>1. /\ n + 1 \in 1 .. Len(Test[OPEN_LOTS]) /\ ~(n + 1 <= END_OF_FDA) /\ f \in 2 .. END_OF_FDA
          /\ n + 1 - END_OF_FDA + 1 = f
        BY <1>0, OpenLots
    <2> QED
        BY <1>0, <2>1, OpenLots DEF Call
<1>2. Opens = f .. END_OF_FDA
    <2>1. CASE n = END_OF_FDA
        <3>1. Opens = 2 .. Shorter(n + 1, Limit(OPEN_LOTS)) \cup Left(OPEN_LOTS)
            BY <1>0, <2>1, After
        <3>2. Shorter(n + 1, Limit(OPEN_LOTS)) = Limit(OPEN_LOTS)
            BY <1>0, <2>1 DEF Shorter, Limit
        <3>3. 2 .. Limit(OPEN_LOTS) \cup Left(OPEN_LOTS) = 2 .. END_OF_FDA
            BY <1>0 DEF Limit, Left
        <3>4. f = 2
            BY <1>0, <2>1
        <3> QED
            BY <3>1, <3>2, <3>3, <3>4
    <2>2. CASE n > END_OF_FDA
        BY <2>2, After
    <2> QED
        BY <1>0, <2>1, <2>2
<1>3. Succeeds(c) /\ Opens' = Opens \ {f} /\ role' = role
    BY <1>0, <1>1, <1>2, DescriptorCalls DEF Made
<1> DEFINE m == n + 1
<1>00. m \in Nat /\ m > END_OF_FDA /\ m - END_OF_FDA + 2 = f + 1
    BY <1>0
<1> HIDE DEF m, f
<1>4. OpenAfter(OPEN_LOTS, m) = f + 1 .. END_OF_FDA
    BY <1>00, After
<1> USE DEF m, f
<1>5. fail' = fail
    BY <1>1 DEF Made
<1>6. FailsAfter(OPEN_LOTS, n + 1) = fail
    <2>1. Shorter(n, END_OF_FDA) = END_OF_FDA /\ Shorter(n + 1, END_OF_FDA) = END_OF_FDA
        BY <1>0 DEF Shorter
    <2>2. ~(n < Limit(OPEN_LOTS)) /\ ~(n + 1 < Limit(OPEN_LOTS))
        BY <1>0 DEF Limit
    <2> QED
        BY <2>1, <2>2, After
<1>7. Opens' = f + 1 .. END_OF_FDA
    BY <1>0, <1>2, <1>3
<1> QED
    BY <1>3, <1>4, <1>5, <1>6, <1>7 DEF Right

\* A call of err_unopened fails, but for the close of a last descriptor that the
\* test found open.
LEMMA UnopenedCall ==
    ASSUME TypeOK, NEW n \in Nat, n < Len(Test[UNOPENED]),
           Opens = OpenAfter(UNOPENED, n), fail = FailsAfter(UNOPENED, n), Made(UNOPENED, n)
    PROVE  Right(UNOPENED, n + 1)
<1> DEFINE c == Test[UNOPENED][n + 1]
           E == Left(UNOPENED)
<1>0. /\ END_OF_FDA \in Nat /\ END_OF_FDA >= 2 /\ END_OF_FDA \in Fds
      /\ UNOPENED # OPEN_LOTS
      /\ n + 1 \in 1 .. Len(Test[UNOPENED])
    BY TableAssumption, Unopened DEF Fds, BEGINING_FDA, UNOPENED, OPEN_LOTS
<1> DEFINE m == n + 1
<1>00. m \in Nat
    OBVIOUS
<1> HIDE DEF m
<1>1. /\ Opens = IF n > END_OF_FDA THEN {} ELSE E
      /\ OpenAfter(UNOPENED, m) = IF m > END_OF_FDA THEN {} ELSE E
    BY <1>00, After
<1>2. /\ fail = IF n > END_OF_FDA /\ UNOPENED \in given THEN 1 ELSE 0
      /\ FailsAfter(UNOPENED, m) = IF m > END_OF_FDA /\ UNOPENED \in given THEN 1 ELSE 0
    BY <1>00, After
<1> USE DEF m
<1>3. E = IF UNOPENED \in given THEN {END_OF_FDA} ELSE {}
    BY DEF Left
<1> HIDE DEF E
<1>4. CASE n < END_OF_FDA
    <2>1. c = Call("close", n)
        BY <1>0, <1>4, Unopened
    <2>2. n \notin Opens
        BY <1>0, <1>1, <1>3, <1>4
    <2>3. ~Succeeds(c)
        BY <2>1, <2>2, DescriptorCalls
    <2>4. Opens' = Opens /\ role' = role /\ fail' = fail
        BY <1>0, <2>3, FailedCall DEF Made
    <2>5. ~(n > END_OF_FDA) /\ ~(n + 1 > END_OF_FDA)
        BY <1>0, <1>4
    <2> QED
        BY <1>1, <1>2, <2>4, <2>5 DEF Right
<1>5. CASE n = END_OF_FDA
    <2>1. c = Call("close", END_OF_FDA)
        BY <1>0, <1>5, Unopened
    <2>2. ~(n > END_OF_FDA) /\ n + 1 > END_OF_FDA
        BY <1>0, <1>5
    <2>3. CASE UNOPENED \in given
        <3>1. Succeeds(c) /\ Opens' = Opens \ {END_OF_FDA} /\ role' = role
            BY <1>0, <1>1, <1>3, <2>1, <2>2, <2>3, DescriptorCalls DEF Made
        <3>2. fail' = fail + 1
            BY <1>0, <3>1 DEF Made
        <3> QED
            BY <1>1, <1>2, <1>3, <2>2, <2>3, <3>1, <3>2 DEF Right
    <2>4. CASE UNOPENED \notin given
        <3>1. ~Succeeds(c)
            BY <1>1, <1>3, <2>1, <2>2, <2>4, DescriptorCalls
        <3>2. Opens' = Opens /\ role' = role /\ fail' = fail
            BY <1>0, <3>1, FailedCall DEF Made
        <3> QED
            BY <1>1, <1>2, <1>3, <2>2, <2>4, <3>2 DEF Right
    <2> QED
        BY <2>3, <2>4
<1>6. CASE n > END_OF_FDA
    <2>1. PICK op \in {"read", "write"}, ds \in Fds : c = Call(op, ds)
        <3>1. ~(n + 1 <= END_OF_FDA + 1)
            BY <1>0, <1>6
        <3> QED
            BY <1>0, <3>1, Unopened
    <2>2. ~Succeeds(c)
        BY <1>1, <1>6, <2>1, DescriptorCalls
    <2>3. Opens' = Opens /\ role' = role /\ fail' = fail
        BY <1>0, <2>2, FailedCall DEF Made
    <2>4. n + 1 > END_OF_FDA
        BY <1>0, <1>6
    <2> QED
        BY <1>1, <1>2, <1>6, <2>3, <2>4 DEF Right
<1> QED
    BY <1>0, <1>4, <1>5, <1>6

-----------------------------------------------------------------------------
(* The tests, one after the other *)

Increasing(tests) == \A i, j \in DOMAIN tests : i < j => tests[i] < tests[j]

\* A test that begins finds only the last descriptor open, if any.
LEMMA BeginRight ==
    ASSUME NEW tests \in Seq(DOMAIN Test), Increasing(tests),
           given \subseteq DOMAIN Test, \A k \in given : tests # <<>> => k < Head(tests),
           Begin(tests, given \cap {OPEN_LOTS, UNOPENED}),
           Opens' \subseteq {END_OF_FDA}, END_OF_FDA \in Opens' <=> END_OF_FDA \in Opens
    PROVE  /\ pc' \in {"test", "return"} /\ given' \subseteq DOMAIN Test
           /\ pc' = "test" => OnTest'
           /\ TestsPass'
<1> DEFINE k == Head(tests)
<1>0. END_OF_FDA \in Fds /\ END_OF_FDA \in Nat /\ END_OF_FDA >= 2
    BY TableAssumption DEF Fds, BEGINING_FDA
<1>1. CASE tests = <<>>
    BY <1>1 DEF Begin, TestsPass
<1>2. CASE tests # <<>>
    <2>0. k \in DOMAIN Test /\ DOMAIN Test = 1 .. 8
        BY <1>2, TestSizes
    <2>1. /\ pc' = "test" /\ todo' = tests /\ at' = 0 /\ fail' = 0
          /\ failed' = given \cap {OPEN_LOTS, UNOPENED}
          /\ given' = IF END_OF_FDA \in Opens THEN given \cup {k} ELSE given
        BY <1>0, <1>2 DEF Begin, Opens
    <2>2. k \notin given /\ \A j \in given : j < k
        BY <1>2, <2>0
    <2>3. /\ given' \subseteq DOMAIN Test
          /\ \A j \in given' : j <= k
          /\ failed' = (given' \cap {OPEN_LOTS, UNOPENED}) \ {k}
        BY <2>0, <2>1, <2>2
    <2>4. Opens' = Left(k)'
        BY <2>1, <2>2 DEF Left
    <2>5. 2 .. Shorter(1, Limit(OPEN_LOTS)') = {}
        BY <1>0 DEF Shorter, Limit
    <2>6. OpenAfter(k, 0)' = Left(k)' /\ FailsAfter(k, 0)' = 0
        <3>1. ~(0 > END_OF_FDA) /\ 0 <= END_OF_FDA /\ BEGINING_FDA = 2 /\ 0 + 1 = 1
            BY <1>0 DEF BEGINING_FDA
        <3>2. 0 < Limit(OPEN_LOTS)'
            BY <1>0 DEF Limit
        <3>3. CASE k = OPEN_LOTS
            BY <2>5, <3>1, <3>2, <3>3 DEF OpenAfter, FailsAfter, OPEN_LOTS, UNOPENED
        <3>4. CASE k = UNOPENED
            BY <3>1, <3>4 DEF OpenAfter, FailsAfter, OPEN_LOTS, UNOPENED
        <3>5. CASE k # OPEN_LOTS /\ k # UNOPENED
            BY <3>5 DEF OpenAfter, FailsAfter
        <3> QED
            BY <3>3, <3>4, <3>5
    <2>7. 0 \in 0 .. Len(Test[k])
        BY <2>0, TestSizes
    <2>8. OnTest'
        <3>1. todo' \in Seq(DOMAIN Test) \ {<<>>} /\ Head(todo') = k /\ Increasing(todo')
            BY <1>2, <2>1
        <3>2. {ds \in Fds : ~IsFree(slot, ds)'} = Opens'
            BY DEF Opens
        <3>3. at' = 0 /\ fail' = FailsAfter(k, 0)' /\ Opens' = OpenAfter(k, 0)'
            BY <2>1, <2>4, <2>6
        <3> QED
            BY <2>3, <2>7, <3>1, <3>2, <3>3 DEF OnTest, Increasing
    <2> QED
        BY <2>1, <2>3, <2>8 DEF TestsPass
<1> QED
    BY <1>1, <1>2

\* main: init_pcb leaves no descriptor open but the last.
LEMMA MainRight ==
    ASSUME TypeOK, TestInv, main
    PROVE  TestInv'
<1>1. PICK tests \in {[k \in DOMAIN Test |-> k], <<>>} \cup {<<k>> : k \in DOMAIN Test} :
        Begin(tests, {})
    BY DEF main
<1>2. DOMAIN Test = 1 .. 8
    BY TestSizes
<1>3. tests \in Seq(DOMAIN Test) /\ Increasing(tests)
    <2>1. CASE tests = [k \in DOMAIN Test |-> k]
        BY <1>2, <2>1 DEF Increasing
    <2>2. CASE tests = <<>>
        BY <2>2 DEF Increasing
    <2>3. ASSUME NEW k \in DOMAIN Test, tests = <<k>> PROVE tests \in Seq(DOMAIN Test) /\ Increasing(tests)
        BY <2>3 DEF Increasing
    <2> QED
        BY <2>1, <2>2, <2>3
<1>4. given = {}
    BY DEF main, TestInv
<1>5. /\ role' = [role EXCEPT ![slot] = "child"]
      /\ file_descriptor' = [file_descriptor EXCEPT ![slot] =
            [ds \in Fds |-> IF ds \in Cleared THEN [file_descriptor[slot][ds] EXCEPT !.flags_ = 0]
                            ELSE file_descriptor[slot][ds]]]
    BY DEF main, init_pcb
<1>6. \A ds \in Fds : file_descriptor'[slot][ds] =
         IF ds \in Cleared THEN [file_descriptor[slot][ds] EXCEPT !.flags_ = 0]
         ELSE file_descriptor[slot][ds]
    BY <1>5, SlotIs DEF TypeOK
<1>7. \A ds \in Fds : ds \in Cleared => file_descriptor'[slot][ds].flags_ = 0
    <2>1. \A ds \in Fds : file_descriptor[slot][ds] \in Descriptor
        BY SlotIs DEF TypeOK
    <2>2. \A ds \in Fds : [file_descriptor[slot][ds] EXCEPT !.flags_ = 0].flags_ = 0
        BY <2>1, ClosedType
    <2> QED
        BY <1>6, <2>2
<1>8. \A ds \in Fds : ds \notin Cleared <=> ds = END_OF_FDA
    BY TableAssumption DEF Fds, Cleared, BEGINING_FDA
<1>9. Opens' \subseteq {END_OF_FDA} /\ (END_OF_FDA \in Opens' <=> END_OF_FDA \in Opens)
    BY <1>6, <1>7, <1>8 DEF Opens, IsFree
<1>10. Begin(tests, given \cap {OPEN_LOTS, UNOPENED})
    BY <1>1, <1>4
<1>11. /\ pc' \in {"test", "return"} /\ given' \subseteq DOMAIN Test
       /\ pc' = "test" => OnTest'
       /\ TestsPass'
    BY <1>3, <1>4, <1>9, <1>10, BeginRight
<1>12. Running(slot)'
    BY <1>5, SlotIs DEF Running, TypeOK
<1> QED
    BY <1>11, <1>12 DEF TestInv

\* A call.
LEMMA CallRight ==
    ASSUME TypeOK, TestInv, call_sys
    PROVE  TestInv'
<1> DEFINE k == Head(todo)
<1>1. OnTest /\ Running(slot) /\ pc = "test"
    BY DEF TestInv, call_sys
<1>2. k \in DOMAIN Test /\ at \in 0 .. Len(Test[k]) /\ Len(Test[k]) \in Nat
    BY <1>1, TestSizes DEF OnTest
<1>3. at \in Nat /\ at < Len(Test[k])
    BY <1>2 DEF call_sys
<1>4. Opens = OpenAfter(k, at) /\ fail = FailsAfter(k, at)
    BY <1>1 DEF OnTest, Opens
<1>5. Made(k, at)
    BY DEF call_sys, Made
<1>6. Right(k, at + 1)
    <2>1. CASE k = OPEN_LOTS
        <3>1. at < END_OF_FDA \/ at >= END_OF_FDA
            BY <1>3, TableAssumption
        <3> QED
            BY <1>3, <1>4, <1>5, <2>1, <3>1, OpenLotsOpen, OpenLotsClose
    <2>2. CASE k = UNOPENED
        BY <1>3, <1>4, <1>5, <2>2, UnopenedCall
    <2> QED
        BY <1>2, <1>3, <1>4, <1>5, <2>1, <2>2, OtherCall
<1>7. at' = at + 1 /\ pc' = pc /\ todo' = todo /\ failed' = failed /\ given' = given
    BY DEF call_sys
<1>8. at' \in 0 .. Len(Test[k])
    BY <1>2, <1>3, <1>7
<1>9. PICK m, h : m = at' /\ h = Head(todo') /\ m = at + 1 /\ h = k
    BY <1>7
<1>10. fail' = FailsAfter(h, m) /\ Opens' = OpenAfter(h, m) /\ role' = role
    BY <1>6, <1>9 DEF Right
<1>11. FailsAfter(h, m)' = FailsAfter(h, m) /\ OpenAfter(h, m)' = OpenAfter(h, m)
    BY <1>7 DEF FailsAfter, OpenAfter, Left, Limit
<1>12. fail' = FailsAfter(Head(todo), at)' /\ Opens' = OpenAfter(Head(todo), at)'
    BY <1>9, <1>10, <1>11 DEF FailsAfter, OpenAfter, Left, Limit
<1>13. OnTest'
    <2>1. {ds \in Fds : ~IsFree(slot, ds)}' = Opens'
        BY DEF Opens
    <2> QED
        BY <1>1, <1>7, <1>8, <1>12, <2>1 DEF OnTest
<1> QED
    BY <1>1, <1>7, <1>10, <1>13 DEF TestInv, TestsPass, Running

\* A test that is over leaves at most the last descriptor open, and its count
\* is the wanted one, unless it met that descriptor and minds.
LEMMA TestOver ==
    ASSUME NEW k \in DOMAIN Test, NEW n, n = Len(Test[k])
    PROVE  /\ OpenAfter(k, n) \subseteq {END_OF_FDA}
           /\ FailsAfter(k, n) = Wanted(k) <=> k \notin given \cap {OPEN_LOTS, UNOPENED}
<1>0. END_OF_FDA \in Nat /\ END_OF_FDA >= 2 /\ n \in Nat /\ OPEN_LOTS # UNOPENED
    BY TableAssumption, TestSizes DEF BEGINING_FDA, OPEN_LOTS, UNOPENED
<1>1. CASE k = OPEN_LOTS
    <2>1. n = END_OF_FDA + (END_OF_FDA - 1)
        BY <1>1, OpenLots
    <2>2. n > END_OF_FDA /\ n - END_OF_FDA + 2 .. END_OF_FDA = {}
        BY <1>0, <2>1
    <2>3. OpenAfter(k, n) = {}
        BY <1>0, <1>1, <2>2, After
    <2>4. Shorter(n, END_OF_FDA) = END_OF_FDA /\ ~(n < Limit(OPEN_LOTS))
        BY <1>0, <2>2 DEF Shorter, Limit
    <2>5. FailsAfter(k, n) = END_OF_FDA - (Limit(OPEN_LOTS) - 1)
        BY <1>0, <1>1, <2>4, After
    <2>6. FailsAfter(k, n) = IF k \in given THEN 2 ELSE 1
        BY <1>0, <1>1, <2>5 DEF Limit
    <2> QED
        BY <1>1, <2>3, <2>6 DEF Wanted
<1>2. CASE k = UNOPENED
    <2>1. n > END_OF_FDA
        BY <1>2, Unopened
    <2>2. OpenAfter(k, n) = {} /\ FailsAfter(k, n) = IF k \in given THEN 1 ELSE 0
        BY <1>0, <1>2, <2>1, After
    <2> QED
        BY <1>0, <1>2, <2>2 DEF Wanted
<1>3. CASE k # OPEN_LOTS /\ k # UNOPENED
    <2>1. OpenAfter(k, n) = Left(k) /\ FailsAfter(k, n) = 0
        BY <1>3 DEF OpenAfter, FailsAfter
    <2> QED
        BY <1>3, <2>1 DEF Wanted, Left
<1> QED
    BY <1>1, <1>2, <1>3

\* The verdict on a test, and the next one.
LEMMA VerdictRight ==
    ASSUME TestInv, Verdict
    PROVE  TestInv'
<1> DEFINE k == Head(todo)
           rest == Tail(todo)
<1>1. OnTest /\ Running(slot) /\ given \subseteq DOMAIN Test
    BY DEF TestInv, Verdict
<1>2. /\ todo \in Seq(DOMAIN Test) /\ todo # <<>> /\ Increasing(todo) /\ k \in DOMAIN Test
      /\ \A j \in given : j <= k
    BY <1>1 DEF OnTest, Increasing
<1>3. DOMAIN Test = 1 .. 8
    BY TestSizes
<1>4. /\ rest \in Seq(DOMAIN Test) /\ Len(rest) = Len(todo) - 1
      /\ \A i \in DOMAIN rest : rest[i] = todo[i + 1]
    BY <1>2
<1>5. Increasing(rest)
    <2>1. ASSUME NEW i \in DOMAIN rest, NEW j \in DOMAIN rest, i < j PROVE rest[i] < rest[j]
        <3>1. i + 1 \in DOMAIN todo /\ j + 1 \in DOMAIN todo /\ i + 1 < j + 1
            BY <1>2, <1>4, <2>1
        <3> QED
            BY <1>2, <1>4, <3>1 DEF Increasing
    <2> QED
        BY <2>1 DEF Increasing
<1>6. \A j \in given : rest # <<>> => j < Head(rest)
    <2> SUFFICES ASSUME NEW j \in given, rest # <<>> PROVE j < Head(rest)
        OBVIOUS
    <2>1. Head(rest) = todo[2] /\ 1 \in DOMAIN todo /\ 2 \in DOMAIN todo /\ k = todo[1]
        BY <1>2, <1>4
    <2>2. k < Head(rest)
        BY <1>2, <2>1 DEF Increasing
    <2>3. j \in Int /\ k \in Int /\ Head(rest) \in Int /\ j <= k
        BY <1>1, <1>2, <1>3, <2>1
    <2> QED
        BY <2>2, <2>3
<1>7. PICK n : n = Len(Test[k]) /\ at = n
    BY DEF Verdict
<1>8. /\ Opens = OpenAfter(k, n) /\ fail = FailsAfter(k, n)
      /\ failed = (given \cap {OPEN_LOTS, UNOPENED}) \ {k}
    BY <1>1, <1>7 DEF OnTest, Opens
<1>9. /\ Opens \subseteq {END_OF_FDA}
      /\ fail = Wanted(k) <=> k \notin given \cap {OPEN_LOTS, UNOPENED}
    BY <1>2, <1>7, <1>8, TestOver
<1>10. (IF fail = Wanted(k) THEN failed ELSE failed \cup {k}) = given \cap {OPEN_LOTS, UNOPENED}
    BY <1>8, <1>9
<1>11. Begin(rest, given \cap {OPEN_LOTS, UNOPENED}) /\ UNCHANGED vars
    BY <1>10 DEF Verdict
<1>12. Opens' = Opens /\ Running(slot)'
    BY <1>1, <1>11 DEF vars, Opens, IsFree, Running
<1> HIDE DEF rest
<1>13. /\ pc' \in {"test", "return"} /\ given' \subseteq DOMAIN Test
       /\ pc' = "test" => OnTest'
       /\ TestsPass'
    BY <1>1, <1>4, <1>5, <1>6, <1>9, <1>11, <1>12, BeginRight
<1> QED
    BY <1>12, <1>13 DEF TestInv

\* syserr makes no step that Files does not allow a program.
LEMMA SyserrCalls == [SyserrNext]_allVars => [Next]_vars
<1> SUFFICES ASSUME SyserrNext, ~UNCHANGED vars PROVE Next
    BY DEF allVars
<1>1. CASE main
    BY <1>1, SlotIs DEF main, Next
<1>2. CASE call_sys
    <2>1. PICK c : Effect(c)
        BY <1>2 DEF call_sys
    <2>2. CASE Succeeds(c) /\ c.op = "open"
        <3>1. \E ds \in Fds : open(slot, ".", ds)
            BY <2>1, <2>2 DEF Effect
        <3> QED
            BY <3>1, SlotIs, SyserrAssumption DEF Next
    <2>3. CASE Succeeds(c) /\ c.op = "close"
        <3>1. c.arg \in Fds /\ close(slot, c.arg)
            BY <2>1, <2>3 DEF Effect, Succeeds
        <3> QED
            BY <3>1, SlotIs DEF Next
    <2> QED
        BY <2>1, <2>2, <2>3 DEF Effect
<1>3. CASE Verdict
    BY <1>3 DEF Verdict
<1>4. CASE Return
    BY <1>4, SlotIs DEF Return, Next
<1> QED
    BY <1>1, <1>2, <1>3, <1>4 DEF SyserrNext

\* The invariant of the tests is inductive: one step per action of syserr.
LEMMA TestStep == TypeOK /\ TestInv /\ [SyserrNext]_allVars => TestInv'
<1> SUFFICES ASSUME TypeOK, TestInv, [SyserrNext]_allVars PROVE TestInv'
    OBVIOUS
<1>1. CASE UNCHANGED allVars
    BY <1>1 DEF allVars, vars, testVars, TestInv, OnTest, TestsPass, Running, IsFree,
                OpenAfter, FailsAfter, Left, Limit
<1>2. CASE pc = "none" /\ Next /\ UNCHANGED testVars
    BY <1>2 DEF testVars, TestInv, TestsPass
<1>3. CASE Return
    BY <1>3 DEF Return, TestInv, TestsPass
<1> QED
    BY <1>1, <1>2, <1>3, MainRight, CallRight, VerdictRight DEF SyserrNext

-----------------------------------------------------------------------------
(* grep's buffer *)

\* The first place of a character: between where the search begins and its
\* limit, and not behind another such place.
LEMMA FirstIs ==
    ASSUME NEW chars, DOMAIN chars \subseteq Nat, NEW c, NEW k \in Nat, NEW limit \in Nat, k <= limit
    PROVE  /\ First(chars, c, k, limit) \in k .. limit
           /\ \A j \in DOMAIN chars : k <= j /\ j < First(chars, c, k, limit) => chars[j] # c
           /\ First(chars, c, k, limit) < limit =>
                 /\ First(chars, c, k, limit) \in DOMAIN chars
                 /\ chars[First(chars, c, k, limit)] = c
<1> DEFINE P == {limit} \cup {j \in DOMAIN chars : j >= k /\ chars[j] = c}
           f == Min(P)
<1>1. P \subseteq Nat /\ P # {} /\ limit \in P /\ \A j \in P : j >= k
    OBVIOUS
<1>2. PICK m \in P : \A j \in P : m <= j
    <2> HIDE DEF P
    <2>1. IsWellFoundedOn(Less, Nat)
        BY NatLessThanWellFounded DEF OpToRel, Less
    <2>2. PICK m \in P : \A j \in P : ~(<<j, m>> \in Less)
        BY <1>1, <2>1, WFMin
    <2>3. ASSUME NEW j \in P PROVE m <= j
        <3>1. ~(j < m) /\ j \in Nat /\ m \in Nat
            BY <1>1, <2>2 DEF Less
        <3> QED
            BY <3>1
    <2> QED
        BY <2>3
<1>3. f \in P /\ \A j \in P : f <= j
    <2> HIDE DEF P
    <2> QED
        BY <1>2 DEF Min
<1>4. First(chars, c, k, limit) = f
    BY DEF First
<1> HIDE DEF f
<1>5. f \in Nat /\ f >= k /\ f <= limit
    BY <1>1, <1>3
<1>6. f \in k .. limit
    BY <1>5
<1>7. ASSUME NEW j \in DOMAIN chars, k <= j, j < f PROVE chars[j] # c
    <2>1. j \in Nat /\ ~(f <= j)
        BY <1>5, <1>7
    <2>2. j \notin P
        BY <1>3, <2>1
    <2> QED
        BY <1>7, <2>1, <2>2
<1>8. f < limit => f \in DOMAIN chars /\ chars[f] = c
    <2>1. f # limit => f \in DOMAIN chars /\ chars[f] = c
        BY <1>3
    <2> QED
        BY <1>5, <2>1
<1> QED
    BY <1>4, <1>6, <1>7, <1>8

\* What a line's end is.
LEMMA LineEnd ==
    DOMAIN data = 0 .. BUFSIZE /\ last \in Nat /\ line_start \in 0 .. last =>
       line_end \in line_start .. last
<1> SUFFICES ASSUME DOMAIN data = 0 .. BUFSIZE, last \in Nat, line_start \in 0 .. last
             PROVE  line_end \in line_start .. last
    OBVIOUS
<1>1. DOMAIN data \subseteq Nat /\ line_start \in Nat /\ line_start <= last
    BY BufferAssumption
<1> QED
    BY <1>1, FirstIs DEF line_end

\* grep's steps are calls of Files: it reads from its own file, and never more
\* than its buffer has room for.
LEMMA GrepCalls ==
    ASSUME TypeOK, PositionCounts, InBuffer, GrepNext(slot)
    PROVE  [FileStep]_vars
<1>1. CASE GrepStart(slot)
    BY <1>1, SlotIs DEF GrepStart, FileStep
<1>2. CASE OpenDirectory(slot)
    BY <1>2, SlotIs, SyserrAssumption DEF OpenDirectory, FileStep
<1>3. CASE OpenFile(slot)
    BY <1>3, SlotIs DEF OpenFile, FileStep
<1>4. CASE ReadMore(slot)
    <2>1. fd \in Fds /\ BUFSIZE - last \in Nat
        BY <1>4, BufferAssumption DEF ReadMore, InBuffer
    <2>2. read(slot, fd, BUFSIZE - last)
        BY <1>4 DEF ReadMore
    <2> QED
        BY <2>1, <2>2, SlotIs DEF FileStep
<1>5. CASE ReadRtc(slot) \/ KeepLine \/ SearchLine
    BY <1>5 DEF ReadRtc, KeepLine, SearchLine
<1>6. CASE CloseFile(slot)
    <2>1. fd \in Fds /\ close(slot, fd)
        BY <1>6 DEF CloseFile, InBuffer
    <2> QED
        BY <2>1, SlotIs DEF FileStep
<1>7. CASE GrepReturn(slot)
    BY <1>7, SlotIs DEF GrepReturn, FileStep
<1> QED
    BY <1>1, <1>2, <1>3, <1>4, <1>5, <1>6, <1>7 DEF GrepNext, do_one_file

\* A fresh buffer is empty.
LEMMA FreshBuffer ==
    ASSUME NEW item, NEW k, NewFile(item, k)
    PROVE  DOMAIN data' = 0 .. BUFSIZE /\ last' \in 0 .. BUFSIZE /\ fd' = k
BY BufferAssumption DEF NewFile, Unread

\* A read fills at most the rest of the buffer.
LEMMA ReadInBuffer ==
    ASSUME TypeOK, PositionCounts, InBuffer, ReadMore(slot)
    PROVE  InBuffer'
<1> DEFINE old == file_descriptor[slot][fd]
           bytes == file_read(old, BUFSIZE - last)
<1>1. fd \in Fds /\ BUFSIZE - last \in Nat /\ last \in Nat /\ BUFSIZE \in Nat
    BY BufferAssumption DEF ReadMore, InBuffer
<1>2. read(slot, fd, BUFSIZE - last)
    BY DEF ReadMore
<1>3. Open(slot, fd) /\ old \in Descriptor
    BY <1>1, <1>2, SlotIs DEF read, Open, TypeOK
<1>4. old.inode_ \in Inode /\ old.file_position_ \in Nat
    BY <1>1, <1>3, SlotIs DEF PositionCounts, Descriptor
<1>5. bytes \in Seq(Nat) /\ Len(bytes) <= BUFSIZE - last
    BY <1>1, <1>4, ReadData DEF file_read
<1>6. /\ last' = last + Len(bytes) /\ line_start' = 0 /\ gpc' = "scan" /\ fd' = fd
      /\ DOMAIN data' = 0 .. BUFSIZE
    BY DEF ReadMore
<1> HIDE DEF bytes
<1>7. last' \in 0 .. BUFSIZE
    BY <1>1, <1>5, <1>6
<1>8. line_start' \in 0 .. last'
    BY <1>6, <1>7, BufferAssumption
<1>9. (line_end \in line_start .. last)'
    <2>1. (DOMAIN data = 0 .. BUFSIZE /\ last \in Nat /\ line_start \in 0 .. last)'
        BY <1>6, <1>7, <1>8
    <2> QED
        BY <2>1, LineEnd, PTL
<1> QED
    BY <1>1, <1>6, <1>7, <1>8, <1>9 DEF InBuffer

\* A read of the RTC leaves the buffer alone.
LEMMA RtcInBuffer ==
    ASSUME InBuffer, ReadRtc(slot)
    PROVE  InBuffer'
<1>1. /\ gpc = "read" /\ gpc' = "scan" /\ line_start' = 0 /\ UNCHANGED <<data, last, fd>>
    BY DEF ReadRtc
<1>2. DOMAIN data' = 0 .. BUFSIZE /\ last' \in 0 .. BUFSIZE /\ fd' \in Fds
    BY <1>1 DEF InBuffer
<1>3. line_start' \in 0 .. last' /\ last' \in Nat
    BY <1>1, <1>2, BufferAssumption
<1>4. (line_end \in line_start .. last)'
    <2>1. (DOMAIN data = 0 .. BUFSIZE /\ last \in Nat /\ line_start \in 0 .. last)'
        BY <1>2, <1>3
    <2> QED
        BY <2>1, LineEnd, PTL
<1> QED
    BY <1>1, <1>2, <1>3, <1>4 DEF InBuffer

\* The rest of a line is moved to the front only if it did not begin there.
LEMMA KeepInBuffer ==
    ASSUME InBuffer, KeepLine
    PROVE  InBuffer'
<1>1. /\ gpc = "scan" /\ line_start # 0 /\ gpc' = "read"
      /\ last' = last - line_start /\ fd' = fd
      /\ DOMAIN data' = 0 .. BUFSIZE
    BY DEF KeepLine, Incomplete, MoveDown
<1>2. last \in 0 .. BUFSIZE /\ line_start \in 0 .. last /\ fd \in Fds
    BY <1>1 DEF InBuffer
<1>3. last' \in 0 .. BUFSIZE
    BY <1>1, <1>2, BufferAssumption
<1> QED
    BY <1>1, <1>2, <1>3 DEF InBuffer

\* The next line begins behind the end of this one.
LEMMA SearchInBuffer ==
    ASSUME InBuffer, SearchLine
    PROVE  InBuffer'
<1>1. /\ gpc = "scan" /\ data' = Ended /\ line_start' = line_end + 1 /\ fd' = fd
      /\ IF line_end + 1 < last THEN gpc' = gpc /\ last' = last
         ELSE last' = 0 /\ gpc' \in {"close", "read"}
    BY DEF SearchLine, NextLine
<1>2. /\ DOMAIN data = 0 .. BUFSIZE /\ last \in 0 .. BUFSIZE /\ line_start \in 0 .. last
      /\ line_end \in line_start .. last /\ fd \in Fds
    BY <1>1 DEF InBuffer
<1>3. DOMAIN data' = 0 .. BUFSIZE
    BY <1>1, <1>2 DEF Ended
<1>4. last' \in 0 .. BUFSIZE
    BY <1>1, <1>2, BufferAssumption
<1>5. CASE line_end + 1 < last
    <2>1. gpc' = "scan" /\ line_start' \in 0 .. last' /\ line_start' < last'
        BY <1>1, <1>2, <1>5, BufferAssumption
    <2>2. (DOMAIN data = 0 .. BUFSIZE /\ last \in Nat /\ line_start \in 0 .. last)'
        BY <1>3, <1>4, <2>1
    <2>3. (line_end \in line_start .. last)'
        BY <2>2, LineEnd, PTL
    <2> QED
        BY <1>1, <1>2, <1>3, <1>4, <2>1, <2>3 DEF InBuffer
<1>6. CASE ~(line_end + 1 < last)
    BY <1>1, <1>2, <1>3, <1>4, <1>6 DEF InBuffer
<1> QED
    BY <1>5, <1>6

\* Every step of grep stays in the buffer.
LEMMA GrepInBuffer ==
    ASSUME TypeOK, PositionCounts, InBuffer, GrepNext(slot)
    PROVE  InBuffer'
<1>1. CASE GrepStart(slot)
    BY <1>1 DEF GrepStart, fileVars, InBuffer
<1>2. CASE OpenDirectory(slot)
    BY <1>2 DEF OpenDirectory, fileVars, InBuffer
<1>3. CASE OpenFile(slot)
    <2>1. PICK item \in Name, k \in Fds : NewFile(item, k)
        BY <1>3 DEF OpenFile
    <2>2. gpc' = "read"
        BY <1>3 DEF OpenFile
    <2> QED
        BY <2>1, <2>2, FreshBuffer DEF InBuffer
<1>4. CASE CloseFile(slot) \/ GrepReturn(slot)
    <2>1. PICK item, k : NewFile(item, k)
        BY <1>4 DEF CloseFile, GrepReturn, NoFile
    <2>2. gpc' \in {"main", "off"}
        BY <1>4 DEF CloseFile, GrepReturn
    <2> QED
        BY <2>1, <2>2, FreshBuffer DEF InBuffer
<1> QED
    BY <1>1, <1>2, <1>3, <1>4, ReadInBuffer, RtcInBuffer, KeepInBuffer, SearchInBuffer
    DEF GrepNext, do_one_file

-----------------------------------------------------------------------------
(* The programs together *)

\* All invariants, of the kernel's tables and of the two programs.
ProgramsInv == Shape /\ OnlyOwnFiles /\ TypeOK /\ PositionCounts /\ TestInv /\ InBuffer

\* They hold before anything runs.
LEMMA ProgramsStart == ProgramsInit => ProgramsInv
<1> SUFFICES ASSUME ProgramsInit PROVE ProgramsInv
    OBVIOUS
<1>1. Init
    BY DEF ProgramsInit, SyserrInit
<1>2. TestInv
    BY DEF ProgramsInit, SyserrInit, TestInv, TestsPass
<1>3. InBuffer
    <2>1. gpc = "off" /\ data = Unread /\ last = 0
        BY DEF ProgramsInit, GrepInit
    <2> QED
        BY <2>1, BufferAssumption DEF InBuffer, Unread
<1> QED
    BY <1>1, <1>2, <1>3, InitShape, CountsInit DEF ProgramsInv

\* syserr runs while grep is off and the other way round, so that neither
\* touches what the other's invariant is about.
LEMMA ProgramsStep == ProgramsInv /\ [ProgramsNext]_programVars => ProgramsInv'
<1> SUFFICES ASSUME ProgramsInv, [ProgramsNext]_programVars PROVE ProgramsInv'
    OBVIOUS
<1>0. Shape /\ OnlyOwnFiles /\ TypeOK /\ PositionCounts /\ TestInv /\ InBuffer
    BY DEF ProgramsInv
<1>1. CASE [SyserrNext]_allVars /\ UNCHANGED grepVars
    <2>1. [FileStep]_vars
        BY <1>1, SyserrCalls, NextIsFileStep
    <2>2. InBuffer'
        BY <1>0, <1>1 DEF grepVars, InBuffer, line_end
    <2> QED
        BY <1>0, <1>1, <2>1, <2>2, InheritedStep, CountsStep, TestStep DEF ProgramsInv
<1>2. CASE pc = "none" /\ GrepNext(slot) /\ UNCHANGED testVars
    <2>1. [FileStep]_vars
        BY <1>0, <1>2, GrepCalls
    <2>2. InBuffer'
        BY <1>0, <1>2, GrepInBuffer
    <2>3. TestInv'
        BY <1>0, <1>2 DEF testVars, TestInv, TestsPass
    <2> QED
        BY <1>0, <2>1, <2>2, <2>3, InheritedStep, CountsStep DEF ProgramsInv
<1> QED
    BY <1>1, <1>2 DEF ProgramsNext, programVars

\* The invariant of the composition.
LEMMA ProgramsAlways == ProgramsSpec => []ProgramsInv
BY ProgramsStart, ProgramsStep, PTL DEF ProgramsSpec

\* What holds of Files holds when syserr, grep, whose reads have the sizes that
\* its buffer leaves, and any other programs take turns in the slots: tables are
\* well formed, nothing is inherited and reads return the file in order.
THEOREM ProgramsReadInOrder == ProgramsSpec => [](TypeOK /\ OnlyOwnFiles /\ ReadsContent)
<1>1. ProgramsInv => TypeOK /\ OnlyOwnFiles /\ ReadsContent
    BY CountsContent DEF ProgramsInv
<1> QED
    BY <1>1, ProgramsAlways, PTL

\* For any size of the table: whatever ran in the slot before, and whichever
\* tests are chosen, syserr reports a failure for exactly those of its tests
\* of open and close that began with the last descriptor open, which init_pcb
\* does not clear.
THEOREM SyserrPasses == ProgramsSpec => []TestsPass
<1>1. ProgramsInv => TestsPass
    BY DEF ProgramsInv, TestInv
<1> QED
    BY <1>1, ProgramsAlways, PTL

\* For any size of its buffer, any file and any content, grep reads and writes
\* nothing outside the buffer and the one character behind it.
THEOREM GrepStaysInBuffer == ProgramsSpec => []InBuffer
<1>1. ProgramsInv => InBuffer
    BY DEF ProgramsInv
<1> QED
    BY <1>1, ProgramsAlways, PTL

-----------------------------------------------------------------------------
(* grep finds every line *)

\* The line from place n on ends before place f.
EndsAt(S, chars, n, f) ==
    /\ f \in n .. Len(chars) + 1
    /\ \A j \in n .. f - 1 : chars[j] # "\n"
    /\ f <= Len(chars) => chars[f] = "\n"
    /\ Line(chars, n) \in Seq(S)
    /\ Len(Line(chars, n)) = f - n
    /\ \A j \in 1 .. f - n : Line(chars, n)[j] = chars[n + j - 1]

\* A line goes up to the first newline, or to the end of the file.
LEMMA LineIs ==
    ASSUME NEW S, NEW chars \in Seq(S), NEW n \in 1 .. Len(chars)
    PROVE  \E f : EndsAt(S, chars, n, f)
<1> DEFINE f == First(chars, "\n", n, Len(chars) + 1)
<1>1. Len(chars) \in Nat /\ DOMAIN chars = 1 .. Len(chars) /\ DOMAIN chars \subseteq Nat
    BY LenProperties
<1>2. n \in Nat /\ Len(chars) + 1 \in Nat /\ n <= Len(chars) + 1
    BY <1>1
<1>3. /\ f \in n .. Len(chars) + 1
      /\ \A j \in DOMAIN chars : n <= j /\ j < f => chars[j] # "\n"
      /\ f < Len(chars) + 1 => chars[f] = "\n"
    BY <1>1, <1>2, FirstIs
<1>4. Line(chars, n) = SubSeq(chars, n, f - 1)
    BY DEF Line
<1> HIDE DEF f
<1>5. \A j \in n .. f - 1 : j \in DOMAIN chars /\ n <= j /\ j < f
    BY <1>1, <1>2, <1>3
<1>6. \A j \in n .. f - 1 : chars[j] # "\n" /\ chars[j] \in S
    BY <1>1, <1>3, <1>5, ElementOfSeq
<1>7. /\ SubSeq(chars, n, f - 1) \in Seq(S)
      /\ Len(SubSeq(chars, n, f - 1)) = IF n <= f - 1 THEN f - 1 - n + 1 ELSE 0
      /\ \A j \in 1 .. f - 1 - n + 1 : SubSeq(chars, n, f - 1)[j] = chars[n + j - 1]
    <2>1. n \in Int /\ f - 1 \in Int
        BY <1>2, <1>3
    <2> QED
        BY <1>6, <2>1, SubSeqProperties
<1>8. f - 1 - n + 1 = f - n /\ (~(n <= f - 1) => f - n = 0) /\ (f <= Len(chars) => f < Len(chars) + 1)
    BY <1>1, <1>2, <1>3
<1> QED
    BY <1>3, <1>4, <1>6, <1>7, <1>8 DEF EndsAt

\* A line begins with the file, or behind a newline.
LEMMA BeginsBehind ==
    ASSUME NEW chars, NEW o \in Nat, o + 1 \in 1 .. Len(chars), o = 0 \/ chars[o] = "\n"
    PROVE  o + 1 \in Begins(chars)
<1>1. o + 1 - 1 = o /\ (o = 0 => o + 1 = 1)
    OBVIOUS
<1>2. o + 1 = 1 \/ chars[o + 1 - 1] = "\n"
    BY <1>1
<1> QED
    BY <1>2 DEF Begins

\* No line begins in the middle of another.
LEMMA NoBegin ==
    ASSUME NEW S, NEW chars \in Seq(S), NEW n \in 1 .. Len(chars), NEW f \in n .. Len(chars) + 1,
           \A j \in n .. f - 1 : chars[j] # "\n"
    PROVE  \A m \in Begins(chars) : n < m => f < m
<1> SUFFICES ASSUME NEW m \in Begins(chars), n < m, ~(f < m) PROVE FALSE
    OBVIOUS
<1>1. Len(chars) \in Nat
    BY LenProperties
<1>2. m \in 1 .. Len(chars) /\ (m = 1 \/ chars[m - 1] = "\n")
    BY DEF Begins
<1>3. m # 1 /\ m - 1 \in n .. f - 1
    BY <1>1, <1>2
<1> QED
    BY <1>2, <1>3

\* Nothing to report: the list stays right.
LEMMA ReportsSame ==
    ASSUME NEW chars, NEW list, NEW o, NEW q, Reports(chars, list, o),
           \A m \in Holding(chars) : m <= q <=> m <= o
    PROVE  Reports(chars, list, q)
<1>1. {m \in Holding(chars) : m <= q} = {m \in Holding(chars) : m <= o}
    OBVIOUS
<1> QED
    BY <1>1 DEF Reports

\* One more line to report: it goes to the end of the list.
LEMMA ReportsMore ==
    ASSUME NEW chars, NEW T, NEW list \in Seq(T), NEW o \in Nat, NEW q, NEW x \in Holding(chars),
           Holding(chars) \subseteq Nat, o < x, Reports(chars, list, o),
           \A m \in Holding(chars) : m <= q <=> m <= o \/ m = x
    PROVE  Reports(chars, Append(list, Line(chars, x)), q)
<1> DEFINE l == Line(chars, x)
           list2 == Append(list, l)
           n == Len(list)
<1>1. n \in Nat /\ DOMAIN list = 1 .. n
    BY LenProperties
<1>2. list2 \in Seq(T \cup {l}) /\ DOMAIN list2 = 1 .. n + 1 /\ list2[n + 1] = l
      /\ \A k \in 1 .. n : list2[k] = list[k]
    <2>1. list \in Seq(T \cup {l})
        BY SeqMonotonic
    <2>2. /\ list2 \in Seq(T \cup {l}) /\ Len(list2) = n + 1 /\ list2[n + 1] = l
          /\ \A k \in 1 .. n : list2[k] = list[k]
        BY <2>1, AppendProperties
    <2> HIDE DEF list2
    <2> QED
        BY <2>2, LenProperties
<1> HIDE DEF n, list2
<1>3. PICK begins \in [DOMAIN list -> {m \in Holding(chars) : m <= o}] :
        /\ \A j, k \in DOMAIN list : j < k => begins[j] < begins[k]
        /\ \A m \in Holding(chars) : m <= o => \E k \in DOMAIN list : begins[k] = m
        /\ \A k \in DOMAIN list : list[k] = Line(chars, begins[k])
    BY DEF Reports
<1> DEFINE more == [k \in 1 .. n + 1 |-> IF k = n + 1 THEN x ELSE begins[k]]
<1>4. more[n + 1] = x /\ \A k \in 1 .. n : more[k] = begins[k] /\ begins[k] \in Holding(chars) /\ begins[k] <= o
    BY <1>1, <1>3
<1>5. \A k \in 1 .. n + 1 : k = n + 1 \/ k \in 1 .. n
    BY <1>1
<1>6. 1 .. n \subseteq 1 .. n + 1 /\ n + 1 \in 1 .. n + 1 /\ \A k \in 1 .. n : k < n + 1 /\ ~(n + 1 < k)
    BY <1>1
<1>7. DOMAIN more = 1 .. n + 1
    OBVIOUS
<1> HIDE DEF more
<1>8. \A k \in 1 .. n + 1 : more[k] \in {m \in Holding(chars) : m <= q}
    BY <1>4, <1>5
<1>9. more \in [DOMAIN list2 -> {m \in Holding(chars) : m <= q}]
    BY <1>2, <1>8 DEF more
<1>10. \A j, k \in DOMAIN list2 : j < k => more[j] < more[k]
    <2> SUFFICES ASSUME NEW j \in 1 .. n + 1, NEW k \in 1 .. n + 1, j < k PROVE more[j] < more[k]
        BY <1>2
    <2>1. j \in 1 .. n
        BY <1>1
    <2>2. CASE k = n + 1
        <3>1. more[j] <= o /\ more[j] \in Nat /\ more[k] = x /\ x \in Nat
            BY <1>4, <2>1, <2>2
        <3> QED
            BY <3>1
    <2>3. CASE k \in 1 .. n
        BY <1>1, <1>3, <1>4, <2>1, <2>3
    <2> QED
        BY <1>5, <2>2, <2>3
<1>11. \A m \in Holding(chars) : m <= q => \E k \in DOMAIN list2 : more[k] = m
    BY <1>1, <1>2, <1>3, <1>4, <1>6
<1>12. \A k \in DOMAIN list2 : list2[k] = Line(chars, more[k])
    BY <1>1, <1>2, <1>3, <1>4, <1>5 DEF l
<1>13. Reports(chars, list2, q)
    BY <1>9, <1>10, <1>11, <1>12 DEF Reports
<1> QED
    BY <1>13 DEF list2, l

\* What the lines hold depends on the argument only.
LEMMA SameArgument ==
    ASSUME NEW chars, s' = s
    PROVE  /\ Holding(chars)' = Holding(chars)
           /\ Fits(chars)' <=> Fits(chars)
           /\ \A list, n : Reports(chars, list, n)' <=> Reports(chars, list, n)
<1>1. Holding(chars)' = Holding(chars)
    BY DEF Holding, Occurs
<1>2. Fits(chars)' <=> Fits(chars)
    BY DEF Fits
<1>3. ASSUME NEW list, NEW n PROVE Reports(chars, list, n)' <=> Reports(chars, list, n)
    BY <1>1 DEF Reports
<1> QED
    BY <1>1, <1>2, <1>3

\* A step that prints a line if and only if it holds the argument, and not
\* less than the line, keeps the report right.
LEMMA Reported ==
    ASSUME NEW T, printed \in Seq(T), NEW chars, NEW o \in Nat, NEW q \in Nat,
           Holding(chars) \subseteq Nat,
           Finds(chars, o), ~past => Reports(chars, printed, o),
           o <= q, \A m \in Holding(chars) : o < m /\ m <= q => m = o + 1,
           NEW found \in BOOLEAN, NEW out,
           printed' = IF found THEN Append(printed, out) ELSE printed,
           o + 1 \in Holding(chars) /\ o + 1 <= q => found /\ IsPrefix(Line(chars, o + 1), out),
           ~past /\ found => /\ o + 1 \in Holding(chars) /\ o + 1 <= q
                             /\ out = Line(chars, o + 1),
           s' = s, past' = past
    PROVE  Finds(chars, q)' /\ (~past' => Reports(chars, printed, q)')
<1> DEFINE H == Holding(chars)
<1>0. Holding(chars)' = H
    BY SameArgument
<1> HIDE DEF H
<1>1. H \subseteq Nat
    BY DEF H
<1>2. \A m \in H : m <= q <=> m <= o \/ (m = o + 1 /\ o + 1 <= q)
    <2> SUFFICES ASSUME NEW m \in H PROVE m <= q <=> m <= o \/ (m = o + 1 /\ o + 1 <= q)
        OBVIOUS
    <2>1. m \in Nat /\ (o < m /\ m <= q => m = o + 1)
        BY <1>1 DEF H
    <2> QED
        BY <2>1
<1>3. /\ \A k \in DOMAIN printed : k \in DOMAIN printed' /\ printed'[k] = printed[k]
      /\ found => \E k \in DOMAIN printed' : printed'[k] = out
    <2>1. CASE found
        <3>1. printed \in Seq(T \cup {out})
            BY SeqMonotonic
        <3>2. /\ printed' \in Seq(T \cup {out}) /\ Len(printed') = Len(printed) + 1
              /\ \A k \in 1 .. Len(printed) : printed'[k] = printed[k]
              /\ printed'[Len(printed) + 1] = out
            BY <2>1, <3>1, AppendProperties
        <3>3. /\ Len(printed) \in Nat /\ DOMAIN printed = 1 .. Len(printed)
              /\ DOMAIN printed' = 1 .. Len(printed) + 1
            BY <3>2, LenProperties
        <3> QED
            BY <3>2, <3>3
    <2> QED
        BY <2>1
<1>4. Finds(chars, q)'
    <2> SUFFICES ASSUME NEW m \in H, m <= q
                 PROVE  \E k \in DOMAIN printed' : IsPrefix(Line(chars, m), printed'[k])
        BY <1>0 DEF Finds
    <2>1. CASE m <= o
        <3>1. PICK k \in DOMAIN printed : IsPrefix(Line(chars, m), printed[k])
            BY <2>1 DEF Finds, H
        <3> QED
            BY <1>3, <3>1
    <2>2. CASE m = o + 1 /\ o + 1 <= q
        BY <1>3, <2>2 DEF H
    <2> QED
        BY <1>2, <2>1, <2>2
<1>5. ASSUME ~past PROVE Reports(chars, printed', q)
    <2>1. Reports(chars, printed, o)
        BY <1>5
    <2>2. CASE found
        <3>1. o + 1 \in Holding(chars) /\ o + 1 <= q /\ out = Line(chars, o + 1)
            BY <1>5, <2>2
        <3>2. \A m \in Holding(chars) : m <= q <=> m <= o \/ m = o + 1
            BY <1>2, <3>1 DEF H
        <3>3. o < o + 1
            OBVIOUS
        <3>4. Reports(chars, Append(printed, Line(chars, o + 1)), q)
            BY <2>1, <3>1, <3>2, <3>3, ReportsMore
        <3> QED
            BY <2>2, <3>1, <3>4
    <2>3. CASE ~found
        <3>1. \A m \in Holding(chars) : m <= q <=> m <= o
            BY <1>2, <2>3 DEF H
        <3> QED
            BY <2>1, <2>3, <3>1, ReportsSame
    <2> QED
        BY <2>2, <2>3
<1>6. Reports(chars, printed', q) => Reports(chars, printed, q)'
    BY SameArgument
<1> QED
    BY <1>4, <1>5, <1>6

\* The argument is one that grep may be called with, and what is printed is a
\* list.
Asked == (gpc # "off" => s \in Search) /\ \E T : printed \in Seq(T)

\* The characters of a file are those of its bytes.
LEMMA CharsAre ==
    ASSUME name \in Name
    PROVE  \E S : /\ Chars \in Seq(S) /\ Len(Chars) = length_[inode_num_[name]]
                  /\ \A n \in 1 .. Len(Chars) : Chars[n] = text[ByteAt(inode_num_[name], n - 1)]
<1> DEFINE i == inode_num_[name]
           c == [n \in 1 .. length_[i] |-> text[Content(i)[n]]]
           S == {c[n] : n \in 1 .. length_[i]}
<1>1. length_[i] \in Nat
    BY DirectoryAssumption, ImageAssumption
<1>2. Chars = c
    BY DEF Chars
<1>3. c \in [1 .. length_[i] -> S]
    OBVIOUS
<1>4. \A n \in 1 .. length_[i] : c[n] = text[ByteAt(i, n - 1)]
    BY DEF Content, ByteAt
<1> HIDE DEF c, S
<1>5. c \in Seq(S) /\ Len(c) = length_[i]
    BY <1>1, <1>3
<1> QED
    BY <1>2, <1>4, <1>5

\* They are a sequence, as long as the file.
LEMMA CharsSeq ==
    name \in Name => \E S : Chars \in Seq(S) /\ Len(Chars) = length_[inode_num_[name]]
BY CharsAre

\* What the buffer looks like around the end of the line.
LEMMA ScanIs ==
    ASSUME InBuffer, gpc = "scan"
    PROVE  /\ DOMAIN data = 0 .. BUFSIZE /\ BUFSIZE \in Nat \ {0}
           /\ last \in Nat /\ last <= BUFSIZE
           /\ line_start \in Nat /\ (line_start = 0 \/ line_start < last)
           /\ line_end \in Nat /\ line_start <= line_end /\ line_end <= last
           /\ \A k \in 0 .. BUFSIZE : line_start <= k /\ k < line_end => data[k] # "\n"
           /\ line_end < last => data[line_end] = "\n"
           /\ DOMAIN Ended = 0 .. BUFSIZE /\ Ended[line_end] = NUL
           /\ \A k \in 0 .. BUFSIZE : k # line_end => Ended[k] = data[k]
<1>1. /\ DOMAIN data = 0 .. BUFSIZE /\ last \in 0 .. BUFSIZE /\ line_start \in 0 .. last
      /\ line_start = 0 \/ line_start < last
      /\ line_end \in line_start .. last
    BY DEF InBuffer
<1>2. BUFSIZE \in Nat \ {0}
    BY BufferAssumption
<1>3. /\ last \in Nat /\ last <= BUFSIZE /\ line_start \in Nat /\ line_start <= last
      /\ line_end \in Nat /\ line_start <= line_end /\ line_end <= last
      /\ line_end \in 0 .. BUFSIZE /\ 0 .. BUFSIZE \subseteq Nat
    BY <1>1, <1>2
<1>4. /\ \A j \in DOMAIN data : line_start <= j /\ j < line_end => data[j] # "\n"
      /\ line_end < last => data[line_end] = "\n"
    <2> DEFINE e == First(data, "\n", line_start, last)
    <2>1. DOMAIN data \subseteq Nat
        BY <1>1, <1>3
    <2>2. /\ \A j \in DOMAIN data : line_start <= j /\ j < e => data[j] # "\n"
          /\ e < last => data[e] = "\n"
        BY <1>3, <2>1, FirstIs
    <2>3. line_end = e
        BY DEF line_end
    <2> HIDE DEF e
    <2> QED
        BY <2>2, <2>3
<1>5. /\ DOMAIN Ended = 0 .. BUFSIZE /\ Ended[line_end] = NUL
      /\ \A k \in 0 .. BUFSIZE : k # line_end => Ended[k] = data[k]
    BY <1>1, <1>3 DEF Ended
<1> QED
    BY <1>1, <1>2, <1>3, <1>4, <1>5

\* The position is behind the buffer.
LEMMA BaseIs ==
    ASSUME Position(slot) \in Nat, last \in Nat, last <= Position(slot)
    PROVE  Base(slot) \in Nat /\ Position(slot) = Base(slot) + last
BY DEF Base

\* Where the scan finds the line's end, the line ends in the file; or the file
\* does, if what was found lies behind it.
LEMMA EndsWithLine ==
    ASSUME InBuffer, gpc = "scan", NEW S, NEW chars \in Seq(S), Fits(chars),
           Position(slot) \in Nat, Buffered(slot, chars),
           Handled(slot) < Len(chars),
           \/ Handled(slot) = 0 \/ chars[Handled(slot)] = "\n" \/ chars[Handled(slot) + 1] = "\n",
           line_end = last /\ Position(slot) < Len(chars) => line_start = 0,
           NEW f \in Handled(slot) + 1 .. Len(chars) + 1,
           \A j \in Handled(slot) + 1 .. f - 1 : chars[j] # "\n",
           f <= Len(chars) => chars[f] = "\n",
           Len(Line(chars, Handled(slot) + 1)) = f - (Handled(slot) + 1)
    PROVE  f = IF Base(slot) + line_end < Len(chars) THEN Base(slot) + line_end + 1
               ELSE Len(chars) + 1
<1> DEFINE B == Base(slot)
           N == Len(chars)
           a == line_start
           e == line_end
           o == B + a
<1>1. /\ last <= Position(slot)
      /\ \A k \in a .. last - 1 : B + k < N => data[k] = chars[B + k + 1]
      /\ Position(slot) < N => last = BUFSIZE
    BY DEF Buffered, From
<1>2. /\ BUFSIZE \in Nat \ {0} /\ last \in Nat /\ last <= BUFSIZE
      /\ a \in Nat /\ (a = 0 \/ a < last) /\ e \in Nat /\ a <= e /\ e <= last
      /\ \A k \in 0 .. BUFSIZE : a <= k /\ k < e => data[k] # "\n"
      /\ e < last => data[e] = "\n"
    BY ScanIs
<1>3. B \in Nat /\ Position(slot) = B + last /\ N \in Nat
    BY <1>1, <1>2, BaseIs, LenProperties
<1>4. Handled(slot) = o /\ o \in Nat /\ o < N /\ o + 1 \in 1 .. N
    BY <1>2, <1>3 DEF Handled, From
<1>5. f \in Nat /\ o < f /\ f <= N + 1
    BY <1>3, <1>4
<1>6. /\ f <= N => chars[f] = "\n"
      /\ \A j \in o + 1 .. f - 1 : chars[j] # "\n"
      /\ Len(Line(chars, o + 1)) = f - (o + 1)
      /\ o = 0 \/ chars[o] = "\n" \/ chars[o + 1] = "\n"
      /\ e = last /\ B + last < N => a = 0
    BY <1>3, <1>4
<1> HIDE DEF B, N, a, e
<1>7. ASSUME NEW k \in a .. e - 1, B + k < N PROVE chars[B + k + 1] # "\n"
    <2>1. k \in a .. last - 1 /\ k \in 0 .. BUFSIZE /\ a <= k /\ k < e
        BY <1>2
    <2> QED
        BY <1>1, <1>2, <1>7, <2>1
<1>8. f <= N => ~(f < B + e + 1)
    <2> SUFFICES ASSUME f <= N, f < B + e + 1 PROVE FALSE
        OBVIOUS
    <2>1. f - B - 1 \in a .. e - 1 /\ B + (f - B - 1) < N /\ B + (f - B - 1) + 1 = f
        BY <1>2, <1>3, <1>4, <1>5
    <2> QED
        BY <1>6, <1>7, <2>1
<1>9. CASE B + e < N /\ e < last
    <2>1. data[e] = chars[B + e + 1] /\ data[e] = "\n"
        <3>1. e \in a .. last - 1
            BY <1>2, <1>9
        <3> QED
            BY <1>1, <1>2, <1>9, <3>1
    <2>2. ~(B + e + 1 < f)
        <3>1. B + e + 1 < f => B + e + 1 \in o + 1 .. f - 1
            BY <1>2, <1>3, <1>5
        <3> QED
            BY <1>6, <2>1, <3>1
    <2>3. f = B + e + 1
        BY <1>2, <1>3, <1>5, <1>8, <1>9, <2>2
    <2> QED
        BY <1>9, <2>3 DEF B, N, e
<1>10. CASE B + e < N /\ ~(e < last)
    <2>1. e = last /\ last = BUFSIZE /\ a = 0 /\ o = B
        BY <1>1, <1>2, <1>3, <1>6, <1>10
    <2>2. chars[o + 1] # "\n"
        <3>1. 0 \in a .. e - 1 /\ B + 0 < N /\ B + 0 + 1 = o + 1
            BY <1>2, <1>3, <1>4, <2>1
        <3> QED
            BY <1>7, <3>1
    <2>3. o + 1 \in Begins(chars)
        BY <1>4, <1>6, <2>2, BeginsBehind DEF N
    <2>4. f - (o + 1) <= BUFSIZE
        BY <1>6, <2>3 DEF Fits
    <2>5. f = B + e + 1
        BY <1>2, <1>3, <1>4, <1>5, <1>8, <1>10, <2>1, <2>4
    <2> QED
        BY <1>10, <2>5 DEF B, N, e
<1>11. CASE ~(B + e < N)
    <2>1. f = N + 1
        BY <1>2, <1>3, <1>5, <1>8, <1>11
    <2> QED
        BY <1>11, <2>1 DEF B, N, e
<1> QED
    BY <1>9, <1>10, <1>11

\* The argument is not empty.
LEMMA ArgumentIs ==
    ASSUME s \in Search
    PROVE  Len(s) \in Nat \ {0} /\ DOMAIN s = 1 .. Len(s)
BY SearchAssumption, EmptySeq, LenProperties

\* A line lies in a buffer from a on, and ends at e or before.
Lies(line, buf, a, e) ==
    /\ DOMAIN buf \subseteq Nat /\ a \in Nat /\ e \in Nat /\ a <= e
    /\ Len(line) \in Nat /\ Len(line) <= e - a
    /\ \A j \in 1 .. Len(line) : buf[a + j - 1] = line[j] /\ line[j] # NUL

\* The argument occurs in the buffer where the line has it; and nowhere else, if
\* the line is all that is searched.
LEMMA OccursIn ==
    ASSUME s \in Search, NEW buf, NEW a, NEW e, NEW line, Lies(line, buf, a, e)
    PROVE  /\ Occurs(line, 1, Len(line) + 1) => Occurs(buf, a, e)
           /\ Len(line) = e - a /\ Occurs(buf, a, e) => Occurs(line, 1, Len(line) + 1)
<1> DEFINE n == Len(line)
<1>0. /\ a \in Nat /\ e \in Nat /\ n \in Nat /\ n <= e - a
      /\ \A j \in 1 .. n : buf[a + j - 1] = line[j]
    BY DEF Lies
<1> HIDE DEF n
<1>1. Len(s) \in Nat \ {0} /\ DOMAIN s = 1 .. Len(s)
    BY ArgumentIs
<1>2. \A j \in DOMAIN s : j \in 1 .. Len(s)
    BY <1>1
<1>3. ASSUME Occurs(line, 1, n + 1) PROVE Occurs(buf, a, e)
    <2>1. PICK c \in 1 .. (n + 1) - Len(s) : \A j \in DOMAIN s : line[c + j - 1] = s[j]
        BY <1>3 DEF Occurs
    <2> DEFINE d == a + c - 1
    <2>2. d \in a .. e - Len(s)
        BY <1>0, <1>1, <2>1
    <2>3. ASSUME NEW j \in DOMAIN s PROVE buf[d + j - 1] = s[j]
        <3>1. c + j - 1 \in 1 .. n
            BY <1>0, <1>1, <1>2, <2>1
        <3>2. d + j - 1 = a + (c + j - 1) - 1
            BY <1>0, <1>1, <1>2, <2>1
        <3> QED
            BY <1>0, <2>1, <3>1, <3>2
    <2> HIDE DEF d
    <2> QED
        BY <2>2, <2>3 DEF Occurs
<1>4. ASSUME n = e - a, Occurs(buf, a, e) PROVE Occurs(line, 1, n + 1)
    <2>1. PICK c \in a .. e - Len(s) : \A j \in DOMAIN s : buf[c + j - 1] = s[j]
        BY <1>4 DEF Occurs
    <2> DEFINE d == c - a + 1
    <2>2. d \in 1 .. (n + 1) - Len(s)
        BY <1>0, <1>1, <1>4, <2>1
    <2>3. ASSUME NEW j \in DOMAIN s PROVE line[d + j - 1] = s[j]
        <3>1. d + j - 1 \in 1 .. n
            BY <1>0, <1>1, <1>2, <1>4, <2>1
        <3>2. a + (d + j - 1) - 1 = c + j - 1
            BY <1>0, <1>1, <1>2, <2>1
        <3> QED
            BY <1>0, <2>1, <3>1, <3>2
    <2> HIDE DEF d
    <2> QED
        BY <2>2, <2>3 DEF Occurs
<1> QED
    BY <1>3, <1>4 DEF n

\* One sequence is a prefix of another if it is not longer and its elements are
\* the other's.
LEMMA PrefixIs ==
    ASSUME NEW S, NEW short \in Seq(S), NEW T, NEW long \in Seq(T), Len(short) <= Len(long),
           \A j \in 1 .. Len(short) : long[j] = short[j]
    PROVE  /\ IsPrefix(short, long)
           /\ Len(short) = Len(long) => long = short
<1> DEFINE U == S \cup T
           n == Len(short)
<1>1. short \in Seq(U) /\ long \in Seq(U)
    BY SeqMonotonic
<1>2. n \in Nat /\ Len(long) \in Nat
    BY LenProperties
<1> HIDE DEF U, n
<1>3. \A j \in 1 .. n : short[j] \in U /\ long[j] = short[j]
    BY <1>1, ElementOfSeq DEF n
<1>4. /\ SubSeq(short, 1, n) \in Seq(U) /\ SubSeq(long, 1, n) \in Seq(U)
      /\ Len(SubSeq(short, 1, n)) = n /\ Len(SubSeq(long, 1, n)) = n
      /\ \A j \in 1 .. n : SubSeq(short, 1, n)[j] = SubSeq(long, 1, n)[j]
    <2>1. 1 \in Int /\ n \in Int /\ n - 1 + 1 = n /\ (IF 1 <= n THEN n - 1 + 1 ELSE 0) = n
        BY <1>2
    <2>2. /\ SubSeq(short, 1, n) \in Seq(U) /\ SubSeq(long, 1, n) \in Seq(U)
          /\ Len(SubSeq(short, 1, n)) = IF 1 <= n THEN n - 1 + 1 ELSE 0
          /\ Len(SubSeq(long, 1, n)) = IF 1 <= n THEN n - 1 + 1 ELSE 0
          /\ \A j \in 1 .. n - 1 + 1 : SubSeq(short, 1, n)[j] = short[1 + j - 1]
          /\ \A j \in 1 .. n - 1 + 1 : SubSeq(long, 1, n)[j] = long[1 + j - 1]
        BY <1>3, <2>1, SubSeqProperties
    <2>3. \A j \in 1 .. n : 1 + j - 1 = j
        OBVIOUS
    <2> QED
        BY <1>3, <2>1, <2>2, <2>3
<1>5. SubSeq(short, 1, n) = SubSeq(long, 1, n)
    BY <1>4, SeqEqual
<1>6. Len(short) = Len(long) => long = short
    BY <1>1, <1>3, SeqEqual DEF n
<1> QED
    BY <1>5, <1>6 DEF IsPrefix, n

\* Where printing stops.
LEMMA StopIs ==
    ASSUME NEW buf, NEW a \in Nat, NEW e \in Nat, a <= e, DOMAIN buf \subseteq Nat
    PROVE  First(buf, NUL, a, e) \in a .. e /\ (First(buf, NUL, a, e) < e => buf[First(buf, NUL, a, e)] = NUL)
<1> DEFINE c == NUL
<1> HIDE DEF c
<1>1. /\ First(buf, c, a, e) \in a .. e
      /\ First(buf, c, a, e) < e => First(buf, c, a, e) \in DOMAIN buf /\ buf[First(buf, c, a, e)] = c
    BY FirstIs
<1> QED
    BY <1>1 DEF c

\* What is printed, up to the first NUL, has the line at its beginning; and it is
\* the line, if that is all there is.
LEMMA PrintedIs ==
    ASSUME NEW S, NEW line \in Seq(S), NEW buf, NEW a, NEW e, Lies(line, buf, a, e)
    PROVE  LET out == [j \in 1 .. First(buf, NUL, a, e) - a |-> buf[a + j - 1]]
           IN IsPrefix(line, out) /\ (Len(line) = e - a => out = line)
<1> DEFINE stop == First(buf, NUL, a, e)
           size == stop - a
           n == Len(line)
<1>0. DOMAIN buf \subseteq Nat /\ a \in Nat /\ e \in Nat /\ a <= e
    BY DEF Lies
<1>1. stop \in a .. e /\ (stop < e => buf[stop] = NUL)
    BY <1>0, StopIs
<1>2. n \in Nat /\ n <= e - a
    BY DEF Lies
<1>3. \A j \in 1 .. n : buf[a + j - 1] = line[j] /\ line[j] # NUL
    BY DEF Lies
<1> HIDE DEF stop, n
<1>4. size \in Nat /\ n <= size /\ (n = e - a => size = n)
    <2>1. ~(stop - a < n)
        <3> SUFFICES ASSUME stop - a < n PROVE FALSE
            OBVIOUS
        <3>1. stop - a + 1 \in 1 .. n /\ a + (stop - a + 1) - 1 = stop /\ stop < e
            BY <1>0, <1>1, <1>2
        <3> QED
            BY <1>1, <1>3, <3>1
    <2> QED
        BY <1>0, <1>1, <1>2, <2>1
<1> HIDE DEF size
<1> DEFINE out == [j \in 1 .. size |-> buf[a + j - 1]]
           T == {out[j] : j \in 1 .. size}
<1>5. out \in [1 .. size -> T] /\ \A j \in 1 .. size : out[j] = buf[a + j - 1]
    OBVIOUS
<1> HIDE DEF out, T
<1>6. out \in Seq(T) /\ Len(out) = size
    BY <1>4, <1>5
<1>7. \A j \in 1 .. n : j \in 1 .. size
    BY <1>2, <1>4
<1>8. \A j \in 1 .. n : out[j] = line[j]
    BY <1>3, <1>5, <1>7
<1>9. IsPrefix(line, out) /\ (n = size => out = line)
    BY <1>4, <1>6, <1>8, PrefixIs DEF n
<1> QED
    BY <1>4, <1>9 DEF out, size, stop, n

\* grep finds the argument in the buffer where the line has it, and prints the
\* line; and it finds and prints nothing else if the line is all there is.
LEMMA SearchFinds ==
    ASSUME InBuffer, gpc = "scan", NEW S, NEW chars \in Seq(S), Fits(chars), s \in Search,
           Position(slot) \in Nat, Buffered(slot, chars),
           NEW o \in Nat, o = Base(slot) + line_start, o < Len(chars),
           NEW f \in o + 1 .. Len(chars) + 1, f <= Base(slot) + line_end + 1,
           NEW line \in Seq(S), Len(line) = f - (o + 1),
           \A j \in 1 .. f - (o + 1) : line[j] = chars[o + 1 + j - 1]
    PROVE  /\ Occurs(line, 1, Len(line) + 1) => Occurs(Ended, line_start, line_end)
           /\ IsPrefix(line, Printed)
           /\ f = Base(slot) + line_end + 1 =>
                 /\ Occurs(Ended, line_start, line_end) => Occurs(line, 1, Len(line) + 1)
                 /\ Printed = line
<1> DEFINE B == Base(slot)
           N == Len(chars)
           a == line_start
           e == line_end
           n == Len(line)
<1>1. /\ last <= Position(slot)
      /\ \A k \in a .. last - 1 : B + k < N => data[k] = chars[B + k + 1]
    BY DEF Buffered, From
<1>2. /\ BUFSIZE \in Nat /\ last \in Nat /\ last <= BUFSIZE
      /\ a \in Nat /\ e \in Nat /\ a <= e /\ e <= last
      /\ DOMAIN Ended = 0 .. BUFSIZE
      /\ \A k \in 0 .. BUFSIZE : k # e => Ended[k] = data[k]
    BY ScanIs
<1>3. B \in Nat /\ N \in Nat /\ n \in Nat /\ DOMAIN chars = 1 .. N
    BY <1>1, <1>2, BaseIs, LenProperties
<1>4. o = B + a /\ n = f - (o + 1) /\ f \in Nat /\ f <= N + 1 /\ f <= B + e + 1
    BY <1>3
<1>5. \A j \in 1 .. n : line[j] = chars[o + 1 + j - 1]
    BY <1>4
<1>6. \A k \in 1 .. N : chars[k] # NUL
    BY <1>3 DEF Fits
<1> HIDE DEF B, N, a, e, n
<1>7. n <= e - a /\ (f = B + e + 1 => n = e - a)
    BY <1>2, <1>3, <1>4
<1>8. ASSUME NEW j \in 1 .. n PROVE Ended[a + j - 1] = line[j] /\ line[j] # NUL
    <2> DEFINE k == a + j - 1
    <2>1. k \in a .. last - 1 /\ k \in 0 .. BUFSIZE /\ k # e
        BY <1>2, <1>3, <1>7
    <2>2. B + k < N /\ B + k + 1 = o + 1 + j - 1 /\ o + 1 + j - 1 \in 1 .. N
        <3>1. o + j < f
            BY <1>3, <1>4
        <3> QED
            BY <1>2, <1>3, <1>4, <3>1
    <2> HIDE DEF k
    <2>3. Ended[k] = line[j] /\ line[j] # NUL
        BY <1>1, <1>2, <1>5, <1>6, <2>1, <2>2
    <2> QED
        BY <2>3 DEF k
<1>9. \A j \in 1 .. n : Ended[a + j - 1] = line[j] /\ line[j] # NUL
    BY <1>8
<1>10. Lies(line, Ended, a, e)
    <2>1. DOMAIN Ended \subseteq Nat
        BY <1>2
    <2> QED
        BY <1>2, <1>3, <1>7, <1>9, <2>1 DEF Lies, n
<1>11. /\ Occurs(line, 1, n + 1) => Occurs(Ended, a, e)
       /\ n = e - a /\ Occurs(Ended, a, e) => Occurs(line, 1, n + 1)
    BY <1>10, OccursIn DEF n
<1> DEFINE out == [j \in 1 .. First(Ended, NUL, a, e) - a |-> Ended[a + j - 1]]
<1>12. IsPrefix(line, out) /\ (n = e - a => out = line)
    BY <1>10, PrintedIs DEF n
<1>13. Printed = out
    BY DEF Printed, a, e
<1> HIDE DEF out
<1> QED
    BY <1>7, <1>11, <1>12, <1>13 DEF B, a, e, n

\* A line that has no newline in the buffer is searched only at the end of the
\* file or if it fills the buffer.
LEMMA SearchWhole ==
    ASSUME InBuffer, SearchLine, ~cut', NEW chars, Buffered(slot, chars)
    PROVE  line_end = last /\ cnt # 0 => line_start = 0
<1> SUFFICES ASSUME line_end = last, cnt # 0 PROVE line_start = 0
    OBVIOUS
<1>1. gpc = "scan"
    BY DEF SearchLine
<1>2. PICK newline \in IsNewline(line_end) :
        ~Incomplete(newline) /\ cut' = (cut \/ (newline /\ data[line_end] = UNKNOWN))
    BY DEF SearchLine
<1>3. ~(newline /\ data[line_end] = UNKNOWN)
    BY <1>2
<1>4. data[line_end] # "\n"
    <2>1. last \in 0 .. BUFSIZE /\ last \notin line_start .. last - 1
        BY <1>1, ScanIs
    <2> QED
        BY <2>1 DEF Buffered
<1>5. ~newline
    BY <1>2, <1>3, <1>4 DEF IsNewline
<1> QED
    BY <1>2, <1>5 DEF Incomplete

\* What a search does to the buffer.
LEMMA SearchMoves ==
    ASSUME InBuffer, SearchLine, NEW chars, Position(slot) \in Nat, Buffered(slot, chars)
    PROVE  /\ Position(slot)' = Position(slot) /\ s' = s /\ past' = past /\ cnt' = cnt
           /\ data' = Ended
           /\ line_end + 1 < last =>
                 /\ gpc' = "scan" /\ last' = last /\ From' = line_end + 1
                 /\ line_start' = line_end + 1 /\ Base(slot)' = Base(slot)
           /\ ~(line_end + 1 < last) =>
                 /\ gpc' = (IF cnt = 0 THEN "close" ELSE "read") /\ last' = 0 /\ From' = 0
                 /\ Base(slot)' = Position(slot)
           /\ Handled(slot)' = IF line_end < last THEN Base(slot) + line_end + 1
                               ELSE Base(slot) + last
<1>1. /\ gpc = "scan" /\ data' = Ended /\ line_start' = line_end + 1
      /\ IF line_end + 1 < last THEN gpc' = gpc /\ last' = last
         ELSE last' = 0 /\ gpc' = IF cnt = 0 THEN "close" ELSE "read"
      /\ s' = s /\ past' = past /\ cnt' = cnt /\ fd' = fd /\ file_descriptor' = file_descriptor
    BY DEF SearchLine, NextLine, vars
<1>2. last \in Nat /\ line_end \in Nat /\ line_end <= last /\ last <= Position(slot)
    BY <1>1, ScanIs DEF Buffered
<1>3. Position(slot)' = Position(slot) /\ Base(slot) \in Nat /\ Position(slot) = Base(slot) + last
    BY <1>1, <1>2, BaseIs DEF Position
<1>4. CASE line_end + 1 < last
    <2>1. gpc' = "scan" /\ last' = last /\ From' = line_end + 1 /\ Base(slot)' = Base(slot)
        BY <1>1, <1>3, <1>4 DEF From, Base
    <2>2. Handled(slot)' = Base(slot) + (line_end + 1)
        BY <2>1 DEF Handled
    <2>3. line_end < last /\ Base(slot) + (line_end + 1) = Base(slot) + line_end + 1
        BY <1>2, <1>3, <1>4
    <2> QED
        BY <1>1, <1>3, <1>4, <2>1, <2>2, <2>3
<1>5. CASE ~(line_end + 1 < last)
    <2>1. gpc' = (IF cnt = 0 THEN "close" ELSE "read") /\ last' = 0
        BY <1>1, <1>5
    <2>2. From' = 0 /\ Base(slot)' = Position(slot)
        BY <1>3, <2>1 DEF From, Base
    <2>3. Handled(slot)' = Base(slot) + last
        BY <1>2, <1>3, <2>2 DEF Handled
    <2>4. line_end < last => Base(slot) + line_end + 1 = Base(slot) + last
        BY <1>2, <1>3, <1>5
    <2> QED
        BY <1>1, <1>3, <1>5, <2>1, <2>2, <2>3, <2>4
<1> QED
    BY <1>4, <1>5

\* Behind a line that was searched, the buffer is still that of the file.
LEMMA SearchBuffers ==
    ASSUME InBuffer, SearchLine, NEW S, NEW chars \in Seq(S), Position(slot) \in Nat, Buffered(slot, chars)
    PROVE  Buffered(slot, chars)'
<1> DEFINE P == Position(slot)
           B == Base(slot)
           N == Len(chars)
           a == line_start
           e == line_end
<1>0. gpc = "scan"
    BY DEF SearchLine
<1>1. /\ last <= P
      /\ \A k \in 0 .. BUFSIZE : data[k] = "\n" => k \in a .. last - 1
      /\ \A k \in a .. last - 1 : B + k < N => data[k] = chars[B + k + 1]
      /\ P < N => last = BUFSIZE /\ cnt # 0
    BY <1>0 DEF Buffered, From
<1>2. /\ BUFSIZE \in Nat \ {0} /\ last \in Nat /\ last <= BUFSIZE
      /\ a \in Nat /\ e \in Nat /\ a <= e /\ e <= last
      /\ \A k \in 0 .. BUFSIZE : a <= k /\ k < e => data[k] # "\n"
      /\ Ended[e] = NUL
      /\ \A k \in 0 .. BUFSIZE : k # e => Ended[k] = data[k]
    BY <1>0, ScanIs
<1>3. /\ Position(slot)' = P /\ cnt' = cnt /\ data' = Ended
      /\ e + 1 < last => /\ gpc' = "scan" /\ last' = last /\ From' = e + 1
                         /\ line_start' = e + 1 /\ Base(slot)' = B
      /\ ~(e + 1 < last) => /\ gpc' = (IF cnt = 0 THEN "close" ELSE "read") /\ last' = 0
                            /\ From' = 0 /\ Base(slot)' = P
    BY SearchMoves
<1> HIDE DEF P, B, N, a, e
<1>4. P \in Nat /\ N \in Nat
    BY LenProperties DEF P, N
<1>5. ASSUME NEW k \in 0 .. BUFSIZE, Ended[k] = "\n" PROVE k \in e + 1 .. last - 1
    <2>1. k # e
        BY <1>2, <1>5 DEF NUL
    <2>2. data[k] = "\n"
        BY <1>2, <1>5, <2>1
    <2>3. k \in a .. last - 1 /\ ~(a <= k /\ k < e)
        BY <1>1, <1>2, <2>2
    <2> QED
        BY <1>2, <2>1, <2>3
<1>6. CASE e + 1 < last
    <2>1. \A k \in 0 .. BUFSIZE : Ended[k] = "\n" => k \in line_start' .. last' - 1
        BY <1>3, <1>5, <1>6
    <2>2. ASSUME NEW k \in e + 1 .. last - 1, B + k < N PROVE Ended[k] = chars[B + k + 1]
        <3>1. k \in a .. last - 1 /\ k \in 0 .. BUFSIZE /\ k # e
            BY <1>2
        <3> QED
            BY <1>1, <1>2, <2>2, <3>1
    <2>3. \A k \in e + 1 .. last - 1 : B + k < N => Ended[k] = chars[B + k + 1]
        BY <2>2
    <2>4. last' <= Position(slot)' /\ gpc' = "scan"
        BY <1>1, <1>3, <1>6
    <2>5. Position(slot)' < N => last' = BUFSIZE /\ cnt' # 0
        BY <1>1, <1>3, <1>6
    <2>6. \A k \in From' .. last' - 1 : Base(slot)' + k < N => data'[k] = chars[Base(slot)' + k + 1]
        BY <1>3, <1>6, <2>3
    <2> QED
        BY <1>3, <2>1, <2>4, <2>5, <2>6 DEF Buffered, N
<1>7. CASE ~(e + 1 < last)
    <2>1. \A k \in 0 .. BUFSIZE : Ended[k] # "\n"
        <3>1. e + 1 .. last - 1 = {}
            BY <1>2, <1>7
        <3> QED
            BY <1>5, <3>1
    <2>2. last' = 0 /\ gpc' = (IF cnt = 0 THEN "close" ELSE "read") /\ From' .. last' - 1 = {}
        BY <1>3, <1>7
    <2>3. last' <= Position(slot)' /\ last' < BUFSIZE
        BY <1>2, <1>3, <1>4, <2>2
    <2>4. gpc' # "scan" /\ (gpc' = "close" => Position(slot)' >= N)
        <3>1. cnt = 0 => P >= N
            BY <1>1, <1>4
        <3> QED
            BY <1>3, <2>2, <3>1
    <2> QED
        BY <1>3, <2>1, <2>2, <2>3, <2>4 DEF Buffered, N
<1> QED
    BY <1>6, <1>7

\* What has to be shown of a step.
LEMMA ReportingNext ==
    ASSUME NEW chars, NEW q, Handled(slot)' = q,
           q = 0 \/ q >= Len(chars) \/ chars[q] = "\n" \/ chars[q + 1] = "\n",
           Finds(chars, q)', ~past' => Reports(chars, printed, q)'
    PROVE  Reporting(slot, chars)'
BY DEF Reporting, Finds, Reports

\* Where a line is searched that begins in the file, what is reported stays
\* right, and the next line begins behind.
LEMMA SearchReports ==
    ASSUME InBuffer, SearchLine, ~cut', NEW S, NEW chars \in Seq(S), Fits(chars), s \in Search,
           NEW T, printed \in Seq(T), Position(slot) \in Nat,
           past <=> Position(slot) > Len(chars), Buffered(slot, chars), Reporting(slot, chars)
    PROVE  Reporting(slot, chars)'
<1> DEFINE P == Position(slot)
           B == Base(slot)
           N == Len(chars)
           a == line_start
           e == line_end
           found == Occurs(Ended, a, e)
<1>a. PICK o : o = B + a
    OBVIOUS
<1>b. PICK q : q = IF e < last THEN B + e + 1 ELSE B + last
    OBVIOUS
<1>0. gpc = "scan"
    BY DEF SearchLine
<1>1. last <= P /\ (P < N => last = BUFSIZE /\ cnt # 0)
    BY <1>0 DEF Buffered
<1>2. /\ BUFSIZE \in Nat \ {0} /\ last \in Nat /\ last <= BUFSIZE
      /\ a \in Nat /\ (a = 0 \/ a < last) /\ e \in Nat /\ a <= e /\ e <= last
    BY <1>0, ScanIs
<1>3. B \in Nat /\ P = B + last /\ N \in Nat /\ P \in Nat
    BY <1>1, <1>2, BaseIs, LenProperties
<1>4. /\ s' = s /\ past' = past /\ Handled(slot)' = q
      /\ printed' = IF found THEN Append(printed, Printed) ELSE printed
    <2>1. printed' = IF found THEN Append(printed, Printed) ELSE printed
        BY DEF SearchLine
    <2> QED
        BY <1>b, <2>1, SearchMoves
<1>5. Handled(slot) = o
    BY <1>a, <1>0 DEF Handled, From
<1>6. /\ o = 0 \/ o >= N \/ chars[o] = "\n" \/ chars[o + 1] = "\n"
      /\ Finds(chars, o) /\ (~past => Reports(chars, printed, o))
    BY <1>5 DEF Reporting
<1>7. e = last /\ P < N => a = 0
    BY <1>1, SearchWhole
<1>8. found => a < e
    <2>1. Len(s) \in Nat \ {0}
        BY ArgumentIs
    <2>2. found => \E c \in a .. e - Len(s) : TRUE
        BY DEF Occurs
    <2> HIDE DEF found, a, e
    <2> QED
        BY <1>2, <2>1, <2>2
<1>9. Begins(chars) \subseteq 1 .. N /\ Holding(chars) \subseteq Begins(chars)
    BY DEF Begins, Holding
<1>10. (past <=> P > N) /\ found \in BOOLEAN /\ s \in Search
    BY DEF Occurs
<1> HIDE DEF P, B, N, a, e, found
<1>11. o \in Nat /\ q \in Nat /\ o <= q /\ (o >= N => q >= N)
    BY <1>a, <1>b, <1>2, <1>3
<1>12. Holding(chars) \subseteq Nat
    BY <1>3, <1>9
<1>13. CASE o >= N
    <2>1. \A m \in Holding(chars) : ~(o < m)
        BY <1>3, <1>9, <1>11, <1>13
    <2>2. o + 1 \notin Holding(chars)
        BY <1>11, <2>1
    <2>3. ~past => ~found
        BY <1>a, <1>2, <1>3, <1>8, <1>10, <1>13
    <2>4. Finds(chars, q)' /\ (~past' => Reports(chars, printed, q)')
        <3> DEFINE out == Printed
        <3> HIDE DEF out
        <3>1. printed' = IF found THEN Append(printed, out) ELSE printed
            BY <1>4 DEF out
        <3> QED
            BY <1>4, <1>6, <1>10, <1>11, <1>12, <2>1, <2>2, <2>3, <3>1, Reported
    <2> QED
        BY <1>4, <1>11, <1>13, <2>4, ReportingNext DEF N
<1>14. CASE o < N
    <2>1. o + 1 \in 1 .. N /\ o + 1 \in 1 .. Len(chars)
        BY <1>3, <1>11, <1>14 DEF N
    <2> DEFINE line == Line(chars, o + 1)
    <2>0. PICK f : EndsAt(S, chars, o + 1, f)
        BY <2>1, LineIs
    <2>2. /\ f \in o + 1 .. Len(chars) + 1
          /\ \A j \in o + 1 .. f - 1 : chars[j] # "\n"
          /\ f <= Len(chars) => chars[f] = "\n"
          /\ line \in Seq(S)
          /\ Len(line) = f - (o + 1)
          /\ \A j \in 1 .. f - (o + 1) : line[j] = chars[o + 1 + j - 1]
        BY <2>0 DEF EndsAt
    <2> HIDE DEF line
    <2>3. f = IF B + e < N THEN B + e + 1 ELSE N + 1
        <3>1. Handled(slot) < Len(chars)
            BY <1>5, <1>14 DEF N
        <3>2. Handled(slot) = 0 \/ chars[Handled(slot)] = "\n" \/ chars[Handled(slot) + 1] = "\n"
            BY <1>3, <1>5, <1>6, <1>11, <1>14
        <3>3. line_end = last /\ Position(slot) < Len(chars) => line_start = 0
            BY <1>7 DEF P, N, a, e
        <3> QED
            BY <1>0, <1>5, <2>2, <3>1, <3>2, <3>3, EndsWithLine DEF line, B, N, e
    <2>4. f \in Nat /\ o + 1 <= f /\ f <= N + 1 /\ f <= B + e + 1
        BY <1>a, <1>2, <1>3, <1>11, <2>2, <2>3 DEF N
    <2>5. ~past => f = B + e + 1
        BY <1>2, <1>3, <1>10, <2>3
    <2>6. o + 1 <= q /\ (q <= f \/ f = N + 1)
        BY <1>a, <1>b, <1>1, <1>2, <1>3, <1>7, <1>14, <2>3, <2>4
    <2>7. q >= N \/ chars[q] = "\n" \/ chars[q + 1] = "\n"
        <3>1. q >= N \/ (f <= N /\ (q = f \/ q + 1 = f))
            BY <1>b, <1>2, <1>3, <2>3
        <3> QED
            BY <2>2, <3>1 DEF N
    <2>8. \A m \in Holding(chars) : o < m /\ m <= q => m = o + 1
        <3> SUFFICES ASSUME NEW m \in Holding(chars), o < m, m <= q, m # o + 1 PROVE FALSE
            OBVIOUS
        <3>1. m \in Begins(chars) /\ m \in 1 .. N
            BY <1>9
        <3>2. o + 1 < m
            BY <1>11, <3>1
        <3>3. f < m
            BY <2>1, <2>2, <3>1, <3>2, NoBegin
        <3> QED
            BY <1>3, <1>11, <2>4, <2>6, <3>1, <3>3
    <2>9. /\ Occurs(line, 1, Len(line) + 1) => found
          /\ IsPrefix(line, Printed)
          /\ f = B + e + 1 => (found => Occurs(line, 1, Len(line) + 1)) /\ Printed = line
        <3>1. o = Base(slot) + line_start /\ o < Len(chars) /\ f <= Base(slot) + line_end + 1
            BY <1>a, <1>14, <2>4 DEF B, N, a, e
        <3> QED
            BY <1>0, <1>10, <1>11, <2>2, <3>1, SearchFinds DEF found, B, a, e
    <2>10. o + 1 \in Holding(chars) <=> o + 1 \in Begins(chars) /\ Occurs(line, 1, Len(line) + 1)
        BY DEF Holding, line
    <2>11. ~past /\ found => o + 1 \in Begins(chars)
        <3> SUFFICES ASSUME ~past, found, o + 1 \notin Begins(chars) PROVE FALSE
            OBVIOUS
        <3>1. o # 0 /\ chars[o] # "\n"
            BY <1>11, <2>1, BeginsBehind
        <3>2. chars[o + 1] = "\n"
            BY <1>3, <1>6, <1>11, <1>14, <3>1
        <3>3. ~(o + 1 < f)
            <4>1. o + 1 < f => o + 1 \in o + 1 .. f - 1
                BY <1>11, <2>4
            <4> QED
                BY <2>2, <3>2, <4>1
        <3> QED
            BY <1>a, <1>2, <1>3, <1>8, <1>11, <2>4, <2>5, <3>3
    <2>12. Finds(chars, q)' /\ (~past' => Reports(chars, printed, q)')
        <3> DEFINE out == Printed
        <3> HIDE DEF out
        <3>1. printed' = IF found THEN Append(printed, out) ELSE printed
            BY <1>4 DEF out
        <3>2. o + 1 \in Holding(chars) /\ o + 1 <= q => found /\ IsPrefix(Line(chars, o + 1), out)
            BY <2>9, <2>10 DEF out, line
        <3>3. ~past /\ found => /\ o + 1 \in Holding(chars) /\ o + 1 <= q
                                /\ out = Line(chars, o + 1)
            BY <2>5, <2>6, <2>9, <2>10, <2>11 DEF out, line
        <3> QED
            BY <1>4, <1>6, <1>10, <1>11, <1>12, <2>8, <3>1, <3>2, <3>3, Reported
    <2> QED
        BY <1>4, <2>7, <2>12, ReportingNext DEF N
<1> QED
    BY <1>3, <1>11, <1>13, <1>14

\* The rest of a line that is moved to the front is that of the file.
LEMMA KeepBuffers ==
    ASSUME InBuffer, KeepLine, NEW S, NEW chars \in Seq(S), Fits(chars),
           Position(slot) \in Nat, Buffered(slot, chars)
    PROVE  Buffered(slot, chars)' /\ Handled(slot)' = Handled(slot)
<1> DEFINE P == Position(slot)
           B == Base(slot)
           N == Len(chars)
           a == line_start
           e == line_end
           stop == First(Ended, NUL, a, BUFSIZE)
<1>0. gpc = "scan" /\ gpc' = "read" /\ last' = last - a /\ a # 0 /\ fd' = fd
      /\ file_descriptor' = file_descriptor
    BY DEF KeepLine, Incomplete, vars
<1>1. /\ last <= P
      /\ \A k \in 0 .. BUFSIZE : data[k] = "\n" => k \in a .. last - 1
      /\ \A k \in a .. last - 1 : B + k < N => data[k] = chars[B + k + 1]
    BY <1>0 DEF Buffered, From
<1>2. /\ BUFSIZE \in Nat \ {0} /\ last \in Nat /\ last <= BUFSIZE
      /\ a \in Nat /\ e \in Nat /\ a <= e /\ e <= last /\ (a = 0 \/ a < last)
      /\ \A k \in 0 .. BUFSIZE : a <= k /\ k < e => data[k] # "\n"
      /\ e < last => data[e] = "\n"
      /\ DOMAIN Ended = 0 .. BUFSIZE /\ Ended[e] = NUL
      /\ \A k \in 0 .. BUFSIZE : k # e => Ended[k] = data[k]
    BY <1>0, ScanIs
<1>3. B \in Nat /\ P = B + last /\ N \in Nat /\ P \in Nat /\ DOMAIN chars = 1 .. N
    BY <1>1, <1>2, BaseIs, LenProperties
<1>4. Position(slot)' = P /\ From' = 0 /\ Base(slot)' = P - (last - a)
    BY <1>0 DEF Position, Base, From
<1>5. data' = [k \in 0 .. BUFSIZE |-> IF k + a <= stop THEN Ended[k + a] ELSE Ended[k]]
    BY DEF KeepLine, MoveDown
<1>6. stop \in a .. BUFSIZE /\ (stop < BUFSIZE => Ended[stop] = NUL)
    <2>1. DOMAIN Ended \subseteq Nat /\ a <= BUFSIZE /\ BUFSIZE \in Nat /\ a \in Nat
        BY <1>2
    <2> QED
        BY <2>1, StopIs
<1>7. Handled(slot) = B + a
    BY <1>0 DEF Handled, From
<1>8. data[e] # "\n"
    <2>1. PICK newline \in IsNewline(line_end) : ~newline
        BY DEF KeepLine, Incomplete
    <2> QED
        BY <2>1 DEF IsNewline, UNKNOWN
<1>9. \A n \in 1 .. N : chars[n] # NUL
    BY <1>3 DEF Fits
<1> HIDE DEF P, B, N, a, e, stop
<1>10. e = last
    BY <1>2, <1>8
<1>11. \A k \in 0 .. BUFSIZE : Ended[k] # "\n"
    <2> SUFFICES ASSUME NEW k \in 0 .. BUFSIZE, Ended[k] = "\n" PROVE FALSE
        OBVIOUS
    <2>1. k # e
        BY <1>2 DEF NUL
    <2>2. data[k] = "\n"
        BY <1>2, <2>1
    <2>3. k \in a .. last - 1
        BY <1>1, <2>2
    <2>4. a <= k /\ k < e
        BY <1>2, <1>10, <2>3
    <2> QED
        BY <1>2, <2>2, <2>4
<1>12. \A k \in 0 .. BUFSIZE : data'[k] # "\n"
    <2> SUFFICES ASSUME NEW k \in 0 .. BUFSIZE PROVE data'[k] # "\n"
        OBVIOUS
    <2>1. data'[k] = IF k + a <= stop THEN Ended[k + a] ELSE Ended[k]
        BY <1>5
    <2>2. k + a <= stop => k + a \in 0 .. BUFSIZE
        BY <1>2, <1>6
    <2> QED
        BY <1>11, <2>1, <2>2
<1>13. ASSUME NEW k \in 0 .. last - a - 1, B + a + k < N PROVE data'[k] = chars[B + a + k + 1]
    <2> DEFINE i == k + a
    <2>1. i \in a .. last - 1 /\ B + i < N /\ B + i + 1 = B + a + k + 1 /\ k \in 0 .. BUFSIZE
        BY <1>2, <1>3, <1>13
    <2>2. data'[k] = IF i <= stop THEN Ended[i] ELSE Ended[k]
        BY <1>5, <2>1
    <2> HIDE DEF i
    <2>3. i <= stop
        <3> SUFFICES ASSUME stop < i PROVE FALSE
            BY <1>2, <1>6, <2>1
        <3>1. stop \in a .. last - 1 /\ B + stop < N /\ stop # e /\ stop \in 0 .. BUFSIZE /\ stop < BUFSIZE
            BY <1>2, <1>3, <1>6, <1>10, <2>1
        <3>2. data[stop] = chars[B + stop + 1] /\ data[stop] = NUL
            BY <1>1, <1>2, <1>6, <3>1
        <3>3. B + stop + 1 \in 1 .. N
            BY <1>2, <1>3, <3>1
        <3> QED
            BY <1>9, <3>2, <3>3
    <2>4. i \in 0 .. BUFSIZE /\ i # e
        BY <1>2, <1>10, <2>1
    <2> QED
        BY <1>1, <1>2, <2>1, <2>2, <2>3, <2>4
<1>14. Base(slot)' = B + a /\ last' <= P /\ last' < BUFSIZE
    BY <1>0, <1>2, <1>3, <1>4
<1>15. \A k \in 0 .. last' - 1 : Base(slot)' + k < N => data'[k] = chars[Base(slot)' + k + 1]
    BY <1>0, <1>13, <1>14
<1>16. Buffered(slot, chars)'
    BY <1>0, <1>4, <1>12, <1>14, <1>15 DEF Buffered, N
<1>17. Handled(slot)' = B + a
    <2>1. Handled(slot)' = Base(slot)' + From'
        BY DEF Handled
    <2> QED
        BY <1>2, <1>3, <1>4, <1>14, <2>1
<1> QED
    BY <1>7, <1>16, <1>17

\* A read moves the position and fills the buffer with what the inode's blocks
\* have there; it fills it up unless the file is over.
LEMMA ReadMoves ==
    ASSUME TypeOK, PositionCounts, InBuffer, ReadMore(slot)
    PROVE  LET entry == file_descriptor[slot][fd]
           IN \E n \in Nat :
                 /\ Position(slot) \in Nat /\ entry.inode_ \in Inode /\ fd \in Fds
                 /\ fd' = fd /\ own' = own /\ role' = role
                 /\ file_descriptor'[slot][fd].type = FILE_TYPE
                 /\ file_descriptor'[slot][fd].inode_ = entry.inode_
                 /\ Position(slot)' = Position(slot) + n
                 /\ last \in Nat /\ last' = last + n /\ last' <= BUFSIZE /\ cnt' = n
                 /\ n = BUFSIZE - last \/ Position(slot) + n >= length_[entry.inode_]
                 /\ \A k \in 0 .. BUFSIZE :
                       data'[k] = IF k \in last .. last + n - 1
                                  THEN text[ByteAt(entry.inode_, Position(slot) + (k - last))]
                                  ELSE data[k]
<1> DEFINE entry == file_descriptor[slot][fd]
           P == entry.file_position_
           bytes == file_read(entry, BUFSIZE - last)
           n == Len(bytes)
<1>1. fd \in Fds /\ BUFSIZE - last \in Nat /\ last \in Nat /\ BUFSIZE \in Nat /\ last <= BUFSIZE
    BY BufferAssumption DEF ReadMore, InBuffer
<1>2. read(slot, fd, BUFSIZE - last)
    BY DEF ReadMore
<1>3. Open(slot, fd) /\ entry \in Descriptor /\ file_descriptor \in [Pid -> [Fds -> Descriptor]]
    BY <1>1, <1>2, SlotIs DEF read, Open, TypeOK
<1>4. entry.inode_ \in Inode /\ P \in Nat /\ entry.type = FILE_TYPE
    BY <1>1, <1>3, SlotIs DEF PositionCounts, Descriptor, Open
<1>5. /\ bytes \in Seq(Nat) /\ n <= BUFSIZE - last
      /\ \A k \in 1 .. n : bytes[k] = ByteAt(entry.inode_, P + (k - 1))
      /\ n = BUFSIZE - last \/ P + n >= length_[entry.inode_]
    BY <1>1, <1>4, ReadData DEF file_read
<1>6. /\ last' = last + n /\ cnt' = n /\ fd' = fd
      /\ data' = [k \in 0 .. BUFSIZE |-> IF k \in last .. last + n - 1
                                        THEN text[bytes[k - last + 1]] ELSE data[k]]
    BY DEF ReadMore
<1>7. /\ own' = own /\ role' = role
      /\ file_descriptor' = [file_descriptor EXCEPT ![slot][fd].file_position_ = P + n]
    BY <1>2 DEF read, Advance
<1>8. n \in Nat
    BY <1>5, LenProperties
<1> HIDE DEF bytes, n
<1>9. /\ file_descriptor'[slot][fd].file_position_ = P + n
      /\ file_descriptor'[slot][fd].type = FILE_TYPE
      /\ file_descriptor'[slot][fd].inode_ = entry.inode_
    <2>1. file_descriptor'[slot][fd] = [entry EXCEPT !.file_position_ = P + n]
        BY <1>1, <1>3, <1>7, SlotIs
    <2> HIDE DEF entry
    <2>2. DOMAIN entry = {"type", "inode_", "file_position_", "flags_"}
        BY <1>3 DEF Descriptor
    <2> QED
        BY <1>4, <2>1, <2>2
<1>10. Position(slot) = P /\ Position(slot)' = P + n
    BY <1>6, <1>9 DEF Position
<1> HIDE DEF entry, P
<1>11. ASSUME NEW k \in 0 .. BUFSIZE
       PROVE  data'[k] = IF k \in last .. last + n - 1
                         THEN text[ByteAt(entry.inode_, P + (k - last))] ELSE data[k]
    <2>1. CASE k \in last .. last + n - 1
        <3>1. PICK m \in 1 .. n : m = k - last + 1 /\ m - 1 = k - last
            BY <1>1, <1>8, <2>1
        <3>2. bytes[m] = ByteAt(entry.inode_, P + (m - 1))
            BY <1>5, <3>1
        <3>3. bytes[k - last + 1] = ByteAt(entry.inode_, P + (k - last))
            BY <3>1, <3>2
        <3> QED
            BY <1>6, <2>1, <3>3
    <2>2. CASE k \notin last .. last + n - 1
        BY <1>6, <2>2
    <2> QED
        BY <2>1, <2>2
<1>12. last' <= BUFSIZE
    BY <1>1, <1>5, <1>6, <1>8
<1> QED
    BY <1>1, <1>4, <1>5, <1>6, <1>7, <1>8, <1>9, <1>10, <1>11, <1>12 DEF entry

\* Behind what was kept of a line, the buffer gets what follows it in the file.
LEMMA ReadBuffers ==
    ASSUME TypeOK, PositionCounts, InBuffer, ReadMore(slot), NEW S, NEW chars \in Seq(S),
           Len(chars) = length_[file_descriptor[slot][fd].inode_],
           \A k \in 1 .. Len(chars) :
              chars[k] = text[ByteAt(file_descriptor[slot][fd].inode_, k - 1)],
           Buffered(slot, chars)
    PROVE  Buffered(slot, chars)' /\ Handled(slot)' = Handled(slot)
<1> DEFINE i == file_descriptor[slot][fd].inode_
           P == Position(slot)
           B == Base(slot)
           N == Len(chars)
<1>1. PICK n \in Nat :
        /\ P \in Nat /\ Position(slot)' = P + n
        /\ last \in Nat /\ last' = last + n /\ last' <= BUFSIZE /\ cnt' = n
        /\ n = BUFSIZE - last \/ P + n >= N
        /\ \A k \in 0 .. BUFSIZE :
              data'[k] = IF k \in last .. last + n - 1 THEN text[ByteAt(i, P + (k - last))]
                         ELSE data[k]
    BY ReadMoves
<1>2. gpc = "read" /\ gpc' = "scan" /\ line_start' = 0
    BY DEF ReadMore
<1>3. /\ last <= P /\ last < BUFSIZE
      /\ \A k \in 0 .. BUFSIZE : data[k] # "\n"
      /\ \A k \in 0 .. last - 1 : B + k < N => data[k] = chars[B + k + 1]
    BY <1>2 DEF Buffered, From
<1>4. B \in Nat /\ P = B + last /\ N \in Nat /\ BUFSIZE \in Nat
    BY <1>1, <1>3, BaseIs, LenProperties, BufferAssumption
<1>5. \A k \in 1 .. N : chars[k] = text[ByteAt(i, k - 1)]
    OBVIOUS
<1>6. From' = 0 /\ From = 0 /\ Base(slot)' = (P + n) - (last + n)
    BY <1>1, <1>2 DEF From, Base
<1> HIDE DEF i, P, B, N
<1>7. Base(slot)' = B
    BY <1>1, <1>4, <1>6
<1>8. ASSUME NEW k \in 0 .. last' - 1, B + k < N PROVE data'[k] = chars[B + k + 1]
    <2>1. k \in 0 .. BUFSIZE
        BY <1>1, <1>4
    <2>2. CASE k \in last .. last + n - 1
        <3>1. PICK m \in Nat : m = B + k /\ m + 1 \in 1 .. N /\ m + 1 - 1 = m /\ P + (k - last) = m
            BY <1>1, <1>4, <1>8, <2>1
        <3>2. data'[k] = text[ByteAt(i, m)]
            BY <1>1, <2>1, <2>2, <3>1
        <3>3. chars[m + 1] = text[ByteAt(i, m)]
            BY <1>5, <3>1
        <3> QED
            BY <3>1, <3>2, <3>3
    <2>3. CASE k \notin last .. last + n - 1
        <3>1. k \in 0 .. last - 1
            BY <1>1, <2>3
        <3> QED
            BY <1>1, <1>3, <1>8, <2>1, <2>3, <3>1
    <2> QED
        BY <2>2, <2>3
<1>9. \A k \in 0 .. BUFSIZE : data'[k] = "\n" => k \in line_start' .. last' - 1
    <2> SUFFICES ASSUME NEW k \in 0 .. BUFSIZE, data'[k] = "\n" PROVE k \in 0 .. last + n - 1
        BY <1>1, <1>2
    <2>1. k \in last .. last + n - 1
        BY <1>1, <1>3
    <2> QED
        BY <1>1, <2>1
<1>10. Position(slot)' < N => last' = BUFSIZE /\ cnt' # 0
    BY <1>1, <1>3, <1>4
<1>11. last' <= Position(slot)'
    BY <1>1, <1>3
<1>12. \A k \in From' .. last' - 1 : Base(slot)' + k < N => data'[k] = chars[Base(slot)' + k + 1]
    BY <1>6, <1>7, <1>8
<1>13. Buffered(slot, chars)'
    BY <1>2, <1>9, <1>10, <1>11, <1>12 DEF Buffered, N
<1>14. Handled(slot)' = Base(slot)' + From' /\ Handled(slot) = B + From
    BY DEF Handled, B
<1>15. Handled(slot)' = Handled(slot)
    BY <1>6, <1>7, <1>14
<1> QED
    BY <1>13, <1>15

\* A step that prints nothing, and leaves what is dealt with as it was.
LEMMA ReportingSame ==
    ASSUME NEW chars, Reporting(slot, chars), Handled(slot)' = Handled(slot),
           s' = s, printed' = printed, ~past' => ~past
    PROVE  Reporting(slot, chars)'
<1>1. PICK q : q = Handled(slot)
    OBVIOUS
<1>2. Holding(chars)' = Holding(chars)
    BY SameArgument
<1>3. Finds(chars, q)'
    BY <1>1, <1>2 DEF Reporting, Finds
<1>4. ~past' => Reports(chars, printed, q)'
    BY <1>1, <1>2 DEF Reporting, Reports
<1>5. q = 0 \/ q >= Len(chars) \/ chars[q] = "\n" \/ chars[q + 1] = "\n"
    BY <1>1 DEF Reporting
<1> QED
    BY <1>1, <1>3, <1>4, <1>5, ReportingNext

\* A search reads an open file.
LEMMA SearchingFile ==
    ASSUME ProgramsInv, Searching(slot), gpc \in {"read", "scan", "close"},
           file_type_[name] = FILE_TYPE
    PROVE  \E S, chars :
              /\ chars = Chars /\ chars \in Seq(S)
              /\ name \in Name /\ fd \in own[slot] /\ Running(slot)
              /\ Position(slot) \in Nat
              /\ file_descriptor[slot][fd].inode_ = inode_num_[name]
              /\ Len(chars) = length_[inode_num_[name]]
              /\ \A n \in 1 .. Len(chars) : chars[n] = text[ByteAt(inode_num_[name], n - 1)]
              /\ past <=> Position(slot) > Len(chars)
              /\ ~cut /\ Fits(chars) => Buffered(slot, chars) /\ Reporting(slot, chars)
<1>1. /\ Running(slot) /\ name \in Name /\ fd \in own[slot]
      /\ file_descriptor[slot][fd].inode_ = inode_num_[name]
      /\ past <=> Position(slot) > length_[inode_num_[name]]
    BY DEF Searching
<1>2. PICK chars : chars = Chars
    OBVIOUS
<1>3. ~cut /\ Fits(chars) => Buffered(slot, chars) /\ Reporting(slot, chars)
    BY <1>2 DEF Searching
<1>4. PICK S : /\ chars \in Seq(S) /\ Len(chars) = length_[inode_num_[name]]
               /\ \A n \in 1 .. Len(chars) : chars[n] = text[ByteAt(inode_num_[name], n - 1)]
    BY <1>1, <1>2, CharsAre
<1>5. Position(slot) \in Nat
    <2>1. own \in [Pid -> SUBSET Fds] /\ file_descriptor \in [Pid -> [Fds -> Descriptor]]
        BY DEF ProgramsInv, TypeOK
    <2>2. fd \in Fds
        BY <1>1, <2>1, SlotIs
    <2>3. file_descriptor[slot][fd] \in Descriptor
        BY <2>1, <2>2, SlotIs
    <2> QED
        BY <2>3 DEF Position, Descriptor
<1>6. past <=> Position(slot) > Len(chars)
    BY <1>1, <1>4
<1> QED
    BY <1>1, <1>2, <1>3, <1>4, <1>5, <1>6

\* What has to be shown of a step that goes on with the same file.
LEMMA SearchingNext ==
    ASSUME NEW chars, Chars' = chars, Running(slot)', (name \in Name)', (fd \in own[slot])',
           (file_descriptor[slot][fd].type = file_type_[name])',
           (file_descriptor[slot][fd].inode_ = inode_num_[name])',
           (past <=> Position(slot) > length_[inode_num_[name]])',
           ~cut' /\ Fits(chars) => Buffered(slot, chars)' /\ Reporting(slot, chars)'
    PROVE  Searching(slot)'
<1>1. (\E c \in {Chars} : ~cut /\ Fits(c) => Buffered(slot, c) /\ Reporting(slot, c))'
    <2>1. Fits(chars)' <=> Fits(chars)
        BY DEF Fits
    <2> QED
        BY <2>1
<1> QED
    BY <1>1 DEF Searching

\* Of an entry that is no file only the descriptor matters.
LEMMA OtherSearching ==
    ASSUME Searching(slot), gpc \in {"read", "scan"}, file_type_[name] # FILE_TYPE,
           UNCHANGED <<vars, name, fd>>
    PROVE  Searching(slot)'
<1>1. /\ Running(slot) /\ name \in Name /\ fd \in own[slot]
      /\ file_descriptor[slot][fd].type = file_type_[name]
    BY DEF Searching
<1>2. /\ Running(slot)' /\ name' \in Name /\ fd' \in own'[slot]
      /\ file_descriptor'[slot][fd'].type = file_type_[name']
      /\ file_type_[name'] # FILE_TYPE
    BY <1>1 DEF vars, Running
<1> QED
    BY <1>2 DEF Searching

\* Reading the RTC.
LEMMA RtcSearching ==
    ASSUME Searching(slot), ReadRtc(slot)
    PROVE  Searching(slot)'
<1>1. gpc = "read" /\ file_descriptor[slot][fd].type = RTC_TYPE /\ UNCHANGED <<vars, name, fd>>
    BY DEF ReadRtc
<1>2. file_descriptor[slot][fd].type = file_type_[name]
    BY <1>1 DEF Searching
<1>3. file_type_[name] # FILE_TYPE
    BY <1>1, <1>2 DEF RTC_TYPE, FILE_TYPE
<1> QED
    BY <1>1, <1>3, OtherSearching

\* Scanning the buffer.
LEMMA ScanSearching ==
    ASSUME ProgramsInv, Asked, Searching(slot), KeepLine \/ SearchLine
    PROVE  Searching(slot)'
<1>1. /\ gpc = "scan" /\ vars' = vars /\ text' = text /\ s' = s /\ name' = name /\ fd' = fd
      /\ past' = past /\ (~cut' => ~cut)
    <2>1. CASE KeepLine
        BY <2>1 DEF KeepLine
    <2>2. CASE SearchLine
        <3>1. ~cut' => ~cut
            BY <2>2 DEF SearchLine
        <3> QED
            BY <2>2, <3>1 DEF SearchLine
    <2> QED
        BY <2>1, <2>2
<1>2. file_descriptor' = file_descriptor /\ role' = role /\ own' = own
    BY <1>1 DEF vars
<1> SUFFICES ASSUME file_type_[name] = FILE_TYPE PROVE Searching(slot)'
    BY <1>1, OtherSearching
<1>3. file_descriptor[slot][fd].type = file_type_[name]
    BY <1>1 DEF Searching
<1>4. PICK S, chars :
        /\ chars = Chars /\ chars \in Seq(S)
        /\ name \in Name /\ fd \in own[slot] /\ Running(slot)
        /\ Position(slot) \in Nat
        /\ file_descriptor[slot][fd].inode_ = inode_num_[name]
        /\ Len(chars) = length_[inode_num_[name]]
        /\ past <=> Position(slot) > Len(chars)
        /\ ~cut /\ Fits(chars) => Buffered(slot, chars) /\ Reporting(slot, chars)
    BY <1>1, SearchingFile
<1>5. Chars' = chars
    BY <1>1, <1>4 DEF Chars
<1>6. Position(slot)' = Position(slot)
    BY <1>1, <1>2 DEF Position
<1>7. (past <=> Position(slot) > length_[inode_num_[name]])'
    BY <1>1, <1>4, <1>6
<1>8. ASSUME ~cut', Fits(chars) PROVE Buffered(slot, chars)' /\ Reporting(slot, chars)'
    <2>1. InBuffer /\ Buffered(slot, chars) /\ Reporting(slot, chars)
        BY <1>1, <1>4, <1>8 DEF ProgramsInv
    <2>2. CASE KeepLine
        <3>1. Buffered(slot, chars)' /\ Handled(slot)' = Handled(slot)
            BY <1>4, <1>8, <2>1, <2>2, KeepBuffers
        <3>2. printed' = printed
            BY <2>2 DEF KeepLine
        <3> QED
            BY <1>1, <2>1, <3>1, <3>2, ReportingSame
    <2>3. CASE SearchLine
        <3>1. Buffered(slot, chars)'
            BY <1>4, <2>1, <2>3, SearchBuffers
        <3>2. s \in Search /\ \E T : printed \in Seq(T)
            BY <1>1 DEF Asked
        <3>3. PICK T : printed \in Seq(T)
            BY <3>2
        <3> QED
            BY <1>4, <1>8, <2>1, <2>3, <3>1, <3>2, <3>3, SearchReports
    <2> QED
        BY <2>2, <2>3
<1>9. Running(slot)' /\ (name \in Name)' /\ (fd \in own[slot])'
      /\ (file_descriptor[slot][fd].type = file_type_[name])'
      /\ (file_descriptor[slot][fd].inode_ = inode_num_[name])'
    BY <1>1, <1>2, <1>3, <1>4 DEF Running
<1> QED
    BY <1>5, <1>7, <1>8, <1>9, SearchingNext

\* Reading on.
LEMMA ReadSearching ==
    ASSUME ProgramsInv, Searching(slot), ReadMore(slot)
    PROVE  Searching(slot)'
<1>1. /\ gpc = "read" /\ text' = text /\ s' = s /\ name' = name /\ printed' = printed /\ cut' = cut
      /\ past' = (past \/ file_descriptor'[slot][fd].file_position_ > length_[inode_num_[name]])
    BY DEF ReadMore
<1>2. /\ file_descriptor[slot][fd].type = FILE_TYPE
      /\ file_descriptor[slot][fd].type = file_type_[name]
    BY <1>1 DEF ReadMore, read, Searching
<1>3. TypeOK /\ PositionCounts /\ InBuffer
    BY DEF ProgramsInv
<1>4. PICK S, chars :
        /\ chars = Chars /\ chars \in Seq(S)
        /\ name \in Name /\ fd \in own[slot] /\ Running(slot)
        /\ Position(slot) \in Nat
        /\ file_descriptor[slot][fd].inode_ = inode_num_[name]
        /\ Len(chars) = length_[inode_num_[name]]
        /\ \A n \in 1 .. Len(chars) : chars[n] = text[ByteAt(inode_num_[name], n - 1)]
        /\ past <=> Position(slot) > Len(chars)
        /\ ~cut /\ Fits(chars) => Buffered(slot, chars) /\ Reporting(slot, chars)
    BY <1>1, <1>2, SearchingFile
<1>5. PICK n \in Nat :
        /\ fd' = fd /\ own' = own /\ role' = role
        /\ file_descriptor'[slot][fd].type = FILE_TYPE
        /\ file_descriptor'[slot][fd].inode_ = file_descriptor[slot][fd].inode_
        /\ Position(slot)' = Position(slot) + n
    BY <1>3, ReadMoves
<1>6. Chars' = chars
    BY <1>1, <1>4 DEF Chars
<1>7. past' <=> Position(slot)' > Len(chars)
    <2>1. Position(slot)' = file_descriptor'[slot][fd].file_position_
        BY <1>5 DEF Position
    <2>2. past => Position(slot)' > Len(chars)
        <3>1. Len(chars) \in Nat
            BY <1>4, LenProperties
        <3> QED
            BY <1>4, <1>5, <3>1
    <2>3. past' <=> (past \/ Position(slot)' > Len(chars))
        BY <1>1, <1>4, <2>1
    <2> QED
        BY <2>2, <2>3
<1>8. ASSUME ~cut', Fits(chars) PROVE Buffered(slot, chars)' /\ Reporting(slot, chars)'
    <2>1. Buffered(slot, chars) /\ Reporting(slot, chars)
        BY <1>1, <1>4, <1>8
    <2>2. Buffered(slot, chars)' /\ Handled(slot)' = Handled(slot)
        BY <1>3, <1>4, <2>1, ReadBuffers
    <2>3. ~past' => ~past
        BY <1>1
    <2> QED
        BY <1>1, <2>1, <2>2, <2>3, ReportingSame
<1>9. Running(slot)' /\ (name \in Name)' /\ (fd \in own[slot])'
      /\ (file_descriptor[slot][fd].type = file_type_[name])'
      /\ (file_descriptor[slot][fd].inode_ = inode_num_[name])'
    BY <1>1, <1>2, <1>4, <1>5 DEF Running
<1>10. (past <=> Position(slot) > length_[inode_num_[name]])'
    BY <1>1, <1>4, <1>7
<1> QED
    BY <1>6, <1>8, <1>9, <1>10, SearchingNext

\* Of a file that was just opened nothing is dealt with yet.
LEMMA OpenSearching ==
    ASSUME ProgramsInv, OpenFile(slot)
    PROVE  Searching(slot)'
<1>1. PICK n \in Name, k \in Fds : open(slot, n, k) /\ NewFile(n, k)
    BY DEF OpenFile
<1>2. /\ name' = n /\ fd' = k /\ data' = Unread /\ last' = 0 /\ printed' = <<>> /\ past' = FALSE
      /\ gpc' = "read"
    BY <1>1 DEF NewFile, OpenFile
<1>3. /\ own' = [own EXCEPT ![slot] = @ \cup {k}] /\ role' = role /\ Running(slot)
      /\ file_descriptor' = [file_descriptor EXCEPT ![slot][k] =
            [type |-> file_type_[n], inode_ |-> IF file_type_[n] = FILE_TYPE THEN inode_num_[n] ELSE 0,
             file_position_ |-> 0, flags_ |-> 1]]
    BY <1>1 DEF open, read_dentry_by_name
<1>4. own \in [Pid -> SUBSET Fds] /\ file_descriptor \in [Pid -> [Fds -> Descriptor]]
    BY DEF ProgramsInv, TypeOK
<1>5. /\ file_descriptor'[slot][k].type = file_type_[n]
      /\ file_descriptor'[slot][k].inode_ = IF file_type_[n] = FILE_TYPE THEN inode_num_[n] ELSE 0
      /\ file_descriptor'[slot][k].file_position_ = 0
      /\ k \in own'[slot]
    BY <1>3, <1>4, SlotIs
<1>6. Position(slot)' = 0 /\ From' = 0 /\ Base(slot)' = 0 /\ Handled(slot)' = 0
    BY <1>2, <1>5 DEF Position, Base, Handled, From
<1>7. (name \in Name)'
    BY <1>2
<1>8. PICK chars : chars = Chars'
    OBVIOUS
<1>9. PICK S : chars \in Seq(S) /\ Len(chars) = length_[inode_num_[n]]
    <2>1. (\E S : Chars \in Seq(S) /\ Len(Chars) = length_[inode_num_[name]])'
        BY <1>7, CharsSeq, PTL
    <2> QED
        BY <1>2, <1>8, <2>1
<1>10. Len(chars) \in Nat
    BY <1>9, LenProperties
<1>11. Buffered(slot, chars)'
    <2>1. \A j \in 0 .. BUFSIZE : data'[j] # "\n"
        BY <1>2 DEF Unread, UNKNOWN
    <2>2. last' < BUFSIZE /\ last' <= Position(slot)' /\ From' .. last' - 1 = {}
        BY <1>2, <1>6, BufferAssumption
    <2> QED
        BY <1>2, <2>1, <2>2 DEF Buffered
<1>12. Reporting(slot, chars)'
    <2>1. \A m \in Holding(chars)' : ~(m <= 0)
        <3>1. Holding(chars)' \subseteq 1 .. Len(chars)
            BY DEF Holding, Begins
        <3> QED
            BY <1>10, <3>1
    <2>2. Finds(chars, 0)'
        BY <2>1 DEF Finds
    <2>3. Reports(chars, printed, 0)'
        <3>1. DOMAIN printed' = {}
            BY <1>2
        <3>2. \E begins : begins \in [DOMAIN printed' -> {m \in Holding(chars)' : m <= 0}]
            <4> DEFINE begins == [x \in DOMAIN printed' |-> x]
            <4>1. begins \in [DOMAIN printed' -> {m \in Holding(chars)' : m <= 0}]
                BY <3>1
            <4> QED
                BY <4>1
        <3> QED
            BY <2>1, <3>1, <3>2 DEF Reports
    <2> QED
        BY <1>6, <2>2, <2>3, ReportingNext
<1>13. (past <=> Position(slot) > length_[inode_num_[name]])'
    BY <1>2, <1>6, <1>9, <1>10
<1>14. (\E c \in {Chars} : ~cut /\ Fits(c) => Buffered(slot, c) /\ Reporting(slot, c))'
    BY <1>8, <1>11, <1>12
<1>15. /\ Running(slot)' /\ (fd \in own[slot])'
       /\ (file_descriptor[slot][fd].type = file_type_[name])'
       /\ (file_type_[name] = FILE_TYPE =>
              file_descriptor[slot][fd].inode_ = inode_num_[name])'
    BY <1>2, <1>3, <1>5 DEF Running
<1> QED
    BY <1>2, <1>7, <1>13, <1>14, <1>15 DEF Searching

\* The argument is kept, and lines are added to the list.
LEMMA AskedStep == Asked /\ [ProgramsNext]_programVars => Asked'
<1> SUFFICES ASSUME Asked, [ProgramsNext]_programVars PROVE Asked'
    OBVIOUS
<1>0. (gpc # "off" => s \in Search) /\ \E T : printed \in Seq(T)
    BY DEF Asked
<1>1. CASE UNCHANGED grepVars
    BY <1>0, <1>1 DEF grepVars, Asked
<1>2. CASE GrepNext(slot)
    <2>1. CASE GrepStart(slot)
        BY <1>0, <2>1 DEF GrepStart, fileVars, Asked
    <2>2. CASE OpenDirectory(slot)
        BY <1>0, <2>2 DEF OpenDirectory, fileVars, Asked
    <2>3. CASE OpenFile(slot) \/ CloseFile(slot) \/ GrepReturn(slot)
        <3>1. printed' = <<>>
            BY <2>3 DEF OpenFile, CloseFile, GrepReturn, NoFile, NewFile
        <3>2. \E T : printed' \in Seq(T)
            BY <3>1, EmptySeq
        <3>3. gpc' # "off" => gpc # "off" /\ s' = s
            BY <2>3 DEF OpenFile, CloseFile, GrepReturn
        <3> QED
            BY <1>0, <3>2, <3>3 DEF Asked
    <2>4. CASE ReadMore(slot) \/ ReadRtc(slot) \/ KeepLine
        BY <1>0, <2>4 DEF ReadMore, ReadRtc, KeepLine, Asked
    <2>5. CASE SearchLine
        <3>1. PICK T : printed \in Seq(T)
            BY <1>0
        <3> DEFINE out == Printed
        <3>2. /\ printed' = printed \/ printed' = Append(printed, out)
              /\ s' = s /\ gpc = "scan"
            BY <2>5 DEF SearchLine
        <3> HIDE DEF out
        <3>3. printed \in Seq(T \cup {out}) /\ out \in T \cup {out}
            BY <3>1, SeqMonotonic
        <3>4. printed' \in Seq(T \cup {out})
            BY <3>2, <3>3, AppendProperties
        <3> QED
            BY <1>0, <3>2, <3>4 DEF Asked
    <2> QED
        BY <1>2, <2>1, <2>2, <2>3, <2>4, <2>5 DEF GrepNext, do_one_file
<1> QED
    BY <1>1, <1>2 DEF ProgramsNext, programVars

\* grep's search is inductive: one step per action.
LEMMA SearchingStep ==
    ProgramsInv /\ Asked /\ Searching(slot) /\ [ProgramsNext]_programVars => Searching(slot)'
<1> SUFFICES ASSUME ProgramsInv, Asked, Searching(slot), [ProgramsNext]_programVars
             PROVE  Searching(slot)'
    OBVIOUS
<1>1. CASE GrepNext(slot)
    <2>1. CASE GrepStart(slot) \/ OpenDirectory(slot) \/ CloseFile(slot) \/ GrepReturn(slot)
        <3>1. gpc' \in {"off", "open", "main"}
            BY <2>1 DEF GrepStart, OpenDirectory, CloseFile, GrepReturn
        <3> QED
            BY <3>1 DEF Searching
    <2> QED
        BY <1>1, <2>1, OpenSearching, ReadSearching, RtcSearching, ScanSearching
        DEF GrepNext, do_one_file
<1>2. CASE gpc = "off" /\ UNCHANGED grepVars
    <2>1. gpc' = "off"
        BY <1>2 DEF grepVars
    <2> QED
        BY <2>1 DEF Searching
<1>3. CASE UNCHANGED programVars
    <2>1. /\ gpc' = gpc /\ text' = text /\ s' = s /\ name' = name /\ fd' = fd /\ data' = data
          /\ last' = last /\ line_start' = line_start /\ cnt' = cnt /\ printed' = printed
          /\ past' = past /\ cut' = cut
          /\ file_descriptor' = file_descriptor /\ role' = role /\ own' = own
        BY <1>3 DEF programVars, grepVars, allVars, vars
    <2>2. /\ Chars' = Chars /\ Position(slot)' = Position(slot) /\ Running(slot)' = Running(slot)
          /\ From' = From /\ Base(slot)' = Base(slot) /\ Handled(slot)' = Handled(slot)
        BY <2>1 DEF Chars, Position, Running, From, Base, Handled
    <2>3. ASSUME NEW chars
          PROVE  /\ Fits(chars)' <=> Fits(chars)
                 /\ Buffered(slot, chars) => Buffered(slot, chars)'
                 /\ Reporting(slot, chars) => Reporting(slot, chars)'
        <3>1. Buffered(slot, chars) => Buffered(slot, chars)'
            BY <2>1, <2>2 DEF Buffered
        <3> QED
            BY <2>1, <2>2, <3>1, SameArgument, ReportingSame
    <2> QED
        BY <2>1, <2>2, <2>3 DEF Searching
<1> QED
    BY <1>1, <1>2, <1>3 DEF ProgramsNext

\* For any size of the buffer, any file, and any argument: however the lines lie
\* in the buffer, every line of a file that holds the argument is printed, the
\* last one perhaps with what lies behind the file; and if no read went beyond
\* the end of the file, exactly those lines are printed, in their order.  Provided
\* that the lines fit in the buffer, that there is no NUL in the file and that
\* the byte behind the buffer does not happen to be a newline.
THEOREM GrepFindsLines == ProgramsSpec => []FindsEveryLine
<1> DEFINE Inv == ProgramsInv /\ Asked /\ Searching(slot)
<1>1. ProgramsInit => Asked /\ Searching(slot)
    <2> SUFFICES ASSUME ProgramsInit PROVE Asked /\ Searching(slot)
        OBVIOUS
    <2>1. gpc = "off" /\ printed = <<>>
        BY DEF ProgramsInit, GrepInit
    <2>2. \E T : printed \in Seq(T)
        BY <2>1, EmptySeq
    <2> QED
        BY <2>1, <2>2 DEF Asked, Searching
<1>2. ProgramsInv /\ Searching(slot) => FindsEveryLine
    <2> SUFFICES ASSUME ProgramsInv, Searching(slot), gpc = "close", ~cut,
                        file_type_[name] = FILE_TYPE
                 PROVE  \E chars \in {Chars} :
                           Fits(chars) => /\ Finds(chars, Len(chars))
                                          /\ ~past => Reports(chars, printed, Len(chars))
        BY DEF FindsEveryLine
    <2>2. PICK S, chars :
            /\ chars = Chars /\ chars \in Seq(S) /\ Position(slot) \in Nat
            /\ ~cut /\ Fits(chars) => Buffered(slot, chars) /\ Reporting(slot, chars)
        BY SearchingFile
    <2> SUFFICES ASSUME Fits(chars)
                 PROVE  Finds(chars, Len(chars)) /\ (~past => Reports(chars, printed, Len(chars)))
        BY <2>2
    <2>3. Buffered(slot, chars) /\ Reporting(slot, chars)
        BY <2>2
    <2>4. Len(chars) \in Nat
        BY <2>2, LenProperties
    <2>5. Handled(slot) \in Nat /\ Handled(slot) >= Len(chars)
        <3>1. last = 0 /\ Position(slot) >= Len(chars)
            BY <2>3 DEF Buffered
        <3> QED
            BY <2>2, <2>4, <3>1 DEF Handled, Base, From
    <2>6. \A m \in Holding(chars) : m <= Handled(slot) <=> m <= Len(chars)
        <3>1. Holding(chars) \subseteq 1 .. Len(chars)
            BY DEF Holding, Begins
        <3>2. \A m \in 1 .. Len(chars) : m <= Handled(slot) /\ m <= Len(chars)
            BY <2>4, <2>5
        <3> QED
            BY <3>1, <3>2
    <2>7. Finds(chars, Len(chars))
        BY <2>3, <2>6 DEF Reporting, Finds
    <2>8. ~past => Reports(chars, printed, Len(chars))
        BY <2>3, <2>6, ReportsSame DEF Reporting
    <2> QED
        BY <2>7, <2>8
<1> QED
    BY <1>1, <1>2, ProgramsAlways, AskedStep, SearchingStep, PTL DEF ProgramsSpec

-----------------------------------------------------------------------------
(* The directory: the index *)

\* What a move of one process does to the number of processes at some places.
LEMMA Moves ==
    ASSUME dpc \in [Proc -> DirPC], NEW p \in Proc, NEW from, NEW to, Goto(p, from, to),
           NEW S
    PROVE  /\ Cardinality({q \in Proc : dpc[q] \in S}) \in Nat
           /\ (from \in S <=> to \in S) =>
                Cardinality({q \in Proc : dpc'[q] \in S})
                  = Cardinality({q \in Proc : dpc[q] \in S})
           /\ from \notin S /\ to \in S =>
                Cardinality({q \in Proc : dpc'[q] \in S})
                  = Cardinality({q \in Proc : dpc[q] \in S}) + 1
           /\ from \in S /\ to \notin S =>
                Cardinality({q \in Proc : dpc'[q] \in S})
                  = Cardinality({q \in Proc : dpc[q] \in S}) - 1
<1> DEFINE before == {q \in Proc : dpc[q] \in S}
           after == {q \in Proc : dpc'[q] \in S}
<1>1. /\ dpc[p] = from /\ dpc'[p] = to
      /\ \A q \in Proc \ {p} : dpc'[q] = dpc[q]
    BY DEF Goto
<1>2. IsFiniteSet(before)
    BY ProcAssumption, FS_Subset
<1>3. (from \in S <=> to \in S) => after = before
    BY <1>1
<1>4. from \notin S /\ to \in S => after = before \cup {p} /\ p \notin before
    BY <1>1
<1>5. from \in S /\ to \notin S => after = before \ {p} /\ p \in before
    BY <1>1
<1> SUFFICES /\ Cardinality(before) \in Nat
             /\ (from \in S <=> to \in S) => Cardinality(after) = Cardinality(before)
             /\ from \notin S /\ to \in S => Cardinality(after) = Cardinality(before) + 1
             /\ from \in S /\ to \notin S => Cardinality(after) = Cardinality(before) - 1
    OBVIOUS
<1> HIDE DEF before, after
<1>6. Cardinality(before) \in Nat
    BY <1>2, FS_CardinalityType
<1>7. from \notin S /\ to \in S => Cardinality(after) = Cardinality(before) + 1
    BY <1>2, <1>4, FS_AddElement
<1>8. from \in S /\ to \notin S => Cardinality(after) = Cardinality(before) - 1
    BY <1>2, <1>5, FS_RemoveElement
<1> QED
    BY <1>3, <1>6, <1>7, <1>8

\* The same of the processes inside dir_read, and of those that are busy there.
LEMMA MoveCounts ==
    ASSUME dpc \in [Proc -> DirPC], NEW p \in Proc, NEW from \in DirPC, NEW to \in DirPC,
           Goto(p, from, to)
    PROVE  /\ dpc' \in [Proc -> DirPC] /\ dpc[p] = from /\ dpc'[p] = to
           /\ \A q \in Proc \ {p} : dpc'[q] = dpc[q]
           /\ Cardinality(BusyProcs) \in Nat /\ Cardinality(InsideProcs) \in Nat
           /\ (from \in Busy <=> to \in Busy) =>
                Cardinality(BusyProcs') = Cardinality(BusyProcs)
           /\ from \notin Busy /\ to \in Busy =>
                Cardinality(BusyProcs') = Cardinality(BusyProcs) + 1
           /\ from \in Busy /\ to \notin Busy =>
                Cardinality(BusyProcs') = Cardinality(BusyProcs) - 1
           /\ (from \in Inside <=> to \in Inside) =>
                Cardinality(InsideProcs') = Cardinality(InsideProcs)
           /\ from \notin Inside /\ to \in Inside =>
                Cardinality(InsideProcs') = Cardinality(InsideProcs) + 1
           /\ from \in Inside /\ to \notin Inside =>
                Cardinality(InsideProcs') = Cardinality(InsideProcs) - 1
<1>1. /\ dpc' \in [Proc -> DirPC] /\ dpc[p] = from /\ dpc'[p] = to
      /\ \A q \in Proc \ {p} : dpc'[q] = dpc[q]
    BY DEF Goto
<1>2. /\ BusyProcs = {q \in Proc : dpc[q] \in Busy}
      /\ BusyProcs' = {q \in Proc : dpc'[q] \in Busy}
      /\ InsideProcs = {q \in Proc : dpc[q] \in Inside}
      /\ InsideProcs' = {q \in Proc : dpc'[q] \in Inside}
    BY DEF BusyProcs, InsideProcs
<1>3. /\ Cardinality(BusyProcs) \in Nat
      /\ (from \in Busy <=> to \in Busy) =>
           Cardinality(BusyProcs') = Cardinality(BusyProcs)
      /\ from \notin Busy /\ to \in Busy =>
           Cardinality(BusyProcs') = Cardinality(BusyProcs) + 1
      /\ from \in Busy /\ to \notin Busy =>
           Cardinality(BusyProcs') = Cardinality(BusyProcs) - 1
    BY <1>2, Moves
<1>4. /\ Cardinality(InsideProcs) \in Nat
      /\ (from \in Inside <=> to \in Inside) =>
           Cardinality(InsideProcs') = Cardinality(InsideProcs)
      /\ from \notin Inside /\ to \in Inside =>
           Cardinality(InsideProcs') = Cardinality(InsideProcs) + 1
      /\ from \in Inside /\ to \notin Inside =>
           Cardinality(InsideProcs') = Cardinality(InsideProcs) - 1
    BY <1>2, Moves
<1> QED
    BY <1>1, <1>3, <1>4

\* Nobody else is inside when a call that counts no overlap begins.
LEMMA Alone ==
    ASSUME dpc \in [Proc -> DirPC], NEW p \in Proc, dpc[p] \notin Inside,
           \A q \in Proc \ {p} : dpc[q] \notin Inside
    PROVE  /\ Cardinality(BusyProcs) = 0 /\ Cardinality(InsideProcs) = 0
           /\ \A q \in Proc : dpc[q] \notin {"store", "store_empty"}
<1>1. BusyProcs = {} /\ InsideProcs = {}
    BY DEF BusyProcs, InsideProcs, Inside
<1> QED
    BY <1>1, FS_EmptySet DEF Inside, Busy

\* The busy are inside.
LEMMA BusyInside ==
    Cardinality(BusyProcs) <= Cardinality(InsideProcs)
<1>1. IsFiniteSet(InsideProcs) /\ BusyProcs \subseteq InsideProcs
    BY ProcAssumption, FS_Subset DEF BusyProcs, InsideProcs, Inside
<1> QED
    BY <1>1, FS_Subset

DirInv == DirTypeOK /\ IndexBound

\* A move that leaves the index, the names and the overlaps alone and busies
\* nobody.
LEMMA QuietStep ==
    ASSUME DirInv, NEW p \in Proc, NEW from \in DirPC, NEW to \in DirPC, Goto(p, from, to),
           to \in Busy => from \in Busy, to \in Inside => from \in Inside,
           to \notin {"store", "store_empty"},
           UNCHANGED <<directory_index, reg, torn>>,
           got' \in [Proc -> Seq(FileName)], cycle' \in Seq(FileName)
    PROVE  DirInv'
<1>1. DirTypeOK'
    BY MoveCounts DEF DirInv, DirTypeOK
<1>2. /\ Cardinality(BusyProcs) \in Nat /\ Cardinality(InsideProcs) \in Nat
      /\ Cardinality(BusyProcs') \in Int /\ Cardinality(InsideProcs') \in Int
      /\ Cardinality(BusyProcs') <= Cardinality(BusyProcs)
      /\ Cardinality(InsideProcs') <= Cardinality(InsideProcs)
      /\ \A q \in Proc : dpc'[q] \in {"store", "store_empty"} => dpc[q] \in {"store", "store_empty"}
    BY MoveCounts DEF DirInv, DirTypeOK
<1>3. /\ torn \in Nat /\ directory_index \in Int /\ reg \in [Proc -> Int] /\ num_file \in Nat
    BY EntriesAssumption, BoundAssumption DEF DirInv, DirTypeOK
<1>4. IndexBound
    BY DEF DirInv
<1>5. Cardinality(InsideProcs') <= torn' + 1
    BY <1>2, <1>3, <1>4 DEF IndexBound
<1>6. directory_index' + Cardinality(BusyProcs') <= num_file - 1 + torn'
    BY <1>2, <1>3, <1>4 DEF IndexBound
<1>7. ASSUME NEW q \in Proc, dpc'[q] \in {"store", "store_empty"}
      PROVE  reg'[q] >= -1 /\ reg'[q] + Cardinality(BusyProcs') <= num_file - 1 + torn'
    BY <1>2, <1>3, <1>4, <1>7 DEF IndexBound
<1> QED
    BY <1>1, <1>5, <1>6, <1>7 DEF DirInv, IndexBound

\* A call begins.
LEMMA EnterStep ==
    ASSUME DirInv, NEW p \in Proc, NEW to \in {"reset", "select"}, Enter(p, to),
           to = "select" => ~AtEnd,
           UNCHANGED <<directory_index, reg, got, cycle>>
    PROVE  DirInv'
<1>0. /\ Goto(p, "open", to) /\ "open" \in DirPC /\ to \in DirPC
      /\ "open" \notin Inside /\ "open" \notin Busy
      /\ to \in Inside /\ (to \in Busy => to = "select") /\ to \notin {"store", "store_empty"}
    BY DEF Enter, DirPC, Inside, Busy
<1>1. /\ torn \in 0 .. MAX_TORN /\ directory_index \in -1 .. num_file - 1 + torn
      /\ reg \in [Proc -> Int] /\ num_file \in Nat \ {0} /\ MAX_TORN \in Nat
      /\ dpc \in [Proc -> DirPC]
    BY EntriesAssumption, BoundAssumption DEF DirInv, DirTypeOK
<1>2. /\ dpc' \in [Proc -> DirPC] /\ dpc[p] = "open" /\ dpc'[p] = to
      /\ \A q \in Proc \ {p} : dpc'[q] = dpc[q]
      /\ Cardinality(BusyProcs) \in Nat /\ Cardinality(InsideProcs) \in Nat
      /\ Cardinality(InsideProcs') = Cardinality(InsideProcs) + 1
      /\ to \in Busy => Cardinality(BusyProcs') = Cardinality(BusyProcs) + 1
      /\ to \notin Busy => Cardinality(BusyProcs') = Cardinality(BusyProcs)
    BY <1>0, <1>1, MoveCounts
<1>3. IndexBound
    BY DEF DirInv
<1>4. CASE \E q \in Proc \ {p} : dpc[q] \in Inside
    <2>1. torn' = torn + 1 /\ torn < MAX_TORN
        BY <1>4 DEF Enter
    <2>2. DirTypeOK'
        BY <1>1, <1>2, <2>1 DEF DirInv, DirTypeOK
    <2>3. Cardinality(InsideProcs') <= torn' + 1
        BY <1>1, <1>2, <1>3, <2>1 DEF IndexBound
    <2>4. directory_index' + Cardinality(BusyProcs') <= num_file - 1 + torn'
        BY <1>1, <1>2, <1>3, <2>1 DEF IndexBound
    <2>5. ASSUME NEW q \in Proc, dpc'[q] \in {"store", "store_empty"}
          PROVE  reg'[q] >= -1 /\ reg'[q] + Cardinality(BusyProcs') <= num_file - 1 + torn'
        <3>1. dpc[q] \in {"store", "store_empty"}
            BY <1>0, <1>2, <2>5
        <3> QED
            BY <1>1, <1>2, <1>3, <2>1, <3>1 DEF IndexBound
    <2> QED
        BY <2>2, <2>3, <2>4, <2>5 DEF DirInv, IndexBound
<1>5. CASE \A q \in Proc \ {p} : dpc[q] \notin Inside
    <2>1. torn' = torn
        BY <1>5 DEF Enter
    <2>2. DirTypeOK'
        BY <1>1, <1>2, <2>1 DEF DirInv, DirTypeOK
    <2>3. /\ Cardinality(BusyProcs) = 0 /\ Cardinality(InsideProcs) = 0
          /\ \A q \in Proc : dpc[q] \notin {"store", "store_empty"}
        BY <1>0, <1>1, <1>2, <1>5, Alone
    <2>4. Cardinality(InsideProcs') <= torn' + 1
        BY <1>1, <1>2, <2>1, <2>3
    <2>5. directory_index' + Cardinality(BusyProcs') <= num_file - 1 + torn'
        BY <1>0, <1>1, <1>2, <2>1, <2>3 DEF AtEnd
    <2>6. \A q \in Proc : dpc'[q] \notin {"store", "store_empty"}
        BY <1>0, <1>2, <2>3
    <2> QED
        BY <2>2, <2>4, <2>5, <2>6 DEF DirInv, IndexBound
<1> QED
    BY <1>4, <1>5

\* A name is copied, or the empty one.
LEMMA CopyStep ==
    ASSUME DirInv, NEW p \in Proc, NEW from \in {"dot", "copy"}, NEW nm \in FileName,
           Copies(p, from, nm)
    PROVE  DirInv'
<1> DEFINE to == IF nm = NO_NAME THEN "load_empty" ELSE "load"
<1>1. /\ Goto(p, from, to) /\ from \in DirPC /\ to \in DirPC
      /\ from \in Busy /\ from \in Inside /\ to \notin {"store", "store_empty"}
      /\ UNCHANGED <<directory_index, reg, torn>>
    BY DEF Copies, DirPC, Inside, Busy
<1>2. got \in [Proc -> Seq(FileName)] /\ cycle \in Seq(FileName)
    BY DEF DirInv, DirTypeOK
<1>3. Append(got[p], nm) \in Seq(FileName) /\ Append(cycle, nm) \in Seq(FileName)
    BY <1>2
<1>4. got' \in [Proc -> Seq(FileName)] /\ cycle' \in Seq(FileName)
    BY <1>2, <1>3 DEF Copies
<1> HIDE DEF to
<1> QED
    BY <1>1, <1>4, QuietStep

\* Every step keeps the index within its bound.
LEMMA DirStep == DirInv /\ [DirNext]_dirVars => DirInv'
<1> SUFFICES ASSUME DirInv, [DirNext]_dirVars PROVE DirInv'
    OBVIOUS
<1>0. /\ torn \in 0 .. MAX_TORN /\ directory_index \in -1 .. num_file - 1 + torn
      /\ reg \in [Proc -> Int] /\ num_file \in Nat \ {0} /\ MAX_TORN \in Nat
      /\ dpc \in [Proc -> DirPC]
      /\ got \in [Proc -> Seq(FileName)] /\ cycle \in Seq(FileName)
    BY EntriesAssumption, BoundAssumption DEF DirInv, DirTypeOK
<1>a. IndexBound
    BY DEF DirInv
<1>1. ASSUME NEW p \in Proc, dir_open(p) \/ dir_close(p) PROVE DirInv'
    <2>1. /\ got' \in [Proc -> Seq(FileName)] /\ cycle' \in Seq(FileName)
          /\ UNCHANGED <<directory_index, reg, torn>>
        <3>1. CASE dir_open(p)
            BY <1>0, <3>1 DEF dir_open
        <3>2. CASE dir_close(p)
            BY <1>0, <3>2 DEF dir_close
        <3> QED
            BY <1>1, <3>1, <3>2
    <2>2. Goto(p, "closed", "open") \/ Goto(p, "open", "closed") \/ Goto(p, "end", "closed")
        BY <1>1 DEF dir_open, dir_close
    <2>3. /\ {"closed", "open", "end"} \subseteq DirPC
          /\ {"closed", "open", "end"} \cap Inside = {} /\ Busy \subseteq Inside
        BY DEF DirPC, Inside, Busy
    <2> QED
        BY <2>1, <2>2, <2>3, QuietStep
<1>2. ASSUME NEW p \in Proc, ReadEnd(p) \/ ReadTest(p) PROVE DirInv'
    BY <1>2, EnterStep DEF ReadEnd, ReadTest
<1>3. ASSUME NEW p \in Proc, ReadReset(p) PROVE DirInv'
    <2>1. /\ Goto(p, "reset", "end") /\ "reset" \in DirPC /\ "end" \in DirPC
          /\ "reset" \in Inside /\ "reset" \notin Busy /\ "end" \notin Inside /\ "end" \notin Busy
          /\ directory_index' = -1 /\ cycle' = <<>> /\ UNCHANGED <<reg, got, torn>>
        BY <1>3 DEF ReadReset, DirPC, Inside, Busy
    <2>2. /\ dpc' \in [Proc -> DirPC] /\ dpc'[p] = "end"
          /\ \A q \in Proc \ {p} : dpc'[q] = dpc[q]
          /\ Cardinality(BusyProcs) \in Nat /\ Cardinality(InsideProcs) \in Nat
          /\ Cardinality(InsideProcs') = Cardinality(InsideProcs) - 1
          /\ Cardinality(BusyProcs') = Cardinality(BusyProcs)
        BY <1>0, <2>1, MoveCounts
    <2>3. DirTypeOK'
        BY <1>0, <2>1, <2>2 DEF DirTypeOK
    <2>4. Cardinality(InsideProcs') <= torn' + 1
        BY <1>0, <1>a, <2>1, <2>2 DEF IndexBound
    <2>5. directory_index' + Cardinality(BusyProcs') <= num_file - 1 + torn'
        BY <1>0, <1>a, <2>1, <2>2, BusyInside DEF IndexBound
    <2>6. ASSUME NEW q \in Proc, dpc'[q] \in {"store", "store_empty"}
          PROVE  reg'[q] >= -1 /\ reg'[q] + Cardinality(BusyProcs') <= num_file - 1 + torn'
        BY <1>0, <1>a, <2>1, <2>2, <2>6 DEF IndexBound
    <2> QED
        BY <2>3, <2>4, <2>5, <2>6 DEF DirInv, IndexBound
<1>4. ASSUME NEW p \in Proc, ReadSelect(p) PROVE DirInv'
    <2> DEFINE to == IF directory_index = -1 THEN "dot" ELSE "copy"
    <2>1. /\ Goto(p, "select", to) /\ to \in DirPC /\ "select" \in DirPC
          /\ "select" \in Busy /\ "select" \in Inside /\ to \notin {"store", "store_empty"}
          /\ UNCHANGED <<directory_index, reg, got, cycle, torn>>
        BY <1>4 DEF ReadSelect, DirPC, Inside, Busy
    <2> HIDE DEF to
    <2> QED
        BY <1>0, <2>1, QuietStep
<1>5. ASSUME NEW p \in Proc, ReadDot(p) PROVE DirInv'
    BY <1>5, NameAssumption, CopyStep DEF ReadDot
<1>6. ASSUME NEW p \in Proc, ReadCopy(p) PROVE DirInv'
    <2>1. directory_index # -1 => directory_index \in 0 .. num_file - 1 + MAX_TORN
        BY <1>0
    <2>2. NameAt(directory_index) \in FileName
        BY <2>1, NameAssumption DEF NameAt
    <2> QED
        BY <1>6, <2>2, CopyStep DEF ReadCopy
<1>7. ASSUME NEW p \in Proc, NEW from, NEW to, Goto(p, from, to), ReadLoad(p),
             (from = "load" /\ to = "store") \/ (from = "load_empty" /\ to = "store_empty")
      PROVE  DirInv'
    <2>1. /\ from \in DirPC /\ to \in DirPC /\ {from, to} \subseteq Inside
          /\ {from, to} \subseteq Busy
          /\ reg' = [reg EXCEPT ![p] = directory_index]
          /\ UNCHANGED <<directory_index, got, cycle, torn>>
        BY <1>7 DEF ReadLoad, DirPC, Inside, Busy
    <2>2. /\ dpc' \in [Proc -> DirPC] /\ dpc'[p] = to
          /\ \A q \in Proc \ {p} : dpc'[q] = dpc[q]
          /\ Cardinality(BusyProcs) \in Nat /\ Cardinality(InsideProcs) \in Nat
          /\ Cardinality(InsideProcs') = Cardinality(InsideProcs)
          /\ Cardinality(BusyProcs') = Cardinality(BusyProcs)
        BY <1>0, <1>7, <2>1, MoveCounts
    <2>a. directory_index \in Int /\ reg' \in [Proc -> Int]
          /\ reg'[p] = directory_index /\ \A q \in Proc \ {p} : reg'[q] = reg[q]
        BY <1>0, <2>1
    <2>3. DirTypeOK'
        BY <1>0, <2>1, <2>2, <2>a DEF DirTypeOK
    <2>4. ASSUME NEW q \in Proc, dpc'[q] \in {"store", "store_empty"}
          PROVE  reg'[q] >= -1 /\ reg'[q] + Cardinality(BusyProcs') <= num_file - 1 + torn'
        <3>1. CASE q = p
            BY <1>0, <1>a, <2>1, <2>2, <3>1 DEF IndexBound
        <3>2. CASE q # p
            BY <1>0, <1>a, <2>1, <2>2, <2>4, <3>2 DEF IndexBound
        <3> QED
            BY <3>1, <3>2
    <2> QED
        BY <1>a, <2>1, <2>2, <2>3, <2>4 DEF DirInv, IndexBound
<1>8. ASSUME NEW p \in Proc, NEW from, NEW to, Goto(p, from, to), ReadStore(p),
             (from = "store" /\ to = "open") \/ (from = "store_empty" /\ to = "end")
      PROVE  DirInv'
    <2>1. /\ from \in DirPC /\ to \in DirPC /\ from \in Inside /\ from \in Busy
          /\ to \notin Inside /\ to \notin Busy /\ from \in {"store", "store_empty"}
          /\ to \notin {"store", "store_empty"}
          /\ directory_index' = reg[p] + 1 /\ reg' = [reg EXCEPT ![p] = 0]
          /\ UNCHANGED <<got, cycle, torn>>
        BY <1>8 DEF ReadStore, DirPC, Inside, Busy
    <2>2. /\ dpc' \in [Proc -> DirPC] /\ dpc[p] = from /\ dpc'[p] = to
          /\ \A q \in Proc \ {p} : dpc'[q] = dpc[q]
          /\ Cardinality(BusyProcs) \in Nat /\ Cardinality(InsideProcs) \in Nat
          /\ Cardinality(InsideProcs') = Cardinality(InsideProcs) - 1
          /\ Cardinality(BusyProcs') = Cardinality(BusyProcs) - 1
        BY <1>0, <1>8, <2>1, MoveCounts
    <2>3. reg[p] >= -1 /\ reg[p] + Cardinality(BusyProcs) <= num_file - 1 + torn
        BY <1>a, <2>1, <2>2 DEF IndexBound
    <2>4. Cardinality(BusyProcs') \in Nat
        <3>1. IsFiniteSet(BusyProcs')
            BY ProcAssumption, FS_Subset DEF BusyProcs
        <3> QED
            BY <3>1, FS_CardinalityType
    <2>5. directory_index' \in -1 .. num_file - 1 + torn'
        BY <1>0, <2>1, <2>2, <2>3, <2>4
    <2>a. /\ reg' \in [Proc -> Int]
          /\ \A q \in Proc \ {p} : reg'[q] = reg[q]
        BY <1>0, <2>1
    <2>6. DirTypeOK'
        BY <1>0, <2>1, <2>2, <2>5, <2>a DEF DirTypeOK
    <2>7. /\ Cardinality(InsideProcs') <= torn' + 1
          /\ directory_index' + Cardinality(BusyProcs') <= num_file - 1 + torn'
        BY <1>0, <1>a, <2>1, <2>2, <2>3 DEF IndexBound
    <2>8. ASSUME NEW q \in Proc, dpc'[q] \in {"store", "store_empty"}
          PROVE  reg'[q] >= -1 /\ reg'[q] + Cardinality(BusyProcs') <= num_file - 1 + torn'
        <3>1. q # p /\ dpc[q] \in {"store", "store_empty"} /\ reg'[q] = reg[q]
            BY <2>1, <2>2, <2>8, <2>a
        <3> QED
            BY <1>0, <1>a, <2>1, <2>2, <3>1 DEF IndexBound
    <2> QED
        BY <2>6, <2>7, <2>8 DEF DirInv, IndexBound
<1>9. CASE UNCHANGED dirVars
    BY <1>9 DEF dirVars, DirInv, DirTypeOK, IndexBound, BusyProcs, InsideProcs
<1>10. ASSUME NEW p \in Proc, ReadLoad(p) PROVE DirInv'
    BY <1>7, <1>10 DEF ReadLoad
<1>11. ASSUME NEW p \in Proc, ReadStore(p) PROVE DirInv'
    BY <1>8, <1>11 DEF ReadStore
<1> QED
    BY <1>1, <1>2, <1>3, <1>4, <1>5, <1>6, <1>9, <1>10, <1>11 DEF DirNext, dir_read

\* A directory that nobody has read yet.
LEMMA DirBegins == DirInit => DirInv
<1> SUFFICES ASSUME DirInit PROVE DirInv
    OBVIOUS
<1>1. DirTypeOK
    BY BoundAssumption, EntriesAssumption DEF DirInit, DirTypeOK, DirPC
<1>2. BusyProcs = {} /\ InsideProcs = {}
    BY DEF DirInit, BusyProcs, InsideProcs, Busy, Inside
<1>3. Cardinality(BusyProcs) = 0 /\ Cardinality(InsideProcs) = 0
    BY <1>2, FS_EmptySet
<1>4. \A p \in Proc : dpc[p] \notin {"store", "store_empty"}
    BY DEF DirInit
<1> QED
    BY <1>1, <1>3, <1>4, EntriesAssumption DEF DirInv, IndexBound, DirInit

\* The index from which dir_read copies a name unchecked is at most one further
\* behind the end for every call that overlapped another, for any number of
\* processes and any directory.
THEOREM DirTypeCorrect == DirSpec => []DirTypeOK
<1>1. DirInv => DirTypeOK
    BY DEF DirInv
<1> QED
    BY <1>1, DirBegins, DirStep, PTL DEF DirSpec

-----------------------------------------------------------------------------
(* The directory: every nm once *)

\* The call of the only process inside sees the index that it was given.
LEMMA OrderStep == DirTypeOK /\ InOrder /\ [DirNext]_dirVars => InOrder'
<1> SUFFICES ASSUME DirTypeOK, InOrder, [DirNext]_dirVars, torn' = 0 PROVE InOrder'
    BY DEF InOrder
<1> USE EntriesAssumption
<1>1. ASSUME NEW p \in Proc, dir_open(p) \/ dir_close(p) PROVE InOrder'
    <2>1. /\ dpc' = [dpc EXCEPT ![p] = dpc'[p]]
          /\ dpc[p] \notin Inside /\ dpc'[p] \notin Inside
          /\ UNCHANGED <<directory_index, reg, cycle, torn>>
        BY <1>1 DEF dir_open, dir_close, Goto, Inside, Busy, DirTypeOK
    <2> QED
        BY <2>1 DEF InOrder, Inside, Busy, Given, DirTypeOK
\* A call begins where nobody is inside.
<1>2. ASSUME NEW p \in Proc, NEW to, Enter(p, to)
      PROVE  /\ torn = 0 /\ dpc[p] = "open" /\ dpc'[p] = to
             /\ \A q \in Proc \ {p} : dpc'[q] = dpc[q] /\ dpc[q] \notin Inside
             /\ \A q \in Proc : ~Given(q)
             /\ Len(cycle) = directory_index + 1
    <2>1. torn = 0 /\ \A q \in Proc \ {p} : dpc[q] \notin Inside
        BY <1>2 DEF Enter, DirTypeOK
    <2>2. dpc[p] = "open" /\ dpc'[p] = to /\ \A q \in Proc \ {p} : dpc'[q] = dpc[q]
        BY <1>2 DEF Enter, Goto, DirTypeOK
    <2>3. \A q \in Proc : ~Given(q)
        BY <2>1, <2>2 DEF Given, Inside, Busy
    <2> QED
        BY <2>1, <2>2, <2>3 DEF InOrder
<1>3. ASSUME NEW p \in Proc, ReadEnd(p) PROVE InOrder'
    <2>1. Enter(p, "reset") /\ UNCHANGED <<directory_index, reg, cycle>>
        BY <1>3 DEF ReadEnd
    <2>2. /\ torn = 0 /\ dpc[p] = "open" /\ dpc'[p] = "reset"
          /\ \A q \in Proc \ {p} : dpc'[q] = dpc[q] /\ dpc[q] \notin Inside
          /\ Len(cycle) = directory_index + 1
        BY <1>2, <2>1
    <2> QED
        BY <2>1, <2>2 DEF InOrder, Inside, Busy, Given
<1>4. ASSUME NEW p \in Proc, ReadTest(p) PROVE InOrder'
    <2>1. Enter(p, "select") /\ UNCHANGED <<directory_index, reg, cycle>> /\ ~AtEnd
        BY <1>4 DEF ReadTest
    <2>2. /\ torn = 0 /\ dpc[p] = "open" /\ dpc'[p] = "select"
          /\ \A q \in Proc \ {p} : dpc'[q] = dpc[q] /\ dpc[q] \notin Inside
          /\ Len(cycle) = directory_index + 1
        BY <1>2, <2>1
    <2>3. directory_index < num_file - 1
        BY <2>1 DEF AtEnd, DirTypeOK
    <2> QED
        BY <2>1, <2>2, <2>3 DEF InOrder, Inside, Busy, Given
\* The others are not inside while p is.
<1>5. ASSUME NEW p \in Proc, NEW from \in Inside, NEW to, Goto(p, from, to), torn = 0
      PROVE  /\ dpc[p] = from /\ dpc'[p] = to
             /\ \A q \in Proc \ {p} : dpc'[q] = dpc[q] /\ dpc[q] \notin Inside
             /\ Given(p) \/ Len(cycle) = directory_index + 1
    <2>1. dpc[p] = from /\ dpc'[p] = to /\ \A q \in Proc \ {p} : dpc'[q] = dpc[q]
        BY <1>5 DEF Goto, DirTypeOK
    <2>2. \A q \in Proc \ {p} : dpc[q] \notin Inside
        BY <1>5, <2>1 DEF InOrder
    <2>3. \A q \in Proc \ {p} : ~Given(q)
        BY <2>2 DEF Given, Inside, Busy
    <2> QED
        BY <1>5, <2>1, <2>2, <2>3 DEF InOrder
<1>6. ASSUME NEW p \in Proc, ReadReset(p) PROVE InOrder'
    <2>1. /\ Goto(p, "reset", "end") /\ "reset" \in Inside /\ torn = 0
          /\ directory_index' = -1 /\ cycle' = <<>> /\ UNCHANGED reg
        BY <1>6 DEF ReadReset, Inside
    <2>2. \A q \in Proc : dpc'[q] \notin Inside
        BY <1>5, <2>1 DEF Inside, Busy
    <2>3. Len(cycle') = directory_index' + 1
        BY <2>1
    <2> QED
        BY <2>1, <2>2, <2>3 DEF InOrder, Inside, Busy, Given
<1>7. ASSUME NEW p \in Proc, ReadSelect(p) PROVE InOrder'
    <2> DEFINE to == IF directory_index = -1 THEN "dot" ELSE "copy"
    <2>1. /\ Goto(p, "select", to) /\ "select" \in Inside /\ torn = 0
          /\ UNCHANGED <<directory_index, reg, cycle>>
        BY <1>7 DEF ReadSelect, Inside, Busy
    <2>2. /\ dpc[p] = "select" /\ dpc'[p] = to
          /\ \A q \in Proc \ {p} : dpc'[q] = dpc[q] /\ dpc[q] \notin Inside
          /\ Given(p) \/ Len(cycle) = directory_index + 1
        BY <1>5, <2>1
    <2>3. ~Given(p) /\ directory_index < num_file - 1
        BY <2>1, <2>2 DEF InOrder, Given, Busy
    <2> QED
        BY <2>1, <2>2, <2>3 DEF InOrder, Inside, Busy, Given
<1>8. ASSUME NEW p \in Proc, NEW from \in {"dot", "copy"}, NEW nm, Copies(p, from, nm),
             nm = NameAt(directory_index), torn = 0
      PROVE  InOrder'
    <2>1. /\ UNCHANGED <<directory_index, reg>> /\ from \in Inside /\ from \in Busy
        BY <1>8 DEF Copies, Inside, Busy
    <2>2. dpc[p] = from
        BY <1>8 DEF Copies, Goto
    <2>3. directory_index \in -1 .. num_file - 2
        BY <1>8, <2>1, <2>2 DEF InOrder, DirTypeOK
    <2>4. nm \in FileName \ {NO_NAME}
        <3>1. CASE directory_index = -1
            BY <1>8, <3>1, NameAssumption DEF NameAt
        <3>2. CASE directory_index # -1
            <4>1. directory_index \in 0 .. num_file - 2
                BY <2>3, <3>2
            <4>2. directory_index \in 0 .. num_file - 1 + MAX_TORN
                BY <4>1, BoundAssumption
            <4> QED
                BY <1>8, <3>2, <4>1, <4>2, NameAssumption DEF NameAt
        <3> QED
            BY <3>1, <3>2
    <2>5. Goto(p, from, "load") /\ cycle' = Append(cycle, nm)
        BY <1>8, <2>4 DEF Copies
    <2>6. /\ dpc'[p] = "load"
          /\ \A q \in Proc \ {p} : dpc'[q] = dpc[q] /\ dpc[q] \notin Inside
          /\ Len(cycle) = directory_index + 1
        BY <1>5, <1>8, <2>1, <2>2, <2>5 DEF Given
    <2>7. /\ Len(cycle) \in Nat /\ Len(cycle') = Len(cycle) + 1
          /\ \A k \in 1 .. Len(cycle) : cycle'[k] = cycle[k]
          /\ cycle'[Len(cycle) + 1] = nm
        BY <2>4, <2>5 DEF DirTypeOK
    <2>8. \A k \in 1 .. Len(cycle') : cycle'[k] = NameAt(k - 2)
        <3>1. \A k \in 1 .. Len(cycle) : cycle[k] = NameAt(k - 2)
            BY <1>8 DEF InOrder
        <3>2. directory_index = Len(cycle) + 1 - 2
            BY <2>3, <2>6, <2>7
        <3>3. ASSUME NEW k \in 1 .. Len(cycle') PROVE cycle'[k] = NameAt(k - 2)
            <4>1. CASE k \in 1 .. Len(cycle)
                BY <2>7, <3>1, <4>1
            <4>2. CASE k = Len(cycle) + 1
                BY <1>8, <2>7, <3>2, <4>2
            <4> QED
                BY <2>7, <4>1, <4>2
        <3> QED
            BY <3>3
    <2>9. Len(cycle') = directory_index' + 2 /\ directory_index' < num_file - 1
        BY <2>1, <2>3, <2>6, <2>7
    <2> QED
        BY <2>6, <2>8, <2>9 DEF InOrder, Inside, Busy, Given
<1>9. ASSUME NEW p \in Proc, ReadDot(p) \/ ReadCopy(p) PROVE InOrder'
    <2>1. torn = 0
        BY <1>9 DEF ReadDot, ReadCopy, Copies
    <2>2. CASE ReadDot(p)
        <3>1. dpc[p] = "dot"
            BY <2>2 DEF ReadDot, Copies, Goto
        <3>2. PERIOD = NameAt(directory_index)
            BY <2>1, <3>1 DEF InOrder, NameAt
        <3> QED
            BY <1>8, <2>1, <2>2, <3>2 DEF ReadDot
    <2>3. CASE ReadCopy(p)
        BY <1>8, <2>1, <2>3 DEF ReadCopy
    <2> QED
        BY <1>9, <2>2, <2>3
<1>10. ASSUME NEW p \in Proc, ReadLoad(p) PROVE InOrder'
    <2>0. torn = 0
        BY <1>10 DEF ReadLoad
    <2>1. /\ Goto(p, "load", "store") /\ "load" \in Inside
          /\ reg' = [reg EXCEPT ![p] = directory_index]
          /\ UNCHANGED <<directory_index, cycle>>
        BY <1>10, <2>0 DEF ReadLoad, Goto, InOrder, Inside, Busy
    <2>2. /\ dpc[p] = "load" /\ dpc'[p] = "store"
          /\ \A q \in Proc \ {p} : dpc'[q] = dpc[q] /\ dpc[q] \notin Inside
        BY <1>5, <2>0, <2>1
    <2>3. /\ directory_index < num_file - 1 /\ Len(cycle) = directory_index + 2
          /\ reg'[p] = directory_index
        BY <2>0, <2>1, <2>2 DEF InOrder, Given, Busy, DirTypeOK
    <2> QED
        BY <2>0, <2>1, <2>2, <2>3 DEF InOrder, Inside, Busy, Given
<1>11. ASSUME NEW p \in Proc, ReadStore(p) PROVE InOrder'
    <2>0. torn = 0
        BY <1>11 DEF ReadStore
    <2>1. /\ Goto(p, "store", "open") /\ "store" \in Inside
          /\ directory_index' = reg[p] + 1 /\ UNCHANGED cycle
        BY <1>11, <2>0 DEF ReadStore, Goto, InOrder, Inside, Busy
    <2>2. /\ dpc[p] = "store" /\ dpc'[p] = "open"
          /\ \A q \in Proc \ {p} : dpc'[q] = dpc[q] /\ dpc[q] \notin Inside
        BY <1>5, <2>0, <2>1
    <2>3. reg[p] = directory_index /\ Len(cycle) = directory_index + 2
        BY <2>0, <2>2 DEF InOrder, Given
    <2>4. Len(cycle') = directory_index' + 1
        BY <2>1, <2>3 DEF DirTypeOK
    <2>5. \A q \in Proc : dpc'[q] \notin Inside
        BY <2>2 DEF Inside, Busy
    <2> QED
        BY <2>0, <2>1, <2>4, <2>5 DEF InOrder, Inside, Busy, Given
<1>12. CASE UNCHANGED dirVars
    BY <1>12 DEF dirVars, InOrder, Given
<1> QED
    BY <1>1, <1>3, <1>4, <1>6, <1>7, <1>9, <1>10, <1>11, <1>12 DEF DirNext, dir_read

\* As long as calls do not overlap, every name is handed out once and in order
\* between two resets of the index, for any number of processes that open, read
\* and close the directory as they like.
THEOREM EveryNameOnce == DirSpec => []NamesHandedOutOnce
<1>1. DirInit => InOrder
    BY EntriesAssumption DEF DirInit, InOrder, Inside, Busy, Given
<1>2. DirTypeOK /\ InOrder => NamesHandedOutOnce
    <2> SUFFICES ASSUME DirTypeOK, InOrder, torn = 0
                 PROVE  /\ cycle = SubSeq(Listing, 1, Len(cycle))
                        /\ AtEnd => cycle = Listing
        BY DEF NamesHandedOutOnce
    <2> USE EntriesAssumption
    <2>1. /\ directory_index \in -1 .. num_file - 1
          /\ cycle \in Seq(FileName) /\ Len(cycle) \in Nat
          /\ \A k \in 1 .. Len(cycle) : cycle[k] = NameAt(k - 2)
        BY DEF InOrder, DirTypeOK
    <2>2. Len(cycle) <= num_file
        <3>1. CASE \E p \in Proc : Given(p)
            BY <2>1, <3>1 DEF InOrder, Given, Busy
        <3>2. CASE \A p \in Proc : ~Given(p)
            BY <2>1, <3>2 DEF InOrder
        <3> QED
            BY <3>1, <3>2
    <2>3. \A k \in 1 .. num_file : NameAt(k - 2) \in FileName
        <3> SUFFICES ASSUME NEW k \in 1 .. num_file PROVE NameAt(k - 2) \in FileName
            OBVIOUS
        <3>1. k - 2 # -1 => k - 2 \in 0 .. num_file - 1 + MAX_TORN
            BY BoundAssumption
        <3> QED
            BY <3>1, NameAssumption DEF NameAt
    <2>4. /\ Listing \in Seq(FileName) /\ Len(Listing) = num_file
          /\ \A k \in 1 .. num_file : Listing[k] = NameAt(k - 2)
        BY <2>3 DEF Listing
    <2>5. cycle = SubSeq(Listing, 1, Len(cycle))
        <3> DEFINE first == SubSeq(Listing, 1, Len(cycle))
        <3>1. \A k \in 1 .. Len(cycle) : Listing[k] \in FileName
            BY <2>1, <2>2, <2>3, <2>4
        <3>2. /\ first \in Seq(FileName) /\ Len(first) = Len(cycle)
              /\ \A k \in 1 .. Len(cycle) : first[k] = NameAt(k - 2)
            BY <2>1, <2>2, <2>4, <3>1, SubSeqProperties
        <3> HIDE DEF first
        <3>3. cycle = first
            BY <2>1, <3>2, SeqEqual
        <3> QED
            BY <3>3 DEF first
    <2>6. ASSUME AtEnd PROVE cycle = Listing
        <3>1. directory_index = num_file - 1
            BY <2>1, <2>6 DEF AtEnd
        <3>2. \A p \in Proc : ~Given(p)
            BY <3>1 DEF InOrder, Given, Busy
        <3>3. Len(cycle) = num_file
            BY <3>1, <3>2 DEF InOrder
        <3> QED
            BY <2>1, <2>4, <3>3, SeqEqual
    <2> QED
        BY <2>5, <2>6
<1>3. DirInv => DirTypeOK
    BY DEF DirInv
<1> QED
    BY <1>1, <1>2, <1>3, DirBegins, DirStep, OrderStep, PTL DEF DirSpec
==============================================================================
