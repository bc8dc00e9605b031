-------------------------------- MODULE Files --------------------------------
(***************************************************************************)
(* File descriptors (system_call.c) and the data of the read-only file     *)
(* system (file_sys.c).  Every PCB slot has a table of descriptors, which  *)
(* execute initialises (init_pcb), open, close and read change, and halt   *)
(* closes.  A process touches its own table only, so a call is one action. *)
(* PCBs lie in memory that is zero after boot and is never cleared again.  *)
(***************************************************************************)
EXTENDS Integers, Sequences

CONSTANTS
    Pid,             \* PCB slots
    END_OF_FDA,      \* the last descriptor, 7
    KB4, KB,         \* bytes of a block, words of an inode
    DATA_BLOCK_NUM,  \* data blocks of the image
    Name,            \* the names in the directory
    file_type_, inode_num_,  \* of each name
    length_,         \* of each inode: its length in bytes ...
    data_block_,     \* ... and the number of its data blocks, 0 to KB - 2
    NBytes           \* the sizes that programs read with

RTC_TYPE == 0
DIR_TYPE == 1
FILE_TYPE == 2
BEGINING_FDA == 2

Fds == BEGINING_FDA .. END_OF_FDA  \* 0 and 1 are open for good
Inode == DOMAIN length_

ASSUME TableAssumption == END_OF_FDA \in Nat /\ END_OF_FDA >= BEGINING_FDA
ASSUME BlockAssumption == KB4 \in Nat \ {0} /\ KB \in Nat /\ KB > 2 /\ DATA_BLOCK_NUM \in Nat
ASSUME DirectoryAssumption ==
    /\ file_type_ \in [Name -> {RTC_TYPE, DIR_TYPE, FILE_TYPE}]
    /\ inode_num_ \in [Name -> Inode]
\* Files end before block KB - 2 and before as many blocks as the image has:
\* read_data stops at both.
ASSUME ImageAssumption ==
    /\ NBytes \subseteq Nat
    /\ length_ \in [Inode -> Nat]
    /\ data_block_ \in [Inode -> [0 .. KB - 2 -> 0 .. DATA_BLOCK_NUM - 1]]
    /\ \A i \in Inode : length_[i] <= (KB - 2) * KB4 /\ length_[i] <= DATA_BLOCK_NUM * KB4

VARIABLES
    role,             \* of each slot: "none", a "base" shell, or a "child"
    file_descriptor,  \* of each slot: its descriptors
    seen,             \* of each descriptor: what was read from it since open
    own               \* of each slot: the descriptors its process opened

vars == <<role, file_descriptor, seen, own>>

Closed == [type |-> FILE_TYPE, inode_ |-> 0, file_position_ |-> 0, flags_ |-> 0]

Init ==
    /\ role = [p \in Pid |-> "none"]
    /\ file_descriptor = [p \in Pid |-> [fd \in Fds |-> Closed]]
    /\ seen = [p \in Pid |-> [fd \in Fds |-> <<>>]]
    /\ own = [p \in Pid |-> {}]

-----------------------------------------------------------------------------
(* read_data *)

\* A byte is represented by its place in the image.
Byte(block, offset) == block * KB4 + offset

\* One round of the copying loop; at the end of a block it turns to the next.
\* Nothing compares with the length of the file.
BlockDoneEarly(offset) == offset = KB4 - 1
BlockDone(offset) == offset = KB4
AtLimit(s) == s.block_index = KB - 2 \/ DATA_BLOCK_NUM <= s.block_index
CopyByte(inode, s) ==
    LET block == IF BlockDone(s.offset) THEN s.block_index + 1 ELSE s.block_index
        offset == IF BlockDone(s.offset) THEN 0 ELSE s.offset
    IN [block_index |-> block,
        offset |-> offset + 1,
        data |-> Append(s.data, Byte(data_block_[inode][block], offset))]

read_data(inode, position, length) ==
    LET loop[i \in 0 .. length] ==
          IF i = 0
          THEN [block_index |-> position \div KB4, offset |-> position % KB4, data |-> <<>>]
          ELSE IF AtLimit(loop[i - 1]) THEN loop[i - 1] ELSE CopyByte(inode, loop[i - 1])
    IN IF position >= length_[inode] THEN <<>> ELSE loop[length].data

-----------------------------------------------------------------------------
(* System calls *)

Running(p) == role[p] # "none"

\* init_pcb.  The loop that clears the flags stops before the last one.
ClearedLess == BEGINING_FDA + 1 .. END_OF_FDA - 1
Cleared == BEGINING_FDA .. END_OF_FDA - 1
init_pcb(p, r) ==
    /\ role[p] = "none"
    /\ role' = [role EXCEPT ![p] = r]
    /\ file_descriptor' = [file_descriptor EXCEPT ![p] =
          [fd \in Fds |-> IF fd \in Cleared THEN [@[fd] EXCEPT !.flags_ = 0] ELSE @[fd]]]
    /\ seen' = [seen EXCEPT ![p] = [fd \in Fds |-> <<>>]]
    /\ own' = [own EXCEPT ![p] = {}]

\* The directory entry of a name.
read_dentry_by_name(name) == [type |-> file_type_[name], inode |-> inode_num_[name]]

\* open takes the first descriptor that is free, and fails if there is none.
IsFree(p, fd) == file_descriptor[p][fd].flags_ = 0
open(p, name, fd) ==
    /\ Running(p)
    /\ IsFree(p, fd)
    /\ \A k \in Fds : k < fd => ~IsFree(p, k)
    /\ file_descriptor' = [file_descriptor EXCEPT ![p][fd] =
          [type |-> read_dentry_by_name(name).type,
           inode_ |-> IF read_dentry_by_name(name).type = FILE_TYPE
                      THEN read_dentry_by_name(name).inode ELSE 0,
           file_position_ |-> 0,
           flags_ |-> 1]]
    /\ seen' = [seen EXCEPT ![p][fd] = <<>>]
    /\ own' = [own EXCEPT ![p] = @ \cup {fd}]
    /\ UNCHANGED role

\* close clears all but the operations, which it calls.
ClosedEntry(entry) == [entry EXCEPT !.inode_ = 0, !.file_position_ = 0, !.flags_ = 0]
close(p, fd) ==
    /\ Running(p)
    /\ ~IsFree(p, fd)
    /\ file_descriptor' = [file_descriptor EXCEPT ![p][fd] = ClosedEntry(@)]
    /\ seen' = [seen EXCEPT ![p][fd] = <<>>]
    /\ own' = [own EXCEPT ![p] = @ \ {fd}]
    /\ UNCHANGED role

\* read on a file; the position moves by what was read.  (The position of a directory
\* or of the RTC is never used.)
file_read(entry, nbytes) == read_data(entry.inode_, entry.file_position_, nbytes)
AdvanceFails(position, count) == IF count = 0 THEN position - 1 ELSE position + count
Advance(position, count) == position + count
read(p, fd, nbytes) ==
    LET entry == file_descriptor[p][fd]
        data == file_read(entry, nbytes)
    IN /\ Running(p)
       /\ ~IsFree(p, fd)
       /\ entry.type = FILE_TYPE
       /\ file_descriptor' = [file_descriptor EXCEPT ![p][fd].file_position_ =
             Advance(@, Len(data))]
       /\ seen' = [seen EXCEPT ![p][fd] = @ \o data]
       /\ UNCHANGED <<role, own>>

\* halt closes the files of a child; a base shell restarts without that.
halt(p) ==
    /\ Running(p)
    /\ role' = [role EXCEPT ![p] = "none"]
    /\ file_descriptor' =
          IF role[p] = "base" THEN file_descriptor
          ELSE [file_descriptor EXCEPT ![p] =
                  [fd \in Fds |-> IF IsFree(p, fd) THEN @[fd] ELSE ClosedEntry(@[fd])]]
    /\ UNCHANGED <<seen, own>>

Next ==
    \E p \in Pid :
       \/ \E r \in {"base", "child"} : init_pcb(p, r)
       \/ \E name \in Name, fd \in Fds : open(p, name, fd)
       \/ \E fd \in Fds : close(p, fd)
       \/ \E fd \in Fds, n \in NBytes : read(p, fd, n)
       \/ halt(p)

Spec == Init /\ [][Next]_vars

-----------------------------------------------------------------------------
(* Properties *)

Descriptor == [type : {RTC_TYPE, DIR_TYPE, FILE_TYPE}, inode_ : Inode \cup {0},
               file_position_ : Nat, flags_ : {0, 1}]

\* Descriptors are well formed: a read at the end of a file, which finds nothing,
\* does not move the position back.
TypeOK ==
    /\ role \in [Pid -> {"none", "base", "child"}]
    /\ file_descriptor \in [Pid -> [Fds -> Descriptor]]
    /\ seen \in [Pid -> [Fds -> Seq(Nat)]]
    /\ own \in [Pid -> SUBSET Fds]

\* What a file holds, block by block.
Content(inode) ==
    [n \in 1 .. length_[inode] |->
        Byte(data_block_[inode][(n - 1) \div KB4], (n - 1) % KB4)]

Shorter(m, n) == IF m <= n THEN m ELSE n

\* Reads of any sizes, one after the other, return the bytes of the file from
\* the first one on, none twice and none left out, as far as the file goes.
ReadsContent ==
    \A p \in Pid : \A fd \in own[p] :
       LET entry == file_descriptor[p][fd]
           both == Shorter(Len(seen[p][fd]), length_[entry.inode_])
       IN entry.type = FILE_TYPE /\ Running(p) =>
            \A k \in 1 .. both : seen[p][fd][k] = Content(entry.inode_)[k]

\* A process never finds a descriptor open that it did not open itself, the
\* last one excepted: what the slot's previous process left is closed by halt,
\* or cleared by init_pcb after a base shell, whose halt closes nothing.
OnlyOwnFiles ==
    \A p \in Pid : Running(p) =>
       \A fd \in Fds \ {END_OF_FDA} : ~IsFree(p, fd) => fd \in own[p]

-----------------------------------------------------------------------------
(* The inductive invariant behind ReadsContent.                             *)

\* Byte n, from 0, of the blocks that an inode lists.
ByteAt(inode, n) == Byte(data_block_[inode][n \div KB4], n % KB4)

\* An open file has an inode, and the position of one that the process opened
\* itself says how many bytes were read from it: those of its blocks, also past
\* the end of the file.
Open(p, fd) == ~IsFree(p, fd) /\ file_descriptor[p][fd].type = FILE_TYPE
PositionCounts ==
    \A p \in Pid, fd \in Fds :
       /\ Open(p, fd) => file_descriptor[p][fd].inode_ \in Inode
       /\ Running(p) /\ fd \in own[p] => ~IsFree(p, fd)
       /\ Running(p) /\ fd \in own[p] /\ Open(p, fd) =>
            /\ file_descriptor[p][fd].file_position_ = Len(seen[p][fd])
            /\ \A k \in 1 .. Len(seen[p][fd]) :
                  seen[p][fd][k] = ByteAt(file_descriptor[p][fd].inode_, k - 1)
==============================================================================
