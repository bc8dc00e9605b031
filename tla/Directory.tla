------------------------------ MODULE Directory ------------------------------
(***************************************************************************)
(* dir_read (file_sys.c): the names of the directory, one per call.  The   *)
(* place in the listing is one variable of the kernel, directory_index,    *)
(* that all descriptors of all processes share; open and close leave it    *)
(* alone.  A call is interruptible: the tests, the reset, the copying of   *)
(* the name, and the load and the store of directory_index++ are actions   *)
(* of their own.                                                           *)
(***************************************************************************)
EXTENDS Integers, Sequences, FiniteSets

CONSTANTS
    Proc,          \* processes that list the directory
    num_file,      \* entries of the directory, "." included
    file_name_(_), \* what the bytes of dentry_[n] spell, beyond the entries too
    FileName,      \* the names there can be, the empty one included
    PERIOD, NO_NAME, \* the names "." and ""
    MAX_READ,      \* bound: names that a process reads after one open
    MAX_TORN       \* bound: calls of dir_read while another process is inside it

ASSUME ProcAssumption == IsFiniteSet(Proc)
ASSUME EntriesAssumption == num_file \in Nat \ {0}
ASSUME BoundAssumption == MAX_READ \in Nat /\ MAX_TORN \in Nat

\* Of the image: dentry_ begins with the other num_file - 1 entries, which have
\* names.  (What comes after them is empty in the image of the repository.)
ASSUME NameAssumption ==
    /\ PERIOD \in FileName \ {NO_NAME}
    /\ \A n \in 0 .. num_file - 1 + MAX_TORN : file_name_(n) \in FileName
    /\ \A n \in 0 .. num_file - 2 : file_name_(n) # NO_NAME

VARIABLES
    directory_index,
    dpc, reg,    \* of each process: its place, and the register of the increment
    got,         \* of each process: the names it was given since it opened "."
    cycle,       \* the names given to anyone since the index was last reset
    torn         \* calls of dir_read while another process was inside it

dirVars == <<directory_index, dpc, reg, got, cycle, torn>>

\* The name at an index: the entry in front of dentry_ is dir_dentry_, ".".
NameAt(n) == IF n = -1 THEN PERIOD ELSE file_name_(n)
Listing == [k \in 1 .. num_file |-> NameAt(k - 2)]

DirInit ==
    /\ directory_index = -1
    /\ dpc = [p \in Proc |-> "closed"]
    /\ reg = [p \in Proc |-> 0]
    /\ got = [p \in Proc |-> <<>>]
    /\ cycle = <<>>
    /\ torn = 0

Busy == {"select", "dot", "copy", "load", "load_empty", "store", "store_empty"}
Inside == Busy \cup {"reset"}
DirPC == Inside \cup {"closed", "open", "end"}

Goto(p, from, to) == dpc[p] = from /\ dpc' = [dpc EXCEPT ![p] = to]

\* dir_read is called; is another process inside it?
Enter(p, to) ==
    /\ Goto(p, "open", to)
    /\ IF \E q \in Proc \ {p} : dpc[q] \in Inside
       THEN torn < MAX_TORN /\ torn' = torn + 1
       ELSE torn' = torn

\* A process opens the directory, and closes it whenever it likes.
dir_open(p) ==
    /\ Goto(p, "closed", "open")
    /\ got' = [got EXCEPT ![p] = <<>>]
    /\ UNCHANGED <<directory_index, reg, cycle, torn>>
dir_close(p) ==
    /\ Goto(p, "open", "closed") \/ Goto(p, "end", "closed")
    /\ UNCHANGED <<directory_index, reg, got, cycle, torn>>

\* At the end the call resets the index, for the next listing, and returns 0.
AtEndEarly == directory_index >= num_file - 2
AtEndLate == directory_index > num_file - 1
AtEnd == directory_index >= num_file - 1
ReadEnd(p) ==
    /\ Enter(p, "reset")
    /\ AtEnd
    /\ UNCHANGED <<directory_index, reg, got, cycle>>
ReadReset(p) ==
    /\ Goto(p, "reset", "end")
    /\ directory_index' = -1
    /\ cycle' = <<>>
    /\ UNCHANGED <<reg, got, torn>>

\* Otherwise it tells the directory itself from the entries of dentry_ ...
ReadTest(p) ==
    /\ Enter(p, "select")
    /\ ~AtEnd
    /\ Len(got[p]) < MAX_READ
    /\ UNCHANGED <<directory_index, reg, got, cycle>>
ReadSelect(p) ==
    /\ Goto(p, "select", IF directory_index = -1 THEN "dot" ELSE "copy")
    /\ UNCHANGED <<directory_index, reg, got, cycle, torn>>

\* ... and copies a name.  The call will return the name's length: a process
\* that is given the empty name takes it for the end.
Copies(p, from, name) ==
    /\ Goto(p, from, IF name = NO_NAME THEN "load_empty" ELSE "load")
    /\ got' = IF name = NO_NAME THEN got ELSE [got EXCEPT ![p] = Append(@, name)]
    /\ cycle' = IF name = NO_NAME THEN cycle ELSE Append(cycle, name)
    /\ UNCHANGED <<directory_index, reg, torn>>
ReadDot(p) == Copies(p, "dot", PERIOD)
ReadCopy(p) == Copies(p, "copy", NameAt(directory_index))

ReadLoad(p) ==
    /\ Goto(p, "load", "store") \/ Goto(p, "load_empty", "store_empty")
    /\ reg' = [reg EXCEPT ![p] = directory_index]
    /\ UNCHANGED <<directory_index, got, cycle, torn>>
ReadStore(p) ==
    /\ Goto(p, "store", "open") \/ Goto(p, "store_empty", "end")
    /\ directory_index' = reg[p] + 1
    /\ reg' = [reg EXCEPT ![p] = 0]
    /\ UNCHANGED <<got, cycle, torn>>

dir_read(p) ==
    \/ ReadEnd(p) \/ ReadReset(p)
    \/ ReadTest(p) \/ ReadSelect(p) \/ ReadDot(p) \/ ReadCopy(p)
    \/ ReadLoad(p) \/ ReadStore(p)

DirNext == \E p \in Proc : dir_open(p) \/ dir_close(p) \/ dir_read(p)

DirSpec == DirInit /\ [][DirNext]_dirVars

-----------------------------------------------------------------------------
(* Properties *)

\* The index from which dir_read copies a name unchecked stays in front of the
\* entries' end: only a call that overlaps another can carry it one further.
DirTypeOK ==
    /\ directory_index \in -1 .. num_file - 1 + torn
    /\ dpc \in [Proc -> DirPC]
    /\ reg \in [Proc -> Int]
    /\ got \in [Proc -> Seq(FileName)]
    /\ cycle \in Seq(FileName)
    /\ torn \in 0 .. MAX_TORN

\* As long as calls do not overlap, the shared index loses no name: between
\* two reports of the end every entry was handed out once and in order, to one
\* process or another, whatever was opened and closed meanwhile.
NamesHandedOutOnce ==
    torn = 0 =>
      /\ cycle = SubSeq(Listing, 1, Len(cycle))
      /\ AtEnd => cycle = Listing

-----------------------------------------------------------------------------
(* The inductive invariant behind the above.                               *)

BusyProcs == {p \in Proc : dpc[p] \in Busy}
InsideProcs == {p \in Proc : dpc[p] \in Inside}

\* Every process inside, save one, has counted an overlap, and is yet to add 1
\* at most to the index, as it is or as a process has loaded it.
IndexBound ==
    /\ Cardinality(InsideProcs) <= torn + 1
    /\ directory_index + Cardinality(BusyProcs) <= num_file - 1 + torn
    /\ \A p \in Proc : dpc[p] \in {"store", "store_empty"} =>
          reg[p] >= -1 /\ reg[p] + Cardinality(BusyProcs) <= num_file - 1 + torn

Given(p) == dpc[p] \in {"load", "store"}   \* p has its name, the index not yet

\* Without overlap one process at a time is inside dir_read; the names handed
\* out are the first ones of the listing, up to the index and, if somebody has
\* just been given a name, one more.
InOrder ==
    torn = 0 =>
      /\ \A p, q \in Proc : dpc[p] \in Inside /\ dpc[q] \in Inside => p = q
      /\ \A p \in Proc :
            /\ dpc[p] \in Busy => directory_index < num_file - 1
            /\ dpc[p] = "dot" => directory_index = -1
            /\ dpc[p] \notin {"load_empty", "store_empty"}
            /\ dpc[p] = "store" => reg[p] = directory_index
            /\ Given(p) => Len(cycle) = directory_index + 2
      /\ (\A p \in Proc : ~Given(p)) => Len(cycle) = directory_index + 1
      /\ \A k \in 1 .. Len(cycle) : cycle[k] = NameAt(k - 2)
==============================================================================
