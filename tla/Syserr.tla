------------------------------- MODULE Syserr -------------------------------
(***************************************************************************)
(* The repository's own test of the system calls' error paths, the user    *)
(* program syserr (ece391syserr.c), run in a PCB slot whose earlier        *)
(* processes did anything that Files allows.  A test is a sequence of      *)
(* calls, one action each; all but one test want every call to fail.       *)
(***************************************************************************)
EXTENDS Files

VARIABLES
    pc,       \* "none" while another program runs, "test", or "return"
    todo,     \* the tests that main has still to run
    at,       \* calls made by the first of them
    fail,     \* its calls that did what the test does not want
    failed,   \* the tests that have printed FAIL
    given     \* the tests that began with the last descriptor open

testVars == <<pc, todo, at, fail, failed, given>>
allVars == <<vars, testVars>>

SyserrInit ==
    /\ Init
    /\ pc = "none" /\ todo = <<>> /\ at = 0 /\ fail = 0
    /\ failed = {} /\ given = {}

slot == CHOOSE p \in Pid : TRUE   \* where it runs

-----------------------------------------------------------------------------
(* The tests *)

NEG_FD == -1
BIG_FD == END_OF_FDA + 1
EMPTY == "empty"    \* the empty name

\* The directory of the image has none of the names that err_open tries.
ASSUME SyserrAssumption ==
    /\ Pid # {}
    /\ "." \in Name /\ Name \cap {"helloo", "shel", EMPTY} = {}

Call(op, arg) == [op |-> op, arg |-> arg]
Calls(op, from, to) == [i \in 1 .. to - from + 1 |-> Call(op, from + i - 1)]

err_neg_fd == <<Call("read", NEG_FD), Call("write", NEG_FD), Call("close", NEG_FD)>>
err_big_fd == <<Call("read", BIG_FD), Call("write", BIG_FD), Call("close", BIG_FD)>>
err_open_lots ==
    [i \in 1 .. END_OF_FDA |-> Call("open", ".")] \o Calls("close", BEGINING_FDA, END_OF_FDA)
err_open == <<Call("open", "helloo"), Call("open", "shel"), Call("open", EMPTY)>>
err_unopened ==
    Calls("close", 0, END_OF_FDA) \o Calls("read", BEGINING_FDA, END_OF_FDA)
        \o Calls("write", BEGINING_FDA, END_OF_FDA)
err_vidmap == <<Call("vidmap", "null"), Call("vidmap", "kernel")>>
err_stdin_out == <<Call("write", 0), Call("read", 1)>>
err_syscall_num == <<Call("number", "big"), Call("number", "negative"), Call("number", "0")>>

Test == <<err_neg_fd, err_big_fd, err_open_lots, err_open, err_unopened,
          err_vidmap, err_stdin_out, err_syscall_num>>
OPEN_LOTS == 3
UNOPENED == 5

-----------------------------------------------------------------------------
(* The calls' results *)

STDIN == 3
STDOUT == 4

\* The operations behind a descriptor that always fail, and rtc_write, which
\* fails for other sizes than four bytes.
init_fops_table ==
    {<<"write", STDIN>>, <<"read", STDOUT>>, <<"write", FILE_TYPE>>, <<"write", DIR_TYPE>>,
     <<"write", RTC_TYPE>>}
Operations(fd) ==
    CASE fd = 0 -> STDIN [] fd = 1 -> STDOUT [] OTHER -> file_descriptor[slot][fd].type

IsOpen(fd) == fd \in {0, 1} \/ ~IsFree(slot, fd)
InRange(fd) == fd \in 0 .. END_OF_FDA

\* A name is looked up only if it is not empty: unused directory entries have
\* empty names.
NameGivenAlways(name) == TRUE
NameGiven(name) == name # EMPTY
Known(name) == name \in Name \cup {EMPTY}

Succeeds(call) ==
    \/ /\ call.op \in {"read", "write"}
       /\ InRange(call.arg) /\ IsOpen(call.arg)
       /\ <<call.op, Operations(call.arg)>> \notin init_fops_table
    \/ call.op = "close" /\ call.arg \in Fds /\ IsOpen(call.arg)
    \/ /\ call.op = "open"
       /\ NameGiven(call.arg) /\ Known(call.arg)
       /\ \E fd \in Fds : IsFree(slot, fd)
    \/ call.op = "vidmap" /\ call.arg = "user"   \* the address has to be in the user page
    \/ call.op = "number" /\ call.arg = "1..10"

\* The calls of the tests that change anything when they succeed; reads and
\* writes that succeed would be a test's failure already.
Effect(call) ==
    CASE Succeeds(call) /\ call.op = "open" ->
           \E fd \in Fds : open(slot, ".", fd)
      [] Succeeds(call) /\ call.op = "close" -> close(slot, call.arg)
      [] OTHER -> UNCHANGED vars

-----------------------------------------------------------------------------
(* The program *)

\* A test begins.
Begin(tests, bad) ==
    /\ todo' = tests
    /\ at' = 0 /\ fail' = 0
    /\ failed' = bad
    /\ pc' = IF tests = <<>> THEN "return" ELSE "test"
    /\ given' = IF tests # <<>> /\ ~IsFree(slot, END_OF_FDA)
                THEN given \cup {Head(tests)} ELSE given

\* The program starts, and its user chooses a test, all of them, or none.
main ==
    /\ pc = "none"
    /\ init_pcb(slot, "child")
    /\ \E tests \in {[k \in DOMAIN Test |-> k], <<>>} \cup {<<k>> : k \in DOMAIN Test} :
          Begin(tests, {})

\* A call of the test.  err_open_lots counts the opens that fail.
call_sys ==
    /\ pc = "test"
    /\ at < Len(Test[Head(todo)])
    /\ LET call == Test[Head(todo)][at + 1]
           counted == IF Head(todo) = OPEN_LOTS THEN call.op = "open" /\ ~Succeeds(call)
                                                ELSE Succeeds(call)
       IN fail' = (IF counted THEN fail + 1 ELSE fail) /\ Effect(call)
    /\ at' = at + 1
    /\ UNCHANGED <<pc, todo, failed, given>>

Wanted(test) == IF test = OPEN_LOTS THEN 1 ELSE 0
Verdict ==
    /\ pc = "test"
    /\ at = Len(Test[Head(todo)])
    /\ Begin(Tail(todo), IF fail = Wanted(Head(todo)) THEN failed ELSE failed \cup {Head(todo)})
    /\ UNCHANGED vars

Return ==
    /\ pc = "return"
    /\ halt(slot)
    /\ pc' = "none"
    /\ failed' = {} /\ given' = {}
    /\ UNCHANGED <<todo, at, fail>>

SyserrNext ==
    \/ pc = "none" /\ Next /\ UNCHANGED testVars
    \/ main \/ call_sys \/ Verdict \/ Return

SyserrSpec == SyserrInit /\ [][SyserrNext]_allVars

-----------------------------------------------------------------------------
(* Properties *)

\* Whatever ran in the slot before, the tests pass, in any choice and order
\* that main runs them, but for two: err_open_lots and err_unopened fail
\* exactly when they begin with the last descriptor open, which init_pcb does
\* not clear.
TestsPass == pc = "return" => failed = given \cap {OPEN_LOTS, UNOPENED}

-----------------------------------------------------------------------------
(* The inductive invariant behind it.                                       *)

\* What a test finds open, and the last descriptor that it can open.
Left(test) == IF test \in given THEN {END_OF_FDA} ELSE {}
Limit(test) == IF test \in given THEN END_OF_FDA - 1 ELSE END_OF_FDA

\* What is open, and what has gone wrong, after n calls of a test.
OpenAfter(test, n) ==
    CASE test = OPEN_LOTS /\ n <= END_OF_FDA ->
           BEGINING_FDA .. Shorter(n + 1, Limit(test)) \cup Left(test)
      [] test = OPEN_LOTS /\ n > END_OF_FDA -> n - END_OF_FDA + BEGINING_FDA .. END_OF_FDA
      [] test = UNOPENED /\ n > END_OF_FDA -> {}
      [] OTHER -> Left(test)
FailsAfter(test, n) ==
    CASE test = OPEN_LOTS ->
           IF n < Limit(test) THEN 0 ELSE Shorter(n, END_OF_FDA) - (Limit(test) - 1)
      [] test = UNOPENED -> IF n > END_OF_FDA /\ test \in given THEN 1 ELSE 0
      [] OTHER -> 0

\* The tests still to run are in order, so that none is run twice; those that
\* have run have been judged right.
OnTest ==
    LET test == Head(todo)
    IN /\ todo \in Seq(DOMAIN Test) \ {<<>>}
       /\ \A i, j \in DOMAIN todo : i < j => todo[i] < todo[j]
       /\ \A k \in given : k <= test
       /\ failed = (given \cap {OPEN_LOTS, UNOPENED}) \ {test}
       /\ at \in 0 .. Len(Test[test])
       /\ fail = FailsAfter(test, at)
       /\ {fd \in Fds : ~IsFree(slot, fd)} = OpenAfter(test, at)
TestInv ==
    /\ pc \in {"none", "test", "return"}
    /\ given \subseteq DOMAIN Test
    /\ pc = "none" => given = {}
    /\ pc # "none" => Running(slot)
    /\ pc = "test" => OnTest
    /\ TestsPass
==============================================================================
