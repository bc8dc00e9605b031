-------------------------------- MODULE Shell --------------------------------
(***************************************************************************)
(* What becomes of a command: the shell (ece391shell.c) reads a line,      *)
(* execute parses it, looks its first word up and starts the program, the  *)
(* program fetches its argument with getargs, and its end comes back to    *)
(* the shell as the value of execute.                                      *)
(*                                                                         *)
(* execute runs under cli and is one action.  The end of a program is not  *)
(* protected: global_halt, one flag for all terminals, is set, tested and  *)
(* cleared in steps of their own, between which the scheduler may run      *)
(* another terminal.  So is the launch of a base shell, at boot and after  *)
(* its halt: other terminals may run before it, and take the last pid.     *)
(* Process has the details of pids, pages and stacks, and says when        *)
(* process_counter is exact; here it is.                                   *)
(***************************************************************************)
EXTENDS Integers, SequencesExt

CONSTANTS
    Terminals,
    MAX_PID,        \* the largest pid, 5 in system_call.h
    MAX_FILE_LEN,   \* characters of a file name, 32
    MAX_ARG_LEN,    \* characters of the array arg, 128
    Char,
    SHELL, EXIT,    \* the names "shell" and "exit"
    Kind,           \* of each name in the directory, what its inode holds
    Lines,          \* Lines[t]: what is typed on terminal t
    Sizes           \* the values of nbytes in calls of getargs

\* Kinds of inodes: a file with the magic number of an executable, another
\* file, and one of fewer than four bytes.  The entries of "rtc" and "." and
\* the unused entries, whose name is empty, all lead to inode 0, which is empty.
Kinds == {"exe", "other", "short"}

SPACE == " "

ASSUME ShellAssumption ==
    /\ MAX_PID \in Nat /\ MAX_FILE_LEN \in Nat \ {0}
    /\ MAX_ARG_LEN \in Nat /\ MAX_ARG_LEN > MAX_FILE_LEN
    /\ SPACE \in Char
    /\ Kind \in [DOMAIN Kind -> Kinds]
    /\ SHELL \in DOMAIN Kind /\ Kind[SHELL] = "exe" /\ Kind[<<>>] = "short"
    /\ EXIT \notin DOMAIN Kind
    /\ \A name \in DOMAIN Kind : name \in Seq(Char \ {SPACE}) /\ Len(name) <= MAX_FILE_LEN
    /\ \A t \in Terminals : Lines[t] \subseteq Seq(Char)
    /\ Sizes \subseteq Int
    /\ IsFiniteSet(Terminals)

VARIABLES
    stack,          \* stack[t]: the processes of terminal t, its base shell first
    global_halt,
    message,        \* message[t]: what the shell said of the last command
    got,            \* got[t]: the result of the running program's last getargs
    end,            \* end[t]: how the last program really ended
    stale,          \* a Ctrl-C has left global_halt set for nobody
    fault           \* the kernel followed a NULL pcb, or a process has pid -1

vars == <<stack, global_halt, message, got, end, stale, fault>>

\* Where a process is: a shell at its "prompt", with a line ("line"), or in
\* execute ("wait"); a program that runs ("run"); any of them in halt ("halt");
\* a shell at the label return of execute, before the test of global_halt
\* ("test") and between test and reset ("clear").  A base shell that is still to
\* be executed, on a terminal without a process, is at "launch".
Ending == {"halt", "test", "clear"}
PC == {"launch", "prompt", "line", "wait", "run"} \cup Ending

\* How a program ends without an exception: by halt, with status 0 or another,
\* or by Ctrl-C.
Halts == {"exit", "abnormal"}
Ordinary == Halts \cup {"ctrl-c"}
Ends == {"none", "failed", "exception", "unsure"} \cup Ordinary
Messages == {"none", "no such command", "exception", "abnormally"}

\* A process: the name it was started by, its place, the line in its buffer,
\* and the array arg of the frame of execute on its kernel stack.
Started(name) ==
    [name |-> name, pc |-> IF name = SHELL THEN "prompt" ELSE "run", buf |-> <<>>, arg |-> <<>>]
Awaited == [Started(SHELL) EXCEPT !.pc = "launch"]

NOTHING == [ret |-> 0, buf |-> <<>>]

Top(t) == Last(stack[t])
IsBase(t) == Len(stack[t]) = 1
At(t, pc) == Top(t).pc = pc

Init ==
    /\ stack = [t \in Terminals |-> <<Awaited>>]
    /\ global_halt = FALSE
    /\ message = [t \in Terminals |-> "none"]
    /\ got = [t \in Terminals |-> NOTHING]
    /\ end = [t \in Terminals |-> "none"]
    /\ stale = FALSE
    /\ fault = FALSE

\* The number of processes less one.
Processes(t) == IF At(t, "launch") THEN 0 ELSE Len(stack[t])
process_counter == MapThenSumSet(Processes, Terminals) - 1

-----------------------------------------------------------------------------
(* Strings *)

\* The first index from i on whose character is, or is not, a blank; one past
\* the end if there is none.
FirstFrom(line, i, blank) ==
    CHOOSE k \in i .. Len(line) + 1 :
       /\ k = Len(line) + 1 \/ (line[k] = SPACE) = blank
       /\ \A j \in i .. k - 1 : (line[j] = SPACE) # blank

ArgBeginNaive(line, stop) == stop + 1
ArgBegin(line, stop) == FirstFrom(line, stop, FALSE)
parse(line) ==
    LET begin == FirstFrom(line, 1, FALSE)
        stop == FirstFrom(line, begin, TRUE)
        argBegin == ArgBegin(line, stop)
        length == stop - begin
        argLen == Len(line) + 1 - argBegin
    IN [ok |-> length <= MAX_FILE_LEN /\ argLen <= MAX_ARG_LEN - length,
        filename |-> SubSeq(line, begin, stop - 1),
        arg |-> SubSeq(line, argBegin, Len(line))]

\* Is the file an executable?  Of an inode of fewer than four bytes nothing or
\* too little is read, and the rest of the array that is compared with the
\* magic number is what earlier calls have left on the stack.
isExe(name) ==
    CASE Kind[name] = "exe" -> {TRUE} [] Kind[name] = "other" -> {FALSE}
      [] Kind[name] = "short" -> BOOLEAN

\* The file is found.  A name as long as its array is ended by a byte outside
\* of it, which need not be 0 any more when the name is compared.
read_dentry_by_name(name) ==
    CASE name \notin DOMAIN Kind -> {FALSE}
      [] name \in DOMAIN Kind /\ Len(name) = MAX_FILE_LEN -> BOOLEAN
      [] OTHER -> {TRUE}

-----------------------------------------------------------------------------
(* The shell *)

\* What execute returns once its program has ended, and what the shell says of
\* a value that execute returns.
EXCEPTION_256 == 256
Returned(flag) == IF flag THEN EXCEPTION_256 ELSE 0
Said(rval) ==
    CASE rval = -1 -> "no such command" [] rval = 256 -> "exception"
      [] rval = 0 -> "none" [] OTHER -> "abnormally"

\* execute("shell") by the scheduler or by halt.  It passes the limit; without
\* a vacant pid it goes on with pid -1.
Launch(t) ==
    /\ At(t, "launch")
    /\ process_counter < MAX_PID
    /\ stack' = [stack EXCEPT ![t] = <<Started(SHELL)>>]
    /\ UNCHANGED <<global_halt, message, got, end, stale>>
LaunchFaults(t) ==
    /\ At(t, "launch")
    /\ process_counter = MAX_PID
    /\ UNCHANGED <<stack, global_halt, message, got, end, stale>>

SetTop(t, process) == [stack EXCEPT ![t] = Append(Front(@), process)]
Goto(t, pc) == SetTop(t, [Top(t) EXCEPT !.pc = pc])
Caller(t) == Last(Front(stack[t]))
PopTo(t, process) == [stack EXCEPT ![t] = Append(Front(Front(@)), process)]

\* Back to the prompt: the frame of execute is gone, and the next line will
\* replace the one in the buffer.
Prompt(process) == [process EXCEPT !.pc = "prompt", !.buf = <<>>, !.arg = <<>>]

ReadLine(t) ==
    /\ At(t, "prompt")
    /\ \E line \in Lines[t] :
          stack' = SetTop(t, [Top(t) EXCEPT !.pc = "line", !.buf = line])
    /\ message' = [message EXCEPT ![t] = "none"]
    /\ end' = [end EXCEPT ![t] = "none"]
    /\ UNCHANGED <<global_halt, got, stale>>

\* An empty line.
Continue(t) ==
    /\ At(t, "line")
    /\ Top(t).buf = <<>>
    /\ stack' = SetTop(t, Prompt(Top(t)))
    /\ UNCHANGED <<global_halt, message, got, end, stale>>

Executes(t) == At(t, "line") /\ Top(t).buf # EXIT /\ Top(t).buf # <<>>

\* The limit, which a command called exit passes.
MaxReached(name) == process_counter = MAX_PID /\ name # EXIT

ExecuteFails(t) ==
    /\ Executes(t)
    /\ LET p == parse(Top(t).buf)
       IN \/ ~p.ok
          \/ MaxReached(p.filename)
          \/ FALSE \in read_dentry_by_name(p.filename)
          \/ p.filename \in DOMAIN Kind /\ FALSE \in isExe(p.filename)
    /\ stack' = SetTop(t, Prompt(Top(t)))
    /\ message' = [message EXCEPT ![t] = Said(-1)]
    /\ end' = [end EXCEPT ![t] = "failed"]
    /\ UNCHANGED <<global_halt, got, stale>>

Execute(t) ==
    /\ Executes(t)
    /\ LET p == parse(Top(t).buf)
       IN /\ p.ok
          /\ ~MaxReached(p.filename)
          /\ TRUE \in read_dentry_by_name(p.filename)
          /\ TRUE \in isExe(p.filename)
          /\ stack' = [stack EXCEPT ![t] =
                Append(SetTop(t, [Top(t) EXCEPT !.pc = "wait", !.arg = p.arg])[t],
                       Started(p.filename))]
    /\ got' = [got EXCEPT ![t] = NOTHING]
    /\ UNCHANGED <<global_halt, message, end, stale>>

-----------------------------------------------------------------------------
(* A program *)

\* The argument of a process is in the frame of its parent's execute.
ArgumentStuck(t) == Head(stack[t]).arg
Argument(t) == Caller(t).arg

\* strncpy copies up to n characters; getargs succeeds if that includes the
\* terminator.
AnswerCount(arg, n) ==
    IF n <= 0 \/ arg = <<>> THEN [ret |-> -1, buf |-> <<>>]
    ELSE [ret |-> Len(arg), buf |-> arg]
Answer(arg, n) ==
    CASE n <= 0 \/ arg = <<>> -> [ret |-> -1, buf |-> <<>>]
      [] n \in 1 .. Len(arg) -> [ret |-> -1, buf |-> SubSeq(arg, 1, n)]
      [] OTHER -> [ret |-> 0, buf |-> arg]
getargs(t, n) ==
    /\ At(t, "run")
    /\ got' = [got EXCEPT ![t] = Answer(Argument(t), n)]
    /\ UNCHANGED <<stack, global_halt, message, end, stale>>

\* Programs of two terminals end at the same time, and one by an exception:
\* either may see the flag of the other.
Others(t) == {u \in Terminals \ {t} : Top(u).pc \in Ending}
Clash(t, how) ==
    stale \/ (Others(t) # {} /\ (how = "exception" \/ \E u \in Others(t) : end[u] \notin Ordinary))
EndOf(t, how) ==
    [u \in Terminals |-> CASE Clash(t, how) /\ u \in Others(t) \cup {t} -> "unsure"
                           [] ~Clash(t, how) /\ u = t -> how
                           [] OTHER -> end[u]]

\* halt, by the program with what its main returns, or by the shell on the line
\* exit, with 0.
halt(t, how) ==
    /\ At(t, "run") \/ (At(t, "line") /\ Top(t).buf = EXIT /\ how = "exit")
    /\ stack' = Goto(t, "halt")
    /\ end' = EndOf(t, how)
    /\ UNCHANGED <<global_halt, message, got, stale>>

Exception(t) ==
    /\ At(t, "run")
    /\ global_halt' = TRUE
    /\ stack' = Goto(t, "halt")
    /\ end' = EndOf(t, "exception")
    /\ UNCHANGED <<message, got, stale>>

\* The rest of halt: a terminal without its base shell is to execute a new one,
\* and otherwise the parent is the terminal's process again.  The status gets
\* into global_status, which nobody reads.
HaltBase(t) ==
    /\ At(t, "halt")
    /\ IsBase(t)
    /\ stack' = [stack EXCEPT ![t] = <<Awaited>>]
    /\ end' = [end EXCEPT ![t] = "none"]
    /\ UNCHANGED <<global_halt, message, got, stale>>
HaltPop(t) ==
    /\ At(t, "halt")
    /\ ~IsBase(t)
    /\ stack' = PopTo(t, [Caller(t) EXCEPT !.pc = "test"])
    /\ got' = [got EXCEPT ![t] = NOTHING]
    /\ UNCHANGED <<global_halt, message, end, stale>>

\* The label return of execute, and what the shell says.
TestHalt(t) ==
    /\ At(t, "test")
    /\ stack' = SetTop(t, IF global_halt THEN [Top(t) EXCEPT !.pc = "clear"] ELSE Prompt(Top(t)))
    /\ message' = IF global_halt THEN message ELSE [message EXCEPT ![t] = Said(Returned(FALSE))]
    /\ UNCHANGED <<global_halt, got, end, stale>>
ClearedNot == global_halt
Cleared == FALSE
ClearHalt(t) ==
    /\ At(t, "clear")
    /\ global_halt' = Cleared
    /\ stale' = FALSE
    /\ stack' = SetTop(t, Prompt(Top(t)))
    /\ message' = [message EXCEPT ![t] = Said(Returned(TRUE))]
    /\ UNCHANGED <<got, end>>

-----------------------------------------------------------------------------
(* Ctrl-C: the whole of halt, with status 2, and of execute or its return.  *)
(* The process it ends may be one in halt, or one whose execute is about to *)
(* return.                                                                  *)

\* Before the terminal has a process.
CtrlCFaults(t) ==
    /\ At(t, "launch")
    /\ UNCHANGED <<stack, global_halt, message, got, end, stale>>

CtrlCBase(t) ==
    /\ IsBase(t)
    /\ ~At(t, "launch")
    /\ stack' = [stack EXCEPT ![t] = <<Started(SHELL)>>]
    /\ message' = [message EXCEPT ![t] = "none"]
    /\ end' = [end EXCEPT ![t] = "none"]
    /\ stale' = (stale \/ (global_halt /\ Top(t).pc \in {"test", "clear"}))
    /\ UNCHANGED <<global_halt, got>>

CtrlCChild(t) ==
    /\ ~IsBase(t)
    /\ stack' = PopTo(t, Prompt(Caller(t)))
    /\ message' = [message EXCEPT ![t] = Said(Returned(global_halt))]
    /\ end' = IF At(t, "halt") THEN EndOf(t, end[t])
              ELSE IF At(t, "test") \/ At(t, "clear") THEN [end EXCEPT ![t] = "unsure"]
              ELSE EndOf(t, "ctrl-c")
    /\ global_halt' = FALSE
    /\ stale' = FALSE
    /\ got' = [got EXCEPT ![t] = NOTHING]

-----------------------------------------------------------------------------
Step(t) ==
    \/ Launch(t)
    \/ ReadLine(t) \/ Continue(t) \/ ExecuteFails(t) \/ Execute(t)
    \/ \E n \in Sizes : getargs(t, n)
    \/ \E how \in Halts : halt(t, how)
    \/ Exception(t)
    \/ HaltBase(t) \/ HaltPop(t) \/ TestHalt(t) \/ ClearHalt(t)
    \/ CtrlCBase(t) \/ CtrlCChild(t)

Faults(t) == LaunchFaults(t) \/ CtrlCFaults(t)

\* Page fault after page fault.
Stopped == fault /\ UNCHANGED vars

Next ==
    \/ ~fault /\ fault' = FALSE /\ \E t \in Terminals : Step(t)
    \/ ~fault /\ fault' = TRUE /\ \E t \in Terminals : Faults(t)
    \/ Stopped

Spec == Init /\ [][Next]_vars

-----------------------------------------------------------------------------
(* Properties *)

\* Processes are at a place of their program, under a name of the directory, and
\* getargs returns 0 or -1, also at the limits of its argument.
TypeOK ==
    /\ \A t \in Terminals : \A k \in DOMAIN stack[t] :
          /\ stack[t][k].pc \in PC
          /\ stack[t][k].name \in DOMAIN Kind
          /\ {stack[t][k].buf, stack[t][k].arg} \subseteq Seq(Char)
    /\ {global_halt, stale, fault} \subseteq BOOLEAN
    /\ \A t \in Terminals : /\ message[t] \in Messages
                            /\ end[t] \in Ends
                            /\ got[t].ret \in {-1, 0}

\* How a command is to be read: blanks, a name, blanks, and the rest.
Blanks(n) == [i \in 1 .. n |-> SPACE]
Reads(line, name, arg) ==
    /\ \E i, j \in 0 .. Len(line) :
          /\ line = Blanks(i) \o name \o Blanks(j) \o arg
          /\ arg # <<>> => j > 0 /\ arg[1] # SPACE
    /\ \A k \in DOMAIN name : name[k] # SPACE
    /\ name = <<>> => arg = <<>>

\* A process above another on its terminal's stack was started by a command.
Child(t) == 2 .. Len(stack[t])

\* A program that runs is the one its command names and its argument is the
\* rest of the command, kept in a frame that later calls do not disturb; the
\* argument and its terminator fit into the array.  It is an executable, or a
\* file so short that isExe compares what was on the stack: an empty name, which
\* finds an unused entry, among them.
RunsCommand ==
    \A t \in Terminals : \A k \in Child(t) :
       /\ Reads(stack[t][k - 1].buf, stack[t][k].name, stack[t][k - 1].arg)
       /\ Len(stack[t][k - 1].arg) < MAX_ARG_LEN
       /\ Kind[stack[t][k].name] # "other"

\* What getargs hands out with success is the rest of the command that started
\* the program, whatever else its terminal and the others have executed since.
GetsOwnArgument ==
    \A t \in Terminals :
       got[t] # NOTHING /\ got[t].ret = 0 =>
         /\ got[t].buf # <<>>
         /\ Reads(Caller(t).buf, Top(t).name, got[t].buf)

\* The shell says that a program was terminated by an exception if it was, and
\* not if it ended by halt or Ctrl-C, whatever the status, unless programs of two
\* terminals ended at the same time or Ctrl-C struck while execute was returning;
\* and it says that there is no such command if and only if execute failed.
ReportsEnd ==
    \A t \in Terminals : At(t, "prompt") =>
       /\ end[t] = "exception" => message[t] = "exception"
       /\ end[t] \in Ordinary => message[t] # "exception"
       /\ end[t] = "failed" <=> message[t] = "no such command"

\* The status of a program is returned to the calling task (ece391syscall.h), so
\* that the shell says of one other than 0 that the program terminated
\* abnormally.  This does not hold: halt puts 0 into eax, and execute returns 0.
StatusReported ==
    \A t \in Terminals :
       At(t, "prompt") /\ end[t] = "abnormal" => message[t] = "abnormally"

-----------------------------------------------------------------------------
(* The inductive invariants behind the above.                               *)

Process == [name : DOMAIN Kind, pc : PC, buf : Seq(Char), arg : Seq(Char)]

\* Every terminal has its base shell at the bottom, awaited or there, and what
\* runs as a program was not started as a shell.
Stacked ==
    /\ stack \in [Terminals -> Seq(Process) \ {<<>>}]
    /\ global_halt \in BOOLEAN /\ stale \in BOOLEAN
    /\ message \in [Terminals -> Messages]
    /\ got \in [Terminals -> [ret : {-1, 0}, buf : Seq(Char)]]
    /\ end \in [Terminals -> Ends]
    /\ \A t \in Terminals : Head(stack[t]).name = SHELL
    /\ \A t \in Terminals : \A k \in DOMAIN stack[t] :
          stack[t][k].pc = "run" => stack[t][k].name # SHELL

\* A result of getargs is there while its program is, and a good one is the
\* whole of the array arg that the program was started with.
ArgumentKept ==
    \A t \in Terminals : got[t] # NOTHING =>
       /\ Top(t).pc \in {"run", "halt"} /\ ~IsBase(t)
       /\ got[t].ret = 0 => got[t].buf # <<>> /\ got[t].buf = Caller(t).arg

\* A terminal whose process is ending, or has ended and execute is returning;
\* and one that will still come to the test of global_halt.
IsEnding(t) == Top(t).pc \in Ending
WillTest(t) == IsEnding(t) /\ (At(t, "halt") => ~IsBase(t))

\* A command has no message before it is over; and the flag is that of the one
\* program that ended by an exception, as long as its end is sure.
FlagTells ==
    /\ \A t \in Terminals :
          /\ ~At(t, "prompt") => message[t] = "none"
          /\ Top(t).pc \in {"launch", "line", "run"} => end[t] = "none"
          /\ IsEnding(t) => end[t] \in Ordinary \cup {"exception", "unsure"}
          /\ At(t, "clear") => end[t] \notin Ordinary
          /\ IsEnding(t) /\ end[t] \in Ordinary => ~global_halt
          /\ IsEnding(t) /\ end[t] = "exception" => global_halt /\ Others(t) = {}
    /\ global_halt /\ ~stale => \E t \in Terminals : WillTest(t)
==============================================================================
