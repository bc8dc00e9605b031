------------------------------- MODULE Process -------------------------------
(***************************************************************************)
(* Process management of the kernel: the round-robin scheduler (pit.c),    *)
(* execute and halt (system_call.c), exceptions (exception_handler.c), and *)
(* the keyboard's two effects on processes, Ctrl-C and Alt-Fn              *)
(* (keyboard.c).                                                           *)
(*                                                                         *)
(* There is one CPU.  IDT vectors 0x20-0x2F are interrupt gates and the    *)
(* others, 0x80 and the exceptions included, are trap gates (idt.c), so a  *)
(* system call or an exception handler runs with interrupts enabled unless *)
(* it says cli.  What runs under cli (scheduler, execute, vidmap) and what *)
(* an interrupt gate leads to (the keyboard handler, hence a halt by       *)
(* Ctrl-C) is one action here; halt called by a program or by an exception *)
(* is not protected, and each of its steps is an action.                   *)
(*                                                                         *)
(* A PCB, its kernel stack and its 4 MB user page all follow from the pid, *)
(* so a pid stands for the three of them.  global_halt, which decides only *)
(* what execute returns to its caller, is left to module Shell.            *)
(***************************************************************************)
EXTENDS Integers, FiniteSets, Sequences

CONSTANTS
    MAX_TERMINAL,   \* number of terminals, 3 in pit.h
    MAX_PID,        \* the largest pid, 5 in system_call.h
    MAX_TORN,       \* bound: interrupts taken inside the steps of halt
    MAX_COUNT       \* bound: process_counter where a failing execute adds to it

ASSUME TerminalAssumption == MAX_TERMINAL \in Nat \ {0}
ASSUME PidAssumption == MAX_PID \in Nat
ASSUME TornAssumption == MAX_TORN \in Nat
ASSUME CountAssumption == MAX_COUNT \in Int

VARIABLES
    pid,              \* pid[p]: VACANT or OCCUPIED
    process_counter,  \* number of processes less one
    parent,           \* parent[p]: parent_pid and parent_pcb of PCB p
    context,          \* context[p]: what esp_val and ebp_val of PCB p lead to
    terminal,         \* terminal[t]: terminal[t].pcb
    curr_scheduler,   \* the terminal being run
    current_terminal, \* the visible terminal
    cpu,              \* what the CPU is executing
    user_page,        \* page_directory[VIRTUAL_MEMORY_START]
    esp0,             \* tss.esp0: whose kernel stack the next trap uses
    vid_page0,        \* page_table_video[0]
    kb_irq,           \* IRQ 1 is unmasked
    torn              \* how many interrupts hit halt between two of its steps

procVars == <<pid, process_counter, parent, terminal>>
mmuVars  == <<user_page, esp0>>
schedVars == <<curr_scheduler, current_terminal, kb_irq>>
vars == <<pid, process_counter, parent, context, terminal, curr_scheduler,
          current_terminal, cpu, user_page, esp0, vid_page0, kb_irq,
          torn>>

Terminals == 0 .. MAX_TERMINAL - 1
Pids == 0 .. MAX_PID

VACANT == -1
OCCUPIED == 1
FAILURE == -1
NULL == -1       \* a null PCB pointer; also the parent_pid of a base shell

-----------------------------------------------------------------------------
(* The CPU: pc says where it is, reg is the register that                  *)
(* process_counter-- loads, decrements and stores (the kernel is compiled  *)
(* without optimisation).                                                  *)
(*   idle         the hlt loop at the end of entry, before the first tick  *)
(*   launch       the scheduler or halt, about to execute a base shell     *)
(*   user         a program, or a system call that leaves processes alone  *)
(*   halt         halt entered, line 20 not yet run                        *)
(*   halt_parent  the pid is freed          halt_pop    page, stack moved  *)
(*   halt_load    pcb replaced by parent's  halt_store  counter in reg     *)
(*   halt_return  about to reach the label return of execute               *)
(*   base_load, base_store  the same for a terminal's base shell           *)
(*   fault        a page fault while the terminal has no process: halt,    *)
(*                which every exception calls, follows the NULL pcb and    *)
(*                faults again, one fault inside the other                 *)
(*   shared       two terminals run the same pid, in the same PCB and on   *)
(*                the same kernel stack; what happens next depends on what *)
(*                each leaves on that stack, and the model says no more    *)

HaltWindow == {"halt_parent", "halt_pop", "halt_load", "halt_store",
               "base_load", "base_store"}
Stopped == {"fault", "shared"}
PC == {"idle", "launch", "user", "halt", "halt_return"} \cup HaltWindow
          \cup Stopped
Cpu == [pc : PC, reg : Int]

At(pc) == [pc |-> pc, reg |-> 0]

Pcb == terminal[curr_scheduler]

\* The page of text behind the running terminal's window: video memory if it
\* is the visible terminal, its own vid_page otherwise.
VIDEO == -1
UNMAPPED == -2
ScreenOneBased(running, visible) ==
    IF running = visible THEN VIDEO ELSE running + 1
Screen(running, visible) == IF running = visible THEN VIDEO ELSE running

Init ==
    /\ pid = [p \in Pids |-> VACANT]
    /\ process_counter = -1
    /\ parent = [p \in Pids |-> NULL]
    /\ context = [p \in Pids |-> At("user")]
    /\ terminal = [t \in Terminals |-> NULL]
    /\ curr_scheduler = 0
    /\ current_terminal = 0
    /\ cpu = At("idle")
    /\ user_page = NULL
    /\ esp0 = NULL
    /\ vid_page0 = UNMAPPED
    /\ kb_irq = TRUE
    /\ torn = 0

-----------------------------------------------------------------------------
(* An interrupt is taken between any two instructions; only those that hit *)
(* halt between its steps are counted, and they are bounded by MAX_TORN.   *)

TakeInterrupt ==
    /\ cpu.pc \notin Stopped
    /\ IF cpu.pc \in HaltWindow
       THEN torn < MAX_TORN /\ torn' = torn + 1
       ELSE torn' = torn

(* The scheduler, one action per path through it. *)

NextTerminalStuck == curr_scheduler
NextTerminal == (curr_scheduler + 1) % MAX_TERMINAL

KeyboardMaskNever(t) == FALSE
KeyboardMask(t) == t = current_terminal

\* No program on terminal 0: run the very first shell.  Whatever was
\* interrupted is abandoned.
TickFirstShell ==
    /\ TakeInterrupt
    /\ curr_scheduler = 0
    /\ Pcb = NULL
    /\ cpu' = At("launch")
    /\ UNCHANGED <<procVars, context, schedVars, mmuVars, vid_page0>>

\* Saving esp and ebp through a NULL pcb writes to page 0, which is mapped
\* once page_table_video[0] is (page_directory[0] uses the same table).
TickSaveFaults ==
    /\ TakeInterrupt
    /\ curr_scheduler # 0
    /\ Pcb = NULL
    /\ vid_page0 = UNMAPPED
    /\ cpu' = At("fault")
    /\ UNCHANGED <<procVars, context, schedVars, mmuVars, vid_page0>>

SaveContext ==
    context' = IF Pcb = NULL THEN context ELSE [context EXCEPT ![Pcb] = cpu]

Advance ==
    /\ TakeInterrupt
    /\ Pcb = NULL => curr_scheduler # 0 /\ vid_page0 # UNMAPPED
    /\ SaveContext
    /\ curr_scheduler' = NextTerminal
    /\ kb_irq' = KeyboardMask(NextTerminal)
    /\ UNCHANGED <<procVars, current_terminal>>

\* The next terminal has no shell: sti, and execute one.
TickLaunch ==
    /\ Advance
    /\ terminal[NextTerminal] = NULL
    /\ cpu' = At("launch")
    /\ UNCHANGED <<mmuVars, vid_page0>>

WindowStuck == vid_page0
Window == Screen(NextTerminal, current_terminal)

\* Resume the next terminal's process where it was.
TickResume ==
    /\ Advance
    /\ terminal[NextTerminal] # NULL
    /\ vid_page0' = Window
    /\ user_page' = terminal[NextTerminal]
    /\ esp0' = terminal[NextTerminal]
    /\ cpu' = context'[terminal[NextTerminal]]

Tick == TickFirstShell \/ TickSaveFaults \/ TickLaunch \/ TickResume

-----------------------------------------------------------------------------
(* execute *)

\* p is what find_pid returns on a table: the least vacant pid, or FAILURE.
find_pidAny(table, p) == p \in Pids
find_pid(table, p) ==
    \/ /\ p \in Pids
       /\ table[p] = VACANT
       /\ \A q \in Pids : q < p => table[q] = OCCUPIED
    \/ /\ p = FAILURE
       /\ \A q \in Pids : table[q] = OCCUPIED

\* Another terminal's process, in the middle of halt, is still using slot p.
InUseElsewhere(p) ==
    \E t \in Terminals \ {curr_scheduler} : terminal[t] = p

\* The rest of execute once its checks have passed, on the given table of
\* pids and for the given caller: take a pid, build the PCB, switch pages and
\* stacks, and iret to the program.  Nothing checks that a pid was found: with
\* pid -1 the user page becomes the kernel's, and the PCB at 8 MB is not
\* mapped, so that init_pcb faults.
Spawn(table, caller, p) ==
    /\ user_page' = p
    /\ esp0' = p
    /\ IF p = FAILURE
       THEN /\ cpu' = At("fault")
            /\ pid' = table
            /\ UNCHANGED <<parent, terminal>>
       ELSE /\ cpu' = At(IF InUseElsewhere(p) THEN "shared" ELSE "user")
            /\ pid' = [table EXCEPT ![p] = OCCUPIED]
            /\ parent' = [parent EXCEPT ![p] = caller]
            /\ terminal' = [terminal EXCEPT ![curr_scheduler] = p]

\* execute("shell") for a terminal without a process.
Launch ==
    /\ cpu.pc = "launch"
    /\ \E p \in Pids \cup {FAILURE} :
          find_pid(pid, p) /\ Spawn(pid, NULL, p)
    /\ process_counter' = process_counter + 1
    /\ UNCHANGED <<context, schedVars, vid_page0, torn>>

MaxReachedLate == process_counter > MAX_PID
MaxReached == process_counter = MAX_PID

\* A program (the shell) executes another.  An execute that fails (a command
\* that does not parse, too many processes, no such file, not an executable)
\* returns -1 before it changes anything.
Execute ==
    /\ cpu.pc = "user"
    /\ ~MaxReached
    /\ \E p \in Pids : find_pid(pid, p) /\ Spawn(pid, Pcb, p)
    /\ process_counter' = process_counter + 1
    /\ UNCHANGED <<context, schedVars, vid_page0, torn>>

-----------------------------------------------------------------------------
(* halt, as called by a program or by an exception: interruptible at every *)
(* step.  Each action is named after what it does to the dying process.    *)

\* A program ends by the halt system call, or raises an exception, whose
\* handler calls halt and does not return.
Exit ==
    /\ cpu.pc = "user"
    /\ cpu' = At("halt")
    /\ UNCHANGED <<procVars, context, schedVars, mmuVars, vid_page0, torn>>

HaltStep(from, to) ==
    /\ cpu.pc = from
    /\ cpu' = [cpu EXCEPT !.pc = to]
    /\ UNCHANGED <<context, schedVars, vid_page0, torn>>

\* pid[...] = VACANT
HaltFreePid ==
    /\ HaltStep("halt", "halt_parent")
    /\ pid' = [pid EXCEPT ![Pcb] = VACANT]
    /\ UNCHANGED <<process_counter, parent, terminal, mmuVars>>

\* No parent: the terminal forgets its base shell ...
HaltBase ==
    /\ HaltStep("halt_parent", "base_load")
    /\ parent[Pcb] = NULL
    /\ terminal' = [terminal EXCEPT ![curr_scheduler] = NULL]
    /\ UNCHANGED <<pid, process_counter, parent, mmuVars>>

\* ... and otherwise the page, the TSS and the stack go back to the parent.
RestorePageLate == UNCHANGED mmuVars
RestorePage == /\ user_page' = parent[Pcb]
               /\ esp0' = parent[Pcb]
HaltRestore ==
    /\ HaltStep("halt_parent", "halt_pop")
    /\ parent[Pcb] # NULL
    /\ RestorePage
    /\ UNCHANGED procVars

\* Close the files, and make the parent the terminal's process.
HaltPop ==
    /\ HaltStep("halt_pop", "halt_load")
    /\ terminal' = [terminal EXCEPT ![curr_scheduler] = parent[Pcb]]
    /\ UNCHANGED <<pid, process_counter, parent, mmuVars>>

\* process_counter--, for a child and for a base shell.
LoadCounter(from, to) ==
    /\ cpu.pc = from
    /\ cpu' = [cpu EXCEPT !.pc = to, !.reg = process_counter]
    /\ UNCHANGED <<procVars, context, schedVars, mmuVars, vid_page0, torn>>
Decremented(n) == n - 1
StoreCounter(from, to) ==
    /\ cpu.pc = from
    /\ cpu' = [cpu EXCEPT !.pc = to, !.reg = 0]
    /\ process_counter' = Decremented(cpu.reg)
    /\ UNCHANGED <<pid, parent, terminal, context, schedVars, mmuVars,
                   vid_page0, torn>>

HaltLoad  == LoadCounter("halt_load", "halt_store")
HaltStore == StoreCounter("halt_store", "halt_return")
BaseLoad  == LoadCounter("base_load", "base_store")
BaseStore == StoreCounter("base_store", "launch")

\* The label return of execute: the parent's execute returns to its program.
HaltReturn ==
    /\ cpu.pc = "halt_return"
    /\ cpu' = At("user")
    /\ UNCHANGED <<procVars, context, schedVars, mmuVars, vid_page0, torn>>

-----------------------------------------------------------------------------
(* halt with interrupts disabled, in one step: under the keyboard handler, *)
(* and where an exception is raised after the cli of execute.              *)

\* A base shell: the whole of halt and of execute("shell").
HaltBaseNow ==
    /\ Pcb # NULL
    /\ parent[Pcb] = NULL
    /\ LET freed == [pid EXCEPT ![Pcb] = VACANT]
       IN \E p \in Pids : find_pid(freed, p) /\ Spawn(freed, NULL, p)

\* A child: the whole of halt but for the counter, and the return of execute.
HaltChildNow ==
    /\ Pcb # NULL
    /\ parent[Pcb] # NULL
    /\ pid' = [pid EXCEPT ![Pcb] = VACANT]
    /\ RestorePage
    /\ terminal' = [terminal EXCEPT ![curr_scheduler] = parent[Pcb]]
    /\ cpu' = At("user")
    /\ UNCHANGED parent

\* An execute that passes the limit and finds no vacant pid: process_counter is
\* counted up, init_pcb faults, and the handler of the page fault halts the
\* process that called execute.  Each time, process_counter is left one higher
\* than before, relative to the processes there are.
ExecuteFaults ==
    /\ cpu.pc = "user"
    /\ ~MaxReached
    /\ process_counter < MAX_COUNT
    /\ find_pid(pid, FAILURE)
    /\ UNCHANGED <<context, schedVars, vid_page0, torn>>

ExecuteFaultsBase ==
    /\ ExecuteFaults
    /\ HaltBaseNow
    /\ process_counter' = Decremented(process_counter + 1) + 1

ExecuteFaultsChild ==
    /\ ExecuteFaults
    /\ HaltChildNow
    /\ process_counter' = Decremented(process_counter + 1)

-----------------------------------------------------------------------------
(* The keyboard handler's effects on processes, with interrupts disabled.  *)

Keyboard == kb_irq /\ TakeInterrupt

\* Ctrl-C before the scheduled terminal has a process: halt follows NULL.
CtrlCFaults ==
    /\ Keyboard
    /\ Pcb = NULL
    /\ cpu' = At("fault")
    /\ UNCHANGED <<procVars, context, schedVars, mmuVars, vid_page0>>

\* Ctrl-C on a base shell.
CtrlCBase ==
    /\ Keyboard
    /\ HaltBaseNow
    /\ UNCHANGED <<process_counter, context, schedVars, vid_page0>>

\* Ctrl-C on a child.
CtrlCChild ==
    /\ Keyboard
    /\ HaltChildNow
    /\ process_counter' = Decremented(process_counter)
    /\ UNCHANGED <<context, schedVars, vid_page0>>

\* Alt-Fn: show another terminal.  The keyboard's mask waits for a tick.
terminal_switch(t) ==
    /\ Keyboard
    /\ current_terminal' = t
    /\ vid_page0' = Screen(curr_scheduler, t)
    /\ UNCHANGED <<procVars, context, curr_scheduler, kb_irq, cpu, mmuVars>>

\* vidmap: map_video_memory always maps video memory at index 0; the choice
\* made after it writes page_table_video[video_mem], far outside the table.
vidmap ==
    /\ cpu.pc = "user"
    /\ vid_page0' = VIDEO
    /\ UNCHANGED <<procVars, context, schedVars, cpu, mmuVars, torn>>

\* Page fault after page fault, or a behaviour that is not modelled.
StoppedLoop == cpu.pc \in Stopped /\ UNCHANGED vars

-----------------------------------------------------------------------------
KernelStep ==
    \/ Launch \/ HaltFreePid \/ HaltBase \/ HaltRestore \/ HaltPop
    \/ HaltLoad \/ HaltStore \/ BaseLoad \/ BaseStore \/ HaltReturn

UserStep ==
    \/ Execute \/ ExecuteFaultsBase \/ ExecuteFaultsChild
    \/ Exit \/ vidmap

KeyStep ==
    \/ CtrlCFaults \/ CtrlCBase \/ CtrlCChild
    \/ \E t \in Terminals : terminal_switch(t)

Next == Tick \/ KernelStep \/ UserStep \/ KeyStep \/ StoppedLoop

Spec == Init /\ [][Next]_vars

\* The timer ticks for ever, and the PIC keeps a tick pending until it can be
\* taken: hence strong fairness.  Ticks are milliseconds apart while a step of
\* halt or the sti before a launch takes a few instructions, so ticks can
\* neither hit the same step every time the terminal is scheduled nor miss
\* every program that runs.
Fairness ==
    /\ SF_vars(Tick)
    /\ SF_vars(cpu.pc = "user" /\ Tick)
    /\ \A t \in Terminals : SF_vars(curr_scheduler = t /\ KernelStep)

FairSpec == Spec /\ Fairness

-----------------------------------------------------------------------------
(* Properties *)

\* Every pid, terminal index, saved context and page that the kernel keeps is
\* one that exists; pid -1, of an execute without a vacant pid, is in no PCB;
\* page_table_video[0] is unmapped, video memory or the page of a terminal.
TypeOK ==
    /\ pid \in [Pids -> {VACANT, OCCUPIED}]
    /\ process_counter \in Int
    /\ parent \in [Pids -> Pids \cup {NULL}]
    /\ context \in [Pids -> Cpu]
    /\ terminal \in [Terminals -> Pids \cup {NULL}]
    /\ curr_scheduler \in Terminals
    /\ current_terminal \in Terminals
    /\ cpu \in Cpu
    /\ user_page \in Pids \cup {NULL}
    /\ esp0 \in Pids \cup {NULL}
    /\ vid_page0 \in Terminals \cup {VIDEO, UNMAPPED}
    /\ kb_irq \in BOOLEAN
    /\ torn \in 0 .. MAX_TORN

Live == {p \in Pids : pid[p] = OCCUPIED}

\* The slots in use: occupied pids, and the slots of processes whose halt has
\* freed the pid but is not done with the PCB.
Held(live, top) == live \cup ({top[t] : t \in Terminals} \ {NULL})

\* The processes form one chain per terminal: its process, the parent, the
\* parent's parent, ... to a base shell.  A parent is alive, no slot is in two
\* chains, and every slot in use is in one.
Chains(live, up, top) ==
    /\ \A p \in Held(live, top) : up[p] # NULL => up[p] \in live
    /\ \A t, u \in Terminals : top[t] = top[u] /\ top[t] # NULL => t = u
    /\ \A p, q \in Held(live, top) : up[p] = up[q] /\ up[p] # NULL => p = q
    /\ \A p \in Held(live, top), t \in Terminals : up[p] = top[t] => up[p] = NULL
    /\ \A p \in live : \/ \E t \in Terminals : top[t] = p
                       \/ \E q \in Held(live, top) : up[q] = p

\* execute, halt, Ctrl-C and the ticks between their steps keep the chains
\* apart and lose no slot, unless execute hands out a slot that a suspended
\* halt still uses; and that takes an interrupt between two steps of halt.
ChainsDisjoint ==
    /\ cpu.pc # "shared" => Chains(Live, parent, terminal)
    /\ cpu.pc = "shared" => torn > 0

\* process_counter, on which the limit of execute rests, is the number of
\* processes less one, with the process being halted counted until its
\* decrement is stored.
CounterExact ==
    torn = 0 /\ cpu.pc # "fault" =>
      process_counter + 1 =
        Cardinality(Live) + (IF cpu.pc \in HaltWindow THEN 1 ELSE 0)

\* The limit on process_counter does what it is there for: an execute that
\* passes it finds a vacant pid (execute does not look at find_pid's failure).
ExecuteFindsPid ==
    torn = 0 /\ cpu.pc = "user" /\ ~MaxReached =>
      \E p \in Pids : pid[p] = VACANT

\* A program runs in its own page and its traps use its own kernel stack:
\* what execute, halt, Ctrl-C and the scheduler leave in page_directory and in
\* the TSS is always that of the scheduled terminal's process.
OwnAddressSpace ==
    torn = 0 /\ cpu.pc = "user" => Pcb # NULL /\ user_page = Pcb /\ esp0 = Pcb

\* As long as the kernel runs, every terminal gets to run user code again
\* and again: the round robin skips none, and a shell that ends is relaunched.
EveryTerminalRuns ==
    \A t \in Terminals :
        []<>(\/ cpu.pc \in Stopped
             \/ curr_scheduler = t /\ cpu.pc = "user")

\* While the scheduler masks the keyboard nothing can be typed, not even
\* Alt-Fn; it is unmasked again when the visible terminal's turn comes.
KeyboardComesBack == ~kb_irq ~> (kb_irq \/ cpu.pc \in Stopped)

\* The processes from p on, along the parents, topmost first.
Above(up, p) == IF p = NULL THEN NULL ELSE up[p]
Walk(up, p) ==
    LET walk[k \in 1 .. MAX_PID + 2] == IF k = 1 THEN p ELSE Above(up, walk[k - 1])
    IN walk
Chain(up, p) ==
    LET walk == Walk(up, p)
    IN [k \in {i \in 1 .. MAX_PID + 2 : walk[i] # NULL} |-> walk[k]]

\* The processes of a terminal.  One leaves the stack when halt frees its pid.
TopOf(t) == IF terminal[t] # NULL /\ pid[terminal[t]] = VACANT
            THEN parent[terminal[t]] ELSE terminal[t]
StackOf(t) == Chain(parent, TopOf(t))

\* Whatever is interleaved, to each terminal its processes are a stack: execute
\* pushes, halt and Ctrl-C pop, a base shell is replaced, and a step of one
\* terminal leaves the others' stacks alone; up to the step, if any, that puts
\* two terminals into one slot.
AllStacks == [t \in Terminals |-> StackOf(t)]
Abstract == INSTANCE Stacks WITH Terminal <- Terminals, Pid <- Pids, stack <- AllStacks
ImplementsStacks ==
    Abstract!Init /\ [][Abstract!Next \/ cpu'.pc = "shared"]_AllStacks

\* The window of the running terminal shows its own page again and again,
\* although vidmap and the launch of a shell leave another one there.
WindowRecovers ==
    []<>(cpu.pc \in Stopped \/ vid_page0 = Screen(curr_scheduler, current_terminal))

-----------------------------------------------------------------------------
(* The inductive invariant.  Besides the above it relates every terminal's *)
(* process to the place it is at, on the CPU or in its saved context.      *)

AlivePC == {"user", "halt", "halt_load", "halt_store", "halt_return"}
DyingPC == {"halt_parent", "halt_pop"}

\* A process at pc, with the given pid, in its terminal.
PlaceOK(pc, p) ==
    /\ pc \in AlivePC \cup DyingPC
    /\ pc \in AlivePC => pid[p] = OCCUPIED
    /\ pc \in DyingPC => pid[p] = VACANT
    /\ pc = "halt_pop" => parent[p] # NULL

Places ==
    cpu.pc \notin Stopped =>
      /\ Pcb # NULL => PlaceOK(cpu.pc, Pcb)
      /\ Pcb = NULL => cpu.pc \in {"idle", "launch", "base_load", "base_store"}
      /\ \A t \in Terminals \ {curr_scheduler} :
            terminal[t] # NULL => PlaceOK(context[terminal[t]].pc, terminal[t])

\* No interrupt has hit halt: no other terminal is inside it, what it loaded
\* is still current, and what it restored is still there.
Untorn ==
    torn = 0 /\ cpu.pc \notin Stopped =>
      /\ \A t \in Terminals \ {curr_scheduler} :
            terminal[t] # NULL => context[terminal[t]].pc \notin HaltWindow
      /\ cpu.pc \in {"halt_store", "base_store"} => cpu.reg = process_counter
      /\ cpu.pc \in AlivePC => user_page = Pcb /\ esp0 = Pcb
      /\ cpu.pc = "halt_pop" => user_page = parent[Pcb] /\ esp0 = parent[Pcb]

IInv == TypeOK /\ ChainsDisjoint /\ Places /\ Untorn /\ CounterExact

=============================================================================
