---------------------------- MODULE ProcessProofs ----------------------------
(***************************************************************************)
(* Proofs about module Process, for every number of terminals and of pids. *)
(***************************************************************************)
EXTENDS Process, FiniteSetTheorems, SequenceTheorems, TLAPS

USE TerminalAssumption, PidAssumption, TornAssumption

-----------------------------------------------------------------------------
(* Chains of processes *)

\* A process is pushed on its terminal's chain by execute.
LEMMA ChainPush ==
    ASSUME NEW live \in SUBSET Pids,
           NEW up \in [Pids -> Pids \cup {NULL}],
           NEW top \in [Terminals -> Pids \cup {NULL}],
           NEW c \in Terminals, NEW p \in Pids,
           Chains(live, up, top),
           p \notin Held(live, top),
           top[c] # NULL => top[c] \in live
    PROVE  Chains(live \cup {p}, [up EXCEPT ![p] = top[c]],
                  [top EXCEPT ![c] = p])
<1> DEFINE up2 == [up EXCEPT ![p] = top[c]]
           top2 == [top EXCEPT ![c] = p]
           live2 == live \cup {p}
           Owned(q) == \/ \E t \in Terminals : top2[t] = q
                       \/ \E r \in Held(live2, top2) : up2[r] = q
<1>0. NULL \notin Pids
  BY DEF NULL, Pids
<1>1. Held(live2, top2) \subseteq Held(live, top) \cup {p}
  BY <1>0 DEF Held
<1>2. Held(live2, top2) \subseteq Pids /\ Held(live, top) \subseteq Pids
  BY DEF Held
<1>3. \A q \in Held(live, top) : up2[q] = up[q] /\ q # p
  BY <1>2
<1>4. up2[p] = top[c] /\ top2[c] = p /\ \A t \in Terminals \ {c} : top2[t] = top[t]
  OBVIOUS
<1>5. \A q \in Held(live2, top2) : up2[q] # NULL => up2[q] \in live2
  BY <1>1, <1>3, <1>4 DEF Chains
<1>6. \A t, u \in Terminals : top2[t] = top2[u] /\ top2[t] # NULL => t = u
  BY <1>0, <1>4 DEF Chains, Held
<1>7. \A q, r \in Held(live2, top2) : up2[q] = up2[r] /\ up2[q] # NULL => q = r
  BY <1>1, <1>3, <1>4 DEF Chains
<1>8. \A q \in Held(live2, top2), t \in Terminals : up2[q] = top2[t] => up2[q] = NULL
  <2> SUFFICES ASSUME NEW q \in Held(live2, top2), NEW t \in Terminals,
                      up2[q] = top2[t], up2[q] # NULL
               PROVE FALSE
    OBVIOUS
  <2>1. up2[q] # p
    BY <1>1, <1>3, <1>4 DEF Chains, Held
  <2>2. t # c
    BY <2>1, <1>4
  <2>3. CASE q = p
    BY <2>3, <2>2, <1>4 DEF Chains
  <2>4. CASE q # p
    <3>1. q \in Held(live, top) /\ up[q] = up2[q]
      BY <2>4, <1>1, <1>3
    <3>2. up[q] = top[t]
      BY <3>1, <2>2, <1>4
    <3> QED
      BY <3>1, <3>2 DEF Chains
  <2> QED
    BY <2>3, <2>4
<1>9. \A q \in live2 : Owned(q)
  <2> SUFFICES ASSUME NEW q \in live2 PROVE Owned(q)
    OBVIOUS
  <2>1. CASE q = p
    BY <2>1, <1>4
  <2>2. p \in Held(live2, top2)
    BY DEF Held
  <2>3. ASSUME NEW t \in Terminals, top[t] = q PROVE Owned(q)
    BY <2>3, <2>2, <1>4
  <2>4. ASSUME NEW r \in Held(live, top), up[r] = q, q # p PROVE Owned(q)
    <3>1. CASE r \in live
      BY <3>1, <2>4, <1>3 DEF Held
    <3>2. CASE \E t \in Terminals : t # c /\ top[t] = r
      <4>1. r \in Held(live2, top2)
        BY <3>2, <1>4, <1>2, <1>0, <2>4 DEF Held
      <4> QED
        BY <4>1, <2>4, <1>3
    <3>3. CASE top[c] = r
      BY <3>3, <3>1, <1>0, <1>2, <2>4
    <3> QED
      BY <3>1, <3>2, <3>3 DEF Held
  <2> QED
    BY <2>1, <2>3, <2>4 DEF Chains
<1> QED
  BY <1>5, <1>6, <1>7, <1>8, <1>9 DEF Chains

\* halt frees the pid of a terminal's process.
LEMMA ChainFree ==
    ASSUME NEW live \in SUBSET Pids,
           NEW up \in [Pids -> Pids \cup {NULL}],
           NEW top \in [Terminals -> Pids \cup {NULL}],
           NEW c \in Terminals,
           Chains(live, up, top),
           top[c] # NULL
    PROVE  Chains(live \ {top[c]}, up, top)
<1>1. Held(live \ {top[c]}, top) \subseteq Held(live, top)
  BY DEF Held
<1>2. Held(live, top) \subseteq Held(live \ {top[c]}, top)
  BY DEF Held
<1>3. \A p \in Held(live, top) : up[p] # NULL => up[p] \in live \ {top[c]}
  BY DEF Chains
<1> QED
  BY <1>1, <1>2, <1>3 DEF Chains

\* halt replaces a terminal's process, its pid freed, by the parent, or by
\* none if it was a base shell.
LEMMA ChainPop ==
    ASSUME NEW live \in SUBSET Pids,
           NEW up \in [Pids -> Pids \cup {NULL}],
           NEW top \in [Terminals -> Pids \cup {NULL}],
           NEW c \in Terminals,
           Chains(live, up, top),
           top[c] # NULL, top[c] \notin live
    PROVE  Chains(live, up, [top EXCEPT ![c] = up[top[c]]])
<1> DEFINE d == top[c]
           top2 == [top EXCEPT ![c] = up[d]]
           Owned(q) == \/ \E t \in Terminals : top2[t] = q
                       \/ \E r \in Held(live, top2) : up[r] = q
<1>0. d \in Pids /\ up[d] \in Pids \cup {NULL} /\ d \in Held(live, top)
  BY DEF Held
<1>1. top2[c] = up[d] /\ \A t \in Terminals \ {c} : top2[t] = top[t]
  OBVIOUS
<1>2. up[d] # NULL => up[d] \in live
  BY <1>0 DEF Chains
<1>3. Held(live, top2) \subseteq Held(live, top)
  BY <1>1, <1>2 DEF Held
<1>4. d \notin Held(live, top2)
  BY <1>1, <1>2 DEF Held, Chains
<1>5. \A q \in Held(live, top) : q # d => q \in Held(live, top2)
  BY <1>1 DEF Held
<1>6. \A t, u \in Terminals : top2[t] = top2[u] /\ top2[t] # NULL => t = u
  BY <1>0, <1>1 DEF Chains
<1>7. \A q \in Held(live, top2), t \in Terminals : up[q] = top2[t] => up[q] = NULL
  <2> SUFFICES ASSUME NEW q \in Held(live, top2), NEW t \in Terminals,
                      up[q] = top2[t], up[q] # NULL
               PROVE FALSE
    OBVIOUS
  <2>1. CASE t = c
    BY <2>1, <1>0, <1>1, <1>3, <1>4 DEF Chains
  <2>2. CASE t # c
    BY <2>2, <1>1, <1>3 DEF Chains
  <2> QED
    BY <2>1, <2>2
<1>8. \A q \in live : Owned(q)
  <2> SUFFICES ASSUME NEW q \in live PROVE Owned(q)
    OBVIOUS
  <2>1. ASSUME NEW t \in Terminals, top[t] = q PROVE Owned(q)
    BY <2>1, <1>1
  <2>2. ASSUME NEW r \in Held(live, top), up[r] = q PROVE Owned(q)
    BY <2>2, <1>1, <1>5
  <2> QED
    BY <2>1, <2>2 DEF Chains
<1> QED
  BY <1>3, <1>6, <1>7, <1>8 DEF Chains

-----------------------------------------------------------------------------
(* Type correctness *)

\* The CPU at a place is a CPU.
LEMMA AtType ==
    ASSUME NEW pc \in PC PROVE At(pc) \in Cpu /\ At(pc).pc = pc
BY DEF At, Cpu

\* Where a program or a child's halt is running, the scheduled terminal has a
\* process.
LEMMA PcbType ==
    ASSUME TypeOK, Places, cpu.pc \in AlivePC \cup DyingPC
    PROVE  /\ Pcb \in Pids /\ Pcb # NULL
           /\ parent[Pcb] \in Pids \cup {NULL}
           /\ PlaceOK(cpu.pc, Pcb)
<1>1. Pcb \in Pids \cup {NULL}
  BY DEF TypeOK, Pcb
<1>2. Pcb # NULL
  BY DEF Places, Stopped, AlivePC, DyingPC
<1> QED
  BY <1>1, <1>2 DEF TypeOK, Places, Stopped, AlivePC, DyingPC

\* What execute leaves has the right types, whichever pid it took.
LEMMA SpawnType ==
    ASSUME TypeOK,
           NEW table \in [Pids -> {VACANT, OCCUPIED}],
           NEW caller \in Pids \cup {NULL},
           NEW p \in Pids \cup {FAILURE},
           Spawn(table, caller, p)
    PROVE  /\ pid' \in [Pids -> {VACANT, OCCUPIED}]
           /\ parent' \in [Pids -> Pids \cup {NULL}]
           /\ terminal' \in [Terminals -> Pids \cup {NULL}]
           /\ cpu' \in Cpu
           /\ user_page' \in Pids \cup {NULL}
           /\ esp0' \in Pids \cup {NULL}
<1>1. cpu' \in Cpu
  BY AtType DEF Spawn, PC, Stopped
<1>2. CASE p = FAILURE
  BY <1>1, <1>2 DEF Spawn, TypeOK, FAILURE, NULL
<1>3. CASE p # FAILURE
  BY <1>1, <1>3 DEF Spawn, TypeOK
<1> QED
  BY <1>2, <1>3

\* Every step keeps the types.
LEMMA TypeStep == TypeOK /\ Places /\ [Next]_vars => TypeOK'
<1> SUFFICES ASSUME TypeOK, Places, [Next]_vars PROVE TypeOK'
  OBVIOUS
<1>0. NextTerminal \in Terminals
  BY DEF NextTerminal, Terminals, TypeOK
<1>1. Pcb \in Pids \cup {NULL}
  BY DEF Pcb, TypeOK
<1>2. ASSUME TakeInterrupt PROVE torn' \in 0 .. MAX_TORN
  BY <1>2 DEF TakeInterrupt, TypeOK
<1>3. CASE TickFirstShell
  BY <1>3, <1>2, AtType DEF TickFirstShell, procVars, schedVars, mmuVars, PC, TypeOK
<1>4. CASE TickSaveFaults
  BY <1>4, <1>2, AtType DEF TickSaveFaults, procVars, schedVars, mmuVars, PC, Stopped, TypeOK
<1>5. ASSUME Advance
      PROVE  /\ context' \in [Pids -> Cpu]
             /\ curr_scheduler' \in Terminals /\ kb_irq' \in BOOLEAN
             /\ UNCHANGED <<procVars, current_terminal>>
             /\ torn' \in 0 .. MAX_TORN
  <2>1. context' \in [Pids -> Cpu]
    BY <1>5, <1>1 DEF Advance, SaveContext, TypeOK
  <2>2. kb_irq' \in BOOLEAN
    BY <1>5 DEF Advance, KeyboardMask
  <2> QED
    BY <1>5, <1>0, <1>2, <2>1, <2>2 DEF Advance
<1>6. CASE TickLaunch
  BY <1>6, <1>5, AtType DEF TickLaunch, procVars, mmuVars, PC, TypeOK
<1>7. CASE TickResume
  <2>1. terminal[NextTerminal] \in Pids
    BY <1>7, <1>0 DEF TickResume, TypeOK
  <2>2. Screen(NextTerminal, current_terminal) \in Terminals \cup {VIDEO, UNMAPPED}
    BY <1>0 DEF Screen
  <2> QED
    BY <1>7, <1>5, <2>1, <2>2 DEF TickResume, Window, procVars, TypeOK
<1>8. CASE Launch
  <2>1. pid \in [Pids -> {VACANT, OCCUPIED}] /\ NULL \in Pids \cup {NULL}
    BY DEF TypeOK
  <2>2. PICK p \in Pids \cup {FAILURE} : Spawn(pid, NULL, p)
    BY <1>8 DEF Launch
  <2>3. /\ pid' \in [Pids -> {VACANT, OCCUPIED}]
        /\ parent' \in [Pids -> Pids \cup {NULL}]
        /\ terminal' \in [Terminals -> Pids \cup {NULL}]
        /\ cpu' \in Cpu
        /\ user_page' \in Pids \cup {NULL}
        /\ esp0' \in Pids \cup {NULL}
    BY <2>1, <2>2, SpawnType
  <2> QED
    BY <1>8, <2>3 DEF Launch, schedVars, TypeOK
<1>9. CASE Execute
  <2>1. pid \in [Pids -> {VACANT, OCCUPIED}]
    BY DEF TypeOK
  <2>2. PICK p \in Pids : Spawn(pid, Pcb, p)
    BY <1>9 DEF Execute
  <2>3. /\ pid' \in [Pids -> {VACANT, OCCUPIED}]
        /\ parent' \in [Pids -> Pids \cup {NULL}]
        /\ terminal' \in [Terminals -> Pids \cup {NULL}]
        /\ cpu' \in Cpu
        /\ user_page' \in Pids \cup {NULL}
        /\ esp0' \in Pids \cup {NULL}
    BY <1>1, <2>1, <2>2, SpawnType
  <2> QED
    BY <1>9, <2>3 DEF Execute, schedVars, TypeOK
<1>10. CASE Exit
  BY <1>10 DEF Exit, procVars, schedVars, mmuVars, At, Cpu, PC, TypeOK
<1>12. ASSUME NEW from, NEW to \in PC, HaltStep(from, to)
       PROVE  /\ cpu' \in Cpu
              /\ UNCHANGED <<context, schedVars, vid_page0, torn>>
  BY <1>12 DEF HaltStep, Cpu, TypeOK
<1>13. HaltWindow \subseteq PC /\ "halt_return" \in PC /\ "launch" \in PC
  BY DEF PC, HaltWindow
<1>14. CASE HaltFreePid
  BY <1>14, <1>12, <1>13 DEF HaltFreePid, schedVars, mmuVars, HaltWindow, TypeOK
<1>15. CASE HaltBase
  BY <1>15, <1>12, <1>13 DEF HaltBase, schedVars, mmuVars, HaltWindow, TypeOK
<1>16. CASE HaltRestore
  <2>1. parent[Pcb] \in Pids \cup {NULL}
    BY <1>16, PcbType DEF HaltRestore, HaltStep, DyingPC
  <2> QED
    BY <1>16, <2>1, <1>12, <1>13
    DEF HaltRestore, RestorePage, procVars, schedVars, HaltWindow, TypeOK
<1>17. CASE HaltPop
  <2>1. parent[Pcb] \in Pids \cup {NULL}
    BY <1>17, PcbType DEF HaltPop, HaltStep, DyingPC
  <2> QED
    BY <1>17, <2>1, <1>12, <1>13 DEF HaltPop, mmuVars, schedVars, HaltWindow, TypeOK
<1>18. ASSUME NEW from, NEW to \in PC, LoadCounter(from, to) PROVE TypeOK'
  BY <1>18 DEF LoadCounter, procVars, schedVars, mmuVars, Cpu, TypeOK
<1>19. ASSUME NEW from, NEW to \in PC, StoreCounter(from, to) PROVE TypeOK'
  <2>0. cpu \in Cpu /\ cpu.reg \in Int
    BY DEF TypeOK, Cpu
  <2>1. cpu' \in Cpu
    <3>1. cpu' = [cpu EXCEPT !.pc = to, !.reg = 0]
      BY <1>19 DEF StoreCounter
    <3>2. cpu' = [pc |-> to, reg |-> 0]
      BY <2>0, <3>1 DEF Cpu
    <3> QED
      BY <3>2 DEF Cpu
  <2> QED
    BY <1>19, <2>0, <2>1 DEF StoreCounter, Decremented, schedVars, mmuVars, TypeOK
<1>20. CASE HaltLoad \/ HaltStore \/ BaseLoad \/ BaseStore
  BY <1>20, <1>13, <1>18, <1>19 DEF HaltLoad, HaltStore, BaseLoad, BaseStore, HaltWindow
<1>21. CASE HaltReturn
  BY <1>21, AtType DEF HaltReturn, procVars, schedVars, mmuVars, PC, TypeOK
<1>22. CASE CtrlCFaults
  BY <1>22, <1>2, AtType
  DEF CtrlCFaults, Keyboard, procVars, schedVars, mmuVars, PC, Stopped, TypeOK
<1>23. ASSUME HaltBaseNow, UNCHANGED <<context, schedVars, vid_page0>>,
              process_counter' \in Int, torn' \in 0 .. MAX_TORN
       PROVE  TypeOK'
  <2> DEFINE freed == [pid EXCEPT ![Pcb] = VACANT]
  <2>1. freed \in [Pids -> {VACANT, OCCUPIED}] /\ NULL \in Pids \cup {NULL}
    BY DEF TypeOK
  <2>2. PICK p \in Pids : Spawn(freed, NULL, p)
    BY <1>23 DEF HaltBaseNow
  <2> HIDE DEF freed
  <2>3. /\ pid' \in [Pids -> {VACANT, OCCUPIED}]
        /\ parent' \in [Pids -> Pids \cup {NULL}]
        /\ terminal' \in [Terminals -> Pids \cup {NULL}]
        /\ cpu' \in Cpu
        /\ user_page' \in Pids \cup {NULL}
        /\ esp0' \in Pids \cup {NULL}
    BY <2>1, <2>2, SpawnType
  <2> QED
    BY <1>23, <2>3 DEF schedVars, TypeOK
<1>24. ASSUME HaltChildNow, UNCHANGED <<context, schedVars, vid_page0>>,
              process_counter' \in Int, torn' \in 0 .. MAX_TORN
       PROVE  TypeOK'
  <2>1. parent[Pcb] \in Pids \cup {NULL} /\ At("user") \in Cpu
    BY <1>24, <1>1, AtType DEF HaltChildNow, TypeOK, PC
  <2>2. /\ pid' \in [Pids -> {VACANT, OCCUPIED}]
        /\ terminal' \in [Terminals -> Pids \cup {NULL}]
    <3>1. pid' = [pid EXCEPT ![Pcb] = VACANT]
      BY <1>24 DEF HaltChildNow
    <3>2. terminal' = [terminal EXCEPT ![curr_scheduler] = parent[Pcb]]
      BY <1>24 DEF HaltChildNow
    <3>3. pid' \in [Pids -> {VACANT, OCCUPIED}]
      BY <3>1 DEF TypeOK
    <3>4. terminal' \in [Terminals -> Pids \cup {NULL}]
      BY <3>2, <2>1 DEF TypeOK
    <3> QED
      BY <3>3, <3>4
  <2>3. user_page' \in Pids \cup {NULL} /\ esp0' \in Pids \cup {NULL}
    BY <1>24, <2>1 DEF HaltChildNow, RestorePage
  <2> QED
    BY <1>24, <2>1, <2>2, <2>3 DEF HaltChildNow, schedVars, TypeOK
<1>28. process_counter \in Int /\ torn \in 0 .. MAX_TORN
  BY DEF TypeOK
<1>29. CASE CtrlCBase
  BY <1>2, <1>23, <1>28, <1>29 DEF CtrlCBase, Keyboard
<1>30. CASE CtrlCChild
  BY <1>2, <1>24, <1>28, <1>30 DEF CtrlCChild, Keyboard, Decremented
<1>31. CASE ExecuteFaultsBase
  BY <1>23, <1>28, <1>31 DEF ExecuteFaultsBase, ExecuteFaults, Decremented
<1>32. CASE ExecuteFaultsChild
  BY <1>24, <1>28, <1>32 DEF ExecuteFaultsChild, ExecuteFaults, Decremented
<1>25. ASSUME NEW t \in Terminals, terminal_switch(t) PROVE TypeOK'
  BY <1>25, <1>2 DEF terminal_switch, Keyboard, Screen, procVars, mmuVars, TypeOK
<1>26. CASE vidmap
  BY <1>26 DEF vidmap, procVars, schedVars, mmuVars, TypeOK
<1>27. CASE StoppedLoop \/ UNCHANGED vars
  BY <1>27 DEF StoppedLoop, vars, TypeOK
<1> QED
  BY <1>3, <1>4, <1>6, <1>7, <1>8, <1>9, <1>10, <1>14, <1>15, <1>16, <1>17,
     <1>20, <1>21, <1>22, <1>25, <1>26, <1>27, <1>29, <1>30, <1>31, <1>32
  DEF Next, Tick, KernelStep, UserStep, KeyStep

-----------------------------------------------------------------------------
(* What the actions that stay on one terminal leave alone *)

NoProcessPC == {"idle", "launch", "base_load", "base_store"}

\* The other terminals, their processes and saved contexts.
OthersUntouched ==
    /\ curr_scheduler' = curr_scheduler
    /\ context' = context
    /\ \A t \in Terminals \ {curr_scheduler} :
          /\ terminal'[t] = terminal[t]
          /\ terminal[t] # NULL => /\ pid'[terminal[t]] = pid[terminal[t]]
                                  /\ parent'[terminal[t]] = parent[terminal[t]]

\* Places holds again if the scheduled terminal's process is where the CPU is
\* and the other terminals' processes are as they were.
LEMMA PlacesIntro ==
    ASSUME TypeOK, Places, cpu.pc \notin Stopped, OthersUntouched,
           \/ cpu'.pc \in Stopped
           \/ Pcb' # NULL /\ PlaceOK(cpu.pc, Pcb)'
           \/ Pcb' = NULL /\ cpu'.pc \in NoProcessPC
    PROVE  Places'
<1>1. ASSUME NEW t \in Terminals \ {curr_scheduler}, terminal'[t] # NULL
      PROVE  PlaceOK(context[terminal[t]].pc, terminal[t])'
  <2>1. PlaceOK(context[terminal[t]].pc, terminal[t])
    BY <1>1 DEF Places, OthersUntouched
  <2> QED
    BY <1>1, <2>1 DEF PlaceOK, OthersUntouched
<1>2. curr_scheduler' = curr_scheduler
  BY DEF OthersUntouched
<1>3. ASSUME Pcb' # NULL, cpu'.pc \notin Stopped PROVE PlaceOK(cpu.pc, Pcb)'
  BY <1>3
<1>4. ASSUME Pcb' = NULL, cpu'.pc \notin Stopped PROVE cpu'.pc \in NoProcessPC
  BY <1>4
<1> QED
  BY <1>1, <1>2, <1>3, <1>4 DEF Places, NoProcessPC

\* Untorn holds again after a step of the scheduled terminal, if what halt
\* loaded and restored is still there.
LEMMA UntornIntro ==
    ASSUME Untorn, cpu.pc \notin Stopped, OthersUntouched,
           torn' = 0 => torn = 0,
           torn = 0 /\ cpu'.pc \notin Stopped =>
             /\ cpu'.pc \in {"halt_store", "base_store"} => cpu'.reg = process_counter'
             /\ cpu'.pc \in AlivePC => user_page' = Pcb' /\ esp0' = Pcb'
             /\ cpu'.pc = "halt_pop" => user_page' = parent'[Pcb'] /\ esp0' = parent'[Pcb']
    PROVE  Untorn'
<1> SUFFICES ASSUME torn' = 0, cpu'.pc \notin Stopped PROVE Untorn'
  BY DEF Untorn
<1>1. ASSUME NEW t \in Terminals \ {curr_scheduler}, terminal'[t] # NULL
      PROVE  context'[terminal'[t]].pc \notin HaltWindow
  BY <1>1 DEF Untorn, OthersUntouched
<1> QED
  BY <1>1 DEF Untorn, OthersUntouched

\* Steps that change neither the pids nor the chains.
LEMMA ChainsKept ==
    ASSUME ChainsDisjoint, cpu.pc \notin Stopped, UNCHANGED <<pid, parent, terminal>>,
           cpu'.pc # "shared"
    PROVE  ChainsDisjoint'
<1>1. Live' = Live
  BY DEF Live
<1> QED
  BY <1>1 DEF ChainsDisjoint, Chains, Held, Stopped

\* Steps that change neither the counter nor the number of processes counted.
LEMMA CounterKept ==
    ASSUME CounterExact, cpu.pc \notin Stopped, UNCHANGED <<pid, process_counter>>,
           torn' = 0 => torn = 0,
           torn' = 0 => (cpu'.pc \in HaltWindow <=> cpu.pc \in HaltWindow) \/ cpu'.pc = "fault"
    PROVE  CounterExact'
<1>1. Live' = Live
  BY DEF Live
<1> QED
  BY <1>1 DEF CounterExact, Stopped

\* There are finitely many pids, so sets of them have cardinalities.
LEMMA PidsFinite ==
    /\ IsFiniteSet(Pids)
    /\ Cardinality(Pids) = MAX_PID + 1
    /\ \A live \in SUBSET Pids : IsFiniteSet(live) /\ Cardinality(live) \in Nat
<1>1. IsFiniteSet(0 .. MAX_PID) /\ Cardinality(0 .. MAX_PID) = MAX_PID + 1
  BY FS_Interval
<1>2. ASSUME NEW live \in SUBSET Pids PROVE IsFiniteSet(live)
  BY <1>1, FS_Subset DEF Pids
<1>3. ASSUME NEW live \in SUBSET Pids PROVE Cardinality(live) \in Nat
  BY <1>2, FS_CardinalityType
<1> QED
  BY <1>1, <1>2, <1>3 DEF Pids

\* execute adds one process ...
LEMMA LiveAdd ==
    ASSUME NEW live \in SUBSET Pids, NEW p \in Pids \ live
    PROVE  Cardinality(live \cup {p}) = Cardinality(live) + 1
<1>1. IsFiniteSet(live)
  BY PidsFinite
<1> QED
  BY <1>1, FS_AddElement

\* ... and halt removes one.
LEMMA LiveRemove ==
    ASSUME NEW live \in SUBSET Pids, NEW p \in live
    PROVE  Cardinality(live \ {p}) = Cardinality(live) - 1
<1>1. IsFiniteSet(live)
  BY PidsFinite
<1> QED
  BY <1>1, FS_RemoveElement

\* An interrupt never lowers torn, and leaves it at 0 only outside halt.
LEMMA InterruptTorn ==
    ASSUME TypeOK, TakeInterrupt
    PROVE  /\ cpu.pc \notin Stopped
           /\ torn' = 0 => torn = 0 /\ cpu.pc \notin HaltWindow
BY DEF TypeOK, TakeInterrupt

\* Where the counter is exact, an execute below the limit finds a vacant pid.
LEMMA VacantPid ==
    ASSUME TypeOK, CounterExact, torn = 0, cpu.pc = "user", ~MaxReached
    PROVE  \E p \in Pids : pid[p] = VACANT
<1> SUFFICES ASSUME \A p \in Pids : pid[p] # VACANT PROVE FALSE
  OBVIOUS
<1>1. Live = Pids
  BY DEF Live, TypeOK
<1>2. process_counter + 1 = MAX_PID + 1
  BY <1>1, PidsFinite DEF CounterExact, HaltWindow
<1> QED
  BY <1>2 DEF MaxReached, TypeOK

-----------------------------------------------------------------------------
(* execute takes a slot *)

\* Spawn on a table whose occupied pids, with the tops, form chains; the
\* calling terminal's own top is alive or absent.
LEMMA SpawnKeeps ==
    ASSUME TypeOK, Places, Untorn, cpu.pc \notin Stopped,
           NEW table \in [Pids -> {VACANT, OCCUPIED}],
           NEW top \in [Terminals -> Pids \cup {NULL}],
           NEW p \in Pids,
           \A t \in Terminals \ {curr_scheduler} :
              /\ top[t] = terminal[t]
              /\ top[t] # NULL => table[top[t]] = pid[top[t]],
           top[curr_scheduler] # NULL => table[top[curr_scheduler]] = OCCUPIED,
           Chains({q \in Pids : table[q] = OCCUPIED}, parent, top),
           find_pid(table, p), Spawn(table, top[curr_scheduler], p),
           curr_scheduler' = curr_scheduler, context' = context,
           torn' = 0 => torn = 0,
           torn \in Nat, torn' \in Nat
    PROVE  /\ ChainsDisjoint' /\ Places' /\ Untorn'
           /\ Live' = {q \in Pids : table[q] = OCCUPIED} \cup {p}
           /\ table[p] = VACANT
           /\ cpu'.pc \in {"user", "shared"}
           /\ cpu'.pc = "shared" => torn' # 0
<1> DEFINE live == {q \in Pids : table[q] = OCCUPIED}
           c == curr_scheduler
<1>0. p # FAILURE /\ p # NULL /\ c \in Terminals
  BY DEF FAILURE, NULL, Pids, TypeOK
<1>1. table[p] = VACANT
  BY <1>0 DEF find_pid
<1>2. /\ pid' = [table EXCEPT ![p] = OCCUPIED]
      /\ parent' = [parent EXCEPT ![p] = top[c]]
      /\ terminal' = [terminal EXCEPT ![c] = p]
      /\ user_page' = p /\ esp0' = p
      /\ cpu' = At(IF InUseElsewhere(p) THEN "shared" ELSE "user")
  BY <1>0 DEF Spawn
<1>3. Live' = live \cup {p}
  BY <1>2 DEF Live
<1>4. Pcb' = p /\ pid'[p] = OCCUPIED /\ parent'[p] = top[c]
  BY <1>0, <1>2 DEF Pcb, TypeOK
<1>5. terminal' = [top EXCEPT ![c] = p]
  <2>1. \A t \in Terminals : terminal'[t] = IF t = c THEN p ELSE terminal[t]
    BY <1>0, <1>2 DEF TypeOK
  <2>2. terminal' \in [Terminals -> Pids \cup {NULL}]
    BY <1>2 DEF TypeOK
  <2> QED
    BY <2>1, <2>2
<1>6. cpu' = [pc |-> IF InUseElsewhere(p) THEN "shared" ELSE "user",
              reg |-> 0]
  BY <1>2 DEF At
<1>7. CASE InUseElsewhere(p)
  <2>1. torn # 0
    <3> SUFFICES ASSUME torn = 0 PROVE FALSE
      OBVIOUS
    <3>1. PICK t \in Terminals \ {c} : terminal[t] = p
      BY <1>7 DEF InUseElsewhere
    <3>2. pid[p] = VACANT
      BY <3>1, <1>0, <1>1
    <3>3. context[p].pc \notin HaltWindow
      BY <3>1, <1>0 DEF Untorn
    <3>4. PlaceOK(context[p].pc, p)
      BY <3>1, <1>0 DEF Places
    <3> QED
      BY <3>2, <3>3, <3>4 DEF PlaceOK, AlivePC, DyingPC, HaltWindow, VACANT, OCCUPIED
  <2>2. cpu'.pc = "shared" /\ torn' # 0
    BY <1>6, <1>7, <2>1
  <2>3. Places' /\ Untorn'
    BY <2>2 DEF Places, Untorn, Stopped
  <2>4. ChainsDisjoint'
    BY <2>2 DEF ChainsDisjoint
  <2> QED
    BY <1>1, <1>3, <2>2, <2>3, <2>4
<1>8. CASE ~InUseElsewhere(p)
  <2>1. cpu'.pc = "user"
    BY <1>6, <1>8
  <2>2. OthersUntouched
    <3>1. ASSUME NEW t \in Terminals \ {c}
          PROVE  /\ terminal'[t] = terminal[t]
                 /\ terminal[t] # NULL => /\ pid'[terminal[t]] = pid[terminal[t]]
                                         /\ parent'[terminal[t]] = parent[terminal[t]]
      <4>1. terminal[t] # p /\ terminal[t] \in Pids \cup {NULL} /\ top[t] = terminal[t]
        BY <1>8, <3>1 DEF InUseElsewhere, TypeOK
      <4>2. terminal'[t] = terminal[t]
        BY <1>2, <3>1 DEF TypeOK
      <4>3. ASSUME terminal[t] # NULL
            PROVE  /\ pid'[terminal[t]] = pid[terminal[t]]
                   /\ parent'[terminal[t]] = parent[terminal[t]]
        BY <4>1, <4>3, <1>2, <3>1 DEF TypeOK
      <4> QED
        BY <4>2, <4>3
    <3> QED
      BY <3>1 DEF OthersUntouched
  <2>3. Places'
    <3>1. PlaceOK(cpu.pc, Pcb)'
      BY <2>1, <1>4 DEF PlaceOK, AlivePC, DyingPC
    <3> QED
      BY <3>1, <2>2, <1>0, <1>4, PlacesIntro
  <2>4. Untorn'
    BY <2>1, <2>2, <1>2, <1>4, UntornIntro DEF DyingPC
  <2>5. p \notin Held(live, top)
    <3>1. p \notin live
      BY <1>1 DEF VACANT, OCCUPIED
    <3>2. \A t \in Terminals : top[t] # p
      BY <1>8, <1>0, <1>1 DEF InUseElsewhere, VACANT, OCCUPIED
    <3> QED
      BY <3>1, <3>2 DEF Held
  <2>6. Chains(live \cup {p}, [parent EXCEPT ![p] = top[c]], [top EXCEPT ![c] = p])
    <3>1. live \in SUBSET Pids /\ parent \in [Pids -> Pids \cup {NULL}]
      BY DEF TypeOK
    <3>2. top[c] # NULL => top[c] \in live
      BY <1>0
    <3>3. Chains(live, parent, top)
      OBVIOUS
    <3> HIDE DEF live
    <3> QED
      BY <3>1, <3>2, <3>3, <2>5, <1>0, ChainPush
  <2>7. ChainsDisjoint'
    <3>1. Chains(Live', parent', terminal')
      BY <2>6, <1>2, <1>3, <1>5
    <3> QED
      BY <3>1, <2>1 DEF ChainsDisjoint, Chains, Held
  <2> QED
    BY <1>1, <1>3, <2>1, <2>3, <2>4, <2>7
<1> QED
  BY <1>7, <1>8

-----------------------------------------------------------------------------
(* The inductive invariant *)

\* After boot there are no processes and nothing is running.
LEMMA InitInv == Init => IInv
<1> SUFFICES ASSUME Init PROVE IInv
  OBVIOUS
<1>0. At("idle") \in Cpu /\ At("idle").pc = "idle" /\ At("user") \in Cpu
  BY AtType DEF PC
<1>1. TypeOK
  <2>1. 0 \in Terminals
    BY DEF Terminals
  <2>2. /\ pid \in [Pids -> {VACANT, OCCUPIED}]
        /\ parent \in [Pids -> Pids \cup {NULL}]
        /\ context \in [Pids -> Cpu]
        /\ terminal \in [Terminals -> Pids \cup {NULL}]
    BY <1>0 DEF Init
  <2>3. torn \in 0 .. MAX_TORN /\ process_counter \in Int
    BY DEF Init
  <2> QED
    BY <1>0, <2>1, <2>2, <2>3 DEF Init, TypeOK
<1>2. Live = {}
  BY DEF Live, Init, VACANT, OCCUPIED
<1>3. Pcb = NULL /\ \A t \in Terminals : terminal[t] = NULL
  BY DEF Pcb, Init, Terminals
<1>4. ChainsDisjoint
  BY <1>0, <1>2, <1>3 DEF Init, ChainsDisjoint, Chains, Held
<1>5. Places /\ Untorn
  BY <1>0, <1>3 DEF Init, Places, Untorn, AlivePC, DyingPC
<1>6. CounterExact
  <2>1. Cardinality({}) = 0
    BY FS_EmptySet
  <2>2. cpu.pc \notin HaltWindow
    BY <1>0 DEF Init, HaltWindow
  <2> QED
    BY <1>2, <2>1, <2>2 DEF Init, CounterExact
<1> QED
  BY <1>1, <1>4, <1>5, <1>6 DEF IInv

\* A tick that switches terminals: every process is now at its saved place.
LEMMA AdvancePlaces ==
    ASSUME IInv, Advance, NEW t \in Terminals, terminal[t] # NULL
    PROVE  /\ PlaceOK(context'[terminal[t]].pc, terminal[t])
           /\ torn' = 0 => context'[terminal[t]].pc \notin HaltWindow
<1>0. TypeOK /\ Places /\ Untorn /\ ChainsDisjoint
  BY DEF IInv
<1>1. /\ cpu.pc \notin Stopped
      /\ torn' = 0 => torn = 0 /\ cpu.pc \notin HaltWindow
  BY <1>0, InterruptTorn DEF Advance
<1>2. terminal[t] \in Pids /\ curr_scheduler \in Terminals
  BY <1>0 DEF TypeOK
<1>3. CASE t = curr_scheduler
  <2>1. Pcb = terminal[t]
    BY <1>3 DEF Pcb
  <2>2. context'[terminal[t]] = cpu
    BY <2>1, <1>2, <1>0 DEF Advance, SaveContext, TypeOK
  <2>3. PlaceOK(cpu.pc, terminal[t])
    BY <2>1, <1>0, <1>1 DEF Places
  <2> QED
    BY <2>2, <2>3, <1>1
<1>4. CASE t # curr_scheduler
  <2>1. terminal[t] # Pcb
    BY <1>0, <1>1, <1>2, <1>4 DEF ChainsDisjoint, Chains, Pcb, Stopped
  <2>2. context'[terminal[t]] = context[terminal[t]]
    BY <2>1, <1>2, <1>0 DEF Advance, SaveContext, TypeOK
  <2> QED
    BY <2>2, <1>0, <1>1, <1>4 DEF Places, Untorn
<1> QED
  BY <1>3, <1>4

\* Every step of the timer, the kernel, a program or the keyboard keeps the
\* inductive invariant.
LEMMA StepInv == IInv /\ [Next]_vars => IInv'
<1> SUFFICES ASSUME IInv, [Next]_vars
             PROVE  ChainsDisjoint' /\ Places' /\ Untorn' /\ CounterExact'
  BY TypeStep DEF IInv
<1>0. TypeOK /\ ChainsDisjoint /\ Places /\ Untorn /\ CounterExact
  BY DEF IInv
<1>t. TypeOK'
  BY TypeStep DEF IInv
<1>a. NULL \notin Pids /\ Live \in SUBSET Pids /\ curr_scheduler \in Terminals
  BY <1>0 DEF NULL, Pids, Live, TypeOK
<1>b. cpu.pc \notin Stopped => Chains(Live, parent, terminal)
  BY <1>0 DEF ChainsDisjoint, Stopped
\* Steps that touch no process and no other terminal.
<1>00. ASSUME UNCHANGED <<procVars, context, curr_scheduler>> PROVE OthersUntouched /\ Pcb' = Pcb
  BY <1>00 DEF procVars, OthersUntouched, Pcb
<1>1. CASE TickFirstShell
  <2>1. /\ cpu.pc \notin Stopped /\ (torn' = 0 => torn = 0 /\ cpu.pc \notin HaltWindow)
        /\ cpu'.pc = "launch" /\ Pcb = NULL
        /\ UNCHANGED <<procVars, context, curr_scheduler>>
    BY <1>1, <1>0, InterruptTorn, AtType DEF TickFirstShell, schedVars, PC
  <2>2. Places' /\ Untorn'
    BY <2>1, <1>00, <1>0, PlacesIntro, UntornIntro DEF NoProcessPC, AlivePC, DyingPC
  <2> QED
    BY <2>1, <2>2, <1>0, ChainsKept, CounterKept DEF procVars, HaltWindow
<1>2. CASE TickSaveFaults \/ CtrlCFaults
  <2>1. /\ cpu.pc \notin Stopped /\ (torn' = 0 => torn = 0)
        /\ cpu'.pc = "fault"
        /\ UNCHANGED procVars
    BY <1>2, <1>0, InterruptTorn, AtType
    DEF TickSaveFaults, CtrlCFaults, Keyboard, PC, Stopped
  <2>2. Places' /\ Untorn'
    BY <2>1 DEF Places, Untorn, Stopped
  <2> QED
    BY <2>1, <2>2, <1>0, ChainsKept, CounterKept DEF procVars
<1>3. ASSUME Advance
      PROVE  /\ UNCHANGED procVars /\ curr_scheduler' = NextTerminal
             /\ NextTerminal \in Terminals /\ Pcb' = terminal[NextTerminal]
             /\ cpu.pc \notin Stopped
             /\ torn' = 0 => torn = 0 /\ cpu.pc \notin HaltWindow
             /\ \A t \in Terminals : terminal[t] # NULL =>
                  /\ PlaceOK(context[terminal[t]].pc, terminal[t])'
                  /\ torn' = 0 => context'[terminal[t]].pc \notin HaltWindow
  <2>1. UNCHANGED procVars /\ curr_scheduler' = NextTerminal /\ TakeInterrupt
    BY <1>3 DEF Advance
  <2>2. NextTerminal \in Terminals /\ Pcb' = terminal[NextTerminal]
    BY <2>1, <1>t DEF TypeOK, Pcb, procVars
  <2>3. ASSUME NEW t \in Terminals, terminal[t] # NULL
        PROVE  /\ PlaceOK(context[terminal[t]].pc, terminal[t])'
               /\ torn' = 0 => context'[terminal[t]].pc \notin HaltWindow
    BY <1>3, <2>1, <2>3, AdvancePlaces DEF PlaceOK, procVars
  <2> QED
    BY <2>1, <2>2, <2>3, <1>0, InterruptTorn
<1>4. CASE TickLaunch
  <2>1. cpu'.pc = "launch" /\ Pcb' = NULL /\ Advance
    BY <1>4, <1>3, AtType DEF TickLaunch, PC
  <2>2. Places'
    BY <2>1, <1>3 DEF Places, procVars
  <2>3. Untorn'
    BY <2>1, <1>3 DEF Untorn, procVars, AlivePC, DyingPC
  <2> QED
    BY <2>1, <2>2, <2>3, <1>0, <1>3, ChainsKept, CounterKept DEF procVars, HaltWindow
<1>5. CASE TickResume
  <2>1. /\ Advance /\ Pcb' = terminal[NextTerminal] /\ Pcb' # NULL
        /\ cpu' = context'[Pcb'] /\ user_page' = Pcb' /\ esp0' = Pcb'
    BY <1>5, <1>3 DEF TickResume
  <2>2. PlaceOK(cpu.pc, Pcb)' /\ (torn' = 0 => cpu'.pc \notin HaltWindow)
    BY <2>1, <1>3 DEF PlaceOK, procVars
  <2>a. \A t \in Terminals : terminal'[t] # NULL =>
          /\ PlaceOK(context[terminal[t]].pc, terminal[t])'
          /\ torn' = 0 => context'[terminal'[t]].pc \notin HaltWindow
    BY <2>1, <1>3 DEF procVars
  <2>3. Places'
    BY <2>1, <2>2, <2>a DEF Places
  <2>4. Untorn'
    BY <2>1, <2>2, <2>a DEF Untorn, DyingPC, HaltWindow
  <2>5. cpu'.pc # "shared"
    BY <2>2 DEF PlaceOK, AlivePC, DyingPC
  <2> QED
    BY <2>2, <2>3, <2>4, <2>5, <1>0, <1>3, <2>1, ChainsKept, CounterKept DEF procVars
<1>6. CASE Launch
  <2>1. cpu.pc = "launch" /\ cpu.pc \notin Stopped /\ cpu.pc \notin HaltWindow
    BY <1>6 DEF Launch, Stopped, HaltWindow
  <2>2. Pcb = NULL
    BY <2>1, <1>0 DEF Places, PlaceOK, AlivePC, DyingPC
  <2>3. PICK p \in Pids \cup {FAILURE} : find_pid(pid, p) /\ Spawn(pid, NULL, p)
    BY <1>6 DEF Launch
  <2>4. /\ process_counter' = process_counter + 1 /\ torn' = torn
        /\ context' = context /\ curr_scheduler' = curr_scheduler
    BY <1>6 DEF Launch, schedVars
  <2>5. CASE p = FAILURE
    <3>1. cpu'.pc = "fault" /\ UNCHANGED <<pid, parent, terminal>>
      BY <2>3, <2>5, AtType DEF Spawn, PC, Stopped
    <3> QED
      BY <3>1, <2>1, <1>0, ChainsKept DEF Places, Untorn, CounterExact, Stopped
  <2>6. CASE p # FAILURE
    <3>1. /\ pid \in [Pids -> {VACANT, OCCUPIED}]
          /\ terminal \in [Terminals -> Pids \cup {NULL}]
          /\ torn \in Nat /\ torn' \in Nat /\ p \in Pids
          /\ terminal[curr_scheduler] = NULL
      BY <1>0, <2>2, <2>4, <2>6 DEF TypeOK, Pcb
    <3>2. Chains({q \in Pids : pid[q] = OCCUPIED}, parent, terminal)
      BY <1>b, <2>1 DEF Live
    <3>3. /\ ChainsDisjoint' /\ Places' /\ Untorn'
          /\ Live' = Live \cup {p} /\ pid[p] = VACANT
          /\ cpu'.pc \in {"user", "shared"} /\ (cpu'.pc = "shared" => torn' # 0)
      BY <1>0, <2>1, <2>3, <2>4, <3>1, <3>2, SpawnKeeps DEF Live
    <3>4. CounterExact'
      <4>1. p \in Pids \ Live
        BY <3>1, <3>3 DEF Live, VACANT, OCCUPIED
      <4>2. Cardinality(Live') = Cardinality(Live) + 1 /\ Cardinality(Live) \in Nat
        BY <3>3, <4>1, <1>a, LiveAdd, PidsFinite
      <4>3. process_counter \in Int /\ cpu.pc # "fault"
        BY <1>0, <2>1 DEF TypeOK, Stopped
      <4> QED
        BY <3>3, <4>2, <4>3, <1>0, <2>1, <2>4 DEF CounterExact, HaltWindow
    <3> QED
      BY <3>3, <3>4
  <2> QED
    BY <2>5, <2>6
<1>7. CASE Execute
  <2>1. cpu.pc = "user" /\ cpu.pc \notin Stopped /\ cpu.pc \notin HaltWindow
    BY <1>7 DEF Execute, Stopped, HaltWindow
  <2>2. Pcb # NULL /\ pid[Pcb] = OCCUPIED
    BY <2>1, <1>0, PcbType DEF PlaceOK, AlivePC
  <2>3. PICK p \in Pids : find_pid(pid, p) /\ Spawn(pid, Pcb, p)
    BY <1>7 DEF Execute
  <2>4. /\ process_counter' = process_counter + 1 /\ torn' = torn
        /\ context' = context /\ curr_scheduler' = curr_scheduler
    BY <1>7 DEF Execute, schedVars
  <2>5. /\ pid \in [Pids -> {VACANT, OCCUPIED}]
        /\ terminal \in [Terminals -> Pids \cup {NULL}]
        /\ torn \in Nat /\ torn' \in Nat /\ p \in Pids
        /\ pid[terminal[curr_scheduler]] = OCCUPIED
        /\ terminal[curr_scheduler] = Pcb
    BY <1>0, <2>2, <2>4 DEF TypeOK, Pcb
  <2>6. Chains({q \in Pids : pid[q] = OCCUPIED}, parent, terminal)
    BY <1>b, <2>1 DEF Live
  <2>7. /\ ChainsDisjoint' /\ Places' /\ Untorn'
        /\ Live' = Live \cup {p} /\ pid[p] = VACANT
        /\ cpu'.pc \in {"user", "shared"} /\ (cpu'.pc = "shared" => torn' # 0)
    BY <1>0, <2>1, <2>3, <2>4, <2>5, <2>6, SpawnKeeps DEF Live
  <2>8. CounterExact'
    <3>1. p \in Pids \ Live
      BY <2>5, <2>7 DEF Live, VACANT, OCCUPIED
    <3>2. Cardinality(Live') = Cardinality(Live) + 1 /\ Cardinality(Live) \in Nat
      BY <2>7, <3>1, <1>a, LiveAdd, PidsFinite
    <3>3. process_counter \in Int /\ cpu.pc # "fault"
      BY <1>0, <2>1 DEF TypeOK, Stopped
    <3> QED
      BY <2>7, <3>2, <3>3, <1>0, <2>1, <2>4 DEF CounterExact, HaltWindow
  <2> QED
    BY <2>7, <2>8
<1>8. CASE Exit
  <2>1. /\ cpu.pc = "user" /\ cpu'.pc = "halt" /\ torn' = torn
        /\ UNCHANGED <<procVars, context, curr_scheduler, mmuVars>>
    BY <1>8 DEF Exit, At, schedVars
  <2>2. Pcb # NULL /\ PlaceOK(cpu.pc, Pcb) /\ cpu.pc \notin Stopped
    BY <2>1, <1>0, PcbType DEF AlivePC, Stopped
  <2>3. PlaceOK(cpu.pc, Pcb)'
    BY <2>1, <2>2, <1>00 DEF PlaceOK, AlivePC, DyingPC, procVars
  <2>4. Places' /\ Untorn'
    BY <2>1, <2>2, <2>3, <1>0, <1>00, PlacesIntro, UntornIntro
    DEF Untorn, AlivePC, DyingPC, mmuVars
  <2> QED
    BY <2>1, <2>2, <2>4, <1>0, ChainsKept, CounterKept DEF procVars, HaltWindow
<1>9. ASSUME NEW from, NEW to \in PC, HaltStep(from, to)
      PROVE  /\ cpu.pc = from /\ cpu'.pc = to /\ torn' = torn
             /\ context' = context /\ curr_scheduler' = curr_scheduler
  BY <1>9, <1>0 DEF HaltStep, schedVars, TypeOK, Cpu
<1>d. HaltWindow \subseteq PC
  BY DEF PC, HaltWindow
\* The other terminals' processes are not this terminal's.
<1>e. ASSUME cpu.pc \notin Stopped, Pcb # NULL,
             NEW t \in Terminals \ {curr_scheduler}
      PROVE  terminal[t] # Pcb
  BY <1>e, <1>a, <1>b DEF Chains, Pcb
<1>10. CASE HaltFreePid
  <2>1. /\ cpu.pc = "halt" /\ cpu'.pc = "halt_parent" /\ torn' = torn
        /\ context' = context /\ curr_scheduler' = curr_scheduler
        /\ pid' = [pid EXCEPT ![Pcb] = VACANT]
        /\ UNCHANGED <<process_counter, parent, terminal, mmuVars>>
    BY <1>10, <1>9, <1>d DEF HaltFreePid, HaltWindow
  <2>2. /\ Pcb # NULL /\ Pcb \in Pids /\ pid[Pcb] = OCCUPIED
        /\ cpu.pc \notin Stopped /\ cpu.pc \notin HaltWindow /\ Pcb' = Pcb
    BY <2>1, <1>0, PcbType DEF PlaceOK, AlivePC, Stopped, HaltWindow, Pcb
  <2>3. pid'[Pcb] = VACANT /\ \A q \in Pids \ {Pcb} : pid'[q] = pid[q]
    BY <2>1, <2>2, <1>0 DEF TypeOK
  <2>4. OthersUntouched
    BY <2>1, <2>2, <2>3, <1>e, <1>0 DEF OthersUntouched, TypeOK
  <2>5. Places'
    <3>1. PlaceOK(cpu.pc, Pcb)'
      BY <2>1, <2>2, <2>3 DEF PlaceOK, AlivePC, DyingPC
    <3> QED
      BY <3>1, <2>2, <2>4, <1>0, PlacesIntro
  <2>6. Untorn'
    BY <2>1, <2>2, <2>3, <2>4, <1>0, UntornIntro DEF AlivePC
  <2>7. Live' = Live \ {Pcb} /\ Pcb \in Live
    BY <2>2, <2>3 DEF Live, VACANT, OCCUPIED
  <2>8. ChainsDisjoint'
    <3>1. Chains(Live \ {Pcb}, parent, terminal)
      BY <2>2, <1>0, <1>a, <1>b, ChainFree DEF TypeOK, Pcb
    <3>2. Chains(Live', parent', terminal')
      BY <3>1, <2>1, <2>7
    <3> QED
      BY <3>2, <2>1 DEF ChainsDisjoint, Chains, Held
  <2>9. CounterExact'
    <3>1. Cardinality(Live') = Cardinality(Live) - 1 /\ Cardinality(Live) \in Nat
      BY <2>7, <1>a, LiveRemove, PidsFinite
    <3> QED
      BY <3>1, <2>1, <2>2, <1>0 DEF CounterExact, HaltWindow, TypeOK
  <2> QED
    BY <2>5, <2>6, <2>8, <2>9
<1>11. CASE HaltBase \/ HaltPop
  <2>1. /\ torn' = torn /\ context' = context /\ curr_scheduler' = curr_scheduler
        /\ cpu.pc \in DyingPC /\ cpu'.pc \in {"base_load", "halt_load"}
        /\ terminal' = [terminal EXCEPT ![curr_scheduler] = parent[Pcb]]
        /\ UNCHANGED <<pid, process_counter, parent, mmuVars>>
    BY <1>11, <1>9, <1>d DEF HaltBase, HaltPop, HaltWindow, DyingPC
  <2>2. \/ cpu'.pc = "base_load" /\ parent[Pcb] = NULL
        \/ cpu'.pc = "halt_load" /\ cpu.pc = "halt_pop"
    BY <1>11, <1>9, <1>d DEF HaltBase, HaltPop, HaltWindow
  <2>3. /\ Pcb # NULL /\ Pcb \in Pids /\ cpu.pc \notin Stopped
        /\ PlaceOK(cpu.pc, Pcb)
    BY <2>1, <1>0, PcbType DEF DyingPC, Stopped
  <2>4. Pcb' = parent[Pcb]
    BY <2>1, <1>a, <1>0 DEF Pcb, TypeOK
  <2>5. OthersUntouched
    BY <2>1, <1>0, <1>a DEF OthersUntouched, TypeOK
  <2>6. parent[Pcb] # NULL => parent[Pcb] \in Live
    BY <2>3, <1>a, <1>b DEF Chains, Held, Pcb
  <2>7. Places'
    <3>1. CASE cpu'.pc = "base_load" /\ parent[Pcb] = NULL
      BY <3>1, <2>3, <2>4, <2>5, <1>0, PlacesIntro DEF NoProcessPC
    <3>2. CASE cpu'.pc = "halt_load" /\ cpu.pc = "halt_pop"
      <4>1. Pcb' # NULL /\ Pcb' \in Live
        BY <3>2, <2>3, <2>4, <2>6 DEF PlaceOK
      <4>2. PlaceOK(cpu.pc, Pcb)'
        BY <4>1, <3>2, <2>1 DEF PlaceOK, AlivePC, DyingPC, Live
      <4> QED
        BY <4>1, <4>2, <2>3, <2>5, <1>0, PlacesIntro
    <3> QED
      BY <3>1, <3>2, <2>2
  <2>8. Untorn'
    <3>1. torn = 0 /\ cpu'.pc \in AlivePC => user_page' = Pcb' /\ esp0' = Pcb'
      BY <2>1, <2>2, <2>3, <2>4, <1>0 DEF Untorn, AlivePC, mmuVars
    <3> QED
      BY <3>1, <2>1, <2>3, <2>5, <1>0, UntornIntro DEF DyingPC
  <2>9. ChainsDisjoint' /\ CounterExact'
    <3>0. Pcb \notin Live
      BY <2>1, <2>3 DEF PlaceOK, Live, VACANT, OCCUPIED
    <3>1. Chains(Live, parent, [terminal EXCEPT ![curr_scheduler] = parent[Pcb]])
      BY <2>3, <3>0, <1>0, <1>a, <1>b, ChainPop DEF TypeOK, Pcb
    <3>2. Live' = Live /\ Chains(Live', parent', terminal')
      BY <3>1, <2>1 DEF Live
    <3>3. ChainsDisjoint'
      BY <3>2, <2>1 DEF ChainsDisjoint, Chains, Held
    <3>4. CounterExact'
      BY <2>1, <2>3, <1>0, CounterKept DEF HaltWindow, DyingPC
    <3> QED
      BY <3>3, <3>4
  <2> QED
    BY <2>7, <2>8, <2>9
<1>12. CASE HaltRestore
  <2>1. /\ cpu.pc = "halt_parent" /\ cpu'.pc = "halt_pop" /\ torn' = torn
        /\ UNCHANGED <<procVars, context, curr_scheduler>>
        /\ parent[Pcb] # NULL /\ user_page' = parent[Pcb] /\ esp0' = parent[Pcb]
    BY <1>12, <1>9, <1>d DEF HaltRestore, RestorePage, HaltWindow
  <2>2. Pcb # NULL /\ PlaceOK(cpu.pc, Pcb) /\ cpu.pc \notin Stopped
    BY <2>1, <1>0, PcbType DEF DyingPC, Stopped
  <2>3. PlaceOK(cpu.pc, Pcb)'
    BY <2>1, <2>2, <1>00 DEF PlaceOK, AlivePC, DyingPC, procVars
  <2>4. Places' /\ Untorn'
    BY <2>1, <2>2, <2>3, <1>0, <1>00, PlacesIntro, UntornIntro DEF AlivePC, procVars
  <2> QED
    BY <2>1, <2>2, <2>4, <1>0, ChainsKept, CounterKept DEF procVars, HaltWindow
<1>13. CASE HaltLoad \/ BaseLoad
  <2>1. /\ \/ cpu.pc = "halt_load" /\ cpu'.pc = "halt_store"
           \/ cpu.pc = "base_load" /\ cpu'.pc = "base_store"
        /\ torn' = torn /\ cpu'.reg = process_counter
        /\ UNCHANGED <<procVars, context, curr_scheduler, mmuVars>>
    BY <1>13, <1>0 DEF HaltLoad, BaseLoad, LoadCounter, schedVars, TypeOK, Cpu
  <2>2. cpu.pc \notin Stopped
    BY <2>1 DEF Stopped
  <2>3. \/ Pcb' # NULL /\ PlaceOK(cpu.pc, Pcb)'
        \/ Pcb' = NULL /\ cpu'.pc \in NoProcessPC
    BY <2>1, <2>2, <1>0, <1>00
    DEF Places, PlaceOK, AlivePC, DyingPC, NoProcessPC, procVars
  <2>4. Places' /\ Untorn'
    BY <2>1, <2>2, <2>3, <1>0, <1>00, PlacesIntro, UntornIntro
    DEF Untorn, AlivePC, mmuVars, procVars
  <2> QED
    BY <2>1, <2>2, <2>4, <1>0, ChainsKept, CounterKept DEF procVars, HaltWindow
<1>14. CASE HaltStore \/ BaseStore
  <2>1. /\ \/ cpu.pc = "halt_store" /\ cpu'.pc = "halt_return"
           \/ cpu.pc = "base_store" /\ cpu'.pc = "launch"
        /\ torn' = torn /\ process_counter' = cpu.reg - 1
        /\ UNCHANGED <<pid, parent, terminal, context, curr_scheduler, mmuVars>>
    BY <1>14, <1>0
    DEF HaltStore, BaseStore, StoreCounter, Decremented, schedVars, TypeOK, Cpu
  <2>2. cpu.pc \notin Stopped /\ OthersUntouched /\ Pcb' = Pcb
    BY <2>1 DEF Stopped, OthersUntouched, Pcb
  <2>3. \/ Pcb' # NULL /\ PlaceOK(cpu.pc, Pcb)'
        \/ Pcb' = NULL /\ cpu'.pc \in NoProcessPC
    BY <2>1, <2>2, <1>0 DEF Places, PlaceOK, AlivePC, DyingPC, NoProcessPC
  <2>4. Places' /\ Untorn'
    BY <2>1, <2>2, <2>3, <1>0, PlacesIntro, UntornIntro DEF Untorn, AlivePC, mmuVars
  <2>5. CounterExact'
    <3>1. Live' = Live /\ Cardinality(Live) \in Nat
      BY <2>1, <1>a, PidsFinite DEF Live
    <3>2. torn = 0 => cpu.reg = process_counter
      BY <2>1, <2>2, <1>0 DEF Untorn
    <3> QED
      BY <3>1, <3>2, <2>1, <1>0 DEF CounterExact, HaltWindow, TypeOK
  <2> QED
    BY <2>1, <2>2, <2>4, <2>5, <1>0, ChainsKept
<1>15. CASE HaltReturn
  <2>1. /\ cpu.pc = "halt_return" /\ cpu'.pc = "user" /\ torn' = torn
        /\ UNCHANGED <<procVars, context, curr_scheduler, mmuVars>>
    BY <1>15 DEF HaltReturn, At, schedVars
  <2>2. Pcb # NULL /\ PlaceOK(cpu.pc, Pcb) /\ cpu.pc \notin Stopped
    BY <2>1, <1>0, PcbType DEF AlivePC, Stopped
  <2>3. PlaceOK(cpu.pc, Pcb)'
    BY <2>1, <2>2, <1>00 DEF PlaceOK, AlivePC, DyingPC, procVars
  <2>4. Places' /\ Untorn'
    BY <2>1, <2>2, <2>3, <1>0, <1>00, PlacesIntro, UntornIntro
    DEF Untorn, AlivePC, mmuVars
  <2> QED
    BY <2>1, <2>2, <2>4, <1>0, ChainsKept, CounterKept DEF procVars, HaltWindow
<1>16. ASSUME NEW t \in Terminals, terminal_switch(t)
       PROVE  ChainsDisjoint' /\ Places' /\ Untorn' /\ CounterExact'
  <2>1. /\ cpu.pc \notin Stopped /\ cpu' = cpu
        /\ torn' = 0 => torn = 0
        /\ UNCHANGED <<procVars, context, curr_scheduler, mmuVars>>
    BY <1>16, <1>0, InterruptTorn DEF terminal_switch, Keyboard
  <2>2. Places' /\ Untorn'
    BY <2>1, <1>0, <1>00 DEF Places, Untorn, PlaceOK, procVars, mmuVars
  <2> QED
    BY <2>1, <2>2, <1>0, ChainsKept, CounterKept DEF procVars, Stopped
<1>17. CASE vidmap \/ StoppedLoop \/ UNCHANGED vars
  <2>1. UNCHANGED <<procVars, context, curr_scheduler, mmuVars, cpu, torn>>
    BY <1>17 DEF vidmap, StoppedLoop, vars, schedVars, procVars, mmuVars
  <2>2. Live' = Live /\ Pcb' = Pcb
    BY <2>1 DEF Live, Pcb, procVars
  <2>3. Places' /\ Untorn'
    BY <2>1, <2>2, <1>0 DEF Places, Untorn, PlaceOK, procVars, mmuVars
  <2>4. ChainsDisjoint'
    BY <2>1, <2>2, <1>0 DEF ChainsDisjoint, Chains, Held, procVars
  <2> QED
    BY <2>1, <2>2, <2>3, <2>4, <1>0 DEF CounterExact, procVars
\* halt with interrupts disabled hits no halt of this terminal unseen.
<1>g. ASSUME Keyboard \/ ExecuteFaults
      PROVE  /\ cpu.pc \notin Stopped
             /\ torn' = 0 => torn = 0 /\ cpu.pc \notin HaltWindow
  BY <1>g, <1>0, InterruptTorn DEF Keyboard, ExecuteFaults, Stopped, HaltWindow
\* Only a torn halt leaves an execute below the limit without a pid.
<1>h. ASSUME ExecuteFaults PROVE torn' # 0
  <2>1. \A p \in Pids : pid[p] = OCCUPIED
    BY <1>h DEF ExecuteFaults, find_pid, FAILURE, Pids
  <2> QED
    BY <1>h, <2>1, <1>0, VacantPid DEF ExecuteFaults, VACANT, OCCUPIED
\* What both forms of such a halt do first: free the pid, drop the process.
<1>f. ASSUME Keyboard \/ ExecuteFaults, Pcb # NULL
      PROVE  /\ Pcb \in Pids /\ cpu.pc \notin Stopped
             /\ parent[Pcb] \in Pids \cup {NULL}
             /\ torn' = 0 => torn = 0 /\ cpu.pc \notin HaltWindow /\ Pcb \in Live
             /\ Chains(Live \ {Pcb}, parent,
                       [terminal EXCEPT ![curr_scheduler] = parent[Pcb]])
             /\ parent[Pcb] # NULL => parent[Pcb] \in Live \ {Pcb}
  <2>1. Pcb \in Pids /\ terminal[curr_scheduler] = Pcb
    BY <1>f, <1>0 DEF Pcb, TypeOK
  <2>2. /\ cpu.pc \notin Stopped
        /\ torn' = 0 => torn = 0 /\ cpu.pc \notin HaltWindow
    BY <1>f, <1>g
  <2>3. parent[Pcb] \in Pids \cup {NULL}
    BY <2>1, <1>0 DEF TypeOK
  <2>4. torn' = 0 => Pcb \in Live
    BY <1>f, <2>1, <2>2, <1>0 DEF Places, PlaceOK, DyingPC, HaltWindow, Live
  <2>5. Chains(Live \ {Pcb}, parent, terminal)
    BY <1>f, <2>1, <2>2, <1>0, <1>a, <1>b, ChainFree DEF TypeOK
  <2>6. Chains(Live \ {Pcb}, parent, [terminal EXCEPT ![curr_scheduler] = parent[Pcb]])
    <3>1. Live \ {Pcb} \in SUBSET Pids
      BY <1>a
    <3> QED
      BY <3>1, <1>f, <2>1, <2>5, <1>0, <1>a, ChainPop DEF TypeOK
  <2>7. parent[Pcb] # NULL => parent[Pcb] \in Live \ {Pcb}
    BY <1>f, <2>1, <2>5, <1>a DEF Chains, Held
  <2> QED
    BY <2>1, <2>2, <2>3, <2>4, <2>6, <2>7
<1>18. ASSUME HaltChildNow, Keyboard \/ ExecuteFaults,
              UNCHANGED <<context, schedVars>>,
              torn' = 0 => process_counter' = process_counter - 1
       PROVE  ChainsDisjoint' /\ Places' /\ Untorn' /\ CounterExact'
  <2>1. /\ Keyboard \/ ExecuteFaults
        /\ Pcb # NULL /\ parent[Pcb] # NULL
        /\ pid' = [pid EXCEPT ![Pcb] = VACANT]
        /\ user_page' = parent[Pcb] /\ esp0' = parent[Pcb]
        /\ terminal' = [terminal EXCEPT ![curr_scheduler] = parent[Pcb]]
        /\ torn' = 0 => process_counter' = process_counter - 1
        /\ cpu'.pc = "user"
        /\ UNCHANGED <<parent, context, curr_scheduler>>
    BY <1>18 DEF HaltChildNow, RestorePage, At, schedVars
  <2>2. Pcb' = parent[Pcb] /\ \A t \in Terminals \ {curr_scheduler} : terminal'[t] = terminal[t]
    BY <2>1, <1>0, <1>a DEF Pcb, TypeOK
  <2>3. Live' = Live \ {Pcb} /\ \A q \in Pids \ {Pcb} : pid'[q] = pid[q]
    BY <2>1, <1>f, <1>0 DEF Live, TypeOK, VACANT, OCCUPIED
  <2>4. OthersUntouched
    BY <2>1, <2>2, <2>3, <1>e, <1>f, <1>0 DEF OthersUntouched, TypeOK
  <2>5. Places'
    <3>1. PlaceOK(cpu.pc, Pcb)'
      BY <2>1, <2>2, <2>3, <1>f DEF PlaceOK, AlivePC, DyingPC, Live
    <3> QED
      BY <3>1, <2>1, <2>2, <2>4, <1>0, <1>f, PlacesIntro
  <2>6. Untorn'
    BY <2>1, <2>2, <2>4, <1>0, <1>f, UntornIntro
  <2>7. ChainsDisjoint'
    <3>1. Chains(Live', parent', terminal')
      BY <2>1, <2>3, <1>f
    <3> QED
      BY <3>1, <2>1 DEF ChainsDisjoint, Chains, Held
  <2>8. CounterExact'
    <3> SUFFICES ASSUME torn' = 0 PROVE CounterExact'
      BY DEF CounterExact
    <3>1. torn = 0 /\ cpu.pc \notin HaltWindow /\ Pcb \in Live /\ cpu.pc # "fault"
      BY <2>1, <1>f DEF Stopped
    <3>2. Cardinality(Live') = Cardinality(Live) - 1 /\ Cardinality(Live) \in Nat
      BY <2>3, <3>1, <1>a, LiveRemove, PidsFinite
    <3> QED
      BY <3>1, <3>2, <2>1, <1>0 DEF CounterExact, HaltWindow, TypeOK
  <2> QED
    BY <2>5, <2>6, <2>7, <2>8
<1>19. ASSUME HaltBaseNow, Keyboard \/ ExecuteFaults,
              UNCHANGED <<context, schedVars>>,
              torn' = 0 => process_counter' = process_counter
       PROVE  ChainsDisjoint' /\ Places' /\ Untorn' /\ CounterExact'
  <2> DEFINE freed == [pid EXCEPT ![Pcb] = VACANT]
             top == [terminal EXCEPT ![curr_scheduler] = NULL]
  <2>1. /\ Keyboard \/ ExecuteFaults
        /\ Pcb # NULL /\ parent[Pcb] = NULL
        /\ torn' = 0 => process_counter' = process_counter
        /\ UNCHANGED <<context, curr_scheduler>>
    BY <1>19 DEF HaltBaseNow, schedVars
  <2>2. PICK p \in Pids : find_pid(freed, p) /\ Spawn(freed, NULL, p)
    BY <1>19 DEF HaltBaseNow
  <2>3. freed \in [Pids -> {VACANT, OCCUPIED}] /\ top \in [Terminals -> Pids \cup {NULL}]
    BY <1>0 DEF TypeOK
  <2>4. {q \in Pids : freed[q] = OCCUPIED} = Live \ {Pcb}
    BY <2>1, <1>f, <1>0 DEF Live, TypeOK, VACANT, OCCUPIED
  <2>5. Chains({q \in Pids : freed[q] = OCCUPIED}, parent, top)
    BY <2>1, <2>4, <1>f
  <2>6. /\ top[curr_scheduler] = NULL
        /\ \A t \in Terminals \ {curr_scheduler} :
              /\ top[t] = terminal[t]
              /\ top[t] # NULL => freed[top[t]] = pid[top[t]]
    BY <2>1, <1>e, <1>f, <1>0, <1>a DEF TypeOK
  <2>7. torn \in Nat /\ torn' \in Nat
    BY <1>0, <1>t DEF TypeOK
  <2>8. cpu.pc \notin Stopped /\ (torn' = 0 => torn = 0)
    BY <2>1, <1>f
  <2>9. /\ ChainsDisjoint' /\ Places' /\ Untorn'
        /\ Live' = (Live \ {Pcb}) \cup {p} /\ freed[p] = VACANT
        /\ cpu'.pc \in {"user", "shared"} /\ (cpu'.pc = "shared" => torn' # 0)
    <3>1. Spawn(freed, top[curr_scheduler], p)
      BY <2>2, <2>6
    <3> HIDE DEF freed, top
    <3> QED
      BY <3>1, <2>1, <2>2, <2>3, <2>4, <2>5, <2>6, <2>7, <2>8, <1>0, SpawnKeeps
  <2>10. CounterExact'
    <3> SUFFICES ASSUME torn' = 0 PROVE CounterExact'
      BY DEF CounterExact
    <3>1. torn = 0 /\ cpu.pc \notin HaltWindow /\ Pcb \in Live /\ cpu.pc # "fault"
      BY <2>1, <1>f DEF Stopped
    <3>2. p \in Pids \ (Live \ {Pcb}) /\ Live \ {Pcb} \in SUBSET Pids
      BY <2>4, <2>9, <1>a DEF VACANT, OCCUPIED
    <3>3. /\ Cardinality(Live \ {Pcb}) = Cardinality(Live) - 1
          /\ Cardinality(Live') = Cardinality(Live \ {Pcb}) + 1
          /\ Cardinality(Live) \in Nat
      BY <2>9, <3>1, <3>2, <1>a, LiveAdd, LiveRemove, PidsFinite
    <3>4. Cardinality(Live') = Cardinality(Live)
      BY <3>3
    <3> QED
      BY <3>1, <3>4, <2>1, <2>9, <1>0 DEF CounterExact, HaltWindow
  <2> QED
    BY <2>9, <2>10
<1>20. CASE CtrlCChild \/ CtrlCBase
  BY <1>18, <1>19, <1>20 DEF CtrlCChild, CtrlCBase, Decremented
<1>21. CASE ExecuteFaultsChild \/ ExecuteFaultsBase
  <2>1. ExecuteFaults /\ UNCHANGED <<context, schedVars>> /\ (HaltChildNow \/ HaltBaseNow)
    BY <1>21 DEF ExecuteFaultsChild, ExecuteFaultsBase, ExecuteFaults
  <2> QED
    BY <2>1, <1>h, <1>18, <1>19
<1> QED
  BY <1>1, <1>2, <1>4, <1>5, <1>6, <1>7, <1>8, <1>10, <1>11, <1>12, <1>13,
     <1>14, <1>15, <1>16, <1>17, <1>20, <1>21
  DEF Next, Tick, KernelStep, UserStep, KeyStep

-----------------------------------------------------------------------------
(* The theorems *)

\* The inductive invariant holds in every reachable state.
LEMMA Invariance == Spec => []IInv
BY InitInv, StepInv, PTL DEF Spec

\* Every variable of the kernel keeps its type, however interrupts hit halt:
\* the pid that a PCB, a terminal or a parent link holds is always one of the
\* table's, because execute with pid -1 faults before it stores one.
THEOREM TypeCorrect == Spec => []TypeOK
<1>1. IInv => TypeOK
  BY DEF IInv
<1> QED
  BY <1>1, Invariance, PTL

\* Chains of processes never meet and lose no slot, whatever the interleaving
\* of ticks and Ctrl-C with halt, up to the moment execute hands out a slot a
\* suspended halt still uses; without a torn halt that never happens.
THEOREM ProcessesDisjoint == Spec => []ChainsDisjoint
<1>1. IInv => ChainsDisjoint
  BY DEF IInv
<1> QED
  BY <1>1, Invariance, PTL

\* Without torn halts process_counter is exact, so the limit that execute
\* checks leaves it a vacant pid.
THEOREM LimitSound == Spec => [](CounterExact /\ ExecuteFindsPid)
<1>1. IInv => CounterExact /\ ExecuteFindsPid
  <2> SUFFICES ASSUME IInv PROVE CounterExact /\ ExecuteFindsPid
    OBVIOUS
  <2>1. CounterExact /\ TypeOK
    BY DEF IInv
  <2> QED
    BY <2>1, VacantPid DEF ExecuteFindsPid
<1> QED
  BY <1>1, Invariance, PTL

\* Without torn halts a program always runs in its own page and its traps use
\* its own kernel stack.
THEOREM AddressSpaces == Spec => []OwnAddressSpace
<1>1. IInv => OwnAddressSpace
  <2> SUFFICES ASSUME IInv, torn = 0, cpu.pc = "user"
               PROVE  Pcb # NULL /\ user_page = Pcb /\ esp0 = Pcb
    BY DEF OwnAddressSpace
  <2>1. Pcb # NULL
    BY PcbType DEF IInv, AlivePC
  <2> QED
    BY <2>1 DEF IInv, Untorn, AlivePC, Stopped
<1> QED
  BY <1>1, Invariance, PTL

-----------------------------------------------------------------------------
(* Walks along the parents *)

Less == {mn \in Nat \X Nat : mn[1] < mn[2]}

\* Every set of numbers that has an element has a least one.
LEMMA Least ==
    ASSUME NEW C, C \subseteq Nat, C # {}
    PROVE  \E m \in C : \A k \in C : m <= k
<1>1. IsWellFoundedOn(Less, Nat)
  BY NatLessThanWellFounded DEF OpToRel, Less
<1>2. PICK m \in C : \A k \in C : ~(<<k, m>> \in Less)
  BY <1>1, WFMin
<1>3. ASSUME NEW k \in C PROVE m <= k
  <2>1. ~(k < m) /\ k \in Nat /\ m \in Nat
    BY <1>2 DEF Less
  <2> QED
    BY <2>1
<1> QED
  BY <1>3

\* The number of steps of a walk.
Last == MAX_PID + 2
\* Induction along the positions of a walk.
LEMMA UpWalk ==
    ASSUME NEW T, 1 \in T, \A k \in 1 .. Last - 1 : k \in T => k + 1 \in T
    PROVE  \A k \in 1 .. Last : k \in T
<1> SUFFICES ASSUME NEW j \in 1 .. Last, j \notin T PROVE FALSE
  OBVIOUS
<1> DEFINE C == {k \in 1 .. Last : k \notin T}
<1>1. C \subseteq Nat /\ j \in C
  BY DEF Last
<1> HIDE DEF C
<1>2. PICK m \in C : \A k \in C : m <= k
  BY <1>1, Least
<1>3. m \in 1 .. Last /\ m \notin T /\ m # 1
  BY <1>2 DEF C
<1>4. m - 1 \in 1 .. Last - 1 /\ m - 1 \in 1 .. Last /\ (m - 1) + 1 = m /\ ~(m <= m - 1)
  BY <1>3 DEF Last
<1>5. m - 1 \notin T
  BY <1>3, <1>4
<1>6. m - 1 \in C
  BY <1>4, <1>5 DEF C
<1> QED
  BY <1>2, <1>4, <1>6

IsWalk(w, up, p) == w = [k \in 1 .. Last |-> IF k = 1 THEN p ELSE Above(up, w[k - 1])]

\* There is a walk from every process.
LEMMA WalkExists ==
    ASSUME NEW up, NEW p
    PROVE  \E w : IsWalk(w, up, p)
<1> DEFINE Is(w, k) == w[k] = IF k = 1 THEN p ELSE Above(up, w[k - 1])
           T == {m \in 1 .. Last : \E w : \A k \in 1 .. m : Is(w, k)}
<1>1. 1 \in T
  <2> DEFINE w == [k \in 1 .. Last |-> p]
  <2>1. 1 \in 1 .. Last /\ 1 .. 1 = {1}
    BY DEF Last
  <2>2. \A k \in 1 .. 1 : Is(w, k)
    BY <2>1
  <2> HIDE DEF w
  <2> QED
    BY <2>1, <2>2
<1>2. ASSUME NEW m \in 1 .. Last - 1, m \in T PROVE m + 1 \in T
  <2>1. PICK w : \A k \in 1 .. m : Is(w, k)
    BY <1>2
  <2> DEFINE v == [k \in 1 .. Last |-> IF k = m + 1 THEN Above(up, w[m]) ELSE w[k]]
  <2>2. m + 1 \in 1 .. Last /\ m \in Nat /\ m >= 1
    BY DEF Last
  <2>3. ASSUME NEW k \in 1 .. m + 1 PROVE Is(v, k)
    <3>1. k \in 1 .. Last /\ (k # 1 => k - 1 \in 1 .. Last /\ k - 1 # m + 1)
      BY <2>2 DEF Last
    <3>2. CASE k = m + 1
      <4>1. k # 1 /\ k - 1 = m
        BY <2>2, <3>2
      <4> QED
        BY <3>1, <3>2, <4>1
    <3>3. CASE k # m + 1
      <4>1. k \in 1 .. m
        BY <2>2, <3>3
      <4>2. v[k] = w[k] /\ (k # 1 => v[k - 1] = w[k - 1])
        BY <3>1, <3>3
      <4> QED
        BY <2>1, <4>1, <4>2
    <3> QED
      BY <3>2, <3>3
  <2> HIDE DEF v
  <2> QED
    BY <2>2, <2>3
<1> HIDE DEF T
<1>3. Last \in T
  <2>1. Last \in 1 .. Last
    BY DEF Last
  <2> QED
    BY <1>1, <1>2, <2>1, UpWalk
<1>4. PICK w : \A k \in 1 .. Last : Is(w, k)
  BY <1>3 DEF T
<1> DEFINE v == [k \in 1 .. Last |-> w[k]]
<1>5. ASSUME NEW k \in 1 .. Last PROVE Is(v, k)
  <2>1. k # 1 => k - 1 \in 1 .. Last
    BY DEF Last
  <2> QED
    BY <1>4, <2>1
<1>6. v = [k \in 1 .. Last |-> v[k]]
  OBVIOUS
<1> HIDE DEF v
<1>7. IsWalk(v, up, p)
  BY <1>5, <1>6 DEF IsWalk
<1> QED
  BY <1>7

\* The walk that Chain takes.
LEMMA WalkIs ==
    ASSUME NEW up, NEW p
    PROVE  /\ Walk(up, p)[1] = p
           /\ \A k \in 1 .. Last - 1 : Walk(up, p)[k + 1] = Above(up, Walk(up, p)[k])
<1>1. Walk(up, p) = CHOOSE w : IsWalk(w, up, p)
  BY DEF Walk, IsWalk, Last
<1> DEFINE w == Walk(up, p)
<1>2. IsWalk(w, up, p)
  BY <1>1, WalkExists
<1> HIDE DEF w
<1>3. 1 \in 1 .. Last /\ \A k \in 1 .. Last - 1 :
         k + 1 \in 1 .. Last /\ k + 1 # 1 /\ (k + 1) - 1 = k
  BY DEF Last
<1>4. \A k \in 1 .. Last : w[k] = IF k = 1 THEN p ELSE Above(up, w[k - 1])
  BY <1>2 DEF IsWalk
<1>5. w[1] = p
  BY <1>3, <1>4
<1>6. \A k \in 1 .. Last - 1 : w[k + 1] = Above(up, w[k])
  BY <1>3, <1>4
<1> QED
  BY <1>5, <1>6 DEF w

\* A walk from a set that the parents do not lead out of stays in it; and
\* nothing else matters to it.
Closed(S, up) == S \subseteq Pids /\ \A q \in S : up[q] \in S \cup {NULL}

\* A walk that begins in a closed set stays in it, and does not change when
\* only parents of other processes do.
LEMMA WalkStays ==
    ASSUME NEW S, NEW up, NEW up2, Closed(S, up), \A q \in S : up2[q] = up[q],
           NEW p \in S \cup {NULL}
    PROVE  \A k \in 1 .. Last : Walk(up, p)[k] \in S \cup {NULL} /\ Walk(up2, p)[k] = Walk(up, p)[k]
<1> DEFINE v == Walk(up, p)
           w == Walk(up2, p)
           T == {k \in 1 .. Last : v[k] \in S \cup {NULL} /\ w[k] = v[k]}
<1>1. /\ v[1] = p /\ \A k \in 1 .. Last - 1 : v[k + 1] = Above(up, v[k])
      /\ w[1] = p /\ \A k \in 1 .. Last - 1 : w[k + 1] = Above(up2, w[k])
  BY WalkIs
<1> HIDE DEF v, w
<1>2. 1 \in T
  BY <1>1 DEF Last
<1>3. ASSUME NEW k \in 1 .. Last - 1, k \in T PROVE k + 1 \in T
  <2>1. k + 1 \in 1 .. Last
    BY DEF Last
  <2>2. Above(up, v[k]) \in S \cup {NULL} /\ Above(up2, w[k]) = Above(up, v[k])
    BY <1>3 DEF Closed, Above
  <2> QED
    BY <1>1, <2>1, <2>2
<1> HIDE DEF T
<1>4. \A k \in 1 .. Last : k \in T
  BY <1>2, <1>3, UpWalk
<1> QED
  BY <1>4 DEF T, v, w

\* The same for the chain, which is the walk up to its first NULL.
LEMMA ChainStays ==
    ASSUME NEW S, NEW up, NEW up2, Closed(S, up), \A q \in S : up2[q] = up[q],
           NEW p \in S \cup {NULL}
    PROVE  Chain(up2, p) = Chain(up, p) /\ \A k \in DOMAIN Chain(up, p) : Chain(up, p)[k] \in S
<1> DEFINE v == Walk(up, p)
           w == Walk(up2, p)
<1>1. \A k \in 1 .. Last : v[k] \in S \cup {NULL} /\ w[k] = v[k]
  BY WalkStays
<1>2. /\ Chain(up, p) = [k \in {i \in 1 .. Last : v[i] # NULL} |-> v[k]]
      /\ Chain(up2, p) = [k \in {i \in 1 .. Last : w[i] # NULL} |-> w[k]]
  BY DEF Chain, Last
<1> HIDE DEF v, w
<1> QED
  BY <1>1, <1>2

\* A walk that has come to its end stays there.
LEMMA WalkOver ==
    ASSUME NEW up, NEW p, NEW j \in 1 .. Last, Walk(up, p)[j] = NULL
    PROVE  \A k \in 1 .. Last : k >= j => Walk(up, p)[k] = NULL
<1> DEFINE w == Walk(up, p)
           T == {k \in 1 .. Last : k >= j => w[k] = NULL}
<1>1. \A k \in 1 .. Last - 1 : w[k + 1] = Above(up, w[k])
  BY WalkIs
<1>2. w[j] = NULL
  OBVIOUS
<1> HIDE DEF w
<1>3. 1 \in T
  BY <1>2 DEF Last
<1>4. ASSUME NEW k \in 1 .. Last - 1, k \in T PROVE k + 1 \in T
  <2>1. k + 1 \in 1 .. Last
    BY DEF Last
  <2>2. CASE k >= j
    BY <1>1, <1>4, <2>1, <2>2 DEF Above
  <2>3. CASE ~(k >= j)
    <3>1. k + 1 >= j => k + 1 = j
      BY <2>1, <2>3 DEF Last
    <3> QED
      BY <1>2, <2>1, <3>1
  <2> QED
    BY <2>2, <2>3
<1> HIDE DEF T
<1>5. \A k \in 1 .. Last : k \in T
  BY <1>3, <1>4, UpWalk
<1> QED
  BY <1>5 DEF T, w

\* The processes of a walk that ends are a sequence.
LEMMA ChainIs ==
    ASSUME NEW S, NEW up, Closed(S, up), NEW p \in S \cup {NULL}, Walk(up, p)[Last] = NULL
    PROVE  \E n \in 0 .. Last - 1 :
              /\ Chain(up, p) = [k \in 1 .. n |-> Walk(up, p)[k]]
              /\ \A k \in 1 .. Last : Walk(up, p)[k] = NULL <=> k > n
              /\ Chain(up, p) \in Seq(S) /\ Len(Chain(up, p)) = n
<1> DEFINE w == Walk(up, p)
           C == {k \in 1 .. Last : w[k] = NULL}
<1>1. C \subseteq Nat /\ Last \in C
  BY DEF Last
<1> HIDE DEF C
<1>2. PICK m \in C : \A k \in C : m <= k
  BY <1>1, Least
<1>3. m \in 1 .. Last /\ w[m] = NULL
  BY <1>2 DEF C
<1> DEFINE n == m - 1
<1>4. n \in 0 .. Last - 1 /\ n + 1 = m
  BY <1>3 DEF Last
<1>5. \A k \in 1 .. Last : k >= m => w[k] = NULL
  BY <1>3, WalkOver
<1>6. \A k \in 1 .. Last : w[k] \in S \cup {NULL}
  BY WalkStays
<1>7. Chain(up, p) = [k \in {i \in 1 .. Last : w[i] # NULL} |-> w[k]]
  BY DEF Chain, Last
<1> HIDE DEF w
<1>8. \A k \in 1 .. Last : w[k] = NULL <=> k > n
  <2> SUFFICES ASSUME NEW k \in 1 .. Last PROVE w[k] = NULL <=> k > n
    OBVIOUS
  <2>1. k > n <=> k >= m
    BY <1>3 DEF Last
  <2>2. w[k] = NULL => m <= k
    BY <1>2 DEF C
  <2> QED
    BY <1>3, <1>5, <2>1, <2>2
<1> HIDE DEF n
<1>9. {i \in 1 .. Last : w[i] # NULL} = 1 .. n
  <2>1. 1 .. n \subseteq 1 .. Last
    BY <1>4 DEF Last
  <2> QED
    BY <1>4, <1>8, <2>1 DEF Last
<1>10. Chain(up, p) = [k \in 1 .. n |-> w[k]]
  BY <1>7, <1>9
<1>11. \A k \in 1 .. n : w[k] \in S
  <2>1. \A k \in 1 .. n : k \in 1 .. Last /\ w[k] # NULL
    BY <1>9
  <2> QED
    BY <1>6, <2>1
<1>12. n \in Nat
  BY <1>4 DEF Last
<1>13. Chain(up, p) \in Seq(S) /\ Len(Chain(up, p)) = n
  BY <1>10, <1>11, <1>12
<1> QED
  BY <1>4, <1>8, <1>10, <1>13 DEF w

\* A process in front of a walk that ends.
LEMMA ChainCons ==
    ASSUME NEW S, NEW up, Closed(S, up), NEW q \in Pids, up[q] \in S \cup {NULL},
           Walk(up, up[q])[Last] = NULL
    PROVE  Chain(up, q) = <<q>> \o Chain(up, up[q])
<1> DEFINE p == up[q]
           v == Walk(up, p)
           w == Walk(up, q)
           c == Chain(up, p)
<1>0. q # NULL
  BY DEF NULL, Pids
<1>1. /\ v[1] = p /\ \A k \in 1 .. Last - 1 : v[k + 1] = Above(up, v[k])
      /\ w[1] = q /\ \A k \in 1 .. Last - 1 : w[k + 1] = Above(up, w[k])
  BY WalkIs
<1>2. PICK n \in 0 .. Last - 1 :
              /\ c = [k \in 1 .. n |-> v[k]]
              /\ \A k \in 1 .. Last : v[k] = NULL <=> k > n
              /\ c \in Seq(S) /\ Len(c) = n
  BY ChainIs
<1>3. Chain(up, q) = [k \in {i \in 1 .. Last : w[i] # NULL} |-> w[k]]
  BY DEF Chain, Last
<1> HIDE DEF v, w, c
<1> DEFINE T == {k \in 1 .. Last : k < Last => w[k + 1] = v[k]}
<1>4. 1 \in T
  <2>1. 1 \in 1 .. Last /\ 1 \in 1 .. Last - 1
    BY DEF Last
  <2>2. w[1 + 1] = Above(up, q)
    BY <1>1, <2>1
  <2> QED
    BY <1>0, <1>1, <2>1, <2>2 DEF Above
<1>5. ASSUME NEW k \in 1 .. Last - 1, k \in T PROVE k + 1 \in T
  <2>1. k + 1 \in 1 .. Last /\ k < Last /\ (k + 1 < Last => k + 1 \in 1 .. Last - 1)
    BY DEF Last
  <2>2. w[k + 1] = v[k] /\ v[k + 1] = Above(up, v[k])
    BY <1>1, <1>5, <2>1
  <2> QED
    BY <1>1, <2>1, <2>2
<1> HIDE DEF T
<1>6. \A k \in 1 .. Last - 1 : w[k + 1] = v[k]
  <2>1. \A k \in 1 .. Last : k \in T
    BY <1>4, <1>5, UpWalk
  <2>2. \A k \in 1 .. Last - 1 : k \in 1 .. Last /\ k < Last
    BY DEF Last
  <2> QED
    BY <2>1, <2>2 DEF T
<1> DEFINE r == <<q>> \o c
<1>7. /\ r = [k \in 1 .. n + 1 |-> IF k = 1 THEN q ELSE c[k - 1]]
  <2>1. Len(<<q>>) = 1 /\ <<q>>[1] = q /\ n \in Nat /\ Len(c) = n
    BY <1>2 DEF Last
  <2> QED
    BY <1>2, <2>1
<1>8. ASSUME NEW k \in 1 .. Last
      PROVE  /\ w[k] # NULL <=> k \in 1 .. n + 1
             /\ k \in 1 .. n + 1 => w[k] = r[k]
  <2>1. CASE k = 1
    <3>1. 1 \in 1 .. n + 1
      BY <1>2 DEF Last
    <3> QED
      BY <1>0, <1>1, <1>7, <2>1, <3>1
  <2>2. CASE k # 1
    <3> DEFINE j == k - 1
    <3>1. /\ j \in 1 .. Last - 1 /\ j \in 1 .. Last /\ j + 1 = k
          /\ k \in 1 .. n + 1 <=> ~(j > n)
          /\ k \in 1 .. n + 1 => j \in 1 .. n
      BY <1>2, <2>2 DEF Last
    <3>2. w[k] = v[j]
      BY <1>6, <3>1
    <3>3. k \in 1 .. n + 1 => r[k] = v[j]
      BY <1>2, <1>7, <2>2, <3>1
    <3> QED
      BY <1>2, <3>1, <3>2, <3>3
  <2> QED
    BY <2>1, <2>2
<1>9. 1 .. n + 1 \subseteq 1 .. Last
  BY <1>2 DEF Last
<1>10. {i \in 1 .. Last : w[i] # NULL} = 1 .. n + 1
  BY <1>8, <1>9
<1>11. Chain(up, q) = [k \in 1 .. n + 1 |-> w[k]]
  BY <1>3, <1>10
<1>12. r = [k \in 1 .. n + 1 |-> r[k]]
  BY <1>7
<1> HIDE DEF r
<1>13. \A k \in 1 .. n + 1 : w[k] = r[k]
  BY <1>8, <1>9
<1> QED
  BY <1>11, <1>12, <1>13 DEF r, c

\* Nothing follows no process.
LEMMA ChainNull ==
    ASSUME NEW up
    PROVE  Chain(up, NULL) = <<>> /\ Walk(up, NULL)[Last] = NULL
<1>1. 1 \in 1 .. Last /\ Last \in 1 .. Last /\ \A k \in 1 .. Last : k >= 1
  BY DEF Last
<1>2. \A k \in 1 .. Last : Walk(up, NULL)[k] = NULL
  BY <1>1, WalkIs, WalkOver
<1> DEFINE w == Walk(up, NULL)
<1>3. Chain(up, NULL) = [k \in {i \in 1 .. Last : w[i] # NULL} |-> w[k]]
  BY DEF Chain, Last
<1>4. {i \in 1 .. Last : w[i] # NULL} = {}
  BY <1>2
<1> HIDE DEF w
<1> QED
  BY <1>1, <1>2, <1>3, <1>4

\* The walks from the terminals end: they meet no process twice.
LEMMA WalkEnds ==
    ASSUME NEW live \in SUBSET Pids,
           NEW up \in [Pids -> Pids \cup {NULL}],
           NEW top \in [Terminals -> Pids \cup {NULL}],
           Chains(live, up, top), NEW t \in Terminals
    PROVE  Walk(up, top[t])[Last] = NULL
<1> SUFFICES ASSUME Walk(up, top[t])[Last] # NULL PROVE FALSE
  OBVIOUS
<1> DEFINE w == Walk(up, top[t])
           H == Held(live, top)
<1>1. w[1] = top[t] /\ \A k \in 1 .. Last - 1 : w[k + 1] = Above(up, w[k])
  BY WalkIs
<1>2. \A k \in 1 .. Last : w[k] # NULL
  <2>1. Last \in 1 .. Last /\ \A k \in 1 .. Last : Last >= k
    BY DEF Last
  <2> QED
    BY <2>1, WalkOver
<1>3. H \subseteq Pids /\ live \subseteq H
  BY DEF Held
<1> HIDE DEF w
<1>4. Closed(H, up)
  BY <1>3 DEF Closed, Chains
<1>5. \A k \in 1 .. Last : w[k] \in H
  <2>1. top[t] \in H \cup {NULL}
    BY DEF Held
  <2>2. \A k \in 1 .. Last : w[k] \in H \cup {NULL}
    BY <1>4, <2>1, WalkStays DEF w
  <2> QED
    BY <1>2, <2>2
<1> DEFINE f == [k \in 1 .. Last |-> w[k]]
<1>6. f \in [1 .. Last -> Pids]
  BY <1>3, <1>5
<1>7. \E i, j \in 1 .. Last : i # j /\ w[i] = w[j]
  <2>1. /\ IsFiniteSet(1 .. Last) /\ IsFiniteSet(Pids)
        /\ Cardinality(1 .. Last) = Last /\ Cardinality(Pids) = MAX_PID + 1
        /\ MAX_PID + 1 < Last
    BY PidsFinite, FS_Interval DEF Last
  <2> HIDE DEF f
  <2>2. Cardinality(Pids) < Cardinality(1 .. Last)
    BY <2>1
  <2>3. PICK i, j \in 1 .. Last : i # j /\ f[i] = f[j]
    <3> DEFINE D == 1 .. Last
    <3>1. /\ IsFiniteSet(D) /\ IsFiniteSet(Pids)
          /\ Cardinality(Pids) < Cardinality(D) /\ f \in [D -> Pids]
      BY <1>6, <2>1, <2>2
    <3> HIDE DEF D
    <3>2. \E i, j \in D : i # j /\ f[i] = f[j]
      BY <3>1, FS_PigeonHole, SMTT(30)
    <3> QED
      BY <3>2 DEF D
  <2> QED
    BY <2>3 DEF f
<1> DEFINE C == {i \in 1 .. Last : \E j \in 1 .. Last : j > i /\ w[i] = w[j]}
<1>8. C # {}
  <2>1. PICK i, j \in 1 .. Last : i # j /\ w[i] = w[j]
    BY <1>7
  <2>2. i > j \/ j > i
    BY <2>1 DEF Last
  <2> QED
    BY <2>1, <2>2
<1>9. C \subseteq Nat
  BY DEF Last
<1> HIDE DEF C
<1>10. PICK i \in C : \A k \in C : i <= k
  BY <1>8, <1>9, Least
<1>11. PICK j \in 1 .. Last : i \in 1 .. Last /\ j > i /\ w[i] = w[j]
  BY <1>10 DEF C
<1>12. j - 1 \in 1 .. Last - 1 /\ j - 1 \in 1 .. Last /\ (j - 1) + 1 = j
  BY <1>11 DEF Last
<1>13. w[j] = up[w[j - 1]] /\ w[j - 1] \in H /\ w[j] # NULL
  BY <1>1, <1>2, <1>5, <1>12 DEF Above
<1>14. CASE i = 1
  BY <1>1, <1>11, <1>13, <1>14 DEF Chains
<1>15. CASE i # 1
  <2>1. /\ i - 1 \in 1 .. Last - 1 /\ i - 1 \in 1 .. Last /\ (i - 1) + 1 = i
        /\ j - 1 > i - 1 /\ ~(i <= i - 1)
    BY <1>11, <1>15 DEF Last
  <2>2. w[i] = up[w[i - 1]] /\ w[i - 1] \in H
    BY <1>1, <1>2, <1>5, <2>1 DEF Above
  <2>3. w[i - 1] = w[j - 1]
    BY <1>11, <1>13, <2>2 DEF Chains
  <2>4. i - 1 \in C
    BY <1>12, <2>1, <2>3 DEF C
  <2> QED
    BY <1>10, <2>1, <2>4
<1> QED
  BY <1>14, <1>15

-----------------------------------------------------------------------------
(* The refinement: every step is a step of Stacks, or none *)

InOrder == TypeOK /\ Chains(Live, parent, terminal)

\* What the invariant says of the occupied pids: they are closed under parent
\* and hold the process of every terminal.
LEMMA LiveIs ==
    ASSUME InOrder
    PROVE  /\ Live \in SUBSET Pids /\ Closed(Live, parent)
           /\ \A p \in Pids : p \in Live <=> pid[p] # VACANT
           /\ \A t \in Terminals : terminal[t] # NULL =>
                 terminal[t] \in Pids /\ terminal[t] \in Held(Live, terminal)
<1>1. Live \in SUBSET Pids /\ Live \subseteq Held(Live, terminal)
  BY DEF Live, Held
<1>2. Closed(Live, parent)
  BY <1>1 DEF InOrder, Chains, Closed
<1>3. \A p \in Pids : p \in Live <=> pid[p] # VACANT
  BY DEF InOrder, TypeOK, Live, VACANT, OCCUPIED
<1>4. \A t \in Terminals : terminal[t] # NULL =>
         terminal[t] \in Pids /\ terminal[t] \in Held(Live, terminal)
  BY DEF InOrder, TypeOK, Held
<1> QED
  BY <1>1, <1>2, <1>3, <1>4

\* The top of a terminal's stack is alive, and the walk from it ends.
LEMMA TopLive ==
    ASSUME InOrder, NEW t \in Terminals
    PROVE  /\ TopOf(t) \in Live \cup {NULL}
           /\ Walk(parent, TopOf(t))[Last] = NULL
<1>0. /\ Live \in SUBSET Pids /\ parent \in [Pids -> Pids \cup {NULL}]
      /\ terminal \in [Terminals -> Pids \cup {NULL}] /\ Chains(Live, parent, terminal)
  BY LiveIs DEF InOrder, TypeOK
<1>1. CASE terminal[t] # NULL /\ pid[terminal[t]] = VACANT
  <2>1. TopOf(t) = parent[terminal[t]] /\ terminal[t] \notin Live /\ terminal[t] \in Held(Live, terminal)
    BY <1>1, LiveIs DEF TopOf
  <2> DEFINE top2 == [terminal EXCEPT ![t] = parent[terminal[t]]]
  <2>2. top2 \in [Terminals -> Pids \cup {NULL}] /\ top2[t] = TopOf(t)
    BY <1>0, <1>1, <2>1
  <2>3. Chains(Live, parent, top2)
    BY <1>0, <1>1, <2>1, ChainPop
  <2> HIDE DEF top2
  <2>4. Walk(parent, top2[t])[Last] = NULL
    BY <1>0, <2>2, <2>3, WalkEnds
  <2> QED
    BY <1>0, <2>1, <2>2, <2>4 DEF Chains
<1>2. CASE ~(terminal[t] # NULL /\ pid[terminal[t]] = VACANT)
  <2>1. TopOf(t) = terminal[t]
    BY <1>2 DEF TopOf
  <2>2. Walk(parent, terminal[t])[Last] = NULL
    BY <1>0, WalkEnds
  <2> QED
    BY <1>2, <2>1, <2>2, LiveIs
<1> QED
  BY <1>1, <1>2

\* The slots on the stacks are occupied.
LEMMA UsedLive ==
    ASSUME InOrder
    PROVE  /\ Abstract!Used(AllStacks) \subseteq Live
           /\ \A t \in Terminals : StackOf(t) \in Seq(Live)
<1>1. ASSUME NEW t \in Terminals
      PROVE  /\ StackOf(t) \in Seq(Live)
             /\ \A k \in DOMAIN StackOf(t) : StackOf(t)[k] \in Live
  <2> DEFINE p == TopOf(t)
  <2>1. Closed(Live, parent) /\ p \in Live \cup {NULL} /\ Walk(parent, p)[Last] = NULL
    BY LiveIs, TopLive
  <2> HIDE DEF p
  <2>2. Chain(parent, p) \in Seq(Live)
    BY <2>1, ChainIs
  <2>3. \A k \in DOMAIN Chain(parent, p) : Chain(parent, p)[k] \in Live
    BY <2>1, ChainStays
  <2> QED
    BY <2>2, <2>3 DEF StackOf, p
<1>2. \A t \in Terminals : AllStacks[t] = StackOf(t)
  BY DEF AllStacks
<1>3. Abstract!Used(AllStacks) \subseteq Live
  <2> SUFFICES ASSUME NEW x \in Abstract!Used(AllStacks) PROVE x \in Live
    OBVIOUS
  <2>1. PICK t \in Terminals : x \in {AllStacks[t][k] : k \in DOMAIN AllStacks[t]}
    BY DEF Abstract!Used
  <2> QED
    BY <1>1, <1>2, <2>1
<1> QED
  BY <1>1, <1>3

\* A step that does not lead out of S for the terminals other than c.
LEMMA OneMoves ==
    ASSUME NEW S, Closed(S, parent), \A q \in S : parent'[q] = parent[q], NEW c \in Terminals,
           \A t \in Terminals \ {c} : TopOf(t)' = TopOf(t) /\ TopOf(t) \in S \cup {NULL}
    PROVE  AllStacks' = [AllStacks EXCEPT ![c] = StackOf(c)']
<1>1. ASSUME NEW t \in Terminals \ {c} PROVE StackOf(t)' = StackOf(t)
  <2>1. Chain(parent', TopOf(t)) = Chain(parent, TopOf(t))
    BY ChainStays
  <2> QED
    BY <2>1 DEF StackOf
<1> QED
  BY <1>1 DEF AllStacks

\* A step that leaves the tops and the parents alone changes no stack.
LEMMA NoneMoves ==
    ASSUME \A t \in Terminals : TopOf(t)' = TopOf(t), parent' = parent
    PROVE  AllStacks' = AllStacks
BY DEF AllStacks, StackOf

\* A process in front of another.
LEMMA InFront ==
    ASSUME NEW S, NEW up, Closed(S, up), NEW q \in Pids, up[q] \in S \cup {NULL},
           Walk(up, up[q])[Last] = NULL
    PROVE  /\ Chain(up, q) = <<q>> \o Chain(up, up[q])
           /\ Chain(up, q) # <<>> /\ Tail(Chain(up, q)) = Chain(up, up[q])
<1>1. Chain(up, q) = <<q>> \o Chain(up, up[q])
  BY ChainCons
<1>2. Chain(up, up[q]) \in Seq(S)
  BY ChainIs
<1> DEFINE c == Chain(up, up[q])
<1> HIDE DEF c
<1>3. c \in Seq(S \cup {q}) /\ q \in S \cup {q}
  BY <1>2 DEF c
<1>4. <<q>> \o c # <<>> /\ Tail(<<q>> \o c) = c
  BY <1>3
<1> QED
  BY <1>1, <1>4 DEF c

\* The process on top of a terminal's stack leaves it.
LEMMA Pops ==
    ASSUME InOrder, NEW c \in Terminals, terminal[c] # NULL, terminal[c] \in Live,
           parent' = parent, TopOf(c)' = parent[terminal[c]],
           \A t \in Terminals \ {c} : TopOf(t)' = TopOf(t)
    PROVE  Abstract!Next
<1> DEFINE p == terminal[c]
           S == Live \ {p}
<1>0. /\ Live \in SUBSET Pids /\ parent \in [Pids -> Pids \cup {NULL}]
      /\ terminal \in [Terminals -> Pids \cup {NULL}] /\ Chains(Live, parent, terminal)
  BY LiveIs DEF InOrder, TypeOK
<1>1. TopOf(c) = p /\ p \in Pids
  BY LiveIs DEF TopOf
<1>2. Closed(S, parent) /\ parent[p] \in S \cup {NULL}
  BY <1>0, <1>1 DEF Closed, Chains, Held
<1>3. \A t \in Terminals \ {c} : TopOf(t) \in S \cup {NULL}
  <2> SUFFICES ASSUME NEW t \in Terminals \ {c} PROVE TopOf(t) # p
    BY TopLive
  <2>1. terminal[t] # p
    BY <1>0 DEF Chains
  <2>2. terminal[t] # NULL => parent[terminal[t]] # p
    BY <1>0, LiveIs DEF Chains
  <2> QED
    BY <2>1, <2>2 DEF TopOf
<1>4. AllStacks' = [AllStacks EXCEPT ![c] = StackOf(c)']
  BY <1>2, <1>3, OneMoves
<1>5. StackOf(c)' = Chain(parent, parent[p]) /\ StackOf(c) = Chain(parent, p)
  BY <1>1 DEF StackOf
<1>6. Walk(parent, parent[p])[Last] = NULL
  <2>1. Walk(parent, p)[Last] = NULL
    BY <1>1, TopLive
  <2>2. /\ Chains(S, parent, terminal)
    BY <1>0, ChainFree
  <2> DEFINE top2 == [terminal EXCEPT ![c] = parent[p]]
  <2>3. Chains(S, parent, top2)
    BY <1>0, <2>2, ChainPop
  <2>4. top2 \in [Terminals -> Pids \cup {NULL}] /\ top2[c] = parent[p] /\ S \in SUBSET Pids
    BY <1>0, <1>1
  <2> HIDE DEF top2, S
  <2> QED
    BY <1>0, <2>3, <2>4, WalkEnds
<1>7. StackOf(c) # <<>> /\ Tail(StackOf(c)) = StackOf(c)'
  <2> HIDE DEF p, S
  <2>1. Chain(parent, p) # <<>> /\ Tail(Chain(parent, p)) = Chain(parent, parent[p])
    BY <1>1, <1>2, <1>6, InFront
  <2> QED
    BY <1>5, <2>1
<1>8. AllStacks[c] = StackOf(c)
  BY DEF AllStacks
<1>9. Abstract!Pop(AllStacks, AllStacks', c)
  BY <1>4, <1>7, <1>8 DEF Abstract!Pop
<1> QED
  BY <1>9 DEF Abstract!Next

\* execute takes a vacant pid that no other terminal is using.
LEMMA Pushes ==
    ASSUME InOrder, NEW c \in Terminals, NEW p \in Pids, p \notin Live,
           \A t \in Terminals \ {c} : terminal[t] # p,
           pid' = [pid EXCEPT ![p] = OCCUPIED],
           parent' = [parent EXCEPT ![p] = TopOf(c)],
           terminal' = [terminal EXCEPT ![c] = p]
    PROVE  Abstract!Next
<1> DEFINE caller == TopOf(c)
<1>0. /\ Live \in SUBSET Pids /\ Closed(Live, parent) /\ parent \in [Pids -> Pids \cup {NULL}]
      /\ terminal \in [Terminals -> Pids \cup {NULL}] /\ pid \in [Pids -> {VACANT, OCCUPIED}]
  BY LiveIs DEF InOrder, TypeOK
<1>1. \A q \in Pids \ {p} : parent'[q] = parent[q] /\ pid'[q] = pid[q]
  BY <1>0
<1>2. parent'[p] = caller /\ pid'[p] = OCCUPIED /\ terminal'[c] = p
  BY <1>0
<1>3. ASSUME NEW t \in Terminals \ {c} PROVE TopOf(t)' = TopOf(t) /\ TopOf(t) \in Live \cup {NULL}
  <2>1. terminal'[t] = terminal[t] /\ (terminal[t] # NULL => terminal[t] \in Pids \ {p})
    BY <1>0
  <2> QED
    BY <1>1, <2>1, TopLive DEF TopOf
<1>4. \A q \in Live : parent'[q] = parent[q]
  BY <1>0, <1>1
<1>5. AllStacks' = [AllStacks EXCEPT ![c] = StackOf(c)']
  BY <1>0, <1>3, <1>4, OneMoves
<1>6. TopOf(c)' = p
  BY <1>2 DEF TopOf, VACANT, OCCUPIED
<1>7. /\ Closed(Live, parent') /\ caller \in Live \cup {NULL}
      /\ Walk(parent, caller)[Last] = NULL
  BY <1>0, <1>4, TopLive DEF Closed
<1>8. Last \in 1 .. Last
  BY DEF Last
<1> HIDE DEF caller
<1>9. Walk(parent', caller)[Last] = NULL /\ Chain(parent', caller) = Chain(parent, caller)
  <2> DEFINE up == parent'
  <2>0. \A q \in Live : up[q] = parent[q]
    BY <1>4
  <2> HIDE DEF up
  <2>1. Walk(up, caller)[Last] = Walk(parent, caller)[Last]
    BY <1>0, <1>7, <1>8, <2>0, WalkStays
  <2>2. Chain(up, caller) = Chain(parent, caller)
    BY <1>0, <1>7, <2>0, ChainStays
  <2> QED
    BY <1>7, <2>1, <2>2 DEF up
<1>10. Chain(parent', p) = <<p>> \o Chain(parent, caller)
  <2> DEFINE up == parent'
  <2>1. Closed(Live, up) /\ up[p] = caller /\ Walk(up, caller)[Last] = NULL
    BY <1>2, <1>7, <1>9
  <2> HIDE DEF up
  <2>2. Chain(up, p) = <<p>> \o Chain(up, caller)
    BY <1>7, <2>1, InFront
  <2> QED
    BY <1>9, <2>2 DEF up
<1>11. StackOf(c)' = <<p>> \o AllStacks[c]
  BY <1>6, <1>10 DEF StackOf, AllStacks, caller
<1>12. p \in Pids \ Abstract!Used(AllStacks)
  BY UsedLive
<1>13. Abstract!Push(AllStacks, AllStacks', c)
  BY <1>5, <1>11, <1>12 DEF Abstract!Push
<1> QED
  BY <1>13 DEF Abstract!Next

\* Ctrl-C replaces a base shell.
LEMMA Relaunches ==
    ASSUME InOrder, NEW c \in Terminals, terminal[c] # NULL, terminal[c] \in Live,
           parent[terminal[c]] = NULL,
           NEW p \in Pids, p \notin Live \ {terminal[c]},
           \A t \in Terminals \ {c} : terminal[t] # p,
           \A q \in Pids \ {p, terminal[c]} : pid'[q] = pid[q],
           pid'[p] = OCCUPIED,
           parent' = [parent EXCEPT ![p] = NULL],
           terminal' = [terminal EXCEPT ![c] = p]
    PROVE  Abstract!Next
<1> DEFINE b == terminal[c]
           S == Live \ {b}
<1>0. /\ Live \in SUBSET Pids /\ parent \in [Pids -> Pids \cup {NULL}]
      /\ terminal \in [Terminals -> Pids \cup {NULL}] /\ Chains(Live, parent, terminal)
  BY LiveIs DEF InOrder, TypeOK
<1>1. TopOf(c) = b /\ b \in Pids
  BY LiveIs DEF TopOf
<1>2. Closed(S, parent)
  BY <1>0, <1>1 DEF Closed, Chains, Held
<1>3. ASSUME NEW t \in Terminals \ {c} PROVE TopOf(t)' = TopOf(t) /\ TopOf(t) \in S \cup {NULL}
  <2>1. terminal[t] # b /\ terminal[t] # p /\ terminal'[t] = terminal[t]
    BY <1>0 DEF Chains
  <2>2. terminal[t] # NULL => parent[terminal[t]] # b /\ terminal[t] \in Pids
    BY <1>0, LiveIs DEF Chains
  <2>3. terminal[t] # NULL =>
           pid'[terminal[t]] = pid[terminal[t]] /\ parent'[terminal[t]] = parent[terminal[t]]
    BY <1>0, <2>1, <2>2
  <2>4. TopOf(t)' = TopOf(t)
    BY <2>1, <2>3 DEF TopOf
  <2>5. TopOf(t) # b
    BY <2>1, <2>2 DEF TopOf
  <2> QED
    BY <2>4, <2>5, TopLive
<1>4. \A q \in S : parent'[q] = parent[q]
  BY <1>0
<1>5. AllStacks' = [AllStacks EXCEPT ![c] = StackOf(c)']
  BY <1>2, <1>3, <1>4, OneMoves
<1>6. TopOf(c)' = p
  <2>1. terminal'[c] = p /\ pid'[p] # VACANT
    BY <1>0 DEF VACANT, OCCUPIED
  <2> QED
    BY <2>1 DEF TopOf
<1>7. ASSUME NEW up, NEW q \in Pids, up[q] = NULL PROVE Chain(up, q) = <<q>>
  <2>1. Closed({}, up) /\ NULL \in {} \cup {NULL}
    BY DEF Closed
  <2>2. Chain(up, q) = <<q>> \o Chain(up, up[q])
    BY <1>7, <2>1, ChainNull, InFront
  <2>3. Chain(up, up[q]) = <<>>
    BY <1>7, ChainNull
  <2>4. <<q>> \o <<>> = <<q>>
    OBVIOUS
  <2> QED
    BY <2>2, <2>3, <2>4
<1>8. StackOf(c)' = <<p>> /\ AllStacks[c] = <<b>>
  <2>1. parent'[p] = NULL
    BY <1>0
  <2> DEFINE up == parent'
  <2>2. up[p] = NULL
    BY <2>1
  <2> HIDE DEF up, b
  <2>3. Chain(up, p) = <<p>>
    BY <1>7, <2>2
  <2>4. Chain(parent, b) = <<b>>
    BY <1>1, <1>7 DEF b
  <2> QED
    BY <1>1, <1>6, <2>3, <2>4 DEF StackOf, AllStacks, up
<1>9. p \in (Pids \ Abstract!Used(AllStacks)) \cup {Head(AllStacks[c])}
  <2>1. Head(AllStacks[c]) = b
    BY <1>8
  <2> QED
    BY <2>1, UsedLive
<1>10. Len(AllStacks[c]) = 1
  BY <1>8
<1>11. Abstract!Relaunch(AllStacks, AllStacks', c)
  BY <1>5, <1>8, <1>9, <1>10 DEF Abstract!Relaunch
<1> QED
  BY <1>11 DEF Abstract!Next

Implements == Abstract!Next \/ cpu'.pc = "shared" \/ AllStacks' = AllStacks

\* The rest of execute, for a caller on top of its terminal's stack.
LEMMA SpawnImplements ==
    ASSUME InOrder, NEW p \in Pids \cup {FAILURE}, find_pid(pid, p),
           Spawn(pid, TopOf(curr_scheduler), p)
    PROVE  Implements
<1> DEFINE c == curr_scheduler
<1>0. c \in Terminals /\ pid \in [Pids -> {VACANT, OCCUPIED}] /\ FAILURE \notin Pids
  BY DEF InOrder, TypeOK, FAILURE, Pids
<1>1. CASE p = FAILURE
  <2>1. pid' = pid /\ parent' = parent /\ terminal' = terminal
    BY <1>1 DEF Spawn
  <2>2. \A t \in Terminals : TopOf(t)' = TopOf(t)
    BY <2>1 DEF TopOf
  <2> QED
    BY <2>1, <2>2, NoneMoves DEF Implements
<1>2. CASE p # FAILURE /\ InUseElsewhere(p)
  <2>1. cpu' = At("shared")
    BY <1>2 DEF Spawn
  <2> QED
    BY <2>1 DEF Implements, At
<1>3. CASE p # FAILURE /\ ~InUseElsewhere(p)
  <2>1. p \in Pids /\ p \notin Live
    BY <1>0, <1>3, LiveIs DEF find_pid
  <2>2. \A t \in Terminals \ {c} : terminal[t] # p
    BY <1>3 DEF InUseElsewhere
  <2>3. /\ pid' = [pid EXCEPT ![p] = OCCUPIED]
        /\ parent' = [parent EXCEPT ![p] = TopOf(c)]
        /\ terminal' = [terminal EXCEPT ![c] = p]
    BY <1>3 DEF Spawn
  <2> HIDE DEF c
  <2> QED
    BY <1>0, <2>1, <2>2, <2>3, Pushes DEF Implements
<1> QED
  BY <1>1, <1>2, <1>3

\* halt and Ctrl-C, on the process of the scheduled terminal.
LEMMA EndImplements ==
    ASSUME InOrder, Places, cpu.pc \notin Stopped, Pcb # NULL,
           pid' = [pid EXCEPT ![Pcb] = VACANT], parent' = parent,
           \/ terminal' = terminal
           \/ terminal' = [terminal EXCEPT ![curr_scheduler] = parent[Pcb]]
    PROVE  Implements
<1>00. PICK c \in Terminals : c = curr_scheduler
  BY DEF InOrder, TypeOK
<1>0. /\ Live \in SUBSET Pids /\ parent \in [Pids -> Pids \cup {NULL}]
      /\ terminal \in [Terminals -> Pids \cup {NULL}] /\ Chains(Live, parent, terminal)
      /\ pid \in [Pids -> {VACANT, OCCUPIED}] /\ Pcb = terminal[c]
  BY <1>00, LiveIs DEF InOrder, TypeOK, Pcb
<1>1. Pcb \in Pids /\ Pcb \in Held(Live, terminal)
  BY <1>0, LiveIs
<1>2. pid'[Pcb] = VACANT /\ \A q \in Pids \ {Pcb} : pid'[q] = pid[q]
  BY <1>0, <1>1
<1>3. parent[Pcb] # NULL => parent[Pcb] \in Live /\ parent[Pcb] # Pcb
  BY <1>0, <1>1 DEF Chains
<1>4. TopOf(c)' = parent[Pcb]
  <2>1. CASE terminal' = terminal
    BY <1>0, <1>2, <2>1 DEF TopOf
  <2>2. CASE terminal' = [terminal EXCEPT ![c] = parent[Pcb]]
    <3>1. terminal'[c] = parent[Pcb]
      BY <1>0, <2>2
    <3>2. parent[Pcb] # NULL => pid'[parent[Pcb]] # VACANT
      BY <1>0, <1>2, <1>3, LiveIs
    <3> QED
      BY <3>1, <3>2 DEF TopOf
  <2> QED
    BY <1>00, <2>1, <2>2
<1>5. ASSUME NEW t \in Terminals \ {c} PROVE TopOf(t)' = TopOf(t)
  <2>1. terminal'[t] = terminal[t]
    BY <1>0, <1>00
  <2>2. terminal[t] # NULL => terminal[t] \in Pids \ {Pcb}
    BY <1>0 DEF Chains
  <2> QED
    BY <1>2, <2>1, <2>2 DEF TopOf
<1>6. CASE Pcb \in Live
  BY <1>0, <1>4, <1>5, <1>6, Pops DEF Implements
<1>7. CASE Pcb \notin Live
  <2>1. TopOf(c) = parent[Pcb]
    BY <1>0, <1>1, <1>7, LiveIs DEF TopOf
  <2> QED
    BY <1>4, <1>5, <2>1, NoneMoves DEF Implements
<1> QED
  BY <1>6, <1>7

\* A base shell is halted at once, whether it runs or is in the middle of halt.
LEMMA HaltBaseNowImplements ==
    ASSUME InOrder, HaltBaseNow
    PROVE  Implements
<1> DEFINE c == curr_scheduler
           b == terminal[c]
           freed == [pid EXCEPT ![b] = VACANT]
<1>0. /\ c \in Terminals /\ pid \in [Pids -> {VACANT, OCCUPIED}] /\ FAILURE \notin Pids
      /\ Pcb = b /\ b # NULL /\ parent[b] = NULL
  BY DEF InOrder, TypeOK, FAILURE, Pids, HaltBaseNow, Pcb
<1>1. b \in Pids
  BY <1>0, LiveIs
<1>2. PICK p \in Pids : find_pid(freed, p) /\ Spawn(freed, NULL, p)
  BY <1>0 DEF HaltBaseNow
<1>3. freed[p] = VACANT /\ freed[b] = VACANT /\ \A q \in Pids \ {b} : freed[q] = pid[q]
  <2>1. freed[p] = VACANT
    <3> HIDE DEF freed
    <3> QED
      BY <1>0, <1>2 DEF find_pid
  <2> QED
    BY <1>0, <1>1, <2>1
<1>4. p \notin Live \ {b}
  BY <1>3, LiveIs
<1>5. CASE InUseElsewhere(p)
  <2>1. cpu' = At("shared")
    BY <1>0, <1>2, <1>5 DEF Spawn
  <2> QED
    BY <2>1 DEF Implements, At
<1>6. CASE ~InUseElsewhere(p)
  <2>1. \A t \in Terminals \ {c} : terminal[t] # p
    BY <1>6 DEF InUseElsewhere
  <2>2. /\ pid' = [freed EXCEPT ![p] = OCCUPIED]
        /\ parent' = [parent EXCEPT ![p] = NULL]
        /\ terminal' = [terminal EXCEPT ![c] = p]
    BY <1>0, <1>2, <1>6 DEF Spawn
  <2>3. CASE b \in Live
    <3>1. pid'[p] = OCCUPIED /\ \A q \in Pids \ {p, b} : pid'[q] = pid[q]
      BY <1>0, <1>1, <1>3, <2>2
    <3> HIDE DEF c
    <3> QED
      BY <1>0, <1>4, <2>1, <2>2, <2>3, <3>1, Relaunches DEF Implements
  <2>4. CASE b \notin Live
    <3>1. pid[b] = VACANT
      BY <1>1, <2>4, LiveIs
    <3>2. freed = pid
      BY <1>0, <1>1, <3>1
    <3>3. TopOf(c) = NULL /\ p \notin Live
      BY <1>0, <1>4, <2>4, <3>1 DEF TopOf
    <3> HIDE DEF c, freed
    <3> QED
      BY <1>0, <2>1, <2>2, <3>2, <3>3, Pushes DEF Implements
  <2> QED
    BY <2>3, <2>4
<1> QED
  BY <1>5, <1>6

\* Every step of the kernel is a step of Stacks or changes none of them.
LEMMA StepImplements == IInv /\ [Next]_vars => Implements
<1> SUFFICES ASSUME IInv, [Next]_vars PROVE Implements
  OBVIOUS
<1> DEFINE c == curr_scheduler
<1>0. TypeOK /\ Places /\ c \in Terminals
  BY DEF IInv, TypeOK
<1>1. cpu.pc # "shared" => InOrder
  BY DEF IInv, ChainsDisjoint, InOrder
<1>2. ASSUME UNCHANGED <<pid, parent, terminal>> PROVE Implements
  <2>1. \A t \in Terminals : TopOf(t)' = TopOf(t)
    BY <1>2 DEF TopOf
  <2> QED
    BY <1>2, <2>1, NoneMoves DEF Implements
<1>3. CASE Tick \/ Exit \/ vidmap \/ CtrlCFaults \/ \E t \in Terminals : terminal_switch(t)
  BY <1>2, <1>3 DEF Tick, TickFirstShell, TickSaveFaults, TickLaunch, TickResume, Advance, Exit,
     vidmap, CtrlCFaults, terminal_switch, procVars
<1>4. CASE HaltRestore \/ HaltLoad \/ HaltStore \/ BaseLoad \/ BaseStore \/ HaltReturn
  BY <1>2, <1>4 DEF HaltRestore, HaltLoad, HaltStore, BaseLoad, BaseStore, LoadCounter,
     StoreCounter, HaltReturn, procVars
<1>5. CASE Launch
  <2>1. InOrder /\ Pcb = NULL
    BY <1>0, <1>1, <1>5 DEF Launch, Places, PlaceOK, AlivePC, DyingPC, Stopped
  <2>2. TopOf(c) = NULL
    BY <2>1 DEF TopOf, Pcb
  <2> QED
    BY <1>5, <2>1, <2>2, SpawnImplements DEF Launch
<1>6. CASE Execute
  <2>1. InOrder /\ Pcb # NULL /\ pid[Pcb] = OCCUPIED
    BY <1>0, <1>1, <1>6, PcbType DEF Execute, PlaceOK, AlivePC
  <2>2. TopOf(c) = Pcb
    BY <2>1 DEF TopOf, Pcb, VACANT, OCCUPIED
  <2> QED
    BY <1>6, <2>1, <2>2, SpawnImplements DEF Execute
<1>7. CASE HaltFreePid \/ CtrlCChild \/ ExecuteFaultsChild
  <2>1. cpu.pc \notin Stopped
    BY <1>7 DEF HaltFreePid, HaltStep, CtrlCChild, Keyboard, TakeInterrupt,
       ExecuteFaultsChild, ExecuteFaults, Stopped
  <2>2. InOrder
    BY <1>1, <2>1 DEF Stopped
  <2>3. Pcb # NULL
    BY <1>0, <1>7, PcbType DEF HaltFreePid, HaltStep, CtrlCChild, ExecuteFaultsChild,
       HaltChildNow, AlivePC
  <2> QED
    BY <1>0, <1>7, <2>1, <2>2, <2>3, EndImplements
    DEF HaltFreePid, CtrlCChild, ExecuteFaultsChild, HaltChildNow
<1>8. CASE HaltBase \/ HaltPop
  <2>1. cpu.pc \in DyingPC /\ cpu.pc \notin Stopped
    BY <1>8 DEF HaltBase, HaltPop, HaltStep, DyingPC, Stopped
  <2>2. InOrder /\ Pcb # NULL /\ pid[Pcb] = VACANT /\ Pcb \in Pids
    BY <1>0, <1>1, <2>1, PcbType DEF PlaceOK, Stopped
  <2>3. pid' = pid /\ parent' = parent
    BY <1>8 DEF HaltBase, HaltPop
  <2>4. pid' = [pid EXCEPT ![Pcb] = VACANT]
    BY <1>0, <2>2, <2>3 DEF TypeOK
  <2>5. terminal' = [terminal EXCEPT ![c] = parent[Pcb]]
    BY <1>8 DEF HaltBase, HaltPop
  <2> QED
    BY <1>0, <2>1, <2>2, <2>3, <2>4, <2>5, EndImplements
<1>9. CASE CtrlCBase \/ ExecuteFaultsBase
  <2>1. InOrder /\ HaltBaseNow
    BY <1>1, <1>9 DEF CtrlCBase, Keyboard, TakeInterrupt, ExecuteFaultsBase, ExecuteFaults, Stopped
  <2> QED
    BY <2>1, HaltBaseNowImplements
<1>10. CASE UNCHANGED vars \/ StoppedLoop
  BY <1>2, <1>10 DEF vars, StoppedLoop
<1> QED
  BY <1>3, <1>4, <1>5, <1>6, <1>7, <1>8, <1>9, <1>10 DEF Next, KernelStep, UserStep, KeyStep

\* Process management implements the abstract stacks: whatever is interleaved,
\* execute pushes on the stack of its own terminal, halt and Ctrl-C pop from it or
\* replace its lone base shell, and every other step leaves all stacks alone; up to
\* the step, if any, that hands a slot to two terminals.
THEOREM StacksImplemented == Spec => ImplementsStacks
<1>1. Init => Abstract!Init
  <2> SUFFICES ASSUME Init PROVE Abstract!Init
    OBVIOUS
  <2>1. ASSUME NEW t \in Terminals PROVE StackOf(t) = <<>>
    <3>1. TopOf(t) = NULL
      BY DEF Init, TopOf
    <3> QED
      BY <3>1, ChainNull DEF StackOf
  <2> QED
    BY <2>1 DEF Abstract!Init, AllStacks
<1>2. IInv /\ [Next]_vars => [Abstract!Next \/ cpu'.pc = "shared"]_AllStacks
  BY StepImplements DEF Implements
<1> QED
  BY <1>1, <1>2, Invariance, PTL DEF Spec, ImplementsStacks
=============================================================================
