# A TLA+ model of the multi-terminal kernel

The repository is a small 32-bit kernel for one CPU (`src/student-distrib`), its
user programs (`src/syscalls`, `src/fish`) and the files of its read-only image
(`src/fsdir`). This directory models the kernel's own logic and the user programs
that lean on it most, checks them with TLC on small instances and proves the
central invariants with TLAPS for every instance. Paths below are relative to `src/student-distrib` unless they begin
with `src/`.

## 1. The system

### What runs, and what can interrupt it

There is one CPU, and `idt.c` decides the interleavings: vectors 0x20-0x2F are
interrupt gates (interrupts stay disabled in the handler), every other vector
is a trap gate. Hence

| code | interruptible? | in the models |
|---|---|---|
| `keyboard_handler`, `rtc_handler` | no (interrupt gate) | one action |
| `scheduler` | no (interrupt gate and `cli`), except after the `sti` before it executes a shell | one action per path; `launch` is a place of its own |
| `execute`, `vidmap` | no (`cli`) | one action |
| `halt` called by Ctrl-C | no (inside the keyboard's gate) | one action |
| `halt` called by a program or an exception | **yes** | one action per step |
| `rtc_open/read/write`, `terminal_read`, `putc` of a program, `dir_read` | **yes** | one action per access to shared state |
| `open`, `close`, `read` of a file | yes, but they touch only the caller's PCB | one action |

The kernel is compiled without optimisation (no `-O` in the Makefile), so
`x--` and `x++` on shared variables are a load and a store.

### Components

| component | state | operations | interacts through | hard behaviour | correct when |
|---|---|---|---|---|---|
| processes and scheduler (`pit.c`, `system_call.c`, `exception_handler.c`) | `pid[]`, `process_counter`, PCBs, `terminal[].pcb`, `curr_scheduler`, the user page, the TSS | tick, execute, halt, exception, Ctrl-C, Alt-Fn, vidmap | everything runs on a terminal's process; masks IRQ 1 | preempted halt, lost updates, starvation | chains of processes stay apart, the limit is exact, a program runs in its own page, every terminal runs |
| RTC (`rtc.c`) | registers A and C, the selected index, `rtc_interrupt_occurred` | open, write, read, interrupt | one device for all processes | index-port race, shared flag | a read waits for a new interrupt, and gets one |
| keyboard (`keyboard.c`) | modifiers, `keyBuf`, `keybufferCount`, `readFlag` | one path per key, `terminal_read` | `current_terminal`, `curr_scheduler`, the IRQ mask | typing while a read copies, switches, wake-ups | a line is read whole and once, by the right terminal |
| screen (`lib.c`, `keyboard.c`) | video memory, one page per terminal, cursors | `putc`, `delete`, `clear`, `terminal_switch` | the same variables | putc against Alt-Fn, unsigned cursors | output stays on its terminal, nothing is drawn off the screen, a switch loses nothing |
| files (`system_call.c`, `file_sys.c`) | descriptors of each PCB slot | open, close, read, init_pcb, halt | slots are reused | block boundaries, stale descriptors | reads return the file in order; nothing is inherited |
| directory (`file_sys.c`) | `directory_index` | `dir_read` | one index for all processes | overlapping listings | between two ends every name is handed out once |
| interrupt controller (`i8259.c`) | masks, requests, in-service bits | enable, disable, EOI | every handler, the scheduler masks IRQ 1 | handlers that never return | it is never left blocked, a masked key is not lost |
| paging, IDT, boot, PIT set-up | fixed tables | initialisation | | | abstracted into Init, guards and fairness |
| commands (`parse`, `isExe`, `getargs`, `execute`, `ece391shell.c`) | the frame of execute, `global_halt` | launch a base shell, read a line, execute, getargs, halt, exception, return | one limit and one flag for all terminals | string limits, uninitialised bytes, the shared flag | what runs is what was typed, with its argument; its end is reported to its own shell |
| syserr, grep (`src/syscalls`) | a test's counters; a buffer of lines | the calls of each test; read, keep or search a line | the slot's descriptors, `read_data` | slots with a past, lines across reads | the tests pass; no line is missed |
| fish (`src/fish`) | the list of blinking cells, video memory, two pictures | add, remove, sync, tick; read the pictures, wait | one program; the RTC's ticks | pointers and reuse, signed countdown, pictures of different shape | a list of cells that blink in time; both pictures drawn |
| C library, kernel tests, the other programs | none of the kernel's | | | | see section 5 |

`PROJECT.json` lists the same parts with their sources and status, and the
hazards, each at the line where it bites.

## 2. Modules

Every module keeps the source's names. Control is kept, data is abstracted:
a program is whatever sequence of calls its terminal makes; a character is its
kind or its author; a pid stands for PCB, kernel stack and page, which the
kernel computes from it.

- **Process** - variables are the kernel's plus `cpu` (where the CPU is), `context`
  (what a PCB's saved `esp_val`/`ebp_val` lead back to) and the counter `torn`
  of interrupts that hit halt between two of its steps. Actions:
  `TickFirstShell`, `TickSaveFaults`, `TickLaunch`, `TickResume` (the paths of
  `scheduler`); `Launch`, `Execute`; `Exit` (halt, called or by an exception),
  `HaltFreePid`, `HaltBase`, `HaltRestore`, `HaltPop`, `HaltLoad`, `HaltStore`,
  `BaseLoad`, `BaseStore`, `HaltReturn`; `ExecuteFaultsBase` and
  `ExecuteFaultsChild` (no vacant pid: `init_pcb` faults and the handler halts
  the caller); `CtrlCBase`, `CtrlCChild`, `CtrlCFaults`, `terminal_switch`,
  `vidmap`. Two places end a behaviour: `fault` (a NULL pcb was followed, or a
  base shell was launched with pid -1) and `shared` (two terminals run in one
  slot, so that what happens next depends on the contents of a stack). Both only
  stutter. `MAX_COUNT` bounds process_counter where faulting executes count it
  up. `global_halt` is left to Shell.
- **Stacks** - what Process promises: one stack of pids per terminal, with push,
  pop and the replacement of a lone base shell, and no step that touches two
  terminals. Process maps a terminal to the chain of parents from its process
  (`StackOf`, a walk of `MAX_PID + 2` steps, cut where it meets NULL); a process
  leaves its stack when halt frees its pid.
- **Rtc** - one action per port access of `rtc_open` and `rtc_write`, the two
  halves of `rtc_read`, and `rtc_handler`. The chip (`PortRead`, `PortWrite`,
  `Running`) is external: register C's upper bits read as no divider, a write
  to C is ignored, and the clock fires while the divider runs and the rate is
  not 0.
- **Keyboard** - one action per key that `keyboard_handler` distinguishes, and
  `terminal_read` as lock, spin, copy a byte, look at the byte again, return.
  `caps_down`, `caps_lit`, `entered` and `fresh` record what the user did; no
  action of the kernel reads them.
- **Screen** - `putc` of a program is choose, draw, move, scroll; the handler's
  echo, tab, `delete`, Ctrl-L, Ctrl-C and `terminal_switch` are one action
  each. Cursors are unsigned modulo `UINT`. `race` counts the keys that were
  handled while a program was inside putc, `stray` and `under` record a key
  echoed between Alt-Fn and the next tick and a backspace in column 0: what the
  properties hold up to. No action of the kernel reads them.
- **Pic** - masks, requests and in-service bits of the two 8259s, the order in
  which `entry` enables the lines, and the three handlers reduced to their EOI
  and to the way they leave: back to what they interrupted, to another
  terminal's process, to a new shell, or to the parent of a halted program. The
  chips (`Masked`, `HeldBack`, `Ready`, `Request`, `TakeInterrupt`) are
  external. Devices request whenever they like in `Spec`; `FairSpec` keeps
  requests out of the handlers from some time on.
- **Files** - the descriptors of a slot over the lives of its processes, and
  `read_data` as a recursive function, one round of the copying loop per step.
  `ImageAssumption` gives every file its blocks, so that no read of a file fails.
  PCBs are assumed to lie in memory that is zero after boot. A base shell is
  treated like any program: that it might leave its last descriptor open is
  more than the shell of the repository does.
- **Syserr** - the repository's own test program as another user of Files: each
  test is its sequence of calls, `Succeeds` says what each call returns, `main`
  runs one test, all of them or none. `given` records the tests that began with
  the last descriptor open.
- **Grep** - `do_one_file` at the grain of one read, one line moved to the front
  of the buffer, or one line searched, over the reads of Files. A byte of the
  buffer that was never written is `UNKNOWN`, and a test of it goes either way.
  The entry rtc is opened and read like a file (`ReadRtc`): it yields nothing.
  What the bytes of the image are is chosen when grep starts. `past` and `cut`
  record that a read went beyond the file and that an unwritten byte was taken
  for a newline; grep reads neither.
- **Programs** - the composition of the two with Files: any program, syserr or
  grep, one after the other in one PCB slot.
- **Shell** - the path of a command: the launch of a base shell by the scheduler and
  by halt, the shell's loop, `parse` and `isExe` on lines of abstract characters,
  execute's limit, `getargs`, halt, exceptions, Ctrl-C and the label `return` of
  execute, whose test and reset of `global_halt` are two steps. Between the end
  of a base shell and its relaunch (place `launch`) other terminals run; a launch
  that then finds no pid, and Ctrl-C on a terminal without a process, end in
  `fault`. Pids and pages are Process's business; `process_counter` is the
  number of processes here, which Process proves while halt is not hit. `end`
  and `stale` record how a program really ended and whether its report is
  certain; no action of the code reads them.
- **Blinkers**, **Blink**, **Fish** - Blinkers is a list of cells with add, remove, sync
  and tick; Blink is `blink.S` with the allocator of `fish.c`: an array of
  structures, `next` pointers, free if the location is 0; Fish is the program
  on top. `drawn` records which structure drew a location last. Fish also runs
  the library under a caller that makes any calls (`OtherCaller`). A location is
  a word, and one of 0 marks a structure as free: `TextAssumption` says that the
  marks of a picture lie at locations that a word holds (818 rows; the pictures
  of the repository have 11).
- **Directory** - `dir_read` as test and reset, or test, second test (is the index
  -1?), copy, load and store, all of them steps. The copy takes whatever
  `dentry_[directory_index]` spells: `dentry_[-1]` is `dir_dentry_`, so a reset
  before the copy yields the name "."; behind the entries the image has empty
  names, which a caller takes for the end. `NameAssumption` is about the image:
  its entries have names.
- **ProcessProofs**, **RtcProofs**, **KeyboardProofs**, **ScreenProofs**, **PicProofs**,
  **FilesProofs** (with syserr, grep and the directory), **ShellProofs**, **FishProofs** -
  theorems. Directory's names begin with `Dir`, so that one module can extend both.
- **MC...** - the instances. A definition whose name ends in `Late`, `Never`, `Not`,
  `Always`, `Any`, `Early`, `Less`, `Naive`, `Stuck`, `Fails`, `Past`, `Once`,
  `Complement`, `Count`, `Leak`, `OneBased` or `Scheduled` is a plausible wrong version of the definition after it, with
  which the run named in `PROJECT.json` fails.

The modules overlap where the code does: Keyboard and Screen repeat the two
lines of the scheduler that they depend on (`Tick`), Process keeps the part of
the keyboard handler that acts on processes.

## 3. Runs

### Properties that hold

| run | bounds | shows |
|---|---|---|
| `process` | 2 terminals, 3 pids, 1 interrupt inside halt, process_counter up to 4 | `ChainsDisjoint`, `ImplementsStacks`, and while halt is not hit `ExecuteFindsPid`, `OwnAddressSpace`; `EveryTerminalRuns`, `KeyboardComesBack`, `WindowRecovers` |
| `rtc` | 2 processes, frequencies 0, 1, 3, 1024 | `NeverEarly`, `SoleReaderReturns` |
| `keyboard` | 2 terminals, lines of 1 character, reads of -1, 0, 1, 3 bytes; letters and ENTER with shift and caps lock, or with control, tab and backspace, or with Alt-Fn | `TypeOK` (no overrun), `CapsFollowsKey`, `ReadsUndisturbedLine`, `EnterWakes` |
| `screen` | 2 terminals of 2x1 cells, letters, ENTER and Alt-Fn, 1 key inside putc | `OutputStaysHome`, `SwitchKeepsText` |
| `screen_cursor` | 1 terminal of 3x2 cells, lines of 3 characters, tabs of 2, all keys but Alt-Fn, 1 key inside putc | `CursorOnScreen` |
| `pic` | 3 terminals, as in the kernel; requests at any time, inside handlers too | `NothingInService`, `OnlyKeyboardMasked`, and once requests stay out of handlers `RequestsServed` |
| `files` | 1 slot, descriptors 2 and 3, blocks of 2 bytes, files of 5 and 2 bytes and the entry rtc, a buffer of 3 characters for grep, all contents of the longer file over two letters and the newline | `ReadsContent`, `OnlyOwnFiles`, `TestsPass`, `FindsEveryLine` |
| `directory` | 2 processes, 3 entries, 2 overlapping calls, 4 names per open | `NamesHandedOutOnce`, `DirTypeOK` (how far overlaps carry the index) |
| `fish` | 4 cells, words of 3 bits, all pairs of pictures of up to 3 characters (blanks, row ends, none, missing), 3 ticks per wait; another caller with up to 3 cells | `ImplementsList`, `AddsSucceed`, `BlinksInTime`, `FramesDrawn`, `Ends` |
| `shell` | 2 terminals, 4 pids, names of 2 and arguments of 3 characters, all lines of up to 5 blanks and letters | `RunsCommand`, `GetsOwnArgument`, `ReportsEnd` |

Why these bounds are enough to make the cases happen: three pids for two
terminals let a terminal run a chain of two while the other restarts its shell,
and let the table be full; one interrupt inside halt suffices for each of the
races found; two descriptors are the smallest table whose last entry differs
from its first; a file of five bytes in three blocks of two ends inside a block,
and its last read goes on into a block of another file;
three rows of two cells let a line wrap, scroll and skip rows in one newline.
A line buffer of one character is full after one key, and a tab, cut to what is
left, finds it empty or full. In Keyboard the modifiers multiply the states, so a
behaviour (`keys`) strikes only one of three groups of keys besides letters and
ENTER; no key's effect depends on the modifiers of two groups.

`OutputStaysHome` and `CursorOnScreen` say what holds until a key is handled
inside putc, or a key is echoed between Alt-Fn and the next tick, or backspace
is struck in column 0; the runs take such steps, and `TypeOK` and
`SwitchKeepsText` hold after them too. `ExecuteFindsPid` and
`OwnAddressSpace` hold in the same way until an interrupt hits halt,
`ImplementsStacks` up to the step that puts two terminals into one slot (which
takes such an interrupt), `ReadsUndisturbedLine` for reads into which nothing is
typed between ENTER and the copy, `ReportsEnd` unless programs of two terminals
end at once, and `NamesHandedOutOnce` until two calls of `dir_read` overlap. An
overlap can hand out a name twice or leave one out, and it can carry
`directory_index` behind the last entry, where `dir_read` copies without a test;
`DirTypeOK` bounds that by one place for each overlap.
`ImplementsList` is a refinement up to stuttering and so does not say that an
add succeeds; `AddsSucceed` does: it fails only off the screen or when every
structure is in the list.
`FindsEveryLine` lets grep print more than the lines that hold its argument once
a read has gone beyond the end of the file, as every read of this kernel does
that asks for more than is left: what the copy to the front leaves behind a NUL
is searched again.
The runs of Rtc allow the system to stop (`CHECK_DEADLOCK FALSE`): when the
clock has been stopped and every process is in `rtc_read`, everyone waits.

### What the source says and the code does not keep

Two runs end in a counterexample to a sentence of the repository, which
`PROJECT.json` quotes. `rtc_divider`: the handler selects register C between
select and read of register A, and the driver writes C's bits to A.
`shell_status` (`StatusReported`): the header of the system calls has halt
return its status to the calling task, and the shell has a message for a status
other than 0; halt returns 0 whatever the status, and the message is never
printed.

Other places where the code falls short of a comment or of what its callers
expect are in the models and are the reason for the premises and exceptions of
the properties above; the hazards of `PROJECT.json` name them.

### Fairness

- Process: the timer is periodic and the PIC keeps a tick pending until
  interrupts are enabled, so `Tick` is strongly fair, also on its own while a
  program runs. Kernel steps of a terminal are strongly fair: ticks are
  milliseconds apart and a step takes a few instructions, so a tick cannot
  interrupt the same step each time the terminal is scheduled.
- Rtc: a running clock fires again (weak fairness of the handler), and a
  scheduled process that spins reads the flag again (weak fairness of
  `ReadReturns`). No fairness for opens, writes or new reads.
- Keyboard: ticks are weakly fair, and the reader's steps strongly fair, since
  they are enabled only while its terminal is scheduled. Nobody is assumed to
  type anything.

- Pic: the kernel's steps are weakly fair; the timer requests, and its requests
  are taken, again and again while programs run (strong fairness), for the same
  reason as in Process; a request that is ready again and again is taken. Here,
  and only for `RequestsServed`, from some time on no request comes while a
  handler runs (`Spaced`): the shortest period, of the RTC, is about a millisecond, and
  ticks that always came back inside their own handler would starve the other
  lines. Keys and RTC periods need never come.

- Fish: a step that can be taken is taken (weak fairness of the whole program,
  none of the other caller):
  reads of files return at once, and a read of the RTC returns while its clock
  runs, which fish's own write of 32 Hz has started.

Screen, Files, Directory and Shell state no liveness.

## 4. Proofs

All theorems hold for every value of the constants under the named assumptions
of the modules: positive numbers of terminals, natural bounds, an image whose
inodes list blocks of the image, a directory that lists the shell and none of the names that `err_open` tries,
finitely many terminals and processes, blink times that a
signed word counts down, pictures within the locations of a word. The inductive invariants
that strengthen a property are in the component's module, under the properties,
and were checked with TLC before they were proved.

**ProcessProofs.** `TypeCorrect`, `ProcessesDisjoint`, `LimitSound` and
`AddressSpaces` follow from one inductive invariant, `IInv` of Process:
`TypeOK`, `ChainsDisjoint`, `CounterExact` (process_counter is the number of
processes less one) and two strengthenings.

- `Places` ties every terminal's process to the place where it is, on the CPU or
  in its saved context: between the freeing of its pid and the change of pcb
  its pid is vacant, everywhere else occupied. Without it nothing says that a
  resumed halt frees the pid of its own process.
- `Untorn` says what is known as long as no interrupt has hit halt: no other
  terminal is inside halt, the counter that was loaded is current, the page and
  the stack are those of the process (or already of the parent).

The chains are handled by three lemmas that do not mention the state machine
(`ChainPush`, `ChainFree`, `ChainPop`: what execute and halt do to any such
structure); `SpawnKeeps` lifts the first to execute. The counter needs the
cardinality of the set of occupied pids (`LiveAdd`, `LiveRemove`, from
FiniteSetTheorems). `LimitSound` then follows because a counter below its
limit leaves fewer than MAX_PID + 1 occupied pids.

`StacksImplemented` proves the refinement `ImplementsStacks` from `IInv`. The
mapping follows parents; a walk that starts at a live process stays among live
ones and meets none twice, since `ChainsDisjoint` gives every process one child
at most, so it ends within as many steps as there are pids (`WalkEnds`, by the
pigeonhole principle). A chain is then its first process in front of its
parent's chain (`ChainCons`), and does not change when only others' parents do
(`ChainStays`). `Pushes`, `Pops` and `Relaunches` say what execute, halt and the
restart of a base shell are in Stacks; `StepImplements` has one case per action,
most of which change no stack (`NoneMoves`).

**RtcProofs.** `TypeCorrect` rests on the table of rates. `ReadsNeverEarly`
proves the action property `NeverEarly` from `FlagHolds`: a reader that has
seen no interrupt finds the flag set, whoever else set it.

**KeyboardProofs.** `TypeCorrect` shows that no key writes outside a buffer of
any size. `CapsLockCorrect` uses `CapsInv`, which describes the four states.
`UndisturbedLine` proves `ReadsUndisturbedLine` from `ReadInv`, which says, for
each place of `terminal_read`, how much of the entered line has been copied and
that an undisturbed line is still in the buffer.

**ScreenProofs.** `SwitchLosesNothing` is an action property: `terminal_switch`
saves the video memory to the page of the terminal it leaves and loads that of
the one it enters, and no terminal's text changes. `OutputHome`
needs `AtHome`: without a key inside putc the surface it chose is still right
when it draws. `CursorStays` needs `CursorNear`: how far a cursor may be past the
edge while putc has moved it and not yet scrolled. A tab calls putc several
times; what that does is proved by induction over the calls.

**PicProofs.** `NeverBlocked` uses `OwnService`: a handler finds in service only
what its own EOI clears, since interrupts are disabled in it and nothing was in
service when it was entered. `TimerNeverMasked` uses `BootMasks`, the masks at
each step of `entry`.

**FilesProofs.** `NothingInherited` proves `OnlyOwnFiles`, which is inductive
together with `Shape`: every descriptor keeps an entry with its four fields.
The closing loop of `halt` is not needed: `init_pcb` clears what the next
process could inherit, and a slot that has halted runs nothing until then.
`ReadsInOrder` proves `ReadsContent` from `PositionCounts`: the position of an
open file is the number of bytes read, and these are the bytes of its blocks.
What `read_data` returns (`ReadData`: the bytes from the position on, at most as
many as asked for) is proved by induction over the rounds of its loop.
`ProgramsReadInOrder` states the same for the composition with syserr and grep.
`SyserrPasses` proves `TestsPass` from `TestInv`, which says for every test and
every number of calls made which descriptors are open (`OpenAfter`) and how many
calls have gone wrong (`FailsAfter`). `GrepStaysInBuffer` bounds every place
where grep reads or writes; no run needs it, and it is what makes grep's reads
steps of Files.

`GrepFindsLines` proves `FindsEveryLine` for any image, buffer size and argument.
Its invariant, `Searching`, ties the buffer to the file through the descriptor's
position: the buffer begins at `Base` (the position less the characters in it),
and the lines are dealt with up to `Handled`.

- `Buffered`: from there on the buffer holds the file's own characters, as far as
  there is a file; it has a newline only where the scan has still to come, so
  that what an earlier round left behind ends no line; and a scan of a file
  that goes on has a full buffer. The last part needs that a read is full unless
  the file is over, which `ReadData` now says.
- `Reporting`: a line begins at `Handled`, or the newline of a line that filled
  the buffer is next, and the lines that begin before are reported, in order.

The proof has one lemma for each of `OpenFile`, `ReadMore`, `ReadRtc`, `KeepLine`
and `SearchLine`. It rests on lemmas about lines alone: where the line ends that
begins at a place, that the search of the buffer is the search of the line, and
that dealing with one line extends `Reports` and `Finds` by it. `SearchLine` has
three cases: the line ends in the buffer, it fills the buffer, or the file is
over. `FindsEveryLine` used to compare with the sorted sequence of a set; it now
says the same with an increasing function to the places where lines begin.

For the directory, `DirTypeCorrect` holds however calls overlap. Its invariant,
`IndexBound`, counts: every process inside `dir_read` but one has counted an
overlap, and each that has passed the test (`Busy`) is still to add 1 at most,
to the index as it is or as some process has loaded it. `EveryNameOnce` uses `InOrder`: without overlap one process at a
time is inside `dir_read`, and what was handed out is what lies before the index.

**ShellProofs.** One inductive invariant, `ShellInv`, carries the properties.
`Sound` says that every process above another is what its caller's line names,
`ArgumentKept` that what `getargs` copied is still its caller's argument,
`FlagTells` when the shared `global_halt` is the one of a terminal whose program
is ending and that a flag nobody will test is not left behind. That the pids
suffice is not among the properties: a base shell is launched past the limit, and
between its halt and its relaunch another terminal may have taken the last pid.

**FishProofs.** The library's invariant is `BlinkTypeOK`, `Linked` and `InTime`.
`Linked` says that there is a sequence of distinct structures along which the
pointers lead from the head to NULL, and that the structures in it are exactly
those whose location is not 0: this is why the allocator may look at locations
alone. `Links` is stated for any array, head and sequence, and determines the
sequence (`List`, the walk along the pointers cut at the size of the array): so
add, remove, sync and tick are each shown once to turn one sequence into
another. `InTime` adds, for the structures in use, that both times can be counted
down by a signed word: a turn, and a cell that takes over another's rhythm, start
from the time that was not running.

- `TypeCorrect` and `CellsInTime` (`BlinksInTime`) follow from it, for every
  number of structures and every caller.
- `NoneLost` (`AddsSucceed`): as the structures of the sequence are exactly those in
  use, a list shorter than the array leaves one free.
- `ListImplemented` proves the refinement `ImplementsList`: each call is a step of
  Blinkers on the cells along the sequence, or leaves them alone.
- `PicturesDrawn` proves `FramesDrawn` for any two pictures from `FramesInv`:
  `InStep` says how far each picture is read, compared with the place that the
  loop has come to, whether the picture is inside its row, behind its end or at
  the end of the file; and the list shows the marks of the places visited. The
  premise of `FramesDrawn`, that there are no more marks on the screen than
  structures, is needed because rows longer than the screen's are drawn over the
  beginning of the next: two pictures can then have more marks at locations of
  the screen than there are locations, and the last adds fail. TLC never saw this
  on short pictures; the proof did not go through without it.

Inductions over data are carried out with the well-foundedness of the naturals
(`NatLessThanWellFounded`, `WFMin`): a set of numbers without a least
counterexample holds them all. A recursive function of the models is first shown
to exist (`RoundsExist`, `WalkExists`, `CallsExist`).

Only model-checked: the liveness properties (`EveryTerminalRuns`,
`KeyboardComesBack`, `WindowRecovers`, `SoleReaderReturns`, `EnterWakes`,
`RequestsServed`, `Ends`), which are outside the prover's reach. Every invariant,
action property and refinement that a passing run checks is proved.

## 5. Not modelled

Reading the multiboot structure, descriptor tables, saving of registers, the
contents of stacks, the hardware cursor, printf, itoa and the memory functions
of the library, the rate of the timer (`pit_init` programs it once). `cat` and
`ls` are loops of a read and a write that Files and Directory already allow;
`counter`, `pingpong`, `hello` and `testprint` only print and wait; `sigtest`
needs signals, which the kernel answers with -1. `ece391emulate.c` runs programs
on Linux and `tests.c` is a test driver; neither is part of the system.
`mp1_ioctl_find` of the blink library changes nothing and is called by nobody.

## 6. Plan

Done: Process with its proofs, its abstraction Stacks and the proof that it
implements it; Rtc, Keyboard, Screen, Pic, Directory, Files, Shell, syserr and
grep with proofs of their safety properties; fish with its abstraction Blinkers,
the proof that it implements it, and the proofs of its safety properties.

Left: a composition of Keyboard and Screen in which the line and its echo are
compared.
