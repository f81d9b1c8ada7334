# Verification of Digital-Systems-Design

TLA+ models, TLC runs and TLAPS proofs for the digital designs of this
repository (SystemVerilog, Verilog, PicoBlaze assembly and Nios II C for a
DE1-SoC board). Modelled are lab 4, the multi-core RC4 key search; the player of
lab 2, the iPod; the shared access arbiter of homework 3; and, under the
software of lab 5, the uC/OS-II kernel, the JTAG UART driver with its interrupt
handler, and the alarms of the HAL. The other parts are inventoried below with
the reason why they are not modelled.

## 1. The system and its parts

### Lab 4: RC4 cracking (`src/lab4/template_de1soc`)

| part | state | operations | interacts with |
|---|---|---|---|
| `s_memory.vhd`, `d_memory.vhd`, `e_memory.vhd`, `RAM.v` | cells, registered output `q` | one access per clock edge | the engines, through multiplexers |
| `init_memory.sv` | FSM, `counter` | fills s_memory with 0..255 | datapath (`start_flag`, `done_flag`) |
| `swap_memory.sv` | 12-state FSM, `i_index`, `j_index`, `i_data`, `j_data`, `address`, `data_in` | the key schedule | datapath, s_memory |
| `decrypt_memory.sv` | FSM, three indices, data registers, `key_found_flag` | key stream, decryption, letter test | datapath, the three memories |
| `datapath.sv` | 5-state FSM, `secret_key` | tries one key after the other | its engines; `stop` from the controller |
| `multicore_controller.sv` | reported key, one-hot flag, `stop_flag` | reports and stops | four datapaths |
| `ksa.sv` | LEDs | LED and reset wiring | the controller |

Hard behaviour: the memories answer one edge late and the FSMs recognise the
end of a write by comparing `q` with a datum; three engines share one port;
`stop` freezes the datapath but not its engines; several cores may find keys;
the reset is asynchronous and the controller has none. Correct means: the
engines compute RC4, no key of the search is skipped, only good keys are
reported, and a good key is reported in the end.

### Labs 2 and 3: the iPod (`src/lab2`, `src/lab3`)

`keyboard_control.sv` (play, pause, direction, restart; clocked by a
synchronised keyboard event), `address_counter.sv` (address and half-word, on
the sample clock), `read_flash.sv` (one Avalon read per word, on the 50 MHz
clock), `synchronizer.sv` (edge capture between them), `speed_controller.sv`
and `freq_divider.sv` (the sample rate). Lab 3 adds the PicoBlaze interrupt
routine `Assembler/pracPICO.psm`, which averages 256 samples. Hard: two
clock domains with one-shot events, read data captured before it is valid,
a restart that lasts until the next key, a divisor without limits. Correct
means: the halves of a word are played in the direction's order and belong to
one word, each request brings one word and the one asked for, and the player
never waits for ever for the flash.

### Final project: the talking calculator (`src/final_project`)

`address_counter.sv` (phoneme player: reads four bytes a word and asks the
PicoBlaze for the next phoneme at its end), `read_flash.sv`,
`narrator_ctrl.v`, `audio_averaging.sv`, and the PicoBlaze program
`speech.psm`. Hard: the start/done handshake between hardware and program and
the level-sensitive done flag. Correct means: the phonemes of a result are
spoken once each and in order.

### Lab 5: modulation, video and a real-time kernel (`src/lab5/Lab5_template_de1soc`)

In hardware `LFSR.sv`, `DDS_selector.sv`, `scope_selector.sv` and
`fast_to_slow_synchronizer.sv`. In software (`software/`, C for a Nios II) the
application, two tasks of `hello_ucosii.c`, is thin; the program's logic lies in
what it is linked with, whose source is in the repository:

| part | state | operations | interacts with |
|---|---|---|---|
| kernel core (`os_core.c`) | ready table, current task, interrupt and lock nesting, TCBs, wait lists | `OS_Sched`, `OSIntEnter/Exit`, `OSSchedLock/Unlock`, `OSTimeTick`, `OSEventPendMulti`, `OS_EventTaskRdy/Wait/Remove` | everything below |
| tasks and time (`os_task.c`, `os_time.c`) | table of priorities, TCBs | create, delete, change priority, suspend, resume, delay | core |
| semaphores, mailboxes, queues (`os_sem.c`, `os_mbox.c`, `os_q.c`) | count; one message; a ring of messages | create, delete, accept, pend, abort, post (front, broadcast), flush, set | core, tasks, interrupts |
| mutexes (`os_mutex.c`) | owner, its own priority, the priority it inherits | create, delete, accept, pend, post | core, table of priorities |
| event flags (`os_flag.c`) | flags, list of waiting nodes | create, delete, accept, pend, post | core |
| JTAG UART driver (`drivers/src/altera_avalon_jtag_uart_*.c`) | two ring buffers, interrupt enables, host's silence | read, write, close, ioctl, interrupt handler, alarm | the UART's FIFOs, kernel semaphores and flags |
| HAL alarm (`alt_alarm_start.c`, `alt_tick.c`) | tick counter, due time, rollover flag | start, tick | the driver's alarm |

Hard: a service is entered by several tasks and by interrupts; between the
post that serves a task and that task's return anything may happen (a timeout,
a deletion, a change of priority, another post); priorities move with the
ownership of mutexes; the driver's tasks and its handler share rings without
disabling interrupts; the host may fall silent. Correct means: the tables of
the kernel agree with one another, the most urgent ready task runs, nobody waits
for what is there, what is posted is received once and in order, a mutex has one
owner, and the driver loses no character and never stops for good.

### Homework and lab 1

`hw3/shared_access_to_one_state_machine.sv` lets two clients take turns on one
state machine (mutual exclusion, no starvation, data to the right client);
`hw3/multiple_fsm_...sv` generalises it to N; `hw3/trap_edge.sv`, `hw1/hw1.sv`
capture edges; `hw2/*.sv` are three exercises in FSM coding. Lab 1 is an LED
chaser, a clock divider and a table of tones.

Vendored or generated code (PacoBlaze, QSYS submodules, BSP, SDRAM and LCD
controllers, fonts, bitmaps, reports, waveforms) is left aside.

## 2. Plan

1. **RC4 core** (done): memories and engines, each engine against an
   abstract algorithm; a whole core against RC4; the controller over abstract
   cores. Proofs: the key schedule's refinement, safety of the search.
2. **iPod** (done): keyboard, address counter, flash reader and
   synchroniser composed over two clocks, refining an ideal player; proofs of types,
   refinement and untorn words.
3. **Arbiter of hw3** (done): the FSM with its clients and target; each client
   has its own answer (proved) and no request waits for ever.
4. **Lab 5's kernel** (done): core, tasks, semaphores, mutexes, mailboxes,
   queues, several events at once, flags; composed and run as seventeen small
   applications against one abstract event service; its invariants proved.
5. **Lab 5's driver** (done): rings, handler, alarm, host; an abstract
   character device; safety proved. The HAL's alarm, proved.
6. **Not done**: what section 6 lists. Further proofs worth having are the
   two refinements that are only model-checked: of EventService by the kernel and of
   CharacterDevice by the driver.

Abstract specifications worth stating: KeySchedule, MessageDecrypt and
CoreSearch, Player, EventService and CharacterDevice.

## 3. Modules and code

| module | models |
|---|---|
| `SyncRAM` | one edge of a RAM port; `NewDataOnWrite` chooses altsyncram as configured or the test benches' `RAM.v` |
| `InitMemory`, `SwapMemory`, `DecryptMemory` | the FSMs, one action per state (states with the same shape share one) |
| `KSAEngine`, `PRGAEngine` | an engine wired to its memories, with load and asynchronous reset |
| `KeySchedule`, `MessageDecrypt` | what an engine promises: one atomic round per index, and a verdict |
| `RC4` | the reference algorithm as recursive functions |
| `Datapath` | a core: FSM, three engines, three memories, multiplexers, `stop`, reset |
| `CoreSearch` | an abstract core: phase, key, kind of trial, found; `After` is one edge |
| `MultiCore` | the cores as CoreSearch records, the priority chain, stop, LEDs, reset |
| `Synchronizer` | the four flip-flops of `synchronizer.sv`, one action per event at its inputs |
| `KeyboardControl`, `AddressCounter`, `ReadFlash` | the FSMs of lab 2 on their own clock |
| `SimpleIpod` | their composition (lines 228-345 of `simple_ipod_solution.v`) with the flash and the keys as environment |
| `Player` | what the iPod promises: a player with a queue of two words |
| `SharedAccess` | the arbiter of hw3 with any number of clients in a ring, and the target as environment |
| `UCOSCore` | the kernel's variables; scheduler, interrupts, tick, what the services share, and `OSEventPendMulti` |
| `UCOSTask`, `UCOSSem`, `UCOSMutex`, `UCOSMbox`, `UCOSQ`, `UCOSFlag` | one action per service of each file |
| `UCOSKernel` | their composition, the rules of an application, the properties |
| `EventService` | what semaphores, mutexes, mailboxes and queues promise, without a scheduler |
| `AlteraJTAGUart` | the driver: calls, handler, alarm; UART and host as environment |
| `CharacterDevice` | what the driver promises: one line of characters each way |
| `AltAlarm` | one alarm and the tick counter |
| `KSAEngineProofs`, `PRGAEngineProofs`, `DatapathProofs`, `MultiCoreProofs`, `SimpleIpodProofs`, `SharedAccessProofs`, `UCOSKernelProofs` | theorems |
| `AlteraJTAGUartProofs` | theorems of the driver and of the alarm |
| `MC...` | constants of the runs |

Variables carry the names of the registers. Everything in a core is clocked by
one clock, so a step is one rising edge and all parts move together from the
values before it. The asynchronous reset is a step of its own. Wires are
operators. Where the source assigns `8'bx` a register takes any byte of
`Garbage`. A byte is `0 .. N-1` and arithmetic is modulo `N`, so widths are
kept while N shrinks from 256 to 3 or 4 for TLC. `ByteXor` is a parameter, given bitwise
exclusive-or by the MC modules. A key is a number in Datapath and MultiCore and
its three bytes in the engines.

The layers meet like this: KSAEngine implements KeySchedule, PRGAEngine
implements MessageDecrypt; Datapath composes the same FSM modules and is
checked against `RC4` and against CoreSearch; MultiCore uses CoreSearch in
place of Datapath, so that four cores can be checked and proved at all.
In MultiCore "the key is good" is a set chosen at the start: Datapath shows
that the verdict is RC4's and depends on key and message only.

The iPod has two clocks, so a step is an edge of one of them or a key. Values
read at an edge are those before it; what one edge triggers (the request that
`addr_ready_flag` raises, the FSM clocked by `read_keyboard_flag`) is part of the
same action. `gap` counts CLK_50M edges since the last sample: it stands for the
phase between the clocks. The flash is an Avalon slave outside the repository: it accepts a
read when it has none under way, samples the address then, and answers after
1 to `MaxLatency` edges. `read_flash.sv` ignores
`waitrequest` and keeps its read up until the first answer, so the flash
reads each word twice; its FSM latches the bus before the answer, so what it
latches is the word of the *previous* request. Player makes this a promise:
it shows one word, and the one asked for last comes next. The refinement
mapping reads a request as served from the moment it is raised: while it is in
flight, `shown` is the last word the flash has read and `ahead` the current address.

The arbiter and its target share a clock, as the name `sm_clk` suggests; clients ask
at any moment. A client keeps its request until it is reset and its arguments until
it is told, and the target keeps its answer until it is started again and works for
any time. The reset clears `received_data` only, not the state; it comes while
no answer is on its way, since one that comes between the answer and
`finish` loses the answer.

**The kernel.** A service runs between `OS_ENTER_CRITICAL` and
`OS_EXIT_CRITICAL` with interrupts off, so a critical section is one action; a
service with two of them is two actions with anything in between. A task that
posts calls `OS_Sched` after its critical section, hence `toSched`: the
task whose next step is the scheduler. A pending service blocks in `...Pend` and goes on
in `...PendReturns` when its task runs again; `inCall` says which. `OSTaskCreate`
leaves its critical section with the priority reserved, and `OS_TCBInit` ends
it. An interrupt is `OSIntEnter`, any services legal at that level, a tick
perhaps, and `OSIntExit`. Bit maps are sets of priorities and `OSUnMapTbl` is the
least element. `inside` and `owed` are history: who has been told that
it has a mutex, and that a post with `OS_POST_OPT_NO_SCHED` has left the
scheduling open.
Each application (`Apps`) names the services, tasks and events it uses, so that
a run explores seventeen small programs and not one that is too large; it is chosen in Init.

*The rules of an application.* `ApplicationRules` and the guards in
`UCOSKernel` keep to programs the kernel's manual would call correct, and
three of them step around weak spots of this version, each reached by TLC when the
rule is lifted:

- `OSTaskChangePrio` (`os_task.c:133-142`) follows `OSTCBEventPtr` of a task
  that a post has already served but which has not run since: the pointer is
  cleared by the task itself. The task's new priority is put into the wait list
  of an event it no longer waits for, and the next post is given to it and lost.
- `OSMutexPend` (`os_mutex.c:455-467`) raises an owner. If the owner's own
  wait for another event has timed out and it has not run since, it is ready *and* still
  in that wait list; only the ready table is updated, and its old priority stays
  in the list. The manual's rule (`os_mutex.c:392`) is wider: an owner must not pend on
  any other event at all. Here it may, if it waits without a time limit and for no mutex.
- `OSEventPendMulti` returns early (`os_core.c:513-519`) when the event that served the
  task has been deleted before the task runs again, and skips lines 539-543: the control
  block keeps the status bits (`OS_STAT_MULTI` among them), `OSTCBEventPtr`,
  `OSTCBEventMultiPtr` and the message of a call that is over. The model does the same
  (`Deleted` in `OSEventPendMultiReturns`). Most services cope, since a later call sets
  what it uses and tests no more than that; two do not. `OSTaskChangePrio`
  (`os_task.c:133-158`) follows the pointers into lists the task does not wait in, and `OS_FlagTaskRdy`
  (`os_flag.c:1112`) compares the whole status with `OS_STAT_RDY`, so the task is never made
  ready again. TLC violates `TablesAgree` on `{"MULTI", "SEM", "DELETE", "CHANGE"}` and on
  `{"MULTI", "SEM", "DELETE", "FLAG"}`. An application that waits for several
  events and deletes events therefore changes no priorities and uses no flags.

The other rules: a task is not deleted inside its own creation (its reserved
priority would stay reserved), the owner of a mutex is not suspended, deleted or
re-prioritised (line 394), owns no second mutex and calls no `OSEventPendMulti`
(line 392 again), a program with mutexes lets no time pass under a scheduler lock (a
task that sleeps and still runs could take a mutex, be raised, and be made ready), a
mutex is not deleted under waiters, and a task waiting for several
events is not suspended (`os_task.c:816` compares with `OS_STAT_RDY`, and the
`OS_STAT_MULTI` bit keeps it from being resumed). `OSTaskChangePrio` is called by tasks only:
the function does not look at `OSIntNesting`, but `OSPrioCur` keeps the priority the running task had,
and two changes in one interrupt can give that priority to another, more urgent task:
`OSIntExit` compares `OSPrioHighRdy` with `OSPrioCur`, finds them equal and does not switch.
Without the guard TLC finds `MostUrgentRuns` violated.
The array of events a task hands to `OSEventPendMulti` is taken to stay as it is
while `OSTCBEventMultiPtr` points to it. A message handed to a task that waits
for several events is lost to it when its mailbox or queue is deleted
before the task runs: the call ends with `OS_ERR_EVENT_TYPE`, and EventService allows that (`Receive`).

**The driver.** Its tasks and its handler share the rings without a critical
section, so a step is one access to what they share; the handler, on one
processor, is not interrupted by tasks, but the host is concurrent with it. The
refinement reads the two FIFOs and two rings as one line of characters each way.
The flags and semaphores it uses are those of the kernel, abstracted to what
`OSFlagPend` (`os_flag.c`) and `OSSemPost` (`os_sem.c`), behind `ALT_FLAG_PEND` and `ALT_SEM_POST`, do
for the driver. The kernel hands a lock to the most urgent waiter; the driver knows no priorities,
and `Heir` is any choice among the waiters, of which the proofs assume nothing; in the
run no lock has two waiters.

## 4. Runs

| run | shows | bounds |
|---|---|---|
| `KSAEngine` | exact key schedule, no value lost, each pass ends, resets at any edge | 4 cells, 64 keys, old data on write, garbage 0 and 2 |
| `PRGAEngine` | exact key stream, early cut and verdict, each pass ends | 4 cells, 24 tables, 16 messages of 2 characters, new data on write |
| `Datapath_last` | table at hand-over, plain text of a found key, no write dropped, CoreSearch implemented, DONE reached | 4 cells, keys 13..15, 16 messages, stop and reset at any edge |
| `Datapath_bench` | CoreSearch implemented up to the inclusive end key | 4 cells, keys 4..6, 64 messages of 3 characters, old data on write |
| `MultiCore` | the search as a whole | 3 cores, 2 keys each, up to 2 good keys |
| `MultiCore_LED7` | violation: an unsuccessful search never lights LED 7 | 2 cores |
| `MultiCore_keyspace` | violation: a good 24-bit key is not tried | 2 cores, 4 of 16 keys searched |
| `SimpleIpod` | the two clocks refine the ideal player, no word is torn, the whole song is heard | 4 words, 8 edges a sample, latency 1..3, any key at any time |
| `SimpleIpod_first` | violation: the first sample heard is not the song's first | as above |
| `SharedAccess` | own answer, every request served | 2 clients, 2 arguments; 896 states |
| `UCOSKernel` | tables and wait lists agree, the most urgent runs, none waits in vain, mutexes exclude and inherit, EventService implemented | 17 applications, up to 3 tasks, 2 events, 2 priorities to inherit, a ring of 2, counts to 2, delays of 1 tick, 2 flags; 649,372 states |
| `JTAGUart` | no character behind a disabled interrupt, CharacterDevice implemented, blocking calls end | 4 applications, rings of 2 and 3, FIFOs of 1, 2 writers and 1 reader, a time limit of 2 s; 132,240 states |

Why these bounds are enough. With 4 cells each of the coincidences the write
states depend on occurs: `i = j`, equal data, a left-over datum that equals the
awaited one, an index that wraps; for the key schedule the proof below removes
the bound. Two characters are the shortest message on which "all letters"
differs from "last letter", and on which the early cut can strike before or at
the end. Three keys let a core fail, advance and end. Three
cores with two good keys let two cores find a key in either order while the
third is stopped in each of its phases; the proofs hold for every number.
For the iPod four words tell forward from backward and a neighbour from a wrap
(with two, both neighbours are one word), and `MinGap = MaxLatency + 5` is the
least that `TimingAssumption` allows: the request crosses in three edges, is
accepted at the fourth, answered at most `MaxLatency` edges later, and the second
read of the word is accepted at the next edge. The answer to that read can
then still be under way at the next sample. At the initial divisor a sample takes
some 1133 edges. `speed_controller.sv` does not limit the divisor, and
speeds past the assumption are not covered by anything said here.

Two clients are what hw3 has; the proof is for any number. In the kernel three tasks
let one own, one wait and one come between; two events let a task own a mutex and
wait elsewhere, or two tasks own mutexes with different PIPs; for the invariants of the kernel the
proof removes these bounds; a ring of two wraps at both ends and
holds an order; delays of one tick end at any moment, because ticks come at any
moment. Which services meet in one application is the real bound: all
pairs that share a wait list do, three kinds of event at once never do. The driver's ring of two
holds one character, so it is full and empty at every second step; the ring of three
wraps with a part of a string copied, and a write of two characters does not fit a FIFO of one.

Fairness. CLOCK_50 is a free-running oscillator: weak fairness of Clock,
in Datapath of the edges at which nobody else raises stop (an input that the
core is never owed, so it may not be what ends a search). In
MultiCore each core's engine finishes in the end, which is what
Datapath's `SearchEnds` and the engines' `PassEnds` establish, and the reset
key is released in the end. Liveness is stated as "or reset keeps coming":
nothing in the code prevents that. In the iPod both clocks run freely; keys owe
nothing. A key comes only when the synchroniser has forgotten the one before: a
PS/2 code takes about a millisecond, a few dozen samples.

The arbiter's clock runs and the target finishes what it has been started for. In
the driver the handler runs when its interrupt is pending, the
alarm ticks, and each task gets the processor again and again, which the
kernel grants while no more urgent task takes it all. Of the host nothing is
assumed but that one which shows itself again and again also takes
characters. The kernel run checks safety only: nothing makes an application post.

### Disagreements found

- `ksa.sv:92` promises LED 7 for "key not found". The branch asks for
  `done_flag` with no found flag, but `done_flag` is `stop_flag`, which only a
  found key raises; the cores' own done flags are not read.
- `README.md:72` promises the whole keyspace and line 84 a key of 24 bits; the
  search ends after `0x3FFFFF`.
- `README.md:14` says that the first sample is the lower half of word 0, and
  lines 16-17 that it is played first. Forward, `address_counter.sv:45` plays
  the upper half first, and the first word ever asked for is word 1 (lines 47-54).

Also seen while modelling, without a run: each core but the last tries one key
of its neighbour's quarter, because `key_end_value` is inclusive
(`datapath.sv:125,173`).

## 5. Proofs

**Key schedule** (`KSAEngineProofs`). For every N > 1, key and garbage,
`EngineImplements`: the engine refines KeySchedule, if the memory shows new
data on a write, or if it shows old data and the tables have no equal cells
(`MemoryFits`; init_memory's table has none). The refinement reads the
table as if the announced swap were already done from `SET_J_ADDR` to the end
of `SWAP_DATA_J`. The inductive invariant `EngineInv` says what each state may
rely on: which cell `data_out` belongs to (`ReadInv`), that `SWAP_DATA_I` lasts
exactly one edge and destroys only the dead cell s[j] (`FirstWrite`), and that
in `SWAP_DATA_J` either the write of s[i] is being presented, and `q` is s[j],
or s[i] holds its final value (`SecondWrite`). The types alone are not
inductive: the exit of `SWAP_DATA_J` is right only because of them. With an old-data memory
and equal cells the exit could come too early, hence the assumption.
`PermutationKept` and `EngineTypeCorrect` follow from the same invariant.

**Search** (`MultiCoreProofs`). For every number of cores, range, key space and
set of good keys: types, `ReportedKeyIsGood`, `NoKeySkipped`,
`ExhaustedMeansNone`, `StopHasACause`, `LitCoreHasFound` and the action property
`ReportOnlyMovesDown`. The inductive invariant `IInv` keeps, for each core, that
the keys of its range below the current one were rejected and that a core
that ended unstopped rejected its whole range, and for the controller that what
it shows belongs to a core that holds a found key. That the ranges leave no gap is the
arithmetic lemma `RangesCover`; that the priority chain has a least element is
`LeastExists`.

**Arbiter** (`SharedAccessProofs`). For any number of clients, any order of
turns and any arguments, `EveryClientHasItsAnswer`. The invariant follows a request from
state to state: what the target works on, then what it shows, then what is
registered is of the client whose turn it is, and the target is not started again in between.

**Driver** (`AlteraJTAGUartProofs`). For every ring length of 2 or more, FIFO depth, time
limit, set of tasks and of strings: `TypeCorrect` (indices stay in their rings, no FIFO is
overrun by the handler, a task is past a lock exactly while it owns it) and
`NoCharacterIsLeftBehind`: an interrupt that is off has nothing to do, or a
task is about to turn it on. The invariant adds only that a reader about to
advance has fetched something (`AdvanceOK`), because it is the reader that
turns the receive interrupt on again; `FetchedFits` and `StowedFits` are the
arithmetic of the rings.

**Queues** (`UCOSKernelProofs`, first part). For every ring size of 1 or more, set of tasks, queues and
applications: `RingsWellFormed` and `QueuesAreLines`. The invariant `RingOK` is that
`OSQIn` is `OSQEntries` cells ahead of `OSQOut` in the ring, which no service checks:
`OSQPost` moves the one index, `OSQPend`, `OSQAccept`, `OSQPostFront` and
`OSEventPendMulti` the other. `AtTheEnd`, `AtTheFront` and `FirstTaken` are the arithmetic
of one ring read as a sequence; `OthersKeep` shows that no other service touches a queue.
These two theorems use nothing of `ApplicationRules` and nothing of the tables of the scheduler.

**Kernel** (`UCOSKernelProofs`). For every set of tasks, priorities, events, messages and flags,
every ring size, bound on counts and delays, and every set of applications that keep
`ApplicationRules`, all eight invariants of the run: `KernelTypeCorrect`, `NoTaskForgotten`,
`WaitersFound`, `MostUrgentTaskRuns`, `NoLostWakeup`, `OwnersInherit`, `MutexesExclude` and
`PrioritiesNameTasks`. They rest on `KernelInvariant`, because hardly one of them is inductive
alone: a post finds its waiter only if the wait list is right, the waiter becomes ready only if its
status is, and the scheduler's choice is right only if the ready table is. The parts of `KInv` are:

- `Standings`: where each task stands. It is in no call, or it is in a call and waits, has been timed
  out while still listed, or has been served and not yet run. For each of these `Consistent` fixes
  status, delay, event pointers, wait lists and readiness *together*, the bits and pointers left by
  an early return of `OSEventPendMulti` included. Between the tick that
  times a task out and the task's return, status and wait list disagree; the
  kernel is right because every service treats a task in that standing as it does, and
  that is what the proof goes through.
- `ListsNameTasks`, `Names`, `Creations`, `PrioTableAgrees`: the lists hold priorities, so a task that is
  created, deleted, re-prioritised or raised must be renamed in all of them.
- `MutexesOwned`, `OwnersWait`, `OwnerIsUrgent`, `MutualExclusion`: an owner has its own
  priority or the PIP, its own one is kept for it, and a task served with a mutex owns it before it runs.
- `Processor`: the running task is ready and the most urgent, or the scheduler is owed a call;
  a task lowered by `OSMutexPost` without a waiter runs on (`Demoted`) until the scheduler is
  next called. That is what the code does (`os_mutex.c:598`), so `MostUrgentRuns` leaves this case out and says nothing against it.
- `Leftovers`: a task that is in no call has such leftovers only in an application that both
  waits for several events and deletes events. There `ApplicationRules` admits neither flags nor changes
  of priority, the two services that would act on them; a post, a tick or a delay does the same
  with and without them.
- `NoneWaitsInVain`, `RingOK`, `UsedOnly` and the types. `UsedOnly` says that a service an application
  does not use has left no trace, which is how `ApplicationRules` enters the proof.

There are some fifty services and far fewer kinds of step: one that only changes an event, one
that wakes waiters (`Wakes`), blocks the caller (`Blocks`), returns from a call, lets time
pass, raises an owner (`Raises`, `Lends`), hands a mutex on (`Releases`), or creates, deletes or renames a task.
A lemma per kind and part of the invariant shows that the part is kept; each service is then shown to be of its kind.

**Key stream** (`PRGAEngineProofs`). For every N > 1, message length, table, garbage and both
read-during-write behaviours: `EngineImplements`, the engine refines MessageDecrypt, and
`EngineTypeCorrect`. The
refinement is of the same kind as the key schedule's; the table needs two swap states
that end when `q` shows the datum, a plain text that is written before it is judged, and
`f` and `k` fetched in a state apart. The invariant says for each of the FSM's states
which cell each port shows and what the registers hold of the round under way.

**Core** (`DatapathProofs`). For every memory size, message length, key range, mixing of
bytes and both read-during-write behaviours, with `stop` and reset at any edge:
`CoreTypeCorrect`, `WritesReachMemory`, `TableScheduled`, `FoundIsPlain` and
`CoreImplements`, the refinement of CoreSearch. `CoreInv` is the conjunction of six parts, proved
inductive together:
`IInv`, types; `TakeTurns`, an engine that is not idle is the one the FSM has
selected, unless the core was stopped in the middle of a round, when the FSM has left its
engine to itself and the engine's last writes go nowhere; `Initialised`, cells below
the counter hold their own number; `ShuffledSoFar` and `DecryptedSoFar`, while an engine is
at work the table, its indices and its plain text are those of RC4 after as many rounds
as its index counts; `FoundMessageIsPlain`, a found key's plain text is RC4's.
RC4's state is a recursive function on the number of rounds; that it is one, round by round
(`KSAStep`, `PRGAStep`), follows from the library's theorem on recursion
over a well-founded set, which takes no operator as parameter, and so agreement with RC4
needs no induction besides the invariant's own.

**Alarm** (`AlteraJTAGUartProofs`, of `AltAlarm`). `AlarmOnTime`: for every width of the tick counter and every
period shorter than a wrap, the callback is called exactly every `Period` ticks.
`AlarmInv` says that the due time is `left` ticks ahead modulo the width, and that the
rollover flag is up exactly when the counter wraps before it.

**iPod** (`SimpleIpodProofs`). For every length of the song and every timing
within `TimingAssumption`: types, `IpodImplementsPlayer` and `WordsNotTorn`. The
inductive invariant `IpodInv` ties the clocks together: `Phase` says where a
request is by the number of edges since the sample that raised it (`Underway`
in the synchroniser, `Started` in the reader), `Reading` that the first answer
comes in time, `Echo` that the second read of a word is of the word last read and is over before
the next request, and `Settled` that a request never meets another. A sample is then a
step of the player (`SampleRefines`) and an edge of CLK_50M is invisible to it
(`Clock50Refines`): at the fourth edge, when the reader latches the old
word and the flash accepts the new one, the mapping moves from "in flight" to
"read" without a change. `TimingAssumption` is a sufficient timing, not the
tightest: the address moves with every second sample only.

Only model-checked: everything about liveness (out of the prover's reach), the kernel's
refinement of EventService (`ImplementsEventService`) and the driver's of CharacterDevice
(`ImplementsDevice`). The first needs what `KInv` says of served tasks and, for each service, what
becomes of the line and of every hand at once; `QueuesAreLines` is its part about queues. The second
needs an invariant of the two rings and two FIFOs read as one line.

## 6. Not modelled

In lab 4: the seven-segment decoder, the memory content editor ports, timing
and metastability, and `datapath_start_flag`, which `ksa.sv` ties high. The
switch-selected key mentioned in the README is not in this code. In lab 2: the
PS/2 receiver and scan-code table (keys are events), the LCD, the codec's
handshake, `freq_divider.sv` and `speed_controller.sv`, whose outcome is the gap
between samples. The sample clock reaches the player through a synchroniser of its own,
which gives the 50 MHz edge that `SampleClock` follows.

In lab 5's software: queries (`...Query`, names, version, statistics task,
stack check), `OSTaskCreateExt` and `OSTaskDelReq`, memory partitions (`os_mem.c`,
used by nothing here), timers (`os_tmr.c`, `OS_TMR_EN` is 0), stack frames and register
saving, the HAL's start-up and thin wrappers. The application itself draws on a screen
and writes registers; its two tasks share three song flags, but `hello_ucosii.c` does not compile as
committed: the comment of line 141 swallows the head of `send_audio_fifo`, so
no model of it would be faithful to a program. The interrupt handler of
`student_code.c` is one read and one write of a register. In hardware: the LFSR, the
selectors, and the word crossing between clocks, which is right or wrong by setup
times that no step of a model has.

The remaining parts: `hw2` (three exercises in FSM coding), hw3's N-way version
(instances of the arbiter that share nothing; its loop ends at `N-1`) and edge
trap (instantiated nowhere), lab 1, the assembly programs of lab 3 and of the
final project with the variants of lab 2's modules around them.

How much of the code is covered. Most of what this repository's students wrote is
hardware, whose languages a count of C lines does not see. Of the C lines (some
57,000) about 25,000 are tables of pixels (`fonts/`, `imagenes/`, their copies in
`songs_images_and_scripts/`), others headers of register addresses, drawing
routines, and the HAL. The kernel and the driver are the parts that have state
and concurrency, and they are modelled.
