# TLA+ models of Clubcos

Clubcos is a small 32-bit kernel for one processor (`src/src`, C and assembly): multitasking with processes,
threads and an idle task, a timer, a keyboard driver, a terminal and a shell. This directory holds TLA+
specifications of its components, the TLC runs that check them on small instances, and TLAPS proofs that hold
for every instance.

Paths below are relative to `src/src` unless they say otherwise. Everything is translated from the code; the
comments and documents of the repository are used only as statements the code is checked against (the
"findings").

## Inventory

| Component | State | Operations | Interacts with | What is hard | What makes it correct |
|---|---|---|---|---|---|
| Tasks, processes, scheduler (`task.c`) | task and process tables; ready lists by priority, wait list, exit list; execute counts, running task, quantum | create, terminate, suspend, resume, join, change priority, yield; timer tick; the idle task's clean-up loop | lists; timer interrupt; memory | preemption at any tick; termination of others; half-released slots; starvation | a task is on exactly the list its flag names; joins end exactly with their target; stacks and page tables outlive their users; every ready task runs |
| Linked lists (`linkedlist.c`, `.h`) | two pointers per node, size | push, pop, erase; lock-free push and pop | tasks, time-outs, notices | one shared access at a time between interrupt and consumer | ordered list; every pop returns the oldest node |
| Timer (`timer.c`) | tick counters, sorted list of time-outs | set, cancel, interrupt | lists (notice queues), scheduler | union of link and notice node; time-outs set late; wrap | every time-out set in time is noticed once, in order |
| Buddy allocator (`memory.c`) | bitmap and counts per level | allocate, free, split, merge | terminal, tasks, shell | boundaries of levels; interrupt lock | blocks disjoint; freeing restores |
| Interrupt queue (`interrupt.c`, `circular_queue.c`) | ring of words | put (interrupt), get, peek | keyboard, main loop | full and empty when indices meet | first in first out, nothing lost below capacity |
| Keyboard (`keyboard.c`, `keys.c`, `keytable.c`) | state of modifiers, scan-code prefix state | interrupt, LED commands, translation | interrupt queue, main loop, terminal | data taken while waiting for an ACK; multi-byte codes | key state follows makes and breaks |
| Main loop (`ckMain.c`) | none of its own | get, translate, deliver, yield | interrupt queue, keyboard, terminal, shell | order of checks and waits | every queued word is delivered |
| Binary semaphore, recursive mutex | a flag; a flag, an owner, a count | enter, post, wait; lock, unlock | terminal, rtc | preemption between flag and owner; a killed owner | mutual exclusion; the owner's count |
| Terminal (`terminal.c`) | cursor, lines, key buffer, input line | print, scroll, get line | mutexes, event, array | two mutexes, event and buffer | no deadlock, no lost key |
| Shell (`coshell.excp`, `coshell_cmd.c`) | command table; what its commands have started | read a line, search, ask, run | terminal, allocator, tasks, clock, game, mutex | search bounds; commands that go on in the background | runs exactly what is typed; ends no system task |
| Sokoban (`skout-sokoban.c`) | map, player | move, restart, next map | terminal, shell | moves look two cells ahead without a test of bounds | nothing leaves the map; a map is cleared when it is |
| Real-time clock (`rtc.c`) | format of the registers; the table of months | read time, read date | semaphore | register-by-register reads, leap years | never ahead of the clock; the right day of the week |
| Array, formatting, strings (`snprintf.c`, `string.c`) | buffers, the room left | append; format | terminal | capacity, last byte, an unsigned count | nothing is written past the buffer; a format means what it means in C |
| Descriptor tables, exceptions, boot, ports (`idt.c`, `pic.c`, `int_except.c`, `interrupt.asm`, `task.c` 658-707) | masks, handlers, stacks; the owner of the floating-point registers | set up; enter and leave a handler; hand over the registers | all | a switch of tasks inside a handler; registers that belong to another task | what is interrupted goes on as it was; each task finds its own values |
| `tools/edimg`, `tools/excpp` | - | build tools of the host | - | - | - |

`PROJECT.json` lists the same components with their files and status, and under `hazards` the places where
each can go wrong in a way a test would hardly reach.

## Modules

| Module | What it models |
|---|---|
| `NodeList` | a linked list as the sequence of its nodes, and erasing from the middle |
| `QueueProofs` | lemmas on pushing, popping and erasing; the ring is a bounded queue (proved) |
| `Task` | `task.c`: tasks, processes, scheduler, idle task |
| `MCTask` | the sets of calls of the instances TLC checks |
| `TaskInvariant` | the inductive invariant of `Task` |
| `TaskProofs` | the types and the safety properties of `Task` (proved) |
| `Fifo` | abstract: the ordered list a `LinkedList` promises |
| `ExitQueue` | abstract: the queue the lock-free list promises, with its one window |
| `LinkedList` | the plain list operations on `pNext`, `pPrev`, `size` |
| `LockFreeList` | a list under a lock, the lock-free push and pop one shared access per step, and the unlocked erase of a child process |
| `Countdown` | abstract: each time-out is noticed exactly when it is due |
| `Timer` | the list of time-outs of `timer.c` and its interrupt handler |
| `Buddy` | the allocator of `memory.c` |
| `MemoryTests` | the shell's two tests of the allocator, on `Buddy` |
| `StorageProofs` | the pointers of both list modules, and that they implement `Fifo` and `ExitQueue`; the properties of `Buddy` and `MemoryTests` (proved) |
| `CircularQueue` | the ring of `circular_queue.c`, as operators on records |
| `Keyboard` | keyboard, controller, interrupt queue, driver, main loop and key translation |
| `KeyboardProofs` | the safety properties of `Keyboard` (proved) |
| `TerminalLine` | the line being typed and its echo on the screen |
| `TerminalLineProofs` | the properties of `TerminalLine` (proved) |
| `TerminalInput` | the path from the main loop's keys to readers, with its mutex and events |
| `TerminalInputProofs` | the safety properties of `TerminalInput` (proved) |
| `Coshell` | the shell: line, table, questions, and what its commands start |
| `Rtc` | reading date and time register by register; the day of the week |
| `Sokoban` | the game |
| `RecursiveMutex` | the recursive mutex, one shared access per step, under the shell's test of it |
| `CoshellProofs` | the properties of the shell, the clock, the game and the mutex, of their composition, and of `Format` (proved) |
| `Format` | `vsnprintf` |
| `Fpu` | the floating-point registers that tasks share |
| `Exceptions` | the order of the start; interrupts and exceptions from the stub to the return |
| `InterruptProofs` | that `Timer` implements `Countdown`; the properties of `Fpu` and `Exceptions` (proved) |
| `MCShell` | the instance TLC checks of `Coshell`, `Format`, `Fpu` and `Exceptions` |

`Task`, `Timer`, `LockFreeList` and `NodeList` share the lists; `Keyboard` and `TerminalInput` extend
`CircularQueue`, and what `Keyboard` hands to the terminal (`ckTerminalOnInput`) is what `TerminalInput` takes
as its keys. `Coshell` composes the clock, the game and the mutex with the shell that starts them,
`MemoryTests` the allocator with its tests. `Countdown`, `Fifo` and `ExitQueue` are abstract; `Timer`,
`LinkedList` and `LockFreeList` implement them by `INSTANCE`.

### Task

*State.* A task is the index of its slot in `TaskStruct::tasks`; each field of `Task`, `Process` and
`TaskStruct` that decides control is a variable of its own (the declarations say which). The lists are
sequences (`NodeList`), because what matters of them is their order and membership; that the pointers behave
so is what `LinkedList` shows. `stack` and `pageDir` are the allocations the structures own, so that use after
release can be stated. `fault` records a failed `assert` or an erase from a list the node is not on: the code
goes on with a corrupt list there, the model stops.

*Steps.* On one processor, code between `INTERRUPT_LOCK` and `INTERRUPT_UNLOCK` (`port.h:82`) is atomic, so
every `ck*` call is one action of the running task. `ckTaskTerminate_internal` is a chain of steps
(`WakeJoiner` once for each joiner, then `TerminateSelf` or `TerminateOther`) that nothing can interrupt:
`dying` is set in between and disables everything else. A call whose id resolves to nothing changes nothing
and is left out. The timer tick (`Tick`) can come between any two steps. The idle task's loop holds no lock,
so its steps - the two links of the pop, the release of the process and its memory, of the stack, of the slot,
the yield - can each be separated by preemption. `ckMain` is the kernel task: it creates tasks and yields, and never
waits or exits.

*What callers may do.* The constant `Api` names the kinds of calls tasks make. `ProperCalls` are calls as the
kernel makes them or could make them; each member of `Misuses` lets one guard through that the interface
documents as legal but the implementation does not expect. The passing runs and the safety theorems use proper
calls.

*Left out of Task:* the generation bits of ids (an id here is the slot it resolves to, which is right until
`TaskIdMask` wraps after 2^20 creations); `UsedCpuTime`, `ProcessorLoad` and `hlt`. The floating-point
registers are in `Fpu`, `ChildProcessList` is in `LockFreeList`.

### Lists

`LinkedList` has the three operations on the actual pointers, including the stale pointers of nodes that have
left, and the refinement `QueueSpec` to `Fifo`. `LockFreeList` has one action for each shared access of
`ckLinkedListPushBack_lockfree` and `ckLinkedListPopFront_lockfree`, with one producer and one consumer as the
header asks; `Preemptible` says whether the consumer can run inside a push. In this kernel pushes run with
interrupts off, so it is `FALSE` there; `TRUE` covers what the header allows. The list implements `ExitQueue`,
which is an ordered queue except for one window: a push that lands while the only node is being taken cuts the
queue off for good. `Task` contains the same window for `WaitForExitList` (`exitCut`, `IdleLink`).

A behaviour of `LockFreeList` uses the list in one of three ways (`users`): under a lock; by a producer and a
consumer; or as a `ChildProcessList`, to which creation pushes and from which a terminating task erases under
the lock, while `csCleanupProcess` (`task.c:408`), when the idle task runs it, erases without, each access a
step. `disturbed` marks that another changed what that erase had read; `ListWhole` says that the list is
damaged exactly then.

### Timer

`Timer` has the list of time-outs as a sequence, `ckTimerSet` as one locked step and the interrupt handler as
another. Three facts of the code decide what it promises. The list is ordered by distance from the current
tick in the width of the counter, so that it works across the wrap. The handler compares for equality, so that
a time-out set for the current or a past tick waits for the wrap and holds up all behind it. And
`pNextTimeOut` shares storage with `NoticeNode`: after the push the handler goes on at the notice queue, whose
length lies where a time-out has its tick. Normally that ends the loop, and with it the notices of this tick;
if the length equals the tick count, the handler takes the queue for a time-out (`fault`). `Expected` states
the ticks for which none of this happens, and `Misuses` lifts each part of it; within `Expected` the timer
implements `Countdown`.

### Buddy allocator

A block of level `l` is `2^l` units; the model keeps each level's bitmap as the set of its free blocks, and
the count beside it as a variable of its own, because the search of the bitmap trusts the count
(`memory.c:148`). The layout (`BeginAddr`, `Levels`, `Leftover`) is computed as in `ckDynMemInitialize`,
metadata included, with `Pow2` for the shifts, so that levels with an odd number of blocks have a last block without a buddy. `Allocate`
and `Free` are one locked step each. `live` holds what callers own. `Partition` says that free and live blocks
cover each unit once and that the counts are right; `Serves`, that a request fails only when no level has a
block large enough, and that when everything is freed the bitmaps are those of `BuddyInit`.

`MemoryTests` runs `testdynseq`, which takes every block of a level and frees them by addresses it computes,
beside the tasks of `testdynran`, which take and free blocks of random sizes and whose stacks come from the
same memory. What a test has written matters in one way only, whether another wrote to it since (`spoiled`).
`TestsPass` says that the tests never report a fault and never free what is not theirs. A tester that is
refused a stack runs without one, on the first page of memory (`coshell_cmd.c:202` does not test for `NULL`);
two at once would share that page, which the model leaves out. A `testdynseq` that is
refused a block returns without freeing those it has (`coshell_cmd.c:113`); the model keeps them taken. `level`
and `block` are the `i` and `j` of `testdynseq`, and `own` what it has been given.

### Keyboard and main loop

The kernel's part is `Interrupt` (`ck_KeyboardIntHandler`), `Handle` (one turn of `ckMain`, which assembles
codes and translates the key) and the LED command in the three states of its wait (`Send`, `Poll`), during
which interrupts are off. The rest - user, keyboard and controller - is external, modelled from what the
driver expects of it: scan codes of set 1 in order on a wire, one byte in the output buffer, an ACK that may
come late, and a status that lets the driver read an empty buffer, which gives the last byte again. Keys
without a code that needs a fake shift are left out, and Pause's codes are those the driver takes.

Two ways to lose a scan code are in the code, each with a variable that marks it: it comes to a full interrupt
queue (`overrun`), or a try for an ACK reads it (`drained`: `keyboard.c:126` queues it without
`INTERRUPT_QUEUE_FLAG_KEYBOARD`, and `ckMain.c:137` drops words without that flag). `failed` says that an
update gave up after its tries, `hasty` that a wait for the controller to take a byte did
(`ckKeyboardWaitForInput`, after 0xffff readings of the status) and the next byte was written over it.
`TypedText` and the kernel's part of `StateFollows` are stated for behaviours without `overrun` and `drained`,
the lights for those without `failed` and `hasty`; `Delivered` always holds.

### Terminal

Two modules share `terminal.c`. `TerminalLine` has the screen, with cursor and end of text, and the line with
its insertion point; every operation runs under `s_TermMutex` and is one step. `TerminalInput` has the buffers
and the three semaphores between the main loop, a reader and a printer; each attempt to enter a semaphore is a
step, so that preemption falls between them. Editing inside the line is abstracted there to typing and erasing
at its end.

Some of what the code does takes its data apart. The models contain these steps, mark them with a ghost
variable, and state the properties for everything else:

- `apart` (`TerminalLine`): Backspace at the left edge (`terminal.c:214-243`, whose loop does not end if the
  row above is not full, and which deletes nothing if it is), Escape with the cursor inside the line (401-421,
  which counts the whole line back from the cursor), and printing while a line is being typed.
- `spoilt` (`TerminalInput`): `ckTerminalGetLine` with a second line already in the input (640-642). It moves
  from the new line instead of from behind it while the array shrinks by both, so the next line reads as an
  empty one.
- `fault`: an assertion fails, or the input is written one past its end when it is full, as the overflow test
  looks at the line's array (323). `FaultsOnlyFull` says that nothing else leads there.

Two concurrent readers are left out: programs read one at a time, as the shell joins what it starts. So is the
termination of a task that holds `s_TermMutex`, which keeps it for ever.

### Shell and what it starts

`Coshell` reads a line, searches the table as `csSearchCommand` does (the words are numbers in the order of
`strcmp`, with another word between any two commands), asks where the code asks, and runs the command. A
behaviour has one `subject`, so that the state space is the sum of those of the parts:

- `Rtc`: `datetime` reads six registers one after another, the largest field first, while `Pass` moves the
  clock. `MonthsTable` is static, and the code never undoes the change that a leap year makes to it
  (`rtc.c:120`): `WeekdayRight` says that this is the only way to a wrong day. From noon
  to one the hour is shown as 24 in 12-hour mode (`rtc.c:63`): `AheadOnlyAtNoon` says that the time shown is
  ahead of the clock then only, and, but for that hour, is the clock's when no field changed after it was read.
- `Sokoban`: one action for each key in the game. The look-ahead takes a box on a target for a target and
  merges two boxes (`merged`); `ClearedFairly` says what that can and cannot lead to.
- `RecursiveMutex`: the accesses of lock and unlock that others can see are steps, and between any two of them
  the task can be killed. `Depth` locks deeper than the command does, because the mutex is meant to be locked
  again by its owner. Each run of the command initialises the static mutex again, in three stores; a run that
  begins before the one before has printed (`overlap`) breaks the mutex, and the properties hold unless one
  does. `holder` is the task that set the flag: it is what the proof follows, and no step asks for it.
- `killtask` ends one of these tasks, or the shell itself; `killproc` is checked for the ids it goes on with.

### Formatting

`Format` has each conversion of `vsnprintf` as one step on the text, the room left, a word, and the count of
items. `right` is what the format means in C, the reference that `MeansAsInC` compares with; `departed` marks
conversions that mean something else here. Two ways lead past the end of the buffer in the code (a number cut
off at the end, the blanks to the right of a string): `past` marks them, and `InBuffer` says that there is no
third. What a letter that is no conversion lets pass over is text in these formats; the code would pass over a
percent sign as well (`snprintf.c:271`).

### Processor: floating point and interrupts

`Fpu` has the three places that matter to the registers (creation, switch, termination) and the trap that
hands them over (`ck_ExceptIntHandler07`); `own` is what each task calculated last. `Exceptions` has the steps
of `ckMain` in their order, and an interrupt as stub, handler and return, each on the stack of the task it
came up in, so that the timer's handler, or a task that calls `ckTaskSchedule`, can go over to another task which was left
in the middle. `Transparent` says that the
interrupted code gets back its own registers, that requests are not kept back while tasks run, that no device
interrupts before it has a handler, and which fields a panic shows wrong: `esp2` and `ss2`, and all of them
for the vectors above 0x14 that push an error code.

## Runs

| Run | Instance | Shows |
|---|---|---|
| `task_lifecycle` | 3 user tasks, 2 processes, 1 level for them | creation, threads, exit, termination of others, process kill and joins against the idle task's clean-up: `FlagMatchesList`, `JoinConsistent`, `NoFault`, `MainThreadOwned`, `StackLifetime`, `JoinNotEarly`, `ZombieStays` |
| `task_scheduling` | 2 user tasks, 2 processes, 2 levels, a quantum of one tick | suspend, resume, priorities, joins: `Inv` (the invariant of the proofs, types included), `AlwaysReplaceable` |
| `task_fairness` | 2 user tasks, 2 levels, fair ticks | `ReadyRuns`, `ZombieReaped` |
| `lists` | 4 nodes, preemptible pushes | `ListWhole` for the three ways to share a list; `QueueSpec`: under a lock the pointers implement `Fifo`; `ExitSpec`: the lock-free list implements `ExitQueue`; `PopReturns` |
| `timer` | 3 time-outs, a counter that wraps at 12, up to 5 ticks ahead | `Noticed`, and `CountdownSpec`: the timer implements `Countdown` |
| `buddy` | 13 units less the metadata; requests of 1 to 5 units, or `testdynseq` and two tasks of `testdynran` | `Partition`, `Serves`, `TestsPass` |
| `keyboard` | 8 kinds of keys, 4 presses and releases, a queue of 3 words | `TypedText`, `StateFollows`, `Delivered` |
| `terminal_line` | a screen of 3 by 3, a line of 4, 2 characters | `Echo`, `PromptStays` |
| `terminal_input` | 4 keys, 3 calls of a reader, 1 of a printer, small buffers | `EventsExact`, `ReadsInOrder`, `FaultsOnlyFull`, `Answered` |
| `shell` | one of seven subjects | table: `RunsTyped`; clock: `AheadOnlyAtNoon`, `WeekdayRight`; game: `InsideWalls`, `ClearedFairly`; mutex: `OneInside`, `AllCounted`; format: `InBuffer`, `MeansAsInC`; fpu: `FpuOwn`; interrupts: `Transparent` |
| `task_killed_process` | violation of `RunsOnLivePages` | threads outlive their process's page tables (`task.c:338`) |
| `timer_same_tick` | violation of `NoneOverdue` | of two time-outs for one tick the second is passed over (`timer.c:139`) |

The last two are disagreements between the code and a comment of the repository; `PROJECT.json` quotes them.
`task_killed_process` needs only calls the kernel makes. The loss of a node by the lock-free list, and of a
key by the LED command, are in the passing models: the one as the window of `ExitQueue`, the other as `drained`.

*Bounds.* Four or five slots give two or three user tasks beside the two system tasks: enough for one task to
act on a second while a third waits for either, and for a slot to be reused while an older pointer to it
exists. Three levels are one above, one at and one below the kernel task's. A quantum of two ticks
(`task_lifecycle`, `task_fairness`) lets a task both lose a tick and lose the CPU. `WordMax` bounds the word
`RemainQuantum` wraps to; `AlwaysReplaceable` shows that it never does. The two processes are the kernel's and
one that can be killed; process slots are never reused by the code (`PageDirectory` is never set back to
`NULL`), so a third adds only a repetition. The timer's counter wraps at 12: above three time-outs and more
than twice as far as they are set ahead, so that the list spans the wrap with time-outs on both sides. The
memory of `buddy` leaves levels of odd and even sizes, and requests reach over two splits. `MaxEvents` bounds
the presses and releases of `keyboard`, `MaxSent` the bytes they send, `AckTries` the rounds a command waits; the
queue is smaller than what four events of two bytes put in it, so that it overflows and wraps. On the screen
of `terminal_line` a line of four characters wraps once or twice and scrolls from any place. `MaxKeys`,
`MaxCalls` and `MaxPrints` bound `terminal_input`: four keys are two lines, or one with an erased character,
and fill the queue of hits of two; the input of four characters is filled and overrun by them.
`testdynran_number` bounds the rounds of a tester in `buddy`; two rounds of two testers with blocks of two and
three units leave the stacks and blocks of one between those of the other.

In `shell` (`MCShell` gives the larger values): `Moments` are the moments around each turn of a field, in
years of both kinds, and `MaxReads` two readings in one behaviour, for the table that the first one changes.
The maps are the source's two, the first with a shorter way, both without unreachable walls. Two runs of
`testmutex` with two tasks each, which lock to depth two once, and one kill at most: two tasks show exclusion,
a second run the initialisation in use. A `Word` of 32 is far above the widths and sizes used and small enough
to be reached by counting down from zero; two items follow each other in a format, because what the first
leaves of the room is what the second starts from. Three slots are two tasks that use the registers and one
that is created in a slot used before. The vectors are one of each kind: without and with error code, with and
without a handler, the two devices, and the trap of `Fpu`. No state constraint is used: all instances are
finite.

*Fairness.* `task_fairness` assumes that the timer interrupt, which the PIC keeps pending while interrupts are
off, is taken again and again (strong fairness of `Tick`), that a call in progress goes on, and that the idle
task makes progress when it gets the CPU again and again (strong fairness of `IdleStep`: a tick every
millisecond leaves it a quantum). User tasks need not make any call. `timer` assumes that the timer
interrupts. `lists` assumes that the producer and the consumer go on with an operation they began. `keyboard`
assumes that controller, interrupt, main loop and driver go on, and that the keyboard acknowledges a command
in the end; the user need not do anything. `terminal_input` assumes that each task with a call goes on with it
(weak fairness: at a busy semaphore it waits until the flag stays free), which `ReadyRuns` of `Task`
justifies. `shell` assumes the same of the tasks of `testmutex`, of the command that creates them and of the
task that prints their count; nothing is assumed of who types.

## Proofs

`TaskProofs` proves first `TypeCorrect`, that every reachable state of `Task` has its type, for every size of
the tables, every number of levels and every `Api`, misuses included. It rests on `ScheduleType` (the
scheduler keeps types whatever lists and flags it is called with), which needs that the first eligible level
exists (`TopmostLemma`, by the well-ordering of the natural numbers) and that the counts stay natural numbers;
and on `QueueProofs` for pushes, pops and erases. The assumptions are `SizesAssumption`, `NullAssumption`
and `ApiAssumption` of `Task`.

It then proves, for every instance in which no misuse is allowed (`ProperApi`), the safety properties the
runs check: `ListsExact`, `JoinersConsistent`, `NeverFaults`, `MainThreadsOwned`, `StacksLive`, `Replaced`,
and the action properties `NeverJoinsEarly` and `ZombiesStay`. The first three are not inductive, alone or
together. `Inv` of `TaskInvariant` adds what their steps need:

- `SystemTasks`: the kernel task and the idle task never wait and never end, so that one of them is ready
  whenever the other, or any third task, runs (`Replaceable`); without it a switch could find no task and
  leave a task that has suspended itself running.
- `DyingOK`: the task a termination works on can be found by its id until the last step of the chain, and if
  it waits, it joins; otherwise `UnlinkReady` would look for a waiting task in a ready list.
- `IdleOK`: the idle task holds a popped task exactly while it is cleaning it up, and that task is still
  marked `WAITFOREXIT`: the one task with that flag that `WaitForExitList` does not have.
- `StackLifetime` and `MainThreadOwned`, which a release and a join of a process rely on.
- `ProperApi` is needed: each misuse leads to a violation of one of these properties: suspending another task
  of `FlagMatchesList`, terminating a suspended one of `NoFault`, creating with a full table of
  `MainThreadOwned`, changing the priority of one that waits (`task.c:458`, which moves its node to a ready list)
  of `FlagMatchesList`. Resuming a joiner leaves its `WaitObj` set, and its next join or exit fails an assertion.

The argument has one lemma for each operation. `ScheduleExact` is the core: called with ready lists that hold
exactly the `READY` tasks and with something to switch to, `ckTaskSchedule_internal` leaves exactly one task
running and the ready lists exact. `SwitchExact`, `GiveUpExact` and `SuspendNow` apply it to a yield, to a
task that gives up the CPU and to one that waits; `WakesExact` and `UnlinkExact` are the counterparts for
waking a task and for unlinking one from wherever it is; `RestKept` covers what most operations leave alone.
`NextInv` puts them together, and `NextKeeps` shows the action properties.

`QueueProofs` proves, for queues of any size and any elements, that the ring of `CircularQueue` is a bounded
queue. `Contents` maps a ring to the sequence it stands for; `NewRing` (the empty sequence), `RoomExact` (room
exactly below the size, so the two indices and `bEmpty` tell full from empty), `PutAppends` and
`RemoveTakesOldest` are the four facts of a queue, on which the next two modules rest.

`KeyboardProofs` proves `TypesText` and `StateIsFollowed`, for any of the modelled keys, any number of presses
and ACK tries, and an interrupt queue of any size (`KeysAssumption`, `BoundsAssumption`). Neither is inductive:
bytes may be anywhere between the keyboard and the kernel, and the driver moves words to the end of the queue
while it waits for an ACK. The invariant is a run. `Now` is what the kernel knows (prefix, keys, locks, shift)
and has still to tell; `Run(Now, words)` goes over the words of the queue and then the bytes on the wire as
`csAssembleScanCodeToKeyCode` and `ckOnKeyboardInterrupt` would. `KeyboardInv` says that this run ends in a
state that `Agrees` with the keyboard's keys and locks and has nothing left to tell. `KeyDown`, `KeyUp` and
`HalfPause` are what the bytes of one key do to a state; `RunMore` (what is told later does not change a step)
lets a key be added at the other end of the run; `FedIs` shows that the main loop takes the step the run takes;
an ACK, wherever it lands, is a word that the run passes over. `LightsFollow` is the second half: commands and
lights alternate on the line to the keyboard, and what the driver waits for tells how far they have come, so
that a stale ACK can make an update early but not wrong. A byte written over another, or an update given up, ends the turns.
Both theorems have the exceptions of their properties: a scan code that comes to a full queue, or is read by a
try for an ACK.

`TerminalInputProofs` proves for buffers of every size, any number of keys and calls: `EventsAreExact`,
`ReadsAreInOrder` and `FaultsAreOnlyFull`. Three invariants build on each other. `CallsInv`: who is inside the
mutex, and what each call has still to enter, a tail of what its kind of call begins with. `HitsInv`: the
queue of hits is a ring, and its event is posted exactly if it has an element and no reader is between
entering the event and reading; it rests on the facts of the ring. `InputInv`: the same of the
input and its event, with what is still due to the reader. None of the three properties is inductive: whether
an event is right after a step depends on who had entered it before. `SizesAssumption` asks for a queue of
hits of two places or more (the source has 1024): with one place a key that is dropped (`terminal.c:305`)
still posts the event, while the reader that has entered takes the only key.

`TerminalLineProofs` proves, for any screen and any line that fits on it with a row to spare
(`LineAssumption`; in the code 249 characters on 24 rows of 80), `EchoesLine` and `PromptsStay`. With less, the
beginning of a line could scroll away. `LineInv` adds to `Echo` that nothing is blank from the beginning of
some row, at or above the one in which the line begins, up to the end (`Solid`). Without it `Echo` is not
inductive: when Delete takes the first character of a row, the end moves to the row above, behind the last
character `csFindRightNotNullCol` finds there, and a blank before it would leave the end too far left. There is
one lemma for what each function does to the cells (`ScrollRoom`, `AddCharEchoes`, `DeleteEchoes`,
`BackspaceEchoes`, `EscapeEchoes`, `NewLineEchoes`), each with what it keeps of the cells before the line
(`Kept`), so that `PromptStays` follows from the same facts; `PrintEchoes` covers programs that print between
lines. Below them are the facts of rows and addresses (`AddressIs`, `OnwardsIs`, `BackIs`), as the prover knows
little of products. What is proved ends, as the model does, when line and echo come apart.

`StorageProofs` has the lists and the allocator. For any finite set of nodes (`NodesAssumption`: a walk along the pointers counts how far
it can get) it proves `ListsWhole` and the two refinements, `ListIsFifo` and `ListIsExitQueue`. `ListInv` has a part for
each way to share a list.

- `LockedInv`: one sequence of nodes is such that `pNext` leads through it from `Dummy` to `Dummy` and `pPrev`
  back (`ListAt`). Pushing, popping and erasing change that sequence as `QueueProofs` has it, so `ListMet`
  (what is met along the pointers is the sequence) gives the refinement. The walk is a recursive function;
  `WalkSteps` shows by its definition, for as many steps as there are nodes, what it gives.
- `LockFreeInv`: the nodes that wait are chained both ways (`Chained`), and where the producer and the consumer
  are tells which of the pointers around them is behind (`Pushing`, `Popping`, `HeadLeads`, `Counted`). There
  is one lemma for each shared access, and with it the step of `ExitQueue` that it is. Nothing assumes that a
  push runs undisturbed: `Preemptible` may be either.
- `ChildrenInv`: the list is the one sequence as long as nobody has disturbed the unlocked erase, with the
  consumer's pointers those of its node's neighbours (`ChildrenAt`). From then on it is `Damaged`: a pointer of
  a node that remains leads to one that has left, or will when the erase stores what it has read. That no step
  mends the list again makes `ListWhole` an equivalence.

The allocator has `AllocatorCorrect`, for any memory larger than its metadata and any requests
(`MemoryAssumption`, `LayoutAssumption`), `AllocatorCorrectInTests`, the same beside the tests, and
`TestsFindNothing`, for any number of testers and sizes of whole units. `Partition` and `Serves` are not
inductive. `BuddyInv` says for each unit where it is, by the block of each level that it is in (`At`):

- `AllPlaced`: each unit is in a free block of one level and nobody's, or one caller's and free on no level;
  beyond the last unit nothing is free or held. A unit is in one block of each level, so it is enough to
  follow one unit, whatever becomes of the others. `SplitPlaces` and `MergePlaces` do that for an allocation
  and a free: `HalvesCover` and `HalvesApart` say that the blocks split off on the way down, or the buddies met on
  the way up, and the block taken or given back make up the block at the other end, each unit once.
- `NoPairs`: no two buddies are both free. A block that nobody holds then lies in a free one of its own level
  or above, as its units would otherwise be free in halves; and with nothing held only the blocks without a
  buddy are free, which are all of the memory (`EmptiedIsInitial`, `LeftoversAre`). That is
  the second half of `Serves`, and the reason why a free must merge as far as it can.
- `CountsAgree`: the counts and `UsedSize` are sums over sets (`TotalAdds`), to which an operation adds, or from
  which it takes, one block at a time.

`Pow2` is a recursive function because the prover knows nothing of exponents; `PowIs` and the lemmas on `At` are
all that the rest uses of it. `TestsInv` adds what the tests rely on: what each holds is its own (`Shared`), so
that nothing is spoiled, and `SeqInv`: `testdynseq` holds as many blocks of its level as it has counted. If
that is all blocks of the level, it holds each of them (`OwnIsAll`), and the addresses it computes are theirs;
if not, one is left (`OneIsLeft`), and it is not refused while the memory is its own.

`InterruptProofs` proves, for a counter of any size, any finite set of time-outs and `Misuses = {}`,
`TimerCountsDown`: `Timer` implements `Countdown`. `TimerInv`: the time-outs on the list are sorted by their
distance from the current tick (`Sorted`), are at least one and at most `MaxAhead` ticks ahead (`Within`), and
each is on the list or on a notice queue, once (`Apart`). So the one due now can only be the first, which is the
one the handler looks at. `WordArithmetic` has the differences in the width of the counter, and `PlaceFits`
where the search in `ckTimerSet` stops. `NeverOverdue` is the property that `timer_same_tick` refutes with one
misuse; `StorageOwned` is what `Noticed` needs of the shared link. That every notice comes is left to the run.

`CoshellProofs` has the shell, the three things it starts, and the printing of what they show.

- The clock. `ShownAheadOnlyAtNoon` and `WeekdaysRight`, for any moments of dates that exist (`MomentsAssumption`)
  and any number of readings. The first needs that, as far as it has been read, the first field that differs
  from the clock's is less (`PrefixNotAhead`): the fields are read largest first. It follows what
  was read with the one wrong hour put right (`Corrected`), and the hour itself is excepted. The second needs that the
  two entries for January and February are those of one of two tables, and that the table was set for the year
  that was read (`WeekdaySet`). The date may be one that never was, put together across a change.
- The game. `MovesInside` and `ClearsFairly`, for maps of any size with walls all around and one player
  (`MapsAssumption`, `ClosedAssumption`): the walls stay those of the map that was copied, so that whatever is
  not a wall has cells on all four sides, and so has a cell behind a box. `FairInv` counts: the boxes are as
  many as the map began with until two are merged, and fewer from then on.
- The mutex. `MutexExcludes`, for any number of runs, tasks, rounds and locks. `OneInside` says nothing of the
  time between the swap and the stores behind it; `MutexInv` adds, for each task and while no run overlapped,
  that a task in the mutex is the `holder` and its locks are counted (`Owns`), that the mutex names only a task
  that is in it, leaves it or was killed in it (`Named`), that where a task is tells its depth (`DepthRight`),
  and that no task is there while the mutex is initialised (`Quiet`), which `RunsInOrder` (a count is printed
  when all tasks of its run have gone) keeps.
- The shell. `RunsAsTyped`, for any lines. `csSearchCommand` is a recursive function of two bounds.
  `HalvingRight`: one step on a part of the table is right if the search of every shorter part is; `SearchFinds`
  concludes, by a shortest counterexample, that the search of the whole table is.
- `ShellImplementsParts`: a behaviour of the composition is one of each part's specification, so that the shell
  keeps what the parts keep by themselves (`ShellKeeps`).
- Formatted printing. `StaysInBuffer` and `MeansWhatCMeans`, for words of any size, any buffer and any format
  whose conversions are given what they take (`ItemsAssumption`). While `past` is "no", the text and the room
  left fit in the buffer, and the text is the beginning of `right` (`FormatInv`): all of it while there is room,
  which makes the next conversion's text follow in both. `TurnedIs` has what one conversion comes to: its text
  is whole, cut off, short of its end (a number) or left out (a string). `NumberMeans` puts the parts that
  `number` writes together in C's order, for each side they are filled on. `DigitsIs` shows that the recursive
  function `Digits` gives a text, by the least number for which it would not.

`InterruptProofs` also proves `RegistersOwn`, for any number of slots and any values, and `InterruptsTransparent`,
for any number of tasks and any vectors except that of the slave controller, whose requests are masked
(`ExceptionAssumption`). `FpuInv`: without the flag the registers belong to the running task (`NoTrap`); they
hold what their owner left (`InRegisters`), and the slots what the others did (`InSlot`). `ExceptionInv`: what
each task's stack holds, word by word, by how far its interrupt has come (`StackRight`), also of the tasks the
timer's handler has left in the middle (`OthersLeft`); `ServiceRight` says when the controller has a request in
service. What is popped is then what was pushed, and by the same task.

The assumptions of each module are its `ASSUME`s, which TLC evaluates in the runs; there are no others.

Only model-checked: `RunsOnLivePages`, false as soon as a process has two threads (`task_killed_process`);
and liveness under fairness (`AllCounted`, `Answered`,
`Delivered`, the second half of `Noticed`, `PopReturns`, `ReadyRuns`, `ZombieReaped`), which is beyond the
prover. The number that `Digits` shows and the one that `Atoi` reads would need an induction that the prover has
no means for, unlike `csSearchCommand` and the walk of `LinkedList`, whose results have a closed form; `Format`
takes the same digits for what the code writes and for what C means. The misuses of `Task` (suspending another
task, terminating a suspended one, resuming a joiner, creating with a full table, changing the priority of one
that waits) are covered by `TypeCorrect` alone, and those of
`Timer` by the runs.

## Not modelled

- `tools/edimg`, a third-party image editor, and `tools/excpp`, a preprocessor: they run on the host when the
  kernel is built. All that the models take of them is that the table of commands is sorted.
- Output: colours, status bar, cursor shape and direct writing of the terminal; drawing in the game; the
  commands that only print; the texts of error codes.
- The bits of descriptors and page tables, and the code before `ckMain`: they are written once. The order of
  the start, the handlers and the masks are in `Exceptions`.
- `ProcessorLoad` with `UsedCpuTime` (`task.c:745`), which is shown and decides whether the idle task halts;
  ids after 2^20 creations (`task.c:240`); `TickCountHigh`; the busy wait on the PIT counter; the size of
  memory, which `ckDynMemCheckSize` finds by writing to it.
- `testtask`, `testfloat` and `testprocess` only create tasks, as `Task` and `Fpu` have them. (`testfloat`'s
  last task joins the first of twelve tasks twelve times, `coshell_cmd.c:408`, so the time it prints is that
  of the first.)
- Functions on characters and memory and `rand` in `string.c`; `ckBiSemWait` and `%n`, which nothing uses.

## Plan

1. Abstract specifications: a life cycle of tasks that `Task` implements; `Task` implements `ExitQueue` for
   its exit list; a set of disjoint blocks that `Buddy` implements.
2. Model more: the load of the processor with its differences of word width; ids with few generation bits.
