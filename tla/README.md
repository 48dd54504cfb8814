# A TLA+ model of ASER

ASER runs a set of benchmarks side by side: it forks one process per benchmark,
keeps all of them on hold until everything is ready, lets them go together,
watches them from a monitor thread (which samples performance counters or moves
the processes from CPU to CPU), and when the first benchmark ends it kills the
others and exits. This directory models that program: the modules are
translated from the C++ under `src/src`, TLC checks them on small instances,
and TLAPS proves nearly all of its safety properties for instances of any size.

## The system

| part | state | operations | who calls it |
|---|---|---|---|
| `util::concurrent_queue` | a `std::queue`, a mutex, a condition variable | `push`, `pop`, `pop(timeout)` | waiter threads and main (ended processes); main and the monitor thread (events) |
| `util::pipe` | two descriptors, -1 for "not open" | `create`, `close_read`, `close_write`, `read`, `write`, moves, destructor | `sync_process` |
| `util::process`, `util::sync_process` | pid, `terminated_`, two pipes; in the kernel: who holds which end | construct, `prepare`, `start`, `wait`, `kill_process`, moves, destructor | `simple_manager`, `process_monitor` |
| `process_monitor` | `status_` (a future per pid), a queue of ended pids, a thread per process | `add_process`, `add_pid`, `wait_for_any`, destructor | `simple_manager` |
| `exec_manager`, `simple_manager` | benchmarks, processes, `execution_ended_` | `start` | `main` |
| `exec_monitor` and `simple_monitor` | event queue, handlers, a thread | `initialize`, `prepare`, `start`, `join`, `finalize`, `enqueue_event` | `simple_manager` |
| `cpu_hopper` | `cpu_mapping_`, `allocated_cpus_` | `add_process`, `hop_processes` | its monitor thread |
| `pmc_sampler`, `perf::event_manager`, `perf::event` | an `event_manager` per pid; `count_`, `prev_`, a descriptor per event | `add_process`, `read_events`, `scale` | its monitor thread |
| `util::callback_timer`, `util::condition` | a flag, a mutex, a condition variable (and a thread) | construct, destroy; `wait`, `notify` | only tests |
| `util::factory`, `main`, `benchmark`, `parse` | `creators_` of each factory, filled by static objects; the configuration file | `register_creator`, `create`, `get_args` | static constructors, `main`, the constructors of managers and monitors |
| `util::kill`, `kill_group`, `libc_wrapper`, `log`, `os` | none to speak of | | everybody |

What is hard here is what happens between the parts: children inherit each
other's pipe ends at `fork()`, so that whether a blocked `read` ever ends is
decided in other processes; three kinds of thread share queues, a flag and a
plain `bool`; benchmarks end whenever they like, also before anybody looks; the
kernel uses pids and descriptors again as soon as they are free; and an exception
in the wrong thread ends the runtime without any cleaning up. The
hazards, each at its line, are listed in `PROJECT.json`.

## Modules

| module | models | state and actions |
|---|---|---|
| `FifoQueue` | what a concurrent queue promises | an atomic FIFO sequence; a pop has a call and a return |
| `ConcurrentQueue` | `util/concurrent_queue.h` | one action per place where another thread can get in: lock, unlock, notify, wait, wake, lock again, return |
| `HeldProcess` | what `sync_process` promises | none, held, running, zombie, reaped; the runtime "lets go" |
| `SyncProcess` | `util/process.*`, `util/impl/process.h` | the descriptor table of every process, the bytes in the pipes, how far each object and each child is |
| `PipeOwner` | `class pipe` | several objects over one descriptor table, which the rest of the runtime uses too: create, close, move, assign, destroy |
| `ProcessOwner` | `class process`, `util/kill.cc` | `pid_` and `terminated_` of several objects over a kernel with trees of processes, groups and pids that are used again: start, the two steps of `wait`, kill in both modes, move, destroy. Two history variables record whether a move copied or overwrote the pid of a running process |
| `ExitReports` | what `process_monitor` promises | each process that was added is reported once, after it ended |
| `ProcessMonitor` | `core/*process_monitor.h` | the owner's thread (add, `wait_for_any`, destructor), one thread per pid, the queue, `status_` |
| `SimpleManager` | `exec_manager/simple.cc`, `core/*` | main thread, one waiter thread per process, the monitor thread. Composes `HeldProcess` (through `INSTANCE`) and two atomic queues |
| `CpuHopper` | `exec_monitor/cpu_hopper.*` | the two tables, the kernel's affinities, a round of hops step by step |
| `EventManager` | `perf/*`, `pmc_sampler::loop_impl` | the kernel's counters, `count_`, `prev_`, samples, the loops over the events |
| `PmcSampler` | `exec_monitor/impl/pmc_sampler.h`, `perf/linux/*` | whose counters they are: an `event_manager` per pid, a descriptor per event, processes that end, descriptors that run out, events that cannot be opened or read, which ends the runtime on the spot |
| `Startup` | `util/factory.h`, `main.cc`, `core/benchmark.cc`, the constructors of managers and monitors | static constructors in any order the language allows, `creators_`, reading the configuration, one process after the other, each of which may fail to be created |
| `CallbackTimer` | `util/timer.*` | timer thread and destructor around one mutex |
| `ConcurrentQueueProofs`, `SyncProcessProofs`, `ProcessOwnerProofs`, `ProcessMonitorProofs`, `PmcSamplerProofs` | | theorems about the modules they are named after |
| `SimpleManagerProofs` | | theorems about `SimpleManager` and `Startup` |
| `MonitorProofs` | | theorems about `CpuHopper` and `EventManager` |
| `UtilProofs` | | theorems about `PipeOwner` and `CallbackTimer` |

`Startup`, `EventManager` and `CallbackTimer` are extended by a proof module together
with another component, so their specifications have names of their own
(`StartupSpec`, `EventsSpec`, `TimerSpec`).

The `MC*` modules only carry the instances for TLC. Operators such as
`push_lock_unguarded` or `HopsByReference` are defined next to the operator they
resemble and used by nobody: they are the mistakes one could make there, and
each property is known to fail when one of them takes the operator's place.

How the modules fit together: `ConcurrentQueue` implements `FifoQueue`, which is
why `SimpleManager` may push and pop in one step. `SyncProcess` implements
`HeldProcess`, which is why `SimpleManager` may treat `prepare` and `start` as
steps, and why the death of the runtime lets go of all processes there.
`ProcessMonitor` implements `ExitReports`; `SimpleManager` has its threads and its
queue in place, since it also follows what main does between two of their steps.
`CpuHopper!SpareCpu` says when `add_process` throws, which is what
`SimpleManager!HopperThrows` assumes; `PmcSampler` has the exceptions that
`SimpleManager` assumes of the sampler. `PipeOwner` says that in the runtime
each end of a pipe belongs to one object, so that `SyncProcess` may count ends per object;
`ProcessOwner` says whom the signals of `SimpleManager` hit. `Startup` ends
where `SimpleManager` begins.

Abstractions worth knowing: in `SimpleManager` a pid is the number of its
benchmark and is not used twice (`ProcessMonitor` and `ProcessOwner` use pids
again); a mutex and what it protects appear as one step wherever no other thread
could tell; a system call takes effect at once; `SIGKILL` takes effect at once;
log output is left out. In `Startup` a command is a sequence of two kinds of
character, the space and the rest, and `unsigned` has 2 bits. `terminated_` is a plain
`bool` written by a waiter and read by main: the read in `kill_process` may
return the old value even after the write, except for the process whose future
main has got. The two doubles of an `event_sample` are kept as exact fractions.

## What the runs check

All passing runs end within two minutes. `CHECK_DEADLOCK FALSE` is set
where the program really stops (everything destroyed or exited).

* **queue** - 2 producers, 3 consumers, 3 values. `push` and `pop` hold the mutex
  where they should, and notifying one waiter after unlocking loses no wake-up:
  while a consumer is blocked every queued value has a producer about to notify
  or a consumer about to look. The whole refines `FifoQueue` with its progress
  condition. Three consumers are needed for one to steal a value while
  two others are involved.
* **process** - 4 objects, constructed one at a time as `prepare_bench`
  does; one has no file behind its path, one cannot be executed. The runtime and
  any child may be killed at any point, and `fork` may fail. The hold is an
  implementation of `HeldProcess` including progress (no orphan stays blocked),
  `prepare` returns whatever the child does, a prepared child leads its own
  process group, no descriptor leaks into a command. Three children are
  needed for chains of inherited descriptors.
* **manager** - 3 benchmarks, all three monitors, 3 CPUs; `prepare`, the creation of a
  thread, and opening, reading and scaling an event may throw, and
  processes may die on hold. Benchmarks start together; the runtime may abort, but it
  neither hangs after an exit nor exits with something left over, and the objects
  are destroyed when no thread uses them. With the simple monitor the first
  exit after the start always leads to an orderly end with all others killed.
* **manager_sampler** - violated: see the findings.
* **monitor** - 2 children and a pid that is not a child, each pid used for two
  processes in turn, and an owner that adds, waits and destroys in any order.
  For the children it refines `ExitReports` with its progress condition, and a pid that
  was pushed still has its future when it is popped (the assertion of
  `wait_for_any`). The thread of the foreign pid throws; the destructor still
  returns and leaves no thread behind. Two lives of a pid are what it takes
  for the new process to be added while the old one is still queued.
* **owner** - 2 `sync_process` and 2 plain `process` objects over 3 pids, symmetric, for
  the runtime's processes, the processes these fork and those of strangers;
  `wait` runs in another thread than `kill_process`, and objects are moved and assigned
  at any time, with or without a running process. Every child of the runtime has an
  object that will kill and collect it, until one that manages a process is assigned
  another (`dropped`). A signal hits the object's own process, or its tree, and nobody
  else, except in the instant in which the pid is being collected, until an object that
  manages a process is moved from (`copied`): from then on two objects have the pid, and
  what one does with it can hit the child of a third one that got the pid later, so that
  nothing is left to be said of any object. A process, one it forked and a stranger need three
  pids. The view leaves out what objects and processes that are gone leave behind,
  which no action reads.
* **owner_moves** - violated: see the findings. Two plain objects and two pids.
* **pipes** - 3 objects, 5 descriptors, 4 pipes, symmetric, deadlock checked. Every
  open end has exactly one owner, which is the only one to close it, and a
  descriptor whose object is gone is closed. Descriptors run out, and each is
  used again for another pipe and for another file.
* **monitors** - `CpuHopper` and `EventManager`, which share nothing, each while the
  other has not begun. For the first, 4 processes, 4 CPUs of which one is offline, so
  that the last process is one too many; they are added in any order and may end at any
  time, between two hops of a round too. For the second, 2 counters, time up to 2,
  RELATIVE and AGGREGATED reads in any order, with `perf_event_open` and `read` failing.
  Two units of time are enough for an interval in which the counter ran after one in
  which it did not, and the other way round.
* **sampler** - 2 processes with 2 events each, 4 descriptors that the rest of
  the runtime uses as well, so that they run out while an `event_manager` is half
  constructed; opening and reading may fail for other reasons at any time. As long as
  the runtime runs every descriptor has one owner and every open counter one that will
  close it, and every process is sampled with its own counts (unless the execution ends first,
  or the sampler throws).
* **startup** - configuration files with each key right, wrong or missing, with up
  to two benchmarks whose commands are all sequences of at most 4 characters (two
  words, spaces before, between and after them) and name files that exist or not. A file
  that is valid gets to its first process, with the
  classes it names; any other is refused before a process exists; the static
  constructors may run in any order of the files; the arguments of a process
  are its command cut at the spaces; every benchmark has its process in its slot.
  `prepare` may throw when earlier processes exist: the path does not exist, or there is
  no pipe or process to be had. Then exactly the benchmarks before that one
  have their processes.
* **timer** - 2 timers, expiry and destruction in any order.

`TypeOK` of a module is what its proofs start from; two runs list it, the others
spend their properties on what the types do not say.

Fairness. A thread that is inside an operation and can take a step takes it (weak
fairness); a forked child is scheduled; the sampler's thread wakes up from its
sleep. Nobody has to call an operation, a process need not end, execution need
not end, a wait need not wake up spuriously or time out. One
assumption is strong: in `CallbackTimer` a mutex that is released again and again
is not withheld from the destructor for ever, because the timer thread may wake
up spuriously any number of times.

### Findings

`manager_sampler`: `simple.h` says that after the first exit the others are
killed and the execution finishes. With `pmc-sampler` a benchmark that ends
during the first sampling interval is attached to when it is gone,
`perf_event_open` fails, the exception leaves the monitor thread, and the
runtime is terminated while the other benchmarks run on.

`owner_moves`: `process.h` says of `process` "Moving is allowed, but not copying" and of
its destructor "The process is killed if it is still running". The defaulted moves copy
`pid_` and `terminated_`: the object that was moved from still manages the process, and
its destructor kills and collects the process of the object moved to. The program moves
`shared_ptr`s to processes only and is not affected. `OneOwner` and `KillIsExact` say what
holds up to such a move.

More disagreements between code and comments. The models contain them, and the
properties are stated so as to say what does hold:

* `process.h` says that the command is on hold "until start() is called". The
  child ignores what `go_pipe_.read` returns, so end of file ends the hold as
  well: the destructor closes the pipes before it kills the child, and a runtime
  that ends early (an exception in `main`, for instance because the path of the next
  benchmark does not exist) sets the prepared benchmarks running. What holds,
  `HoldSafety`, is that the hold ends only if the runtime has started or
  destroyed the object or is dead.
* `kill_process` tests `terminated_`, which another thread sets only after its
  `waitpid` has returned. In between the pid is free, and the signal can hit a
  process of somebody else: hence the exception for `waiting` objects in
  `KillIsExact`. `simple_manager` does this for every benchmark when the first
  one ends.
* `kill_process(TREE)` kills "this process and all of its children", but returns
  at once if the process was collected, and its children live on.
* Only `sync_process` gives the child a group of its own. On a plain `process`
  `kill_process(TREE)` kills the tree and, with everything in its group, the runtime:
  `KillIsExact` says so.
* A configuration file that is valid in every key may name a program that does not
  exist. `main` finds out in `prepare`, when earlier benchmarks are on hold, and its
  exception sets these running: `RunsTheValid` tells the two kinds of refusal apart.
* `add_pid` takes any pid, and `wait_for_any` "blocks the caller until a process
  finishes its execution". For a process that is not a child `waitpid` fails,
  `wait_for_pid` throws before it pushes, and the process is never reported:
  `ReportsProgress` is about children.
* "All processes ... will hop to another CPU". Binding to a CPU that is offline
  fails, the error is printed, and the tables are updated as if the process had
  moved: `OwnCpu` is about CPUs that are online, and `HopsAway` has every
  process mapped elsewhere, but bound elsewhere only if the CPU it was sent to is online.
* The configuration file in the repository's README has no `exec_manager`, without
  which `main` throws (`Startup!Valid`).
* `kill.h` says that `SIGTERM` is sent before `SIGKILL`; the code sends only
  `SIGKILL`. The default configuration of `process` has no handler for a failing
  `fork`, so that `start` returns as if all were well and the object manages nothing.

## What is proved

Eight modules hold theorems that `tlapm` checks (within a minute each). What they
prove holds for every value of the constants, under the assumptions named in the
modules. Each inductive invariant was checked by TLC on the instances of the runs
before it was proved.

**`ConcurrentQueueProofs`** (`ThreadsAssumption`: finitely many producers and
consumers, all different; `ValuesAssumption`). `TypeOK` is inductive;
`MutualExclusion` and `NoLostWakeup` are inductive relative to it.
`NoLostWakeup` is a counting argument: a step that takes a thread out of
`Notifying` or `Awake` puts another one in or takes a value out of `queue_`, and a
consumer blocks only while `queue_` is empty (`CountOne` is the lemma about
cardinalities). `ImplementsFifo` is the refinement of `FifoQueue`; it needs the
auxiliary invariant `CallInv`, that a consumer is inside a call exactly while
its `pc` is inside `pop()`, and that only `pop(timeout)` is ever told that the
time is up. Without it a step of `pop_give_up` could not be mapped to the
abstract `GiveUp`.

**`SyncProcessProofs`** (`ProcsAssumption`: the runtime is not one of the
children; nothing is assumed of how many objects there are, of `Faults`, or of
`Missing` and `Broken`). The inductive invariant `IInv` has four parts beside
`TypeOK`: `Lives` (how far object and child are fits together), `OnHold`
(until the runtime lets go, `go_pipe_` is empty and the runtime holds its write
end, so the read cannot return), `Reports` (a child that has not reported holds
a write end of `child_ready_pipe_`, so `prepare()` cannot see the end of file
too early) and `PreparedLeadsGroup` itself. `OnHold` gives `ImplementsHold`, the
refinement of `HeldProcess`; `Reports` gives `GroupIsLed`. `NothingInherited`
has the hypothesis `~Eager` and a second invariant, `Sealed`: the runtime has
ends of `child_ready_pipe_` open for at most one object. The hypothesis is
needed: two objects constructed before the first is prepared, as
`test/process_monitor.cc` does, break it. Under the same hypothesis two theorems say
why `prepare()` returns and the children on hold go on, as far as that can be said
without fairness. `PrepareGoesOn`: `prepare()` never reads from a pipe that nobody will
write to or close. `HoldEnds`: a child that was started is not blocked, and once the
runtime is dead, as long as a child is on hold there is one that can go on, although each has inherited the writing
ends of those forked before it. `Copies` says who has a copy of which writing end; the
argument is a rank (`Ranked`): the children can be numbered so that only a later one
has a copy of the end an earlier one waits for, `fork()` gives out the next number, and
every other step only closes ends. So of those that wait, the last one waits for
nobody (`LastWaiter`).

**`MonitorProofs`**, about `CpuHopper` (`PidsAssumption`, `CpusAssumption`: finitely many
processes and any number of CPUs, zero included). `IInv` has, beside what is checked,
that `cpu_mapping_` is injective (without it freeing the old CPU of a
process could free one that another still has) and `Round`, what a round knows of
the processes it has not dealt with. `SpareCpuIsKept` compares cardinalities:
`cpu_mapping_` is a bijection between the mapped processes and
`allocated_cpus_`, so the equality that `add_process()` tests says that no CPU is
free. `ThrowsWithoutSpareCpu`, an action property, says when the thread ends:
in `add_process()` only, and exactly if the process leaves no CPU to spare, whichever of
the two exceptions that is. It is what `SimpleManager` has in place of `cpu_hopper`
(`HopperThrows`), so that `CpuToSpare` below is about the real one. That
`find_available_cpu()` returns a free CPU is the lemma `FindsFreeCpu`, from the
well-foundedness of the natural numbers. Nothing is assumed of `Offline`.

About `EventManager`, for any number of events, any rate and any number of failing
calls, it proves `IntervalsAddUp`, `ScalingIsFraction` and `NoSpuriousError`. None of
them is inductive: `IntervalsAddUp` says that no field of a reading decreases, but a
RELATIVE sample is a fraction only if, between the two readings it is the difference
of, the counter was not running for longer than it was enabled. `Follows(b, a)` says
both of two readings, is reflexive and transitive, and links `prev_`, `count_` and the
kernel's counter (`ReadingInv`); `Sane`, that a counter which never ran counted
nothing, is what the second check of `scale()` needs.

**`UtilProofs`**, about `PipeOwner` (`FdsAssumption`: descriptors are natural numbers, which -1,
the value for "not open", is not; `FilesAssumption`). For any number of objects and of
descriptors `TypeOK`, `EndsOwned` and `NoneLeaked` are inductive together: that each
descriptor is in at most one object is what lets a step close one without closing
that of another object, and the file behind a descriptor being the
right one depends on its not having been closed and used again. Closing, destroying,
moving and assigning all take descriptors out of some objects, into others or out of
the table; the lemma `Relocates` is that argument, once for all of them.

About `CallbackTimer`, for any number of timers: `CallbackInv` is that the callback is
running exactly while the thread is inside it, where `TimerTypeOK` has it holding the
mutex; the destructor needs the mutex to set `canceled_`, whence `SilentOnceCanceled`.
`SilentFromThenOn` is the action property behind "the callback function will not be
called": after `canceled_` is set no step changes how far the callback is.
`NoWakeupLost` is the hazard of every condition variable: the destructor sets
`canceled_` and notifies under the mutex that the thread holds from its test to its
sleep (`WakeInv`), so the thread that is joined is awake and at most two steps from its
end; and a thread that has seen the duration end calls the callback.

**`ProcessMonitorProofs`** (`PidsAssumption`; any number of pids, lives of a pid and
foreign pids). `ThreadInv` relates the three places where a pid can be: a thread that
is still at work has its future in `status_`; a pid on the queue, or popped and not
erased yet, has its future and a thread that has pushed; and no pid is in two
places, nor on the queue twice. That gives `PushedHasFuture` and
`NoThreadSurvives`. `LifeInv` adds the lives: the status in the future of a pid is that
of the life that was added, and that life is over, although the pid may be in
use again. With both, `ReportsSafety` is a step-by-step refinement of
`ExitReports`. `OwnerIsServed` is the part of `ReportsProgress` and
`DestructorReturns` that needs no fairness: while the queue is empty the thread of every
child that has ended can go on to push it (`QueuedInv`: what was pushed and not popped is
on the queue), and neither `get()` nor the destructor waits for a thread that is stuck.

**`ProcessOwnerProofs`** (`KernelAssumption`, `ObjectsAssumption`: the names for "no
pid", "the runtime's group" and "nobody" are names of nothing else). `PidInv` is that
a child's pid is in use until it is collected, so the kernel cannot give it to
anybody; with it `OneOwner` is inductive. The moves are those of the code, for any object
of a class: a move that copies the pid of a running process sets `copied`, one that
overwrites it sets `dropped`, and each half of `OneOwner` holds until the one that breaks it. `GroupInv`,
that the members of a sync_process's group are exactly the processes of its tree, is
what the action property `KillIsExact` needs for TREE, and `PlainInv`, that the
descendants of a plain process are in the group of the runtime, what it needs for TREE on one of
those.

**`SimpleManagerProofs`**, about `SimpleManager` (`BenchmarksAssumption`: at least one
benchmark; any monitor, any number of CPUs). `LoopInv` says how far the first two
loops of `start_impl` are, and that nothing was let go of meanwhile
(`StartTogether`); `WaiterInv` that a thread gets past `waitpid` only by collecting
its process, and that main drops a future only when its thread is done
(`CleanShutdown`). `UsesHeldProcesses` is the
other half of the composition with `SyncProcess`: the manager takes only steps that
`HeldProcess` allows. `EventsInOrder` (the monitor handles one event per
benchmark in the order of the file) gives `CpuToSpare`: with fewer benchmarks than
CPUs the hopper's handler never throws. `MainIsServed` says of each place where the
main thread blocks that what it waits for will come from somebody else: `ServedInv`
links the threads to the queue and the futures, and `KillInv` has it that after the
first exit no process is left running when the destructors begin, so that
`~process_monitor()` waits only for processes that have ended. `WhyAborted` lists what
can end the runtime without its destructors: before the monitor runs a fault in main, with
`cpu_hopper` a CPU too few, with `pmc_sampler` an event that cannot be opened, for a
process that has ended or lives, or that cannot be read; it needs `HoldInv`, that without a fault
nothing runs or ends before it was let go of.

About `Startup` (`ModulusAssumption`; `PathsAssumption`: no file has an
empty name; `ConfigsAssumption`: a length is a number or
missing, a list of benchmarks a sequence or missing, and so a command), `StartupInv` says what
the program knows of the file at each step: `Registry` (the factories hold what the
static constructors that have run registered), `FindsManager`,
`FindsMonitor`, and `Slots`, the loop invariant of `start_impl`. `RunsTheValid` and
`EverySlotFilled` follow. `Registry` and `OneCreator` (no two registars share
factory and id) also give `NeverAborts`: the assertion in `register_creator` never
fails. `ArgvIsCommand` is about every command and so takes induction over it. `split`
and `Join` are recursive functions on an interval; the lemma `LeastIn` (a set of natural
numbers that is not empty has a least element, from `WFMin`) gives the induction in the
form of a least counterexample: `PiecesOf` is that the first k characters are cut into
pieces without a space, `JoinedPrefix`, `JoinOneMore` and `JoinOneLonger` that joining
the pieces follows each character that is added, and `SplitIs` that the pieces of the
whole command give it back.

**`PmcSamplerProofs`** (`PidsAssumption`, `FdsAssumption`; any number of processes,
events and descriptors). `OnceInv` is that a process is in one place at most:
notified, queued, being added, or managed; `OwnedInv` adds to `DescriptorsOwned` that the
descriptors of the `event_manager` under construction differ, so that once it is in the map no
descriptor is in it twice. `NothingLeft` and `AllClosed` (no counter is open after
`~pmc_sampler()`) have the hypothesis that 0 is not among the descriptors
`perf_event_open` can return: `event_linux_impl` takes `fd_ = 0` for "not open" and would
not close it. `SampledIsOwn`: what is reported for a process was counted for it.
`NoneForgotten` is the safe part of `EverySampled`: no notification is lost between the
queue and the map, whenever it comes, and a round of reads leaves no process out.

Only model-checked: the liveness properties themselves (`FifoProgress`,
`HoldProgress`, `PrepareReturns`, `FirstExitEndsRun`, `SimpleExitsInOrder`,
`ReportsProgress`, `DestructorReturns` of the process monitor and of the
timer, `ExpiryIsServed`, `EverySampled`), since the prover does no reasoning about
fairness or `ENABLED`. What was proved instead is their safe part, in any state of any
instance: whoever waits, waits for something that can still happen. That it then does
happen is what TLC checks, under the fairness of the runs. Every invariant that a run
checks is also a theorem.

## What is not modelled

* Calls that violate an assertion (`start` before `prepare`, `wait` twice), and a
  callback that destroys its own timer (it would wait for itself).
* Preparing a `sync_process` after it was moved: its `Config` holds lambdas that captured
  the old object. Moving an object while another thread is inside `wait` on it. Moving an
  open `event`: `event_linux_impl` has a destructor and so no move of its own, and `fd_`
  would be copied; the events of an `event_manager` are constructed in place and never
  moved once open.
* Running out of memory.
* Processes that leave their process group, and a pid that is notified to
  `pmc_sampler` twice.
* Descriptor 0 being free (`event_linux_impl` uses 0 for "not open"); more than
  2^64 of anything.
* Several objects constructed before the first is prepared, as
  `test/process_monitor.cc` does: `SyncProcess` has them (`Eager`), and its
  theorems without the hypothesis `~Eager` cover them, but no run does. Their children hold each other's
  pipes, so that with faults neither `HoldProgress` nor `PrepareReturns` holds.
* `condition` (`util/thread.h`), which only its test uses: it is the protocol of
  `concurrent_queue` with a flag in place of the queue.
* An empty list of benchmarks: `Startup` accepts one, as the code does;
  `wait_for_any` would then wait for ever.
* `sampling_length` as a length of time. A negative number is accepted and read as
  an unsigned one near 2^32.
* The codes of the generic events and `event_dummy`, which reads constants;
  `log`, which only prints; `libc_wrapper`, whose functions each turn one
  system call's error into an exception and appear as that in the actions that call
  them; macOS, which the build leaves out on Linux.

## Plan

Done: the queue, pipes and processes and who owns them, the process monitor, the
manager with its threads, the CPU hopper, the sampler with its counters, start-up
and the timer. Left:

1. The whole program at a finer grain: `SimpleManager` over `PmcSampler` as well, rather
   than over the condition under which it throws. For `CpuHopper` that condition is
   proved (`ThrowsWithoutSpareCpu`).
2. The hypothesis `~Eager` of `PrepareGoesOn` and `HoldEnds`: what several objects that
   are constructed before the first is prepared may still rely on.
