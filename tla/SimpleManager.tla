--------------------------- MODULE SimpleManager ---------------------------
(***************************************************************************)
(* One run of the program: simple_manager (exec_manager/simple.cc) over    *)
(* its processes, process_monitor (core/impl/process_monitor.h) with one   *)
(* std::async thread per process, and the thread of exec_monitor           *)
(* (core/exec_monitor.cc).                                                 *)
(*                                                                         *)
(* The processes are those of HeldProcess, which SyncProcess implements,   *)
(* and the two concurrent_queues are sequences with atomic operations,     *)
(* which ConcurrentQueue implements.  A benchmark is named by its          *)
(* position in the configuration file, which is also its pid.              *)
(***************************************************************************)
EXTENDS Naturals, Sequences

CONSTANTS N,         \* number of benchmarks
          Monitors,  \* the values of exec_monitor.type to consider
          Cpus,      \* std::thread::hardware_concurrency()
          Faults     \* whether prepare(), the creation of a thread and the
                     \* events of pmc_sampler may fail for reasons of the
                     \* system, and a process on hold may die

ASSUME BenchmarksAssumption == N \in Nat \ {0}
ASSUME MonitorsAssumption ==
  Monitors \subseteq {"simple", "cpu-hopper", "pmc-sampler"}
ASSUME EnvironmentAssumption == Cpus \in Nat /\ Faults \in BOOLEAN

Procs == 1..N
NoProc == 0

VARIABLES
  type,                  \* exec_monitor.type
  main,                  \* what the main thread is about to do
  next,                  \* the benchmark its current loop is at
  popped,                \* the pid wait_for_any() popped
  runtime,               \* "alive", "exited" or "aborted"
  proc, let_go,          \* the processes: see HeldProcess
  terminated_,           \* process::terminated_ of every process
  status_,               \* pids with a future in process_monitor::status_
  ended_process_queue_,
  waiter,                \* waiter[i]: how far the async thread of i is
  event_queue_,          \* pids of the PROCESS_CREATED events
  handled,               \* events that were handled, in order
  thread_,               \* how far the thread of exec_monitor is
  execution_ended_

process_vars == <<proc, let_go>>
waiter_vars == <<terminated_, ended_process_queue_, waiter>>
monitor_vars == <<handled, thread_>>
main_vars == <<main, next, popped, status_, execution_ended_>>
vars == <<type, runtime, process_vars, waiter_vars, monitor_vars, event_queue_,
          main_vars>>

Process == INSTANCE HeldProcess

Init ==
  /\ type \in Monitors
  /\ main = "prepare"
  /\ next = 1
  /\ popped = NoProc
  /\ runtime = "alive"
  /\ Process!Init
  /\ terminated_ = [i \in Procs |-> FALSE]
  /\ status_ = {}
  /\ ended_process_queue_ = <<>>
  /\ waiter = [i \in Procs |-> "none"]
  /\ event_queue_ = <<>>
  /\ handled = <<>>
  /\ thread_ = "none"
  /\ execution_ended_ = FALSE

(* The runtime ends without cleaning up, which lets go of every process.   *)
Abort ==
  /\ runtime' = "aborted"
  /\ let_go' = Procs
  /\ UNCHANGED <<type, proc, waiter_vars, event_queue_, monitor_vars, main_vars>>

-----------------------------------------------------------------------------
(* The main thread: exec_manager::start() and simple_manager::start_impl().*)

At(step) == runtime = "alive" /\ main = step

(* One round of the loop `for (auto& p : processes_)' called step.         *)
Loop(step, after) ==
  /\ main' = IF next < N THEN step ELSE after
  /\ next' = IF next < N THEN next + 1 ELSE 1
  /\ UNCHANGED <<type, runtime>>

Goto(step) == main' = step /\ UNCHANGED <<type, runtime, next>>

notify_process_creation(i) == event_queue_' = Append(event_queue_, i)

prepare_bench_not_watched ==
  /\ At("prepare")
  /\ Process!Prepare(next)
  /\ notify_process_creation(next)
  /\ Loop("prepare", "start")
  /\ UNCHANGED <<waiter_vars, monitor_vars, popped, status_, execution_ended_>>

prepare_bench ==
  /\ At("prepare")
  /\ Process!Prepare(next)
  /\ notify_process_creation(next)
  /\ Loop("prepare", "add_process")
  /\ UNCHANGED <<waiter_vars, monitor_vars, popped, status_, execution_ended_>>

prepare_bench_throws ==
  /\ At("prepare")
  /\ Faults
  /\ Abort

add_process ==
  /\ At("add_process")
  /\ next \notin status_
  /\ status_' = status_ \cup {next}
  /\ waiter' = [waiter EXCEPT ![next] = "waitpid"]
  /\ Loop("add_process", "start")
  /\ UNCHANGED <<process_vars, terminated_, ended_process_queue_, monitor_vars,
                 event_queue_, popped, execution_ended_>>

(* std::async and std::thread throw when there is no thread to be had.     *)
thread_creation_throws ==
  /\ At("add_process") \/ At("start_exec_monitor")
  /\ Faults
  /\ Abort

start ==
  /\ At("start")
  /\ proc[next] = "held"
  /\ let_go' = let_go \cup {next}
  /\ Loop("start", "start_exec_monitor")
  /\ UNCHANGED <<proc, waiter_vars, monitor_vars, event_queue_, popped, status_,
                 execution_ended_>>

(* The process died on hold: writing to its go_pipe_ raises SIGPIPE.       *)
start_sigpipe ==
  /\ At("start")
  /\ proc[next] # "held"
  /\ Abort

start_exec_monitor ==
  /\ At("start_exec_monitor")
  /\ thread_' = "check"
  /\ Goto("pop")
  /\ UNCHANGED <<process_vars, waiter_vars, event_queue_, handled, popped,
                 status_, execution_ended_>>

wait_for_any_pop ==
  /\ At("pop")
  /\ ended_process_queue_ # <<>>
  /\ popped' = Head(ended_process_queue_)
  /\ ended_process_queue_' = Tail(ended_process_queue_)
  /\ Goto("get")
  /\ UNCHANGED <<process_vars, terminated_, waiter, monitor_vars, event_queue_,
                 status_, execution_ended_>>

(* it->second.get() blocks until the thread has returned.                  *)
wait_for_any_get ==
  /\ At("get")
  /\ waiter[popped] = "done"
  /\ status_' = status_ \ {popped}
  /\ Goto("execution_end")
  /\ UNCHANGED <<process_vars, waiter_vars, monitor_vars, event_queue_, popped,
                 execution_ended_>>

execution_end_missing ==
  /\ At("execution_end")
  /\ Goto("join")
  /\ UNCHANGED <<process_vars, waiter_vars, monitor_vars, event_queue_, popped,
                 status_, execution_ended_>>

execution_end ==
  /\ At("execution_end")
  /\ execution_ended_' = TRUE
  /\ Goto("join")
  /\ UNCHANGED <<process_vars, waiter_vars, monitor_vars, event_queue_, popped,
                 status_>>

stop_exec_monitor ==
  /\ At("join")
  /\ thread_ = "done"
  /\ Goto("kill")
  /\ UNCHANGED <<process_vars, waiter_vars, monitor_vars, event_queue_, popped,
                 status_, execution_ended_>>

kill_process_stops_at_terminated ==
  /\ At("kill")
  /\ \/ /\ terminated_[next]
        /\ Goto("destroy_monitor")
     \/ /\ ~(terminated_[next] /\ next = popped)
        /\ Goto("send_signal")
  /\ UNCHANGED <<process_vars, waiter_vars, monitor_vars, event_queue_, popped,
                 status_, execution_ended_>>

(* kill_process() reads terminated_, which the thread of the process       *)
(* writes without a lock: except for the process whose future main has     *)
(* got, it may also read the value before the write.                       *)
kill_process ==
  /\ At("kill")
  /\ \/ /\ terminated_[next]
        /\ Loop("kill", "destroy_monitor")
     \/ /\ ~(terminated_[next] /\ next = popped)
        /\ Goto("send_signal")
  /\ UNCHANGED <<process_vars, waiter_vars, monitor_vars, event_queue_, popped,
                 status_, execution_ended_>>

(* util::kill(): SIGKILL ends a process, does nothing to a zombie, and     *)
(* fails for a process that was collected, which main catches.             *)
kill ==
  /\ At("send_signal")
  /\ proc' = IF proc[next] \in {"held", "running"}
             THEN [proc EXCEPT ![next] = "zombie"] ELSE proc
  /\ Loop("kill", "destroy_monitor")
  /\ UNCHANGED <<let_go, waiter_vars, monitor_vars, event_queue_, popped,
                 status_, execution_ended_>>

destroy_process_monitor_at_once ==
  /\ At("destroy_monitor")
  /\ status_' = {}
  /\ Goto("destroy_manager")
  /\ UNCHANGED <<process_vars, waiter_vars, monitor_vars, event_queue_, popped,
                 execution_ended_>>

(* ~process_monitor() gets every future that is left, then destroys the    *)
(* queue.                                                                  *)
destroy_process_monitor ==
  /\ At("destroy_monitor")
  /\ \A i \in status_ : waiter[i] = "done"
  /\ status_' = {}
  /\ Goto("destroy_manager")
  /\ UNCHANGED <<process_vars, waiter_vars, monitor_vars, event_queue_, popped,
                 execution_ended_>>

(* main() returns.  ~simple_manager() destroys the processes, and          *)
(* ~process() kills and collects those that are not terminated.            *)
destroy_manager ==
  /\ At("destroy_manager")
  /\ proc' = [i \in Procs |-> IF terminated_[i] THEN proc[i] ELSE "reaped"]
  /\ runtime' = "exited"
  /\ main' = "exited"
  /\ UNCHANGED <<type, let_go, waiter_vars, monitor_vars, event_queue_, next,
                 popped, status_, execution_ended_>>

Main ==
  \/ prepare_bench \/ prepare_bench_throws \/ add_process
  \/ thread_creation_throws \/ start \/ start_sigpipe \/ start_exec_monitor
  \/ wait_for_any_pop \/ wait_for_any_get \/ execution_end \/ stop_exec_monitor
  \/ kill_process \/ kill \/ destroy_process_monitor \/ destroy_manager

-----------------------------------------------------------------------------
(* process_monitor::wait_for_process(), in the thread of process i.        *)

WaiterAt(i, step) == runtime = "alive" /\ waiter[i] = step

WaiterGoes(i, step) ==
  /\ waiter' = [waiter EXCEPT ![i] = step]
  /\ UNCHANGED <<type, runtime, monitor_vars, event_queue_, main_vars>>

waitpid(i) ==
  /\ WaiterAt(i, "waitpid")
  /\ proc[i] = "zombie"
  /\ Process!Reap(i)
  /\ WaiterGoes(i, "collected")
  /\ UNCHANGED <<terminated_, ended_process_queue_>>

set_terminated(i) ==
  /\ WaiterAt(i, "collected")
  /\ terminated_' = [terminated_ EXCEPT ![i] = TRUE]
  /\ WaiterGoes(i, "push")
  /\ UNCHANGED <<process_vars, ended_process_queue_>>

push(i) ==
  /\ WaiterAt(i, "push")
  /\ ended_process_queue_' = Append(ended_process_queue_, i)
  /\ WaiterGoes(i, "return")
  /\ UNCHANGED <<process_vars, terminated_>>

return(i) ==
  /\ WaiterAt(i, "return")
  /\ WaiterGoes(i, "done")
  /\ UNCHANGED <<process_vars, terminated_, ended_process_queue_>>

Waiter(i) == waitpid(i) \/ set_terminated(i) \/ push(i) \/ return(i)

-----------------------------------------------------------------------------
(* The thread of exec_monitor.                                             *)

ThreadAt(step) == runtime = "alive" /\ thread_ = step

ThreadGoes(step) ==
  /\ thread_' = step
  /\ UNCHANGED <<type, runtime, process_vars, waiter_vars, main_vars>>

is_execution_over ==
  /\ ThreadAt("check")
  /\ ThreadGoes(IF execution_ended_ THEN "done" ELSE "loop")
  /\ UNCHANGED <<event_queue_, handled>>

(* All monitors sleep first; what cpu_hopper does then is in CpuHopper.    *)
loop_impl ==
  /\ ThreadAt("loop")
  /\ ThreadGoes("events")
  /\ UNCHANGED <<event_queue_, handled>>

(* What pmc_sampler asks of perf may also fail for a process that lives:   *)
(* no descriptor or no permission is left to open an event with, a read    *)
(* returns less than it should, or times that scale() refuses.             *)
SamplerFails == Faults /\ type = "pmc-sampler"

(* A round of pmc_sampler reads the events of the processes it has.        *)
loop_impl_throws ==
  /\ ThreadAt("loop")
  /\ SamplerFails
  /\ handled # <<>>
  /\ Abort

(* add_process() of the three monitors: simple_monitor does nothing,       *)
(* cpu_hopper wants a CPU to spare (see CpuHopper!SpareCpu), pmc_sampler   *)
(* cannot attach an event to a process that has ended.                     *)
HopperThrows == type = "cpu-hopper" /\ Len(handled) + 1 >= Cpus
SamplerThrows(i) == type = "pmc-sampler" /\ proc[i] \in {"zombie", "reaped"}
HandlerThrows(i) == HopperThrows \/ SamplerThrows(i)

process_event ==
  /\ ThreadAt("events")
  /\ event_queue_ # <<>>
  /\ ~HandlerThrows(Head(event_queue_))
  /\ event_queue_' = Tail(event_queue_)
  /\ handled' = Append(handled, Head(event_queue_))
  /\ ThreadGoes("events")

(* Nothing catches what a handler throws: std::terminate().                *)
process_event_throws ==
  /\ ThreadAt("events")
  /\ event_queue_ # <<>>
  /\ HandlerThrows(Head(event_queue_)) \/ SamplerFails
  /\ Abort

process_events_done ==
  /\ ThreadAt("events")
  /\ event_queue_ = <<>>
  /\ ThreadGoes("check")
  /\ UNCHANGED <<event_queue_, handled>>

ExecMonitor ==
  \/ is_execution_over \/ loop_impl \/ loop_impl_throws
  \/ process_event \/ process_event_throws \/ process_events_done

-----------------------------------------------------------------------------
(* The processes themselves.                                               *)

RuntimeUnchanged ==
  UNCHANGED <<type, runtime, waiter_vars, monitor_vars, event_queue_, main_vars>>

run(i) == Process!Run(i) /\ RuntimeUnchanged

benchmark_ends(i) ==
  /\ proc[i] = "running"
  /\ Process!Die(i)
  /\ RuntimeUnchanged

held_process_dies(i) ==
  /\ Faults
  /\ proc[i] = "held"
  /\ Process!Die(i)
  /\ RuntimeUnchanged

Next ==
  \/ Main
  \/ ExecMonitor
  \/ \E i \in Procs : Waiter(i) \/ run(i) \/ benchmark_ends(i)
                      \/ held_process_dies(i)

(* Every thread is scheduled, and a process that was let go of runs.  A    *)
(* benchmark need never end.                                               *)
Fairness ==
  /\ WF_vars(Main)
  /\ WF_vars(ExecMonitor)
  /\ \A i \in Procs : WF_vars(Waiter(i)) /\ WF_vars(run(i))

Spec == Init /\ [][Next]_vars
FairSpec == Spec /\ Fairness

-----------------------------------------------------------------------------
(* The members of the four classes, the threads and the processes keep     *)
(* their types.                                                            *)
TypeOK ==
  /\ type \in Monitors
  /\ main \in {"prepare", "add_process", "start", "start_exec_monitor", "pop",
               "get", "execution_end", "join", "kill", "send_signal",
               "destroy_monitor", "destroy_manager", "exited"}
  /\ next \in Procs
  /\ popped \in Procs \cup {NoProc}
  /\ runtime \in {"alive", "exited", "aborted"}
  /\ proc \in [Procs -> {"none", "held", "running", "zombie", "reaped"}]
  /\ let_go \subseteq Procs
  /\ terminated_ \in [Procs -> BOOLEAN]
  /\ status_ \subseteq Procs
  /\ ended_process_queue_ \in Seq(Procs)
  /\ waiter \in [Procs -> {"none", "waitpid", "collected", "push", "return",
                           "done"}]
  /\ event_queue_ \in Seq(Procs)
  /\ handled \in Seq(Procs)
  /\ thread_ \in {"none", "check", "loop", "events", "done"}
  /\ execution_ended_ \in BOOLEAN

(* No benchmark runs before every benchmark is on hold and watched, so     *)
(* they all start together and none can end unnoticed.                     *)
StartTogether ==
  runtime = "alive" =>
    \A i \in Procs : proc[i] = "running" =>
      \A j \in Procs : proc[j] # "none" /\ waiter[j] # "none"

(* When process_monitor is destroyed no thread is left that uses its       *)
(* queue, and when the processes are, they are all collected and marked    *)
(* so: ~process() has nothing to kill or to wait for a second time.        *)
CleanShutdown ==
  main \in {"destroy_manager", "exited"} =>
    \A i \in Procs :
      waiter[i] = "done" /\ proc[i] = "reaped" /\ terminated_[i]

Ended(i) == proc[i] \in {"zombie", "reaped"}

(* As soon as one benchmark ends, the run ends, if only by an abort: the   *)
(* kill loop, the joins and the destructors never wait for something that  *)
(* does not come.                                                          *)
FirstExitEndsRun == \A i \in Procs : Ended(i) ~> runtime # "alive"

(* With the simple monitor, whatever died on hold before, a run that came  *)
(* to start its monitor is ended by the first exit in the orderly way: no  *)
(* signal, future or destructor fails, and no benchmark is left.           *)
SimpleExitsInOrder ==
  \A i \in Procs :
    type = "simple" /\ thread_ # "none" /\ Ended(i) ~>
      runtime = "exited" /\ \A j \in Procs : proc[j] = "reaped"

(* simple.h: "waits until any of the benchmarks finishes its execution. At *)
(* that time, the other benchmarks are killed, and the execution           *)
(* finishes."                                                              *)
OthersKilled ==
  \A i \in Procs : Ended(i) ~> runtime # "alive" /\ \A j \in Procs : Ended(j)

=============================================================================
