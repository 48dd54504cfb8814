------------------------ MODULE SimpleManagerProofs ------------------------
(***************************************************************************)
(* The program: how it starts (Startup), for any configuration file, and   *)
(* how it runs (SimpleManager), for any number of benchmarks and CPUs, any *)
(* monitor, and with or without the faults.                                *)
(***************************************************************************)
EXTENDS SimpleManager, Startup, WellFoundedInduction, TLAPS

Preparing == main \in {"prepare", "add_process"}

(* The first two loops of start_impl(): the benchmarks before next are     *)
(* done with, the others are untouched, and none was let go of.            *)
LoopInv ==
  /\ \A i \in Procs : proc[i] = "none" => main = "prepare" /\ next <= i
  /\ \A i \in Procs :
       waiter[i] = "none" =>
         main = "prepare" \/ (main = "add_process" /\ next <= i)
  /\ runtime = "alive" /\ Preparing =>
       let_go = {} /\ \A i \in Procs : proc[i] # "running"

(* The thread of a process gets past waitpid() by collecting it, and main  *)
(* forgets a future only when its thread is done.                          *)
WaiterInv ==
  \A i \in Procs :
    /\ waiter[i] \in {"collected", "push", "return", "done"} =>
         proc[i] = "reaped"
    /\ waiter[i] \in {"push", "return", "done"} => terminated_[i]
    /\ waiter[i] \in {"none", "done"} \/ i \in status_

Inv == TypeOK /\ LoopInv /\ WaiterInv /\ CleanShutdown

-----------------------------------------------------------------------------
(* Type correctness of the manager, the monitors, the threads and the      *)
(* processes.                                                              *)
THEOREM TypeCorrect == Spec => []TypeOK
<1>. USE BenchmarksAssumption
     DEF TypeOK, Procs, NoProc, process_vars, waiter_vars, monitor_vars,
         main_vars
<1>1. Init => TypeOK
  <2>1. 1 \in Procs
    OBVIOUS
  <2>2. Init => /\ terminated_ \in [Procs -> BOOLEAN]
                /\ execution_ended_ \in BOOLEAN
    BY Zenon DEF Init
  <2>. HIDE DEF Procs
  <2>. QED  BY <2>1, <2>2 DEF Init, Process!Init
<1>2. TypeOK /\ [Next]_vars => TypeOK'
  <2>. SUFFICES ASSUME TypeOK, [Next]_vars PROVE TypeOK'
    OBVIOUS
  <2>1. CASE prepare_bench
    BY <2>1 DEF prepare_bench, notify_process_creation, At, Loop,
              Process!Prepare, Process!Become
  <2>2. CASE prepare_bench_throws
    BY <2>2 DEF prepare_bench_throws, Abort, At
  <2>3. CASE add_process
    BY <2>3 DEF add_process, At, Loop
  <2>4. CASE start
    BY <2>4 DEF start, At, Loop
  <2>5. CASE start_sigpipe
    BY <2>5 DEF start_sigpipe, Abort, At
  <2>6. CASE start_exec_monitor
    BY <2>6 DEF start_exec_monitor, At, Goto
  <2>7. CASE wait_for_any_pop
    BY <2>7 DEF wait_for_any_pop, At, Goto
  <2>8. CASE wait_for_any_get
    BY <2>8 DEF wait_for_any_get, At, Goto
  <2>9. CASE execution_end
    BY <2>9 DEF execution_end, At, Goto
  <2>10. CASE stop_exec_monitor
    BY <2>10 DEF stop_exec_monitor, At, Goto
  <2>11. CASE kill_process
    BY <2>11 DEF kill_process, At, Loop, Goto
  <2>12. CASE kill
    BY <2>12 DEF kill, At, Loop
  <2>13. CASE destroy_process_monitor
    BY <2>13 DEF destroy_process_monitor, At, Goto
  <2>14. CASE destroy_manager
    BY <2>14 DEF destroy_manager, At
  <2>15. CASE is_execution_over
    BY <2>15 DEF is_execution_over, ThreadGoes
  <2>16. CASE loop_impl
    BY <2>16 DEF loop_impl, ThreadGoes
  <2>17. CASE process_event
    BY <2>17 DEF process_event, ThreadGoes
  <2>18. CASE process_event_throws
    BY <2>18 DEF process_event_throws, Abort, ThreadAt
  <2>19. CASE process_events_done
    BY <2>19 DEF process_events_done, ThreadGoes
  <2>20. ASSUME NEW i \in Procs, waitpid(i) PROVE TypeOK'
    BY <2>20 DEF waitpid, WaiterGoes, WaiterAt, Process!Reap, Process!Become
  <2>21. ASSUME NEW i \in Procs, set_terminated(i) PROVE TypeOK'
    BY <2>21 DEF set_terminated, WaiterGoes, WaiterAt
  <2>22. ASSUME NEW i \in Procs, push(i) PROVE TypeOK'
    BY <2>22 DEF push, WaiterGoes, WaiterAt
  <2>23. ASSUME NEW i \in Procs, return(i) PROVE TypeOK'
    BY <2>23 DEF return, WaiterGoes, WaiterAt
  <2>24. ASSUME NEW i \in Procs, run(i) PROVE TypeOK'
    BY <2>24 DEF run, RuntimeUnchanged, Process!Run, Process!Become
  <2>25. ASSUME NEW i \in Procs, benchmark_ends(i) PROVE TypeOK'
    BY <2>25 DEF benchmark_ends, RuntimeUnchanged, Process!Die, Process!Become
  <2>26. ASSUME NEW i \in Procs, held_process_dies(i) PROVE TypeOK'
    BY <2>26 DEF held_process_dies, RuntimeUnchanged, Process!Die,
              Process!Become
  <2>27. CASE UNCHANGED vars
    BY <2>27 DEF vars
  <2>28. CASE thread_creation_throws
    BY <2>28 DEF thread_creation_throws, Abort, At
  <2>29. CASE loop_impl_throws
    BY <2>29 DEF loop_impl_throws, Abort, ThreadAt
  <2>. QED
    BY <2>1, <2>2, <2>3, <2>4, <2>5, <2>6, <2>7, <2>8, <2>9, <2>10, <2>11,
       <2>12, <2>13, <2>14, <2>15, <2>16, <2>17, <2>18, <2>19, <2>20,
       <2>21, <2>22, <2>23, <2>24, <2>25, <2>26, <2>27, <2>28, <2>29
       DEF Next, Main, ExecMonitor, Waiter
<1>. QED
  BY <1>1, <1>2, PTL DEF Spec

-----------------------------------------------------------------------------
(* Nobody lets go of a process before the second loop is over.             *)
LEMMA LoopInvHolds == Spec => []LoopInv
<1>. USE BenchmarksAssumption
     DEF LoopInv, Preparing, Procs, process_vars, waiter_vars, monitor_vars,
         main_vars
<1>1. Init => LoopInv
  BY DEF Init, Process!Init
<1>2. TypeOK /\ LoopInv /\ [Next]_vars => LoopInv'
  <2>. SUFFICES ASSUME TypeOK, LoopInv, [Next]_vars PROVE LoopInv'
    OBVIOUS
  <2>. USE DEF TypeOK
  <2>1. CASE prepare_bench
    BY <2>1 DEF prepare_bench, notify_process_creation, At, Loop,
              Process!Prepare, Process!Become
  <2>2. CASE prepare_bench_throws
    BY <2>2 DEF prepare_bench_throws, Abort, At
  <2>3. CASE add_process
    BY <2>3 DEF add_process, At, Loop
  <2>4. CASE start
    BY <2>4 DEF start, At, Loop
  <2>5. CASE start_sigpipe
    BY <2>5 DEF start_sigpipe, Abort, At
  <2>6. CASE start_exec_monitor
    BY <2>6 DEF start_exec_monitor, At, Goto
  <2>7. CASE wait_for_any_pop
    BY <2>7 DEF wait_for_any_pop, At, Goto
  <2>8. CASE wait_for_any_get
    BY <2>8 DEF wait_for_any_get, At, Goto
  <2>9. CASE execution_end
    BY <2>9 DEF execution_end, At, Goto
  <2>10. CASE stop_exec_monitor
    BY <2>10 DEF stop_exec_monitor, At, Goto
  <2>11. CASE kill_process
    BY <2>11 DEF kill_process, At, Loop, Goto
  <2>12. CASE kill
    BY <2>12 DEF kill, At, Loop
  <2>13. CASE destroy_process_monitor
    BY <2>13 DEF destroy_process_monitor, At, Goto
  <2>14. CASE destroy_manager
    BY <2>14 DEF destroy_manager, At
  <2>15. CASE is_execution_over
    BY <2>15 DEF is_execution_over, ThreadGoes
  <2>16. CASE loop_impl
    BY <2>16 DEF loop_impl, ThreadGoes
  <2>17. CASE process_event
    BY <2>17 DEF process_event, ThreadGoes
  <2>18. CASE process_event_throws
    BY <2>18 DEF process_event_throws, Abort, ThreadAt
  <2>19. CASE process_events_done
    BY <2>19 DEF process_events_done, ThreadGoes
  <2>20. ASSUME NEW i \in Procs, waitpid(i) PROVE LoopInv'
    BY <2>20 DEF waitpid, WaiterGoes, WaiterAt, Process!Reap, Process!Become
  <2>21. ASSUME NEW i \in Procs, set_terminated(i) PROVE LoopInv'
    BY <2>21 DEF set_terminated, WaiterGoes, WaiterAt
  <2>22. ASSUME NEW i \in Procs, push(i) PROVE LoopInv'
    BY <2>22 DEF push, WaiterGoes, WaiterAt
  <2>23. ASSUME NEW i \in Procs, return(i) PROVE LoopInv'
    BY <2>23 DEF return, WaiterGoes, WaiterAt
  <2>24. ASSUME NEW i \in Procs, run(i) PROVE LoopInv'
    BY <2>24 DEF run, RuntimeUnchanged, Process!Run, Process!Become
  <2>25. ASSUME NEW i \in Procs, benchmark_ends(i) PROVE LoopInv'
    BY <2>25 DEF benchmark_ends, RuntimeUnchanged, Process!Die, Process!Become
  <2>26. ASSUME NEW i \in Procs, held_process_dies(i) PROVE LoopInv'
    BY <2>26 DEF held_process_dies, RuntimeUnchanged, Process!Die,
              Process!Become
  <2>27. CASE UNCHANGED vars
    BY <2>27 DEF vars
  <2>28. CASE thread_creation_throws
    BY <2>28 DEF thread_creation_throws, Abort, At
  <2>29. CASE loop_impl_throws
    BY <2>29 DEF loop_impl_throws, Abort, ThreadAt
  <2>. QED
    BY <2>1, <2>2, <2>3, <2>4, <2>5, <2>6, <2>7, <2>8, <2>9, <2>10, <2>11,
       <2>12, <2>13, <2>14, <2>15, <2>16, <2>17, <2>18, <2>19, <2>20,
       <2>21, <2>22, <2>23, <2>24, <2>25, <2>26, <2>27, <2>28, <2>29
       DEF Next, Main, ExecMonitor, Waiter
<1>. QED
  BY <1>1, <1>2, TypeCorrect, PTL DEF Spec

(* A process that is collected stays so, and so does the mark.             *)
LEMMA WaiterInvHolds == Spec => []WaiterInv
<1>. USE BenchmarksAssumption
     DEF WaiterInv, process_vars, waiter_vars, monitor_vars, main_vars
<1>1. Init => WaiterInv
  BY DEF Init, Process!Init
<1>2. TypeOK /\ LoopInv /\ WaiterInv /\ [Next]_vars => WaiterInv'
  <2>. SUFFICES ASSUME TypeOK, LoopInv, WaiterInv, [Next]_vars
                PROVE  WaiterInv'
    OBVIOUS
  <2>. USE DEF TypeOK, LoopInv
  <2>1. CASE prepare_bench
    BY <2>1 DEF prepare_bench, notify_process_creation, At, Loop,
              Process!Prepare, Process!Become
  <2>2. CASE prepare_bench_throws
    BY <2>2 DEF prepare_bench_throws, Abort, At
  <2>3. CASE add_process
    BY <2>3 DEF add_process, At, Loop
  <2>4. CASE start
    BY <2>4 DEF start, At, Loop
  <2>5. CASE start_sigpipe
    BY <2>5 DEF start_sigpipe, Abort, At
  <2>6. CASE start_exec_monitor
    BY <2>6 DEF start_exec_monitor, At, Goto
  <2>7. CASE wait_for_any_pop
    BY <2>7 DEF wait_for_any_pop, At, Goto
  <2>8. CASE wait_for_any_get
    BY <2>8 DEF wait_for_any_get, At, Goto
  <2>9. CASE execution_end
    BY <2>9 DEF execution_end, At, Goto
  <2>10. CASE stop_exec_monitor
    BY <2>10 DEF stop_exec_monitor, At, Goto
  <2>11. CASE kill_process
    BY <2>11 DEF kill_process, At, Loop, Goto
  <2>12. CASE kill
    BY <2>12 DEF kill, At, Loop
  <2>13. CASE destroy_process_monitor
    BY <2>13 DEF destroy_process_monitor, At, Goto
  <2>14. CASE destroy_manager
    BY <2>14 DEF destroy_manager, At
  <2>15. CASE is_execution_over
    BY <2>15 DEF is_execution_over, ThreadGoes
  <2>16. CASE loop_impl
    BY <2>16 DEF loop_impl, ThreadGoes
  <2>17. CASE process_event
    BY <2>17 DEF process_event, ThreadGoes
  <2>18. CASE process_event_throws
    BY <2>18 DEF process_event_throws, Abort, ThreadAt
  <2>19. CASE process_events_done
    BY <2>19 DEF process_events_done, ThreadGoes
  <2>20. ASSUME NEW i \in Procs, waitpid(i) PROVE WaiterInv'
    BY <2>20 DEF waitpid, WaiterGoes, WaiterAt, Process!Reap, Process!Become
  <2>21. ASSUME NEW i \in Procs, set_terminated(i) PROVE WaiterInv'
    BY <2>21 DEF set_terminated, WaiterGoes, WaiterAt
  <2>22. ASSUME NEW i \in Procs, push(i) PROVE WaiterInv'
    BY <2>22 DEF push, WaiterGoes, WaiterAt
  <2>23. ASSUME NEW i \in Procs, return(i) PROVE WaiterInv'
    BY <2>23 DEF return, WaiterGoes, WaiterAt
  <2>24. ASSUME NEW i \in Procs, run(i) PROVE WaiterInv'
    BY <2>24 DEF run, RuntimeUnchanged, Process!Run, Process!Become
  <2>25. ASSUME NEW i \in Procs, benchmark_ends(i) PROVE WaiterInv'
    BY <2>25 DEF benchmark_ends, RuntimeUnchanged, Process!Die, Process!Become
  <2>26. ASSUME NEW i \in Procs, held_process_dies(i) PROVE WaiterInv'
    BY <2>26 DEF held_process_dies, RuntimeUnchanged, Process!Die,
              Process!Become
  <2>27. CASE UNCHANGED vars
    BY <2>27 DEF vars
  <2>28. CASE thread_creation_throws
    BY <2>28 DEF thread_creation_throws, Abort, At
  <2>29. CASE loop_impl_throws
    BY <2>29 DEF loop_impl_throws, Abort, ThreadAt
  <2>. QED
    BY <2>1, <2>2, <2>3, <2>4, <2>5, <2>6, <2>7, <2>8, <2>9, <2>10, <2>11,
       <2>12, <2>13, <2>14, <2>15, <2>16, <2>17, <2>18, <2>19, <2>20,
       <2>21, <2>22, <2>23, <2>24, <2>25, <2>26, <2>27, <2>28, <2>29
       DEF Next, Main, ExecMonitor, Waiter
<1>. QED
  BY <1>1, <1>2, TypeCorrect, LoopInvHolds, PTL DEF Spec

-----------------------------------------------------------------------------
(* No benchmark runs before start_impl() has put every benchmark on hold   *)
(* and process_monitor watches them all.                                   *)
THEOREM StartTogetherHolds == Spec => []StartTogether
<1>1. LoopInv => StartTogether
  BY DEF LoopInv, Preparing, StartTogether
<1>. QED
  BY <1>1, LoopInvHolds, PTL

(* ~process_monitor() leaves no thread, and ~process() nothing to kill.    *)
THEOREM CleanShutdownHolds == Spec => []CleanShutdown
<1>. USE BenchmarksAssumption
     DEF CleanShutdown, process_vars, waiter_vars, monitor_vars, main_vars
<1>1. Init => CleanShutdown
  BY DEF Init
<1>2. TypeOK /\ LoopInv /\ WaiterInv /\ CleanShutdown /\ [Next]_vars
        => CleanShutdown'
  <2>. SUFFICES ASSUME TypeOK, LoopInv, WaiterInv, CleanShutdown, [Next]_vars
                PROVE  CleanShutdown'
    OBVIOUS
  <2>. USE DEF TypeOK, LoopInv, WaiterInv
  <2>1. CASE prepare_bench
    BY <2>1 DEF prepare_bench, notify_process_creation, At, Loop,
              Process!Prepare, Process!Become
  <2>2. CASE prepare_bench_throws
    BY <2>2 DEF prepare_bench_throws, Abort, At
  <2>3. CASE add_process
    BY <2>3 DEF add_process, At, Loop
  <2>4. CASE start
    BY <2>4 DEF start, At, Loop
  <2>5. CASE start_sigpipe
    BY <2>5 DEF start_sigpipe, Abort, At
  <2>6. CASE start_exec_monitor
    BY <2>6 DEF start_exec_monitor, At, Goto
  <2>7. CASE wait_for_any_pop
    BY <2>7 DEF wait_for_any_pop, At, Goto
  <2>8. CASE wait_for_any_get
    BY <2>8 DEF wait_for_any_get, At, Goto
  <2>9. CASE execution_end
    BY <2>9 DEF execution_end, At, Goto
  <2>10. CASE stop_exec_monitor
    BY <2>10 DEF stop_exec_monitor, At, Goto
  <2>11. CASE kill_process
    BY <2>11 DEF kill_process, At, Loop, Goto
  <2>12. CASE kill
    BY <2>12 DEF kill, At, Loop
  <2>13. CASE destroy_process_monitor
    BY <2>13 DEF destroy_process_monitor, At, Goto
  <2>14. CASE destroy_manager
    BY <2>14 DEF destroy_manager, At
  <2>15. CASE is_execution_over
    BY <2>15 DEF is_execution_over, ThreadGoes
  <2>16. CASE loop_impl
    BY <2>16 DEF loop_impl, ThreadGoes
  <2>17. CASE process_event
    BY <2>17 DEF process_event, ThreadGoes
  <2>18. CASE process_event_throws
    BY <2>18 DEF process_event_throws, Abort, ThreadAt
  <2>19. CASE process_events_done
    BY <2>19 DEF process_events_done, ThreadGoes
  <2>20. ASSUME NEW i \in Procs, waitpid(i) PROVE CleanShutdown'
    BY <2>20 DEF waitpid, WaiterGoes, WaiterAt, Process!Reap, Process!Become
  <2>21. ASSUME NEW i \in Procs, set_terminated(i) PROVE CleanShutdown'
    BY <2>21 DEF set_terminated, WaiterGoes, WaiterAt
  <2>22. ASSUME NEW i \in Procs, push(i) PROVE CleanShutdown'
    BY <2>22 DEF push, WaiterGoes, WaiterAt
  <2>23. ASSUME NEW i \in Procs, return(i) PROVE CleanShutdown'
    BY <2>23 DEF return, WaiterGoes, WaiterAt
  <2>24. ASSUME NEW i \in Procs, run(i) PROVE CleanShutdown'
    BY <2>24 DEF run, RuntimeUnchanged, Process!Run, Process!Become
  <2>25. ASSUME NEW i \in Procs, benchmark_ends(i) PROVE CleanShutdown'
    BY <2>25 DEF benchmark_ends, RuntimeUnchanged, Process!Die, Process!Become
  <2>26. ASSUME NEW i \in Procs, held_process_dies(i) PROVE CleanShutdown'
    BY <2>26 DEF held_process_dies, RuntimeUnchanged, Process!Die,
              Process!Become
  <2>27. CASE UNCHANGED vars
    BY <2>27 DEF vars
  <2>28. CASE thread_creation_throws
    BY <2>28 DEF thread_creation_throws, Abort, At
  <2>29. CASE loop_impl_throws
    BY <2>29 DEF loop_impl_throws, Abort, ThreadAt
  <2>. QED
    BY <2>1, <2>2, <2>3, <2>4, <2>5, <2>6, <2>7, <2>8, <2>9, <2>10, <2>11,
       <2>12, <2>13, <2>14, <2>15, <2>16, <2>17, <2>18, <2>19, <2>20,
       <2>21, <2>22, <2>23, <2>24, <2>25, <2>26, <2>27, <2>28, <2>29
       DEF Next, Main, ExecMonitor, Waiter
<1>. QED
  BY <1>1, <1>2, TypeCorrect, LoopInvHolds, WaiterInvHolds, PTL DEF Spec

(* Type correctness and the invariants above, together.                    *)
LEMMA InvHolds == Spec => []Inv
  BY TypeCorrect, LoopInvHolds, WaiterInvHolds, CleanShutdownHolds, PTL DEF Inv

-----------------------------------------------------------------------------
(* The manager, its monitors and the threads use the processes the way     *)
(* HeldProcess allows: prepare each once, collect each once, and let none  *)
(* run on the way.  That ~simple_manager() collects nothing that was       *)
(* collected before is CleanShutdown.                                      *)
THEOREM UsesHeldProcesses == Spec => Process!Safety
<1>. USE BenchmarksAssumption
     DEF process_vars, waiter_vars, monitor_vars, main_vars
<1>1. Init => Process!Init
  BY DEF Init
<1>2. Inv /\ [Next]_vars => [Process!Next]_Process!vars
  <2>. SUFFICES ASSUME Inv, [Next]_vars
                PROVE  Process!Next \/ UNCHANGED Process!vars
    OBVIOUS
  <2>. USE DEF Inv, TypeOK, Process!vars
  <2>1. CASE prepare_bench
    BY <2>1 DEF prepare_bench, Loop, Process!Next, Process!Prepare
  <2>2. CASE prepare_bench_throws
    BY <2>2 DEF prepare_bench_throws, Abort, Process!Next, Process!LetGo
  <2>3. CASE add_process
    BY <2>3 DEF add_process, At, Loop
  <2>4. CASE start
    BY <2>4 DEF start, Process!Next, Process!LetGo
  <2>5. CASE start_sigpipe
    BY <2>5 DEF start_sigpipe, Abort, Process!Next, Process!LetGo
  <2>6. CASE start_exec_monitor
    BY <2>6 DEF start_exec_monitor, At, Goto
  <2>7. CASE wait_for_any_pop
    BY <2>7 DEF wait_for_any_pop, At, Goto
  <2>8. CASE wait_for_any_get
    BY <2>8 DEF wait_for_any_get, At, Goto
  <2>9. CASE execution_end
    BY <2>9 DEF execution_end, At, Goto
  <2>10. CASE stop_exec_monitor
    BY <2>10 DEF stop_exec_monitor, At, Goto
  <2>11. CASE kill_process
    BY <2>11 DEF kill_process, At, Loop, Goto
  <2>12. CASE kill
    <3>1. CASE proc[next] \in {"held", "running"}
      BY <2>12, <3>1 DEF kill, Process!Next, Process!Die, Process!Become
    <3>2. CASE proc[next] \notin {"held", "running"}
      BY <2>12, <3>2 DEF kill
    <3>. QED  BY <3>1, <3>2
  <2>13. CASE destroy_process_monitor
    BY <2>13 DEF destroy_process_monitor, At, Goto
  <2>14. CASE destroy_manager
    <3>1. proc' = proc
      BY <2>14 DEF destroy_manager, At, CleanShutdown
    <3>. QED  BY <2>14, <3>1 DEF destroy_manager
  <2>15. CASE is_execution_over
    BY <2>15 DEF is_execution_over, ThreadGoes
  <2>16. CASE loop_impl
    BY <2>16 DEF loop_impl, ThreadGoes
  <2>17. CASE process_event
    BY <2>17 DEF process_event, ThreadGoes
  <2>18. CASE process_event_throws
    BY <2>18 DEF process_event_throws, Abort, Process!Next, Process!LetGo
  <2>19. CASE process_events_done
    BY <2>19 DEF process_events_done, ThreadGoes
  <2>20. ASSUME NEW i \in Procs, waitpid(i) PROVE Process!Next
    BY <2>20 DEF waitpid, Process!Next, Process!Reap
  <2>21. ASSUME NEW i \in Procs, set_terminated(i) PROVE UNCHANGED Process!vars
    BY <2>21 DEF set_terminated, WaiterGoes, WaiterAt
  <2>22. ASSUME NEW i \in Procs, push(i) PROVE UNCHANGED Process!vars
    BY <2>22 DEF push, WaiterGoes, WaiterAt
  <2>23. ASSUME NEW i \in Procs, return(i) PROVE UNCHANGED Process!vars
    BY <2>23 DEF return, WaiterGoes, WaiterAt
  <2>24. ASSUME NEW i \in Procs, run(i) PROVE Process!Next
    BY <2>24 DEF run, Process!Next
  <2>25. ASSUME NEW i \in Procs, benchmark_ends(i) PROVE Process!Next
    BY <2>25 DEF benchmark_ends, Process!Next
  <2>26. ASSUME NEW i \in Procs, held_process_dies(i) PROVE Process!Next
    BY <2>26 DEF held_process_dies, Process!Next
  <2>27. CASE UNCHANGED vars
    BY <2>27 DEF vars
  <2>28. CASE thread_creation_throws
    BY <2>28 DEF thread_creation_throws, Abort, Process!Next, Process!LetGo
  <2>29. CASE loop_impl_throws
    BY <2>29 DEF loop_impl_throws, Abort, Process!Next, Process!LetGo
  <2>. QED
    BY <2>1, <2>2, <2>3, <2>4, <2>5, <2>6, <2>7, <2>8, <2>9, <2>10, <2>11,
       <2>12, <2>13, <2>14, <2>15, <2>16, <2>17, <2>18, <2>19, <2>20,
       <2>21, <2>22, <2>23, <2>24, <2>25, <2>26, <2>27, <2>28, <2>29
       DEF Next, Main, ExecMonitor, Waiter
<1>3. Spec => []Inv
  BY InvHolds
<1>. QED
  BY <1>1, <1>2, <1>3, PTL DEF Spec, Process!Safety

-----------------------------------------------------------------------------
(* exec_monitor has one event for each benchmark that was prepared, in the *)
(* order of the configuration file, and handles them in this order.        *)
EventsInOrder ==
  /\ \A k \in 1..Len(handled) : handled[k] = k
  /\ \A k \in 1..Len(event_queue_) : event_queue_[k] = Len(handled) + k
  /\ Len(handled) + Len(event_queue_) =
       IF main = "prepare" THEN next - 1 ELSE N

(* notify_process_creation() is called once per benchmark before any event *)
(* is handled: exec_monitor sees each of them once and in order.           *)
THEOREM EventsInOrderHolds == Spec => []EventsInOrder
<1>. USE BenchmarksAssumption
     DEF EventsInOrder, process_vars, waiter_vars, monitor_vars, main_vars
<1>1. Init => EventsInOrder
  BY DEF Init
<1>2. TypeOK /\ EventsInOrder /\ [Next]_vars => EventsInOrder'
  <2>. SUFFICES ASSUME TypeOK, EventsInOrder, [Next]_vars PROVE EventsInOrder'
    OBVIOUS
  <2>. USE DEF TypeOK, Procs
  <2>1. CASE prepare_bench
    <3>1. /\ main = "prepare" /\ event_queue_' = Append(event_queue_, next)
          /\ handled' = handled
          /\ main' = IF next < N THEN "prepare" ELSE "add_process"
          /\ next' = IF next < N THEN next + 1 ELSE 1
      BY <2>1 DEF prepare_bench, notify_process_creation, At, Loop
    <3>2. /\ Len(event_queue_') = Len(event_queue_) + 1
          /\ \A k \in 1..Len(event_queue_) : event_queue_'[k] = event_queue_[k]
          /\ event_queue_'[Len(event_queue_) + 1] = next
      BY <3>1
    <3>3. next = Len(handled) + Len(event_queue_) + 1
      BY <3>1
    <3>4. Len(handled) \in Nat /\ Len(event_queue_) \in Nat
      OBVIOUS
    <3>5. next \in 1..N /\ N \in Nat
      OBVIOUS
    <3>6. \A k \in 1..Len(event_queue_') : event_queue_'[k] = Len(handled) + k
      <4>. TAKE k \in 1..Len(event_queue_')
      <4>1. CASE k = Len(event_queue_) + 1
        BY <3>2, <3>3, <4>1
      <4>2. CASE k \in 1..Len(event_queue_)
        BY <3>2, <4>2
      <4>. QED  BY <3>2, <3>4, <4>1, <4>2
    <3>7. Len(handled) + Len(event_queue_') =
            IF main' = "prepare" THEN next' - 1 ELSE N
      BY <3>1, <3>2, <3>3, <3>4, <3>5
    <3>. QED  BY <3>1, <3>6, <3>7
  <2>2. CASE prepare_bench_throws
    BY <2>2 DEF prepare_bench_throws, Abort, At
  <2>3. CASE add_process
    BY <2>3 DEF add_process, At, Loop
  <2>4. CASE start
    BY <2>4 DEF start, At, Loop
  <2>5. CASE start_sigpipe
    BY <2>5 DEF start_sigpipe, Abort, At
  <2>6. CASE start_exec_monitor
    BY <2>6 DEF start_exec_monitor, At, Goto
  <2>7. CASE wait_for_any_pop
    BY <2>7 DEF wait_for_any_pop, At, Goto
  <2>8. CASE wait_for_any_get
    BY <2>8 DEF wait_for_any_get, At, Goto
  <2>9. CASE execution_end
    BY <2>9 DEF execution_end, At, Goto
  <2>10. CASE stop_exec_monitor
    BY <2>10 DEF stop_exec_monitor, At, Goto
  <2>11. CASE kill_process
    BY <2>11 DEF kill_process, At, Loop, Goto
  <2>12. CASE kill
    BY <2>12 DEF kill, At, Loop
  <2>13. CASE destroy_process_monitor
    BY <2>13 DEF destroy_process_monitor, At, Goto
  <2>14. CASE destroy_manager
    BY <2>14 DEF destroy_manager, At
  <2>15. CASE is_execution_over
    BY <2>15 DEF is_execution_over, ThreadGoes
  <2>16. CASE loop_impl
    BY <2>16 DEF loop_impl, ThreadGoes
  <2>17. CASE process_event
    <3>1. /\ event_queue_ # <<>> /\ event_queue_' = Tail(event_queue_)
          /\ handled' = Append(handled, Head(event_queue_))
          /\ main' = main /\ next' = next
      BY <2>17 DEF process_event, ThreadGoes
    <3>2. /\ Len(event_queue_) \in Nat /\ Len(event_queue_) >= 1
          /\ Len(event_queue_') = Len(event_queue_) - 1
          /\ \A k \in 1..Len(event_queue_') :
               event_queue_'[k] = event_queue_[k + 1]
          /\ Head(event_queue_) = event_queue_[1] /\ event_queue_[1] \in Procs
      BY <3>1
    <3>3. /\ Len(handled) \in Nat /\ Len(handled') = Len(handled) + 1
          /\ \A k \in 1..Len(handled) : handled'[k] = handled[k]
          /\ handled'[Len(handled) + 1] = event_queue_[1]
      BY <3>1, <3>2
    <3>4. event_queue_[1] = Len(handled) + 1
      BY <3>2
    <3>. HIDE DEF TypeOK, Procs
    <3>. QED  BY <3>1, <3>2, <3>3, <3>4
  <2>18. CASE process_event_throws
    BY <2>18 DEF process_event_throws, Abort, ThreadAt
  <2>19. CASE process_events_done
    BY <2>19 DEF process_events_done, ThreadGoes
  <2>20. ASSUME NEW i \in Procs, waitpid(i) PROVE EventsInOrder'
    BY <2>20 DEF waitpid, WaiterGoes, WaiterAt, Process!Reap, Process!Become
  <2>21. ASSUME NEW i \in Procs, set_terminated(i) PROVE EventsInOrder'
    BY <2>21 DEF set_terminated, WaiterGoes, WaiterAt
  <2>22. ASSUME NEW i \in Procs, push(i) PROVE EventsInOrder'
    BY <2>22 DEF push, WaiterGoes, WaiterAt
  <2>23. ASSUME NEW i \in Procs, return(i) PROVE EventsInOrder'
    BY <2>23 DEF return, WaiterGoes, WaiterAt
  <2>24. ASSUME NEW i \in Procs, run(i) PROVE EventsInOrder'
    BY <2>24 DEF run, RuntimeUnchanged, Process!Run, Process!Become
  <2>25. ASSUME NEW i \in Procs, benchmark_ends(i) PROVE EventsInOrder'
    BY <2>25 DEF benchmark_ends, RuntimeUnchanged, Process!Die, Process!Become
  <2>26. ASSUME NEW i \in Procs, held_process_dies(i) PROVE EventsInOrder'
    BY <2>26 DEF held_process_dies, RuntimeUnchanged, Process!Die,
              Process!Become
  <2>27. CASE UNCHANGED vars
    BY <2>27 DEF vars
  <2>28. CASE thread_creation_throws
    BY <2>28 DEF thread_creation_throws, Abort, At
  <2>29. CASE loop_impl_throws
    BY <2>29 DEF loop_impl_throws, Abort, ThreadAt
  <2>. QED
    BY <2>1, <2>2, <2>3, <2>4, <2>5, <2>6, <2>7, <2>8, <2>9, <2>10, <2>11,
       <2>12, <2>13, <2>14, <2>15, <2>16, <2>17, <2>18, <2>19, <2>20,
       <2>21, <2>22, <2>23, <2>24, <2>25, <2>26, <2>27, <2>28, <2>29
       DEF Next, Main, ExecMonitor, Waiter
<1>. QED
  BY <1>1, <1>2, TypeCorrect, PTL DEF Spec

(* cpu_hopper::add_process() wants a CPU to spare.                         *)
CpuToSpare ==
  N < Cpus => (event_queue_ # <<>> => ~HopperThrows)

(* With fewer benchmarks than CPUs cpu_hopper::add_process() never throws, *)
(* whatever is on the queue, so that its thread does not end the runtime.  *)
THEOREM CpuToSpareHolds == Spec => []CpuToSpare
<1>1. TypeOK /\ EventsInOrder => CpuToSpare
  <2>. SUFFICES ASSUME TypeOK, EventsInOrder, N < Cpus, event_queue_ # <<>>
                PROVE  ~(Len(handled) + 1 >= Cpus)
    BY DEF CpuToSpare, HopperThrows
  <2>1. Len(event_queue_) >= 1 /\ Len(handled) \in Nat
    BY DEF TypeOK
  <2>2. Len(handled) + 1 <= N
    BY <2>1, BenchmarksAssumption DEF EventsInOrder, TypeOK, Procs
  <2>. QED  BY <2>1, <2>2, BenchmarksAssumption, EnvironmentAssumption
<1>. QED
  BY <1>1, TypeCorrect, EventsInOrderHolds, PTL

-----------------------------------------------------------------------------
(* Who waits for whom.  Main blocks in wait_for_any(), where it pops and   *)
(* then gets a future, in the join of the monitor and in the destructor of *)
(* process_monitor; a thread of process_monitor blocks in waitpid().       *)

(* Main has yet to pop the process that ended first.                       *)
BeforePop ==
  main \in {"prepare", "add_process", "start", "start_exec_monitor", "pop"}

(* What the threads of process_monitor have done, and what main knows of   *)
(* it at each of its waits.                                                *)
ServedInv ==
  /\ \A i \in Procs :
       /\ proc[i] = "reaped" =>
            waiter[i] \in {"collected", "push", "return", "done"}
       /\ terminated_[i] => waiter[i] \in {"push", "return", "done"}
       /\ BeforePop /\ waiter[i] \in {"return", "done"} =>
            \E k \in 1..Len(ended_process_queue_) : ended_process_queue_[k] = i
       /\ BeforePop \/ main = "get" =>
            (waiter[i] # "none" => i \in status_)
  /\ \A k \in 1..Len(ended_process_queue_) :
       waiter[ended_process_queue_[k]] \in {"return", "done"}
  /\ main = "get" => popped \in Procs /\ waiter[popped] \in {"return", "done"}
  /\ main = "join" => execution_ended_
  /\ thread_ = "none" <=> main \in {"prepare", "add_process", "start",
                                    "start_exec_monitor"}

(* The kill loop starts at the first process, and those before next have   *)
(* ended.                                                                  *)
KillInv ==
  /\ main \in {"start_exec_monitor", "pop", "get", "execution_end", "join"} =>
       next = 1
  /\ main \in {"kill", "send_signal"} =>
       \A i \in Procs : i < next => Ended(i)
  /\ main \in {"destroy_monitor", "destroy_manager", "exited"} =>
       \A i \in Procs : Ended(i)

(* What main finds on the queue, in status_ and in execution_ended_ is     *)
(* what the threads have put there, whatever order they run in.            *)
LEMMA ServedInvHolds == Spec => []ServedInv
<1>. USE BenchmarksAssumption
     DEF ServedInv, BeforePop, process_vars, waiter_vars, monitor_vars,
         main_vars
<1>1. Init => ServedInv
  BY DEF Init, Process!Init
<1>2. Inv /\ ServedInv /\ [Next]_vars => ServedInv'
  <2>. SUFFICES ASSUME Inv, ServedInv, [Next]_vars PROVE ServedInv'
    OBVIOUS
  <2>. USE DEF Inv, TypeOK
  <2>1. CASE prepare_bench
    BY <2>1 DEF prepare_bench, notify_process_creation, At, Loop,
              Process!Prepare, Process!Become
  <2>2. CASE prepare_bench_throws
    BY <2>2 DEF prepare_bench_throws, Abort, At
  <2>3. CASE add_process
    BY <2>3 DEF add_process, At, Loop
  <2>4. CASE start
    BY <2>4 DEF start, At, Loop
  <2>5. CASE start_sigpipe
    BY <2>5 DEF start_sigpipe, Abort, At
  <2>6. CASE start_exec_monitor
    BY <2>6 DEF start_exec_monitor, At, Goto
  <2>7. CASE wait_for_any_pop
    BY <2>7 DEF wait_for_any_pop, At, Goto
  <2>8. CASE wait_for_any_get
    BY <2>8 DEF wait_for_any_get, At, Goto
  <2>9. CASE execution_end
    BY <2>9 DEF execution_end, At, Goto
  <2>10. CASE stop_exec_monitor
    BY <2>10 DEF stop_exec_monitor, At, Goto
  <2>11. CASE kill_process
    BY <2>11 DEF kill_process, At, Loop, Goto
  <2>12. CASE kill
    BY <2>12 DEF kill, At, Loop
  <2>13. CASE destroy_process_monitor
    BY <2>13 DEF destroy_process_monitor, At, Goto
  <2>14. CASE destroy_manager
    BY <2>14 DEF destroy_manager, At, CleanShutdown
  <2>15. CASE is_execution_over
    BY <2>15 DEF is_execution_over, ThreadGoes, ThreadAt
  <2>16. CASE loop_impl
    BY <2>16 DEF loop_impl, ThreadGoes, ThreadAt
  <2>17. CASE process_event
    BY <2>17 DEF process_event, ThreadGoes, ThreadAt
  <2>18. CASE process_event_throws
    BY <2>18 DEF process_event_throws, Abort, ThreadAt
  <2>19. CASE process_events_done
    BY <2>19 DEF process_events_done, ThreadGoes, ThreadAt
  <2>20. ASSUME NEW i \in Procs, waitpid(i) PROVE ServedInv'
    BY <2>20 DEF waitpid, WaiterGoes, WaiterAt, Process!Reap, Process!Become
  <2>21. ASSUME NEW i \in Procs, set_terminated(i) PROVE ServedInv'
    BY <2>21 DEF set_terminated, WaiterGoes, WaiterAt
  <2>22. ASSUME NEW i \in Procs, push(i) PROVE ServedInv'
    BY <2>22 DEF push, WaiterGoes, WaiterAt
  <2>23. ASSUME NEW i \in Procs, return(i) PROVE ServedInv'
    BY <2>23 DEF return, WaiterGoes, WaiterAt
  <2>24. ASSUME NEW i \in Procs, run(i) PROVE ServedInv'
    BY <2>24 DEF run, RuntimeUnchanged, Process!Run, Process!Become
  <2>25. ASSUME NEW i \in Procs, benchmark_ends(i) PROVE ServedInv'
    BY <2>25 DEF benchmark_ends, RuntimeUnchanged, Process!Die, Process!Become
  <2>26. ASSUME NEW i \in Procs, held_process_dies(i) PROVE ServedInv'
    BY <2>26 DEF held_process_dies, RuntimeUnchanged, Process!Die,
              Process!Become
  <2>27. CASE UNCHANGED vars
    BY <2>27 DEF vars
  <2>28. CASE thread_creation_throws
    BY <2>28 DEF thread_creation_throws, Abort, At
  <2>29. CASE loop_impl_throws
    BY <2>29 DEF loop_impl_throws, Abort, ThreadAt
  <2>. QED
    BY <2>1, <2>2, <2>3, <2>4, <2>5, <2>6, <2>7, <2>8, <2>9, <2>10, <2>11,
       <2>12, <2>13, <2>14, <2>15, <2>16, <2>17, <2>18, <2>19, <2>20,
       <2>21, <2>22, <2>23, <2>24, <2>25, <2>26, <2>27, <2>28, <2>29
       DEF Next, Main, ExecMonitor, Waiter
<1>. QED
  BY <1>1, <1>2, InvHolds, PTL DEF Spec

(* The kill loop leaves no process alive, whatever it reads in terminated_.*)
LEMMA KillInvHolds == Spec => []KillInv
<1>. USE BenchmarksAssumption
     DEF KillInv, Ended, Procs, process_vars, waiter_vars, monitor_vars,
         main_vars
<1>1. Init => KillInv
  BY DEF Init
<1>2. Inv /\ ServedInv /\ KillInv /\ [Next]_vars => KillInv'
  <2>. SUFFICES ASSUME Inv, ServedInv, KillInv, [Next]_vars PROVE KillInv'
    OBVIOUS
  <2>. USE DEF Inv, TypeOK
  <2>1. CASE prepare_bench
    BY <2>1 DEF prepare_bench, notify_process_creation, At, Loop,
              Process!Prepare, Process!Become
  <2>2. CASE prepare_bench_throws
    BY <2>2 DEF prepare_bench_throws, Abort, At
  <2>3. CASE add_process
    BY <2>3 DEF add_process, At, Loop
  <2>4. CASE start
    BY <2>4 DEF start, At, Loop
  <2>5. CASE start_sigpipe
    BY <2>5 DEF start_sigpipe, Abort, At
  <2>6. CASE start_exec_monitor
    BY <2>6 DEF start_exec_monitor, At, Goto
  <2>7. CASE wait_for_any_pop
    BY <2>7 DEF wait_for_any_pop, At, Goto
  <2>8. CASE wait_for_any_get
    BY <2>8 DEF wait_for_any_get, At, Goto
  <2>9. CASE execution_end
    BY <2>9 DEF execution_end, At, Goto
  <2>10. CASE stop_exec_monitor
    BY <2>10 DEF stop_exec_monitor, At, Goto
  <2>11. CASE kill_process
    <3>1. terminated_[next] => Ended(next)
      BY DEF ServedInv, WaiterInv
    <3>. QED  BY <2>11, <3>1 DEF kill_process, At, Loop, Goto
  <2>12. CASE kill
    <3>1. main = "send_signal" /\ main' \in {"kill", "destroy_monitor"}
      BY <2>12 DEF kill, At, Loop
    <3>2. proc'[next] \in {"zombie", "reaped"}
      BY <2>12, <3>1 DEF kill, LoopInv
    <3>3. \A i \in Procs : i # next => proc'[i] = proc[i]
      BY <2>12 DEF kill
    <3>. QED  BY <2>12, <3>1, <3>2, <3>3 DEF kill, Loop
  <2>13. CASE destroy_process_monitor
    BY <2>13 DEF destroy_process_monitor, At, Goto
  <2>14. CASE destroy_manager
    BY <2>14 DEF destroy_manager, At
  <2>15. CASE is_execution_over
    BY <2>15 DEF is_execution_over, ThreadGoes, ThreadAt
  <2>16. CASE loop_impl
    BY <2>16 DEF loop_impl, ThreadGoes, ThreadAt
  <2>17. CASE process_event
    BY <2>17 DEF process_event, ThreadGoes, ThreadAt
  <2>18. CASE process_event_throws
    BY <2>18 DEF process_event_throws, Abort, ThreadAt
  <2>19. CASE process_events_done
    BY <2>19 DEF process_events_done, ThreadGoes, ThreadAt
  <2>20. ASSUME NEW i \in Procs, waitpid(i) PROVE KillInv'
    BY <2>20 DEF waitpid, WaiterGoes, WaiterAt, Process!Reap, Process!Become
  <2>21. ASSUME NEW i \in Procs, set_terminated(i) PROVE KillInv'
    BY <2>21 DEF set_terminated, WaiterGoes, WaiterAt
  <2>22. ASSUME NEW i \in Procs, push(i) PROVE KillInv'
    BY <2>22 DEF push, WaiterGoes, WaiterAt
  <2>23. ASSUME NEW i \in Procs, return(i) PROVE KillInv'
    BY <2>23 DEF return, WaiterGoes, WaiterAt
  <2>24. ASSUME NEW i \in Procs, run(i) PROVE KillInv'
    BY <2>24 DEF run, RuntimeUnchanged, Process!Run, Process!Become
  <2>25. ASSUME NEW i \in Procs, benchmark_ends(i) PROVE KillInv'
    BY <2>25 DEF benchmark_ends, RuntimeUnchanged, Process!Die, Process!Become
  <2>26. ASSUME NEW i \in Procs, held_process_dies(i) PROVE KillInv'
    BY <2>26 DEF held_process_dies, RuntimeUnchanged, Process!Die,
              Process!Become
  <2>27. CASE UNCHANGED vars
    BY <2>27 DEF vars
  <2>28. CASE thread_creation_throws
    BY <2>28 DEF thread_creation_throws, Abort, At
  <2>29. CASE loop_impl_throws
    BY <2>29 DEF loop_impl_throws, Abort, ThreadAt
  <2>. QED
    BY <2>1, <2>2, <2>3, <2>4, <2>5, <2>6, <2>7, <2>8, <2>9, <2>10, <2>11,
       <2>12, <2>13, <2>14, <2>15, <2>16, <2>17, <2>18, <2>19, <2>20,
       <2>21, <2>22, <2>23, <2>24, <2>25, <2>26, <2>27, <2>28, <2>29
       DEF Next, Main, ExecMonitor, Waiter
<1>. QED
  BY <1>1, <1>2, InvHolds, ServedInvHolds, PTL DEF Spec

(* The thread of process i, in wait_for_process(), is not blocked.         *)
CanGoOn(i) ==
  \/ waiter[i] = "waitpid" /\ proc[i] = "zombie"
  \/ waiter[i] \in {"collected", "push", "return"}

(* Main never waits for what does not come: if a process has ended, the    *)
(* thread it pops from is on its way or has pushed; the future it gets is  *)
(* there and its thread has pushed; the monitor it joins has been told to  *)
(* end; and ~process_monitor() waits only for processes that have ended.   *)
MainIsServed ==
  runtime = "alive" =>
    /\ main = "pop" /\ ended_process_queue_ = <<>> =>
         \A i \in Procs : Ended(i) => CanGoOn(i)
    /\ main = "get" =>
         /\ popped \in status_
         /\ waiter[popped] # "done" => CanGoOn(popped)
    /\ main = "join" =>
         execution_ended_ /\ thread_ \in {"check", "loop", "events", "done"}
    /\ main = "destroy_monitor" =>
         \A i \in status_ : waiter[i] # "done" => CanGoOn(i)

(* No wait of start_impl() or of a destructor is for something that only   *)
(* main itself could bring about, for any number of benchmarks.            *)
THEOREM MainIsServedHolds == Spec => []MainIsServed
<1>1. Inv /\ ServedInv /\ KillInv => MainIsServed
  <2>. SUFFICES ASSUME Inv, ServedInv, KillInv PROVE MainIsServed
    OBVIOUS
  <2>. USE DEF Inv, TypeOK, Ended, CanGoOn
  <2>1. ASSUME NEW i \in Procs, Ended(i),
               waiter[i] \notin {"none", "return", "done"}
        PROVE  CanGoOn(i)
    BY <2>1 DEF ServedInv
  <2>2. ASSUME NEW i \in Procs, main \notin {"prepare", "add_process"}
        PROVE  waiter[i] # "none"
    BY <2>2 DEF LoopInv
  <2>3. ASSUME main = "pop", ended_process_queue_ = <<>>,
               NEW i \in Procs, Ended(i)
        PROVE  CanGoOn(i)
    BY <2>1, <2>2, <2>3 DEF ServedInv, BeforePop
  <2>4. ASSUME main = "get"
        PROVE  /\ popped \in status_
               /\ waiter[popped] # "done" => CanGoOn(popped)
    BY <2>4 DEF ServedInv
  <2>5. ASSUME main = "join"
        PROVE  /\ execution_ended_
               /\ thread_ \in {"check", "loop", "events", "done"}
    BY <2>5 DEF ServedInv
  <2>6. ASSUME main = "destroy_monitor", NEW i \in status_, waiter[i] # "done"
        PROVE  CanGoOn(i)
    BY <2>1, <2>2, <2>6 DEF KillInv
  <2>. QED  BY <2>3, <2>4, <2>5, <2>6 DEF MainIsServed
<1>. QED
  BY <1>1, InvHolds, ServedInvHolds, KillInvHolds, PTL

-----------------------------------------------------------------------------
(* start() lets go of the processes one by one, and without a fault only   *)
(* those it let go of run or end.                                          *)
HoldInv ==
  runtime = "alive" =>
    /\ \A i \in Procs :
         proc[i] \in {"running", "zombie", "reaped"} => Faults \/ i \in let_go
    /\ Preparing => let_go = {}
    /\ main = "start" => let_go = 1..(next - 1)
    /\ ~Preparing /\ main # "start" => let_go = Procs

(* Without a fault, no process ends before main has written to its pipe.   *)
LEMMA HoldInvHolds == Spec => []HoldInv
<1>. USE BenchmarksAssumption
     DEF HoldInv, Procs, process_vars, waiter_vars, monitor_vars, main_vars
<1>1. Init => HoldInv
  BY DEF Init, Process!Init, Preparing
<1>2. Inv /\ HoldInv /\ [Next]_vars => HoldInv'
  <2>. SUFFICES ASSUME Inv, HoldInv, [Next]_vars PROVE HoldInv'
    OBVIOUS
  <2>. USE DEF Inv, TypeOK, LoopInv, Preparing
  <2>1. CASE prepare_bench
    BY <2>1 DEF prepare_bench, notify_process_creation, At, Loop,
              Process!Prepare, Process!Become
  <2>2. CASE prepare_bench_throws
    BY <2>2 DEF prepare_bench_throws, Abort, At
  <2>3. CASE add_process
    BY <2>3 DEF add_process, At, Loop
  <2>4. CASE start
    BY <2>4 DEF start, At, Loop
  <2>5. CASE start_sigpipe
    BY <2>5 DEF start_sigpipe, Abort, At
  <2>6. CASE start_exec_monitor
    BY <2>6 DEF start_exec_monitor, At, Goto
  <2>7. CASE wait_for_any_pop
    BY <2>7 DEF wait_for_any_pop, At, Goto
  <2>8. CASE wait_for_any_get
    BY <2>8 DEF wait_for_any_get, At, Goto
  <2>9. CASE execution_end
    BY <2>9 DEF execution_end, At, Goto
  <2>10. CASE stop_exec_monitor
    BY <2>10 DEF stop_exec_monitor, At, Goto
  <2>11. CASE kill_process
    BY <2>11 DEF kill_process, At, Loop, Goto
  <2>12. CASE kill
    BY <2>12 DEF kill, At, Loop
  <2>13. CASE destroy_process_monitor
    BY <2>13 DEF destroy_process_monitor, At, Goto
  <2>14. CASE destroy_manager
    BY <2>14 DEF destroy_manager, At
  <2>15. CASE is_execution_over
    BY <2>15 DEF is_execution_over, ThreadGoes, ThreadAt
  <2>16. CASE loop_impl
    BY <2>16 DEF loop_impl, ThreadGoes, ThreadAt
  <2>17. CASE process_event
    BY <2>17 DEF process_event, ThreadGoes, ThreadAt
  <2>18. CASE process_event_throws
    BY <2>18 DEF process_event_throws, Abort, ThreadAt
  <2>19. CASE process_events_done
    BY <2>19 DEF process_events_done, ThreadGoes, ThreadAt
  <2>20. ASSUME NEW i \in Procs, waitpid(i) PROVE HoldInv'
    BY <2>20 DEF waitpid, WaiterGoes, WaiterAt, Process!Reap, Process!Become
  <2>21. ASSUME NEW i \in Procs, set_terminated(i) PROVE HoldInv'
    BY <2>21 DEF set_terminated, WaiterGoes, WaiterAt
  <2>22. ASSUME NEW i \in Procs, push(i) PROVE HoldInv'
    BY <2>22 DEF push, WaiterGoes, WaiterAt
  <2>23. ASSUME NEW i \in Procs, return(i) PROVE HoldInv'
    BY <2>23 DEF return, WaiterGoes, WaiterAt
  <2>24. ASSUME NEW i \in Procs, run(i) PROVE HoldInv'
    BY <2>24 DEF run, RuntimeUnchanged, Process!Run, Process!Become
  <2>25. ASSUME NEW i \in Procs, benchmark_ends(i) PROVE HoldInv'
    BY <2>25 DEF benchmark_ends, RuntimeUnchanged, Process!Die, Process!Become
  <2>26. ASSUME NEW i \in Procs, held_process_dies(i) PROVE HoldInv'
    BY <2>26 DEF held_process_dies, RuntimeUnchanged, Process!Die,
              Process!Become
  <2>27. CASE UNCHANGED vars
    BY <2>27 DEF vars
  <2>28. CASE thread_creation_throws
    BY <2>28 DEF thread_creation_throws, Abort, At
  <2>29. CASE loop_impl_throws
    BY <2>29 DEF loop_impl_throws, Abort, ThreadAt
  <2>. QED
    BY <2>1, <2>2, <2>3, <2>4, <2>5, <2>6, <2>7, <2>8, <2>9, <2>10, <2>11,
       <2>12, <2>13, <2>14, <2>15, <2>16, <2>17, <2>18, <2>19, <2>20,
       <2>21, <2>22, <2>23, <2>24, <2>25, <2>26, <2>27, <2>28, <2>29
       DEF Next, Main, ExecMonitor, Waiter
<1>. QED
  BY <1>1, <1>2, InvHolds, PTL DEF Spec

(* What ends the runtime without its destructors: before the monitor runs, *)
(* an exception of prepare() or of a thread's creation, or SIGPIPE; from   *)
(* then on, a CPU too few for cpu_hopper, or an event of pmc_sampler that  *)
(* cannot be opened, because its process has ended or for another reason,  *)
(* or cannot be read.                                                      *)
WhyAborted ==
  runtime = "aborted" =>
    \/ Faults /\ thread_ = "none"
    \/ type = "cpu-hopper" /\ N >= Cpus /\ thread_ = "events"
    \/ type = "pmc-sampler" /\ thread_ = "events" /\ \E i \in Procs : Ended(i)
    \/ type = "pmc-sampler" /\ thread_ \in {"events", "loop"} /\ Faults

(* Nothing else ends the runtime, in any interleaving, short of a failure  *)
(* of memory, which is not modelled: with the simple monitor it is not     *)
(* aborted any more once the monitor runs, and never without a fault.      *)
THEOREM WhyAbortedHolds == Spec => []WhyAborted
<1>. USE BenchmarksAssumption
     DEF WhyAborted, Ended, process_vars, waiter_vars, monitor_vars, main_vars
<1>1. Init => WhyAborted
  BY DEF Init
<1>2. Inv /\ CpuToSpare /\ ServedInv /\ HoldInv /\ WhyAborted /\ [Next]_vars
        => WhyAborted'
  <2>. SUFFICES ASSUME Inv, CpuToSpare, ServedInv, HoldInv, WhyAborted,
                       [Next]_vars
                PROVE  WhyAborted'
    OBVIOUS
  <2>. USE DEF Inv, TypeOK
  <2>1. CASE prepare_bench
    BY <2>1 DEF prepare_bench, notify_process_creation, At, Loop,
              Process!Prepare, Process!Become
  <2>2. CASE prepare_bench_throws
    BY <2>2 DEF prepare_bench_throws, Abort, At, ServedInv
  <2>3. CASE add_process
    BY <2>3 DEF add_process, At, Loop
  <2>4. CASE start
    BY <2>4 DEF start, At, Loop
  <2>5. CASE start_sigpipe
    <3>1. /\ runtime = "alive" /\ main = "start" /\ thread_ = "none"
          /\ thread_' = thread_
      BY <2>5 DEF start_sigpipe, Abort, At, ServedInv
    <3>2. proc[next] \in {"running", "zombie", "reaped"}
      BY <2>5, <3>1 DEF start_sigpipe, LoopInv
    <3>3. next \notin let_go
      BY <3>1 DEF HoldInv, Preparing, Procs
    <3>. QED  BY <3>1, <3>2, <3>3 DEF HoldInv
  <2>6. CASE start_exec_monitor
    BY <2>6 DEF start_exec_monitor, At, Goto
  <2>7. CASE wait_for_any_pop
    BY <2>7 DEF wait_for_any_pop, At, Goto
  <2>8. CASE wait_for_any_get
    BY <2>8 DEF wait_for_any_get, At, Goto
  <2>9. CASE execution_end
    BY <2>9 DEF execution_end, At, Goto
  <2>10. CASE stop_exec_monitor
    BY <2>10 DEF stop_exec_monitor, At, Goto
  <2>11. CASE kill_process
    BY <2>11 DEF kill_process, At, Loop, Goto
  <2>12. CASE kill
    BY <2>12 DEF kill, At, Loop
  <2>13. CASE destroy_process_monitor
    BY <2>13 DEF destroy_process_monitor, At, Goto
  <2>14. CASE destroy_manager
    BY <2>14 DEF destroy_manager, At
  <2>15. CASE is_execution_over
    BY <2>15 DEF is_execution_over, ThreadGoes, ThreadAt
  <2>16. CASE loop_impl
    BY <2>16 DEF loop_impl, ThreadGoes, ThreadAt
  <2>17. CASE process_event
    BY <2>17 DEF process_event, ThreadGoes, ThreadAt
  <2>18. CASE process_event_throws
    <3>1. thread_' = "events" /\ type' = type /\ proc' = proc
      BY <2>18 DEF process_event_throws, Abort, ThreadAt
    <3>2. Head(event_queue_) \in Procs
      BY <2>18 DEF process_event_throws
    <3>3. CASE HopperThrows
      <4>1. ~(N < Cpus) /\ type = "cpu-hopper"
        BY <2>18, <3>3 DEF process_event_throws, CpuToSpare, HopperThrows
      <4>. QED  BY <3>1, <4>1, EnvironmentAssumption
    <3>4. CASE SamplerThrows(Head(event_queue_))
      BY <3>1, <3>2, <3>4 DEF SamplerThrows
    <3>5. CASE SamplerFails
      BY <3>1, <3>5 DEF SamplerFails
    <3>. QED
      BY <2>18, <3>3, <3>4, <3>5 DEF process_event_throws, HandlerThrows
  <2>19. CASE process_events_done
    BY <2>19 DEF process_events_done, ThreadGoes, ThreadAt
  <2>20. ASSUME NEW i \in Procs, waitpid(i) PROVE WhyAborted'
    BY <2>20 DEF waitpid, WaiterGoes, WaiterAt, Process!Reap, Process!Become
  <2>21. ASSUME NEW i \in Procs, set_terminated(i) PROVE WhyAborted'
    BY <2>21 DEF set_terminated, WaiterGoes, WaiterAt
  <2>22. ASSUME NEW i \in Procs, push(i) PROVE WhyAborted'
    BY <2>22 DEF push, WaiterGoes, WaiterAt
  <2>23. ASSUME NEW i \in Procs, return(i) PROVE WhyAborted'
    BY <2>23 DEF return, WaiterGoes, WaiterAt
  <2>24. ASSUME NEW i \in Procs, run(i) PROVE WhyAborted'
    BY <2>24 DEF run, RuntimeUnchanged, Process!Run, Process!Become
  <2>25. ASSUME NEW i \in Procs, benchmark_ends(i) PROVE WhyAborted'
    BY <2>25 DEF benchmark_ends, RuntimeUnchanged, Process!Die, Process!Become
  <2>26. ASSUME NEW i \in Procs, held_process_dies(i) PROVE WhyAborted'
    BY <2>26 DEF held_process_dies, RuntimeUnchanged, Process!Die,
              Process!Become
  <2>27. CASE UNCHANGED vars
    BY <2>27 DEF vars
  <2>28. CASE thread_creation_throws
    BY <2>28 DEF thread_creation_throws, Abort, At, ServedInv
  <2>29. CASE loop_impl_throws
    BY <2>29 DEF loop_impl_throws, Abort, ThreadAt, SamplerFails
  <2>. QED
    BY <2>1, <2>2, <2>3, <2>4, <2>5, <2>6, <2>7, <2>8, <2>9, <2>10, <2>11,
       <2>12, <2>13, <2>14, <2>15, <2>16, <2>17, <2>18, <2>19, <2>20,
       <2>21, <2>22, <2>23, <2>24, <2>25, <2>26, <2>27, <2>28, <2>29
       DEF Next, Main, ExecMonitor, Waiter
<1>. QED
  BY <1>1, <1>2, InvHolds, CpuToSpareHolds, ServedInvHolds, HoldInvHolds,
     PTL DEF Spec

-----------------------------------------------------------------------------
(* Startup, for any configuration files.  Until the registars are all      *)
(* constructed the factories create what the others have registered.       *)
Registry ==
  /\ pending \subseteq Registars
  /\ creators_ =
       {<<r.factory, r.id, r.class>> : r \in Registars \ pending}

(* What the program has found out about the file when it is at a step.     *)
FindsManager ==
  \E r \in Registered(Manager) :
    r.id = config.manager /\ r.class = exec_manager

FindsMonitor ==
  /\ \E r \in Registered(Monitor) :
       /\ r.id = config.monitor /\ r.class = exec_monitor_
       /\ r.unit = "pmc_sampler" => config.event \in {"linux", "dummy"}
  /\ config.sampling_length \in (1 - Modulus)..(Modulus - 1)

Count == Len(config.benchmarks)
Done == Count - Len(benchs_)

(* The benchmarks before the one the loop is at have their processes, and  *)
(* the others their slots.                                                 *)
Slots ==
  /\ config.benchmarks # None
  /\ \A i \in DOMAIN config.benchmarks :
       None \notin {config.benchmarks[i].name, config.benchmarks[i].cmd}
  /\ benchs_ \in Seq(Range(benchs_)) /\ Len(benchs_) <= Count
  /\ \A j \in 1..Len(benchs_) :
       /\ benchs_[j].id = Done + j - 1
       /\ benchs_[j].args = parse_cmd(config.benchmarks[Done + j].cmd)
  /\ processes_ \in Seq(Range(processes_)) /\ Len(processes_) = Count
  /\ \A i \in 1..Done :
       /\ processes_[i] = parse_cmd(config.benchmarks[i].cmd)
       /\ parse_cmd(config.benchmarks[i].cmd)[1] \in Paths
  /\ \A i \in (Done + 1)..Count : processes_[i] = None

StartupInv ==
  /\ step \in {"static", "exited", "thrown", "read_json", "create_manager",
               "create_monitor", "parse", "prepare", "failed", "started"}
  /\ Registry
  /\ step # "static" => pending = {}
  /\ step \in {"static", "read_json"} => config = None
  /\ step \in {"create_manager", "create_monitor", "parse", "prepare",
               "failed", "started"} => config \in Configs
  /\ step \in {"create_monitor", "parse", "prepare", "failed", "started"} =>
       FindsManager
  /\ step \in {"parse", "prepare", "failed", "started"} => FindsMonitor
  /\ step \in {"prepare", "failed", "started"} => Slots
  /\ step \notin {"prepare", "failed", "started"} =>
       processes_ = <<>> /\ benchs_ = <<>>
  /\ step = "started" => benchs_ = <<>>
  /\ step = "thrown" => (config # None => ~Valid(config))

(* A manager and a monitor are both "simple", but not of one factory.      *)
LEMMA TwoFactories == Manager # Monitor
<1>1. Manager.base = "exec_manager" /\ Monitor.base = "exec_monitor"
  BY DEF Manager, Monitor
<1>. QED  BY <1>1

(* No two registars have the factory and the id in common.                 *)
LEMMA OneCreator ==
  ASSUME NEW r \in Registars, NEW s \in Registars,
         r.factory = s.factory, r.id = s.id
  PROVE  r = s
  BY TwoFactories DEF registar, Registars, simple_manager_registar,
     simple_monitor_registar, cpu_hopper_registar,
     pmc_sampler_linux_registar, pmc_sampler_dummy_registar

(* What create() finds is what the static constructors have registered.    *)
LEMMA CreatorsAre ==
  ASSUME Registry, NEW unit, NEW factory, NEW id
  PROVE  Creators(unit, factory, id) =
           {<<r.factory, r.id, r.class>> :
              r \in {s \in Registars \ pending :
                       s.factory = factory /\ s.id = id}}
  BY DEF Registry, Creators, instance

(* The samplers are the classes that pmc_sampler.cc registers.             *)
LEMMA SamplersAre ==
  ASSUME NEW r \in Registered(Monitor)
  PROVE  r.class \in {"pmc_sampler<linux>", "pmc_sampler<dummy>"} <=>
           r.unit = "pmc_sampler"
  BY TwoFactories DEF registar, Registered, Registars,
     simple_manager_registar, simple_monitor_registar, cpu_hopper_registar,
     pmc_sampler_linux_registar, pmc_sampler_dummy_registar

(* A sequence is a sequence of its elements, and so is the rest of one.    *)
LEMMA OfItsElements ==
  ASSUME NEW S, NEW s \in Seq(S)
  PROVE  s \in Seq(Range(s))
<1>1. s \in [1..Len(s) -> Range(s)] /\ Len(s) \in Nat
  BY DEF Range
<1>. QED  BY <1>1

(* What a loop over a vector has left after one more element.              *)
LEMMA RestIs ==
  ASSUME NEW s, s \in Seq(Range(s)), s # <<>>
  PROVE  /\ Tail(s) \in Seq(Range(Tail(s)))
         /\ Len(Tail(s)) = Len(s) - 1 /\ Len(s) \in Nat \ {0}
         /\ \A j \in 1..Len(Tail(s)) : Tail(s)[j] = s[j + 1]
<1>1. Tail(s) \in Seq(Range(s))
  OBVIOUS
<1>2. Tail(s) \in Seq(Range(Tail(s)))
  BY <1>1, OfItsElements
<1>. QED  BY <1>2

(* A vector of n elements.                                                 *)
LEMMA FunctionIsSequence ==
  ASSUME NEW n \in Nat, NEW f, f = [i \in 1..n |-> f[i]]
  PROVE  f \in Seq(Range(f)) /\ Len(f) = n
<1>1. f \in [1..n -> Range(f)]
  BY DEF Range
<1>. QED  BY <1>1

(* An exception before the first process, from a file that is not valid.   *)
LEMMA ThrowKeeps ==
  ASSUME StartupInv, Throw, pending = {},
         step \notin {"prepare", "failed", "started"},
         config # None => ~Valid(config)
  PROVE  StartupInv'
  BY DEF StartupInv, Throw, Registry, Valid

(* get<unsigned>() accepts what the source asks for.                       *)
LEMMA UnsignedIs ==
  ASSUME NEW c \in Configs
  PROVE  IsUnsigned(c.sampling_length) <=>
           c.sampling_length \in (1 - Modulus)..(Modulus - 1)
<1>. DEFINE n == c.sampling_length
<1>1. None \notin Int /\ (n = None \/ n \in Int)
  BY ConfigsAssumption
<1>. HIDE DEF n
<1>2. IsUnsigned(n) <=> n \in (1 - Modulus)..(Modulus - 1)
  BY <1>1, ModulusAssumption DEF IsUnsigned
<1>. QED  BY <1>2 DEF n

(* The steps of the program keep StartupInv, whatever is in the file.      *)
LEMMA StartupInvHolds == StartupSpec => []StartupInv
<1>1. StartupInit => StartupInv
  BY DEF StartupInit, StartupInv, Registry
<1>2. StartupInv /\ [StartupNext]_startup_vars => StartupInv'
  <2>. SUFFICES ASSUME StartupInv, [StartupNext]_startup_vars
                PROVE  StartupInv'
    OBVIOUS
  <2>. USE DEF objects
  <2>1. ASSUME NEW r \in Registars, register_creator(r) PROVE StartupInv'
    <3>1. Registry /\ r \in pending /\ step = "static"
      BY <2>1 DEF register_creator, StartupInv
    <3>2. Creators(r.unit, r.factory, r.id) = {}
      BY <3>1, CreatorsAre, OneCreator
    <3>3. /\ pending' = pending \ {r} /\ step' = "static"
          /\ creators_' =
               creators_ \cup {<<instance(r.unit, r.factory), r.id, r.class>>}
          /\ UNCHANGED <<config, objects>>
      BY <2>1, <3>2 DEF register_creator
    <3>4. Registry'
      BY <3>1, <3>3 DEF Registry, instance
    <3>. QED  BY <3>1, <3>3, <3>4 DEF StartupInv
  <2>2. ASSUME NEW help \in BOOLEAN, NEW given \in BOOLEAN,
               parse_options(help, given)
        PROVE  StartupInv'
    <3>1. step' \in {"exited", "read_json"}
      BY <2>2 DEF parse_options
    <3>. QED  BY <2>2, <3>1 DEF parse_options, StartupInv, Registry
  <2>3. CASE parse_options_fails
    BY <2>3, ThrowKeeps DEF parse_options_fails, StartupInv
  <2>4. ASSUME NEW c \in Configs, read_json(c) PROVE StartupInv'
    BY <2>4 DEF read_json, StartupInv, Registry
  <2>5. CASE read_json_fails
    BY <2>5, ThrowKeeps DEF read_json_fails, StartupInv
  <2>6. CASE create_manager
    <3>. DEFINE R == {r \in Registars : r.factory = Manager
                                          /\ r.id = config.manager}
    <3>1. /\ step = "create_manager" /\ pending = {} /\ config \in Configs
          /\ Registry
      BY <2>6 DEF create_manager, StartupInv
    <3>2. ManagerCreators = {<<r.factory, r.id, r.class>> : r \in R}
      BY <3>1, CreatorsAre DEF ManagerCreators, ManagerArgs
    <3>3. CASE ManagerCreators = {}
      <4>1. R = {}
        BY <3>2, <3>3
      <4>2. ~Valid(config)
        BY <4>1 DEF Valid, Registered
      <4>. QED  BY <2>6, <3>1, <3>3, <4>2, ThrowKeeps DEF create_manager
    <3>4. CASE ManagerCreators # {}
      <4>. DEFINE c == CHOOSE c \in ManagerCreators : TRUE
      <4>0. /\ exec_manager' = ClassOf(c) /\ step' = "create_monitor"
            /\ UNCHANGED <<pending, creators_, config, exec_monitor_, benchs_,
                           processes_>>
        BY <2>6, <3>4 DEF create_manager
      <4>1. PICK r \in R : c = <<r.factory, r.id, r.class>>
        BY <3>2, <3>4
      <4>. HIDE DEF c
      <4>2. exec_manager' = r.class
        BY <4>0, <4>1 DEF ClassOf
      <4>3. FindsManager'
        BY <4>0, <4>2 DEF FindsManager, Registered
      <4>. QED  BY <3>1, <4>0, <4>3 DEF StartupInv, Registry
    <3>. QED  BY <3>3, <3>4
  <2>7. CASE create_monitor
    <3>. DEFINE R == {r \in Registars : r.factory = Monitor
                                          /\ r.id = config.monitor}
    <3>1. /\ step = "create_monitor" /\ pending = {} /\ config \in Configs
          /\ Registry /\ FindsManager
      BY <2>7 DEF create_monitor, StartupInv
    <3>2. MonitorCreators = {<<r.factory, r.id, r.class>> : r \in R}
      BY <3>1, CreatorsAre DEF MonitorCreators
    <3>3. ASSUME NEW r \in R
          PROVE  Constructs(r.class) <=>
                   /\ config.sampling_length \in (1 - Modulus)..(Modulus - 1)
                   /\ r.unit = "pmc_sampler" =>
                        config.event \in {"linux", "dummy"}
      BY <3>1, UnsignedIs, SamplersAre DEF Constructs, generic_events,
         Registered
    <3>4. CASE /\ \A c \in MonitorCreators : ~Constructs(ClassOf(c))
               /\ Throw
      <4>1. ASSUME NEW r \in R PROVE ~Constructs(r.class)
        <5>1. <<r.factory, r.id, r.class>> \in MonitorCreators
          BY <3>2
        <5>2. ClassOf(<<r.factory, r.id, r.class>>) = r.class
          BY DEF ClassOf
        <5>. QED  BY <3>4, <5>1, <5>2
      <4>2. ~Valid(config)
        BY <3>3, <4>1 DEF Valid, Registered
      <4>. QED  BY <3>1, <3>4, <4>2, ThrowKeeps
    <3>5. CASE /\ \E c \in MonitorCreators :
                    Constructs(ClassOf(c)) /\ exec_monitor_' = ClassOf(c)
               /\ step' = "parse"
               /\ UNCHANGED <<pending, creators_, config, exec_manager, benchs_,
                              processes_>>
      <4>1. PICK r \in R : Constructs(r.class) /\ exec_monitor_' = r.class
        BY <3>2, <3>5 DEF ClassOf
      <4>2. FindsMonitor' /\ FindsManager'
        BY <3>1, <3>3, <3>5, <4>1 DEF FindsMonitor, FindsManager, Registered
      <4>. QED  BY <3>1, <3>5, <4>2 DEF StartupInv, Registry
    <3>. QED  BY <2>7, <3>4, <3>5 DEF create_monitor
  <2>8. CASE parse_benchmarks
    <3>. DEFINE bs == config.benchmarks
                refuses == bs = None \/ \E i \in DOMAIN bs : ~Parses(bs[i])
    <3>1. /\ step = "parse" /\ pending = {} /\ config \in Configs
          /\ Registry /\ FindsManager /\ FindsMonitor
      BY <2>8 DEF parse_benchmarks, StartupInv
    <3>2. CASE refuses
      <4>1. ~Valid(config)
        BY <3>2 DEF Valid, Parses
      <4>. QED  BY <2>8, <3>1, <3>2, <4>1, ThrowKeeps DEF parse_benchmarks
    <3>3. CASE ~refuses
      <4>1. bs \in Seq(Range(bs))
        BY <3>1, <3>3, ConfigsAssumption
      <4>2. DOMAIN bs = 1..Len(bs) /\ Len(bs) \in Nat
        BY <4>1
      <4>3. /\ processes_' = [i \in 1..Len(bs) |-> None]
            /\ benchs_' = [i \in 1..Len(bs) |->
                 [id |-> i - 1, args |-> parse_cmd(bs[i].cmd)]]
            /\ step' = "prepare"
            /\ UNCHANGED <<pending, creators_, config, exec_manager,
                           exec_monitor_>>
        BY <2>8, <3>3, <4>2 DEF parse_benchmarks, Numbered
      <4>4. /\ benchs_' \in Seq(Range(benchs_')) /\ Len(benchs_') = Len(bs)
            /\ processes_' \in Seq(Range(processes_'))
            /\ Len(processes_') = Len(bs)
        BY <4>2, <4>3, FunctionIsSequence
      <4>5. Slots'
        <5>1. Count' = Len(bs) /\ Done' = 0
          BY <4>2, <4>3, <4>4 DEF Count, Done
        <5>2. \A j \in 1..Len(benchs_') :
                /\ benchs_'[j].id = j - 1
                /\ benchs_'[j].args = parse_cmd(bs[j].cmd)
          BY <4>3, <4>4
        <5>3. /\ bs # None
              /\ \A i \in DOMAIN bs : None \notin {bs[i].name, bs[i].cmd}
          BY <3>3 DEF Parses
        <5>4. config'.benchmarks = bs
          BY <4>3
        <5>5. \A j \in 1..Len(benchs_') :
                /\ benchs_'[j].id = Done' + j - 1
                /\ benchs_'[j].args = parse_cmd(bs[Done' + j].cmd)
          BY <4>2, <4>4, <5>1, <5>2
        <5>6. /\ 1..Done' = {}
              /\ \A i \in (Done' + 1)..Count' : processes_'[i] = None
          BY <4>2, <4>3, <5>1
        <5>7. Len(benchs_') <= Count' /\ Len(processes_') = Count'
          BY <4>2, <4>4, <5>1
        <5>. HIDE DEF bs
        <5>. QED  BY <4>4, <5>3, <5>4, <5>5, <5>6, <5>7 DEF Slots
      <4>6. FindsManager' /\ FindsMonitor'
        BY <3>1, <4>3 DEF FindsManager, FindsMonitor
      <4>. QED  BY <3>1, <4>3, <4>5, <4>6 DEF StartupInv, Registry
    <3>. QED  BY <3>2, <3>3
  <2>9. CASE benchs_ # <<>> /\ prepare_next_bench(Head(benchs_))
    <3>1. /\ step = "prepare" /\ pending = {} /\ config \in Configs
          /\ Registry /\ FindsManager /\ FindsMonitor /\ Slots
      BY <2>9 DEF prepare_next_bench, StartupInv
    <3>2. /\ Count \in Nat /\ Len(benchs_) \in Nat \ {0}
          /\ Head(benchs_) = benchs_[1] /\ Done \in Nat /\ Done < Count
      BY <2>9, <3>1, ConfigsAssumption DEF Slots, Count, Done
    <3>3. /\ processes_' = [processes_ EXCEPT ![Done + 1] =
               parse_cmd(config.benchmarks[Done + 1].cmd)]
          /\ benchs_' = Tail(benchs_)
          /\ UNCHANGED <<step, pending, creators_, config, exec_manager,
                         exec_monitor_>>
      <4>1. /\ benchs_[1].id + 1 = Done + 1
            /\ benchs_[1].args = parse_cmd(config.benchmarks[Done + 1].cmd)
        <5>1. 1 \in 1..Len(benchs_) /\ Done + 1 - 1 = Done
          BY <3>2
        <5>. QED  BY <3>1, <5>1 DEF Slots
      <4>. QED  BY <2>9, <3>2, <4>1 DEF prepare_next_bench
    <3>4. /\ benchs_' \in Seq(Range(benchs_'))
          /\ Len(benchs_') = Len(benchs_) - 1
          /\ \A j \in 1..Len(benchs_') : benchs_'[j] = benchs_[j + 1]
      BY <2>9, <3>1, <3>3, RestIs DEF Slots
    <3>5. Count' = Count /\ Done' = Done + 1
      BY <3>2, <3>3, <3>4 DEF Count, Done
    <3>6. /\ processes_' \in Seq(Range(processes_')) /\ Len(processes_') = Count
          /\ processes_'[Done + 1] =
               parse_cmd(config.benchmarks[Done + 1].cmd)
          /\ \A i \in (1..Count) \ {Done + 1} : processes_'[i] = processes_[i]
      <4>1. DOMAIN processes_ = 1..Count
        BY <3>1 DEF Slots
      <4>2. processes_' = [i \in 1..Count |-> processes_'[i]]
        BY <3>3, <4>1
      <4>3. /\ processes_' \in Seq(Range(processes_'))
            /\ Len(processes_') = Count
        BY <3>2, <4>2, FunctionIsSequence
      <4>4. Done + 1 \in 1..Count
        BY <3>2
      <4>. QED  BY <3>3, <4>1, <4>3, <4>4
    <3>7. Slots'
      <4>1. parse_cmd(config.benchmarks[Done + 1].cmd)[1] \in Paths
        <5>1. benchs_[1].args[1] \in Paths
          BY <2>9, <3>2 DEF prepare_next_bench
        <5>2. 1 \in 1..Len(benchs_)
          BY <3>2
        <5>. QED  BY <3>1, <5>1, <5>2 DEF Slots
      <4>2. \A i \in 1..Done' :
              /\ processes_'[i] = parse_cmd(config.benchmarks[i].cmd)
              /\ parse_cmd(config.benchmarks[i].cmd)[1] \in Paths
        <5>1. \A i \in 1..Done' : i = Done + 1 \/
                (i \in 1..Done /\ i \in (1..Count) \ {Done + 1})
          BY <3>2, <3>5
        <5>. QED  BY <3>1, <3>6, <4>1, <5>1 DEF Slots
      <4>3. \A i \in (Done' + 1)..Count' : processes_'[i] = None
        <5>1. \A i \in (Done' + 1)..Count' :
                i \in (Done + 1)..Count /\ i \in (1..Count) \ {Done + 1}
          BY <3>2, <3>5
        <5>. QED  BY <3>1, <3>6, <5>1 DEF Slots
      <4>4. \A j \in 1..Len(benchs_') :
              /\ benchs_'[j].id = Done' + j - 1
              /\ benchs_'[j].args = parse_cmd(config.benchmarks[Done' + j].cmd)
        <5>1. \A j \in 1..Len(benchs_') :
                /\ j + 1 \in 1..Len(benchs_)
                /\ Done + (j + 1) = Done' + j
                /\ Done + (j + 1) - 1 = Done' + j - 1
          BY <3>2, <3>4, <3>5
        <5>2. \A k \in 1..Len(benchs_) :
                /\ benchs_[k].id = Done + k - 1
                /\ benchs_[k].args = parse_cmd(config.benchmarks[Done + k].cmd)
          BY <3>1 DEF Slots
        <5>3. \A j \in 1..Len(benchs_') :
                benchs_'[j].id = Done' + j - 1
          BY ONLY <3>4, <5>1, <5>2
        <5>4. \A j \in 1..Len(benchs_') :
                benchs_'[j].args = parse_cmd(config.benchmarks[Done' + j].cmd)
          <6>. SUFFICES ASSUME NEW j \in 1..Len(benchs_')
                        PROVE  benchs_'[j].args =
                                 parse_cmd(config.benchmarks[Done' + j].cmd)
            OBVIOUS
          <6>1. j + 1 \in 1..Len(benchs_) /\ Done + (j + 1) = Done' + j
            BY ONLY <5>1
          <6>2. benchs_[j + 1].args =
                  parse_cmd(config.benchmarks[Done + (j + 1)].cmd)
            BY ONLY <5>2, <6>1
          <6>3. benchs_'[j] = benchs_[j + 1]
            BY ONLY <3>4
          <6>. QED  BY ONLY <6>1, <6>2, <6>3
        <5>. QED  BY <5>3, <5>4
      <4>5. Len(benchs_') <= Count'
        BY <3>2, <3>4, <3>5, <3>1 DEF Slots
      <4>. QED
        BY <3>1, <3>3, <3>4, <3>5, <3>6, <4>2, <4>3, <4>4, <4>5 DEF Slots
    <3>8. FindsManager' /\ FindsMonitor'
      BY <3>1, <3>3 DEF FindsManager, FindsMonitor
    <3>. QED  BY <3>1, <3>3, <3>7, <3>8 DEF StartupInv, Registry
  <2>10. CASE prepare_done
    BY <2>10 DEF prepare_done, StartupInv, Registry, FindsManager,
       FindsMonitor, Slots, Count, Done
  <2>11. CASE prepare_next_bench_throws
    BY <2>11 DEF prepare_next_bench_throws, objects, StartupInv, Registry,
       FindsManager, FindsMonitor, Slots, Count, Done
  <2>12. CASE UNCHANGED startup_vars
    BY <2>12 DEF startup_vars, StartupInv, Registry, FindsManager,
       FindsMonitor, Slots, Count, Done, Valid
  <2>. QED
    BY <2>1, <2>2, <2>3, <2>4, <2>5, <2>6, <2>7, <2>8, <2>9, <2>10, <2>11,
       <2>12 DEF StartupNext
<1>. QED
  BY <1>1, <1>2, PTL DEF StartupSpec

(* The assertion of register_creator() on a second creator with the same   *)
(* id never ends the program, in whatever order the files are initialised. *)
THEOREM NeverAborts == StartupSpec => [](step # "aborted")
<1>1. StartupInv => step # "aborted"
  BY DEF StartupInv
<1>. QED
  BY <1>1, StartupInvHolds, PTL

(* Only with a file that is valid does the program get to its first        *)
(* process, with objects of the classes it names, and only a file that is  *)
(* not valid is refused before that; whoever gets past the loop that       *)
(* prepares the processes named programs that exist.                       *)
THEOREM RunsTheValidHolds == StartupSpec => []RunsTheValid
<1>1. StartupInv => RunsTheValid
  <2>. SUFFICES ASSUME StartupInv PROVE RunsTheValid
    OBVIOUS
  <2>1. ASSUME step \in {"prepare", "failed", "started"}
        PROVE  /\ Valid(config)
               /\ \E r \in Registered(Manager) :
                    r.id = config.manager /\ r.class = exec_manager
               /\ \E r \in Registered(Monitor) :
                    r.id = config.monitor /\ r.class = exec_monitor_
    BY <2>1 DEF StartupInv, FindsManager, FindsMonitor, Slots, Valid
  <2>2. ASSUME step = "thrown"
        PROVE  /\ config # None => ~Valid(config)
               /\ \A i \in DOMAIN processes_ : processes_[i] = None
    BY <2>2 DEF StartupInv
  <2>3. ASSUME step = "started", NEW i \in DOMAIN config.benchmarks
        PROVE  parse_cmd(config.benchmarks[i].cmd)[1] \in Paths
    <3>1. Slots /\ benchs_ = <<>> /\ config \in Configs
      BY <2>3 DEF StartupInv
    <3>2. Count \in Nat /\ Done = Count /\ DOMAIN config.benchmarks = 1..Count
      BY <3>1, ConfigsAssumption DEF Slots, Count, Done
    <3>. QED  BY <2>3, <3>1, <3>2 DEF Slots
  <2>. QED  BY <2>1, <2>2, <2>3 DEF RunsTheValid
<1>. QED
  BY <1>1, StartupInvHolds, PTL

(* For any number of benchmarks, start_impl() leaves no slot of processes_ *)
(* empty and none with the process of another benchmark; an exception in   *)
(* the loop leaves the processes of the benchmarks before it, and no other.*)
THEOREM EverySlotFilledHolds == StartupSpec => []EverySlotFilled
<1>1. StartupInv => EverySlotFilled
  <2>. SUFFICES ASSUME StartupInv, step \in {"failed", "started"}
                PROVE  /\ Len(processes_) = Len(config.benchmarks)
                       /\ \A i \in DOMAIN processes_ : processes_[i] =
                            IF i <= Len(processes_) - Len(benchs_)
                            THEN parse_cmd(config.benchmarks[i].cmd) ELSE None
                       /\ step = "started" => benchs_ = <<>>
    BY DEF EverySlotFilled
  <2>1. Slots /\ config \in Configs /\ (step = "started" => benchs_ = <<>>)
    BY DEF StartupInv
  <2>2. /\ Count \in Nat /\ DOMAIN processes_ = 1..Count
        /\ Len(processes_) = Count /\ Done = Count - Len(benchs_)
        /\ Len(benchs_) \in Nat
    BY <2>1, ConfigsAssumption DEF Slots, Count, Done
  <2>3. \A i \in 1..Count : IF i <= Count - Len(benchs_) THEN i \in 1..Done
                            ELSE i \in (Done + 1)..Count
    BY <2>2
  <2>. QED  BY <2>1, <2>2, <2>3 DEF Slots, Count
<1>. QED
  BY <1>1, StartupInvHolds, PTL

-----------------------------------------------------------------------------
(* The commands.  What split() and Join() compute is shown by induction    *)
(* over the characters and the arguments, as the absence of a least        *)
(* counterexample.                                                         *)

(* A set of numbers that is not empty has a least element.                 *)
LEMMA LeastIn ==
  ASSUME NEW S, S \subseteq Nat, S # {}
  PROVE  \E m \in S : \A n \in S : m <= n
<1>. DEFINE R == {ss \in Nat \X Nat : ss[1] < ss[2]}
<1>1. \E m \in S : \A n \in S : ~ (<<n, m>> \in R)
  <2>1. IsWellFoundedOn(R, Nat)
    BY NatLessThanWellFounded DEF OpToRel
  <2>. HIDE DEF R
  <2>. QED  BY <2>1, WFMin
<1>2. PICK m \in S : \A n \in S : ~ (<<n, m>> \in R)
  BY <1>1
<1>3. ASSUME NEW n \in S PROVE m <= n
  <2>1. m \in Nat /\ n \in Nat /\ ~ (n < m)
    BY <1>2
  <2>. QED  BY <2>1
<1>. QED  BY <1>3

(* The recursion of split() has a solution, character by character.        *)
LEMMA PiecesOf ==
  ASSUME NEW cmd, Len(cmd) \in Nat
  PROVE  \E p : /\ p[0] = << <<>> >>
                /\ \A n \in 1..Len(cmd) : p[n] = Adds(p[n - 1], cmd[n])
                /\ split(cmd) = p[Len(cmd)]
<1>. DEFINE Step(f, n) == IF n = 0 THEN << <<>> >> ELSE Adds(f[n - 1], cmd[n])
            Solves(f, n) == f = [k \in 0..n |-> Step(f, k)]
            Bad == {n \in Nat : ~\E f : Solves(f, n)}
<1>1. Bad = {}
  <2>. SUFFICES ASSUME Bad # {} PROVE FALSE
    OBVIOUS
  <2>1. PICK m \in Bad : \A n \in Bad : m <= n
    <3>. HIDE DEF Bad
    <3>1. Bad \subseteq Nat
      BY DEF Bad
    <3>. QED  BY <3>1, LeastIn
  <2>2. m # 0
    <3>1. Solves([k \in 0..0 |-> << <<>> >>], 0)
      OBVIOUS
    <3>. QED  BY <2>1, <3>1
  <2>3. m \in Nat /\ m - 1 \in Nat /\ m - 1 \notin Bad
    <3>1. m \in Nat
      OBVIOUS
    <3>. HIDE DEF Bad
    <3>. QED  BY <2>1, <2>2, <3>1
  <2>4. PICK f : Solves(f, m - 1)
    BY <2>3
  <2>. DEFINE g == [k \in 0..m |-> IF k = m THEN Step(f, m) ELSE f[k]]
  <2>5. ASSUME NEW k \in 0..m PROVE g[k] = Step(g, k)
    <3>1. CASE k = m
      <4>1. g[m - 1] = f[m - 1] /\ m # 0
        BY <2>2, <2>3
      <4>. QED  BY <3>1, <4>1
    <3>2. CASE k # m
      <4>1. k \in 0..(m - 1) /\ g[k] = f[k] /\ f[k] = Step(f, k)
        BY <2>3, <2>4, <3>2
      <4>2. k # 0 => g[k - 1] = f[k - 1]
        BY <2>3, <4>1
      <4>. QED  BY <4>1, <4>2
    <3>. QED  BY <3>1, <3>2
  <2>6. Solves(g, m)
    BY <2>5
  <2>. QED  BY <2>1, <2>6
<1>. DEFINE p == CHOOSE f : Solves(f, Len(cmd))
<1>2. Solves(p, Len(cmd))
  BY <1>1
<1>3. split(cmd) = p[Len(cmd)]
  BY DEF split
<1>. HIDE DEF p
<1>4. p[0] = << <<>> >> /\ \A n \in 1..Len(cmd) : p[n] = Adds(p[n - 1], cmd[n])
  BY <1>2
<1>. QED  BY <1>3, <1>4

(* j[k] is the first k arguments joined, for every k up to n.               *)
Joins(j, args, n) ==
  /\ j[1] = args[1]
  /\ \A k \in 2..n : j[k] = Rejoin(j[k - 1], args[k])

(* The first n elements of a and b are the same, and sequences over T.     *)
Agree(a, b, n, T) == \A k \in 1..n : a[k] = b[k] /\ a[k] \in Seq(T)

(* The recursion of Join() has a solution, argument by argument.           *)
LEMMA JoinedBy ==
  ASSUME NEW args, Len(args) \in Nat \ {0}
  PROVE  \E j : Joins(j, args, Len(args)) /\ Join(args) = j[Len(args)]
<1>. DEFINE Step(f, k) ==
              IF k = 1 THEN args[1] ELSE Rejoin(f[k - 1], args[k])
            Solves(f, n) == f = [k \in 1..n |-> Step(f, k)]
            Bad == {n \in Nat : ~\E f : Solves(f, n)}
<1>1. Bad = {}
  <2>. SUFFICES ASSUME Bad # {} PROVE FALSE
    OBVIOUS
  <2>1. PICK m \in Bad : \A n \in Bad : m <= n
    <3>. HIDE DEF Bad
    <3>1. Bad \subseteq Nat
      BY DEF Bad
    <3>. QED  BY <3>1, LeastIn
  <2>2. m # 0
    <3>1. Solves([k \in 1..0 |-> 0], 0)
      OBVIOUS
    <3>. QED  BY <2>1, <3>1
  <2>3. m \in Nat /\ m - 1 \in Nat /\ m - 1 \notin Bad
    <3>1. m \in Nat
      OBVIOUS
    <3>. HIDE DEF Bad
    <3>. QED  BY <2>1, <2>2, <3>1
  <2>4. PICK f : Solves(f, m - 1)
    BY <2>3
  <2>. DEFINE g == [k \in 1..m |-> IF k = m THEN Step(f, m) ELSE f[k]]
  <2>5. ASSUME NEW k \in 1..m PROVE g[k] = Step(g, k)
    <3>1. CASE k = m
      <4>1. m # 1 => g[m - 1] = f[m - 1]
        BY <2>2, <2>3
      <4>. QED  BY <3>1, <4>1
    <3>2. CASE k # m
      <4>1. k \in 1..(m - 1) /\ g[k] = f[k] /\ f[k] = Step(f, k)
        BY <2>3, <2>4, <3>2
      <4>2. k # 1 => g[k - 1] = f[k - 1]
        BY <2>3, <4>1
      <4>. QED  BY <4>1, <4>2
    <3>. QED  BY <3>1, <3>2
  <2>6. Solves(g, m)
    BY <2>5
  <2>. QED  BY <2>1, <2>6
<1>. DEFINE j == CHOOSE f : Solves(f, Len(args))
<1>2. Solves(j, Len(args))
  BY <1>1
<1>3. Join(args) = j[Len(args)]
  BY DEF Join
<1>. HIDE DEF j
<1>4. j[1] = args[1]
  BY <1>2
<1>5. ASSUME NEW k \in 2..Len(args)
      PROVE  j[k] = Rejoin(j[k - 1], args[k])
  BY <1>2
<1>. QED  BY <1>3, <1>4, <1>5 DEF Joins

(* Arguments that agree up to the m-th are joined to the same.             *)
LEMMA JoinedPrefix ==
  ASSUME NEW T, Space \in T, NEW m \in Nat, NEW a, NEW b, Agree(a, b, m, T),
         NEW i, Joins(i, a, m), NEW j, Joins(j, b, m)
  PROVE  Agree(i, j, m, T)
<1>. USE DEF Agree, Joins
<1>. DEFINE Bad == {k \in 1..m : ~(i[k] = j[k] /\ i[k] \in Seq(T))}
<1>1. Bad \subseteq Nat
  OBVIOUS
<1>. SUFFICES ASSUME Bad # {} PROVE FALSE
  OBVIOUS
<1>2. PICK k \in Bad : \A n \in Bad : k <= n
  <2>. HIDE DEF Bad
  <2>. QED  BY <1>1, LeastIn
<1>3. k \in 2..m /\ k - 1 \in 1..m /\ k - 1 \notin Bad
  <2>1. k \in 1..m /\ k # 1
    OBVIOUS
  <2>2. k - 1 \notin Bad
    <3>. HIDE DEF Bad
    <3>. QED  BY <1>2, <2>1
  <2>. QED  BY <2>1, <2>2
<1>4. i[k - 1] = j[k - 1] /\ i[k - 1] \in Seq(T)
  BY <1>3
<1>5. i[k] = j[k]
  BY <1>3, <1>4
<1>6. i[k] \in Seq(T)
  <2>1. i[k] = Rejoin(i[k - 1], a[k]) /\ a[k] \in Seq(T)
    BY <1>3
  <2>2. <<Space>> \in Seq(T)
    OBVIOUS
  <2>. QED  BY <1>4, <2>1, <2>2 DEF Rejoin
<1>. QED  BY <1>5, <1>6

(* Another argument is joined with a space.                                *)
LEMMA JoinOneMore ==
  ASSUME NEW T, Space \in T, NEW args \in Seq(Seq(T)), args # <<>>,
         NEW x \in Seq(T)
  PROVE  Join(Append(args, x)) = Rejoin(Join(args), x) /\ Join(args) \in Seq(T)
<1>. DEFINE m == Len(args)  more == Append(args, x)
<1>1. m \in Nat \ {0} /\ Len(more) = m + 1 /\ more[m + 1] = x
  OBVIOUS
<1>2. Agree(args, more, m, T)
  BY DEF Agree
<1>. HIDE DEF m, more
<1>3. PICK i : Joins(i, args, m) /\ Join(args) = i[m]
  BY <1>1, JoinedBy DEF m
<1>4. PICK j : Joins(j, more, m + 1) /\ Join(more) = j[m + 1]
  <2>1. Len(more) \in Nat \ {0}
    BY <1>1
  <2>2. \E j : Joins(j, more, Len(more)) /\ Join(more) = j[Len(more)]
    BY <2>1, JoinedBy
  <2>. QED  BY <1>1, <2>2
<1>5. Joins(j, more, m)
  BY <1>1, <1>4 DEF Joins
<1>6. Agree(i, j, m, T)
  BY <1>1, <1>2, <1>3, <1>5, JoinedPrefix
<1>7. i[m] = j[m] /\ i[m] \in Seq(T)
  BY <1>1, <1>6 DEF Agree
<1>8. j[m + 1] = Rejoin(j[m], x)
  BY <1>1, <1>4 DEF Joins
<1>. QED  BY <1>3, <1>4, <1>7, <1>8 DEF more

(* The last argument grows by a character, and what is joined with it.     *)
LEMMA JoinOneLonger ==
  ASSUME NEW T, Space \in T, NEW args \in Seq(Seq(T)), args # <<>>,
         NEW c \in T
  PROVE  Join([args EXCEPT ![Len(args)] = Append(@, c)]) = Append(Join(args), c)
<1>. DEFINE m == Len(args)  x == args[m]  y == Append(x, c)
            longer == [args EXCEPT ![m] = y]
<1>1. m \in Nat \ {0} /\ x \in Seq(T) /\ y \in Seq(T)
  OBVIOUS
<1>2. Len(longer) = m /\ longer[m] = y
  OBVIOUS
<1>3. Agree(args, longer, m - 1, T)
  BY DEF Agree
<1>4. [args EXCEPT ![Len(args)] = Append(@, c)] = longer
  OBVIOUS
<1>5. args[m] = x /\ y = Append(x, c)
  OBVIOUS
<1>. HIDE DEF m, x, y, longer
<1>6. PICK i : Joins(i, args, m) /\ Join(args) = i[m]
  BY <1>1, JoinedBy DEF m
<1>7. PICK j : Joins(j, longer, m) /\ Join(longer) = j[m]
  BY <1>1, <1>2, JoinedBy
<1>8. j[m] = Append(i[m], c)
  <2>1. CASE m = 1
    BY <1>2, <1>5, <1>6, <1>7, <2>1 DEF Joins
  <2>2. CASE m # 1
    <3>1. m - 1 \in Nat /\ m - 1 \in 1..(m - 1) /\ m \in 2..m
      BY <1>1, <2>2
    <3>2. Joins(i, args, m - 1) /\ Joins(j, longer, m - 1)
      <4>1. \A k \in 2..(m - 1) : k \in 2..m
        BY <1>1
      <4>2. Joins(i, args, m - 1)
        BY <1>6, <4>1 DEF Joins
      <4>3. Joins(j, longer, m - 1)
        BY <1>7, <4>1 DEF Joins
      <4>. QED  BY <4>2, <4>3
    <3>3. Agree(i, j, m - 1, T)
      BY <1>3, <3>1, <3>2, JoinedPrefix
    <3>4. i[m - 1] = j[m - 1] /\ i[m - 1] \in Seq(T)
      BY <3>1, <3>3 DEF Agree
    <3>5. i[m] = Rejoin(i[m - 1], x)
      BY <1>5, <1>6, <3>1 DEF Joins
    <3>6. j[m] = Rejoin(i[m - 1], y)
      BY <1>2, <1>7, <3>1, <3>4 DEF Joins
    <3>7. ASSUME NEW u \in Seq(T)
          PROVE  Rejoin(u, Append(x, c)) = Append(Rejoin(u, x), c)
      <4>1. <<Space>> \in Seq(T) /\ u \o <<Space>> \in Seq(T)
        OBVIOUS
      <4>2. \A v \in Seq(T) : v \o Append(x, c) = Append(v \o x, c)
        BY <1>1
      <4>. QED  BY <4>1, <4>2 DEF Rejoin
    <3>. QED  BY <1>5, <3>4, <3>5, <3>6, <3>7
  <2>. QED  BY <2>1, <2>2
<1>. QED  BY <1>4, <1>6, <1>7, <1>8

(* One argument is joined to itself.                                       *)
LEMMA JoinOfOne ==
  ASSUME NEW x
  PROVE  Join(<<x>>) = x
<1>1. Len(<<x>>) = 1 /\ <<x>>[1] = x
  OBVIOUS
<1>. DEFINE args == <<x>>
<1>. HIDE DEF args
<1>2. Len(args) = 1 /\ args[1] = x
  BY <1>1 DEF args
<1>3. PICK j : Joins(j, args, Len(args)) /\ Join(args) = j[Len(args)]
  <2>1. Len(args) \in Nat \ {0}
    BY <1>2
  <2>. QED  BY <2>1, JoinedBy
<1>4. Join(args) = x
  BY <1>2, <1>3 DEF Joins
<1>. QED  BY <1>4 DEF args

(* What ArgvIsCommand says of an argument.                                 *)
NoSpace(s) == \A k \in DOMAIN s : s[k] # Space

(* Cutting a command at its spaces loses nothing, whatever the command.    *)
LEMMA SplitIs ==
  ASSUME NEW S, NEW cmd \in Seq(S)
  PROVE  /\ split(cmd) # <<>>
         /\ \A i \in DOMAIN split(cmd) : NoSpace(split(cmd)[i])
         /\ Join(split(cmd)) = cmd
<1>. DEFINE T == S \cup {Space}  L == Len(cmd)
            Good(s, n) == /\ s \in Seq(Seq(T)) /\ s # <<>>
                          /\ \A i \in DOMAIN s : NoSpace(s[i])
                          /\ Join(s) = SubSeq(cmd, 1, n)
<1>1. L \in Nat /\ cmd \in Seq(T) /\ Space \in T
  OBVIOUS
<1>2. PICK p : /\ p[0] = << <<>> >>
               /\ \A n \in 1..L : p[n] = Adds(p[n - 1], cmd[n])
               /\ split(cmd) = p[L]
  BY <1>1, PiecesOf
<1>. HIDE DEF T
<1>3. Good(p[0], 0)
  <2>1. SubSeq(cmd, 1, 0) = <<>>
    BY <1>1
  <2>2. << <<>> >> \in Seq(Seq(T)) /\ << <<>> >> # <<>>
    OBVIOUS
  <2>3. \A i \in DOMAIN << <<>> >> : NoSpace(<< <<>> >>[i])
    BY DEF NoSpace
  <2>. QED  BY <1>2, <2>1, <2>2, <2>3, JoinOfOne
<1>4. ASSUME NEW n \in 1..L, Good(p[n - 1], n - 1)
      PROVE  Good(p[n], n)
  <2>. DEFINE s == p[n - 1]  c == cmd[n]
  <2>1. /\ p[n] = Adds(s, c) /\ c \in T
        /\ s \in Seq(Seq(T)) /\ s # <<>>
        /\ \A i \in DOMAIN s : NoSpace(s[i])
        /\ Join(s) = SubSeq(cmd, 1, n - 1)
    BY <1>1, <1>2, <1>4
  <2>2. /\ SubSeq(cmd, 1, n) = Append(SubSeq(cmd, 1, n - 1), c)
        /\ SubSeq(cmd, 1, n - 1) \in Seq(T)
    BY <1>1
  <2>. HIDE DEF s, c
  <2>3. CASE c = Space
    <3>1. p[n] = Append(s, <<>>) /\ <<>> \in Seq(T)
      BY <2>1, <2>3 DEF Adds
    <3>2. Append(s, <<>>) \in Seq(Seq(T)) /\ Append(s, <<>>) # <<>>
      <4>. DEFINE V == Seq(T)
      <4>1. \A v \in V : Append(s, v) \in Seq(V) /\ Append(s, v) # <<>>
        <5>1. s \in Seq(V)
          BY <2>1
        <5>. HIDE DEF V
        <5>. QED  BY <5>1
      <4>. QED  BY <3>1, <4>1, Zenon
    <3>3. \A i \in DOMAIN Append(s, <<>>) : NoSpace(Append(s, <<>>)[i])
      BY <2>1 DEF NoSpace
    <3>4. Join(Append(s, <<>>)) = Rejoin(Join(s), <<>>)
      BY <1>1, <2>1, <3>1, JoinOneMore
    <3>5. \A t \in Seq(T) : Rejoin(t, <<>>) = Append(t, Space)
      BY <1>1 DEF Rejoin
    <3>. QED  BY <2>1, <2>2, <2>3, <3>1, <3>2, <3>3, <3>4, <3>5
  <2>4. CASE c # Space
    <3>. DEFINE t == [s EXCEPT ![Len(s)] = Append(@, c)]
    <3>1. p[n] = t
      BY <2>1, <2>4 DEF Adds
    <3>2. t \in Seq(Seq(T)) /\ t # <<>> /\ DOMAIN t = DOMAIN s
      BY <2>1
    <3>3. ASSUME NEW i \in DOMAIN t PROVE NoSpace(t[i])
      <4>1. i # Len(s) => t[i] = s[i]
        BY <2>1, <3>2
      <4>2. i = Len(s) => t[i] = Append(s[i], c)
        BY <2>1, <3>2
      <4>3. s[i] \in Seq(T) /\ NoSpace(s[i])
        BY <2>1, <3>2
      <4>4. NoSpace(Append(s[i], c))
        BY <2>4, <4>3 DEF NoSpace
      <4>. QED  BY <4>1, <4>2, <4>3, <4>4
    <3>4. Join(t) = Append(Join(s), c)
      BY <1>1, <2>1, JoinOneLonger
    <3>. HIDE DEF t
    <3>. QED  BY <2>1, <2>2, <3>1, <3>2, <3>3, <3>4
  <2>. QED  BY <2>3, <2>4
<1>5. Good(p[L], L)
  <2>. DEFINE Bad == {n \in 0..L : ~Good(p[n], n)}
  <2>. SUFFICES ASSUME L \in Bad PROVE FALSE
    BY <1>1
  <2>. HIDE DEF Good
  <2>1. PICK m \in Bad : \A n \in Bad : m <= n
    <3>1. Bad \subseteq Nat
      OBVIOUS
    <3>. HIDE DEF Bad
    <3>. QED  BY <3>1, LeastIn
  <2>2. m \in 1..L
    BY <1>1, <1>3
  <2>3. m - 1 \in 0..L /\ m - 1 \notin Bad
    <3>. HIDE DEF Bad
    <3>. QED  BY <1>1, <2>1, <2>2
  <2>. QED  BY <1>4, <2>2, <2>3
<1>6. SubSeq(cmd, 1, L) = cmd
  BY <1>1
<1>. QED  BY <1>2, <1>5, <1>6

(* Whatever the commands in the file, of any length, the arguments of each *)
(* process are its command cut at every space: there is one, none has a    *)
(* space, and with the spaces put back they are the command.               *)
THEOREM ArgvIsCommandHolds == StartupSpec => []ArgvIsCommand
<1>1. StartupInv => ArgvIsCommand
  <2>. SUFFICES ASSUME StartupInv, NEW i \in DOMAIN benchs_
                PROVE  LET args == benchs_[i].args IN
                       /\ args # <<>>
                       /\ \A j \in DOMAIN args : NoSpace(args[j])
                       /\ \E c \in Range(config.benchmarks) : Join(args) = c.cmd
    BY DEF ArgvIsCommand, NoSpace
  <2>. DEFINE bs == config.benchmarks
  <2>1. Slots /\ config \in Configs
    BY DEF StartupInv
  <2>2. /\ bs # None /\ bs \in Seq(Range(bs))
        /\ \A b \in Range(bs) : b.cmd = None \/ b.cmd \in Seq(Range(b.cmd))
    BY <2>1, ConfigsAssumption DEF Slots
  <2>3. i \in 1..Len(benchs_) /\ Len(benchs_) \in Nat
    BY <2>1 DEF Slots
  <2>4. Done + i \in 1..Len(bs)
    BY <2>1, <2>2, <2>3 DEF Slots, Count, Done
  <2>. DEFINE b == bs[Done + i]
  <2>5. b \in Range(bs) /\ b.cmd # None
    BY <2>1, <2>2, <2>4 DEF Slots, Range
  <2>6. benchs_[i].args = split(b.cmd)
    BY <2>1, <2>3 DEF Slots, parse_cmd
  <2>7. b.cmd \in Seq(Range(b.cmd))
    BY <2>2, <2>5
  <2>. HIDE DEF b
  <2>. QED  BY <2>5, <2>6, <2>7, SplitIs
<1>. QED
  BY <1>1, StartupInvHolds, PTL

=============================================================================
