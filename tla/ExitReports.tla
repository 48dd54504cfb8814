---------------------------- MODULE ExitReports ----------------------------
(***************************************************************************)
(* What process_monitor (src/src/core/process_monitor.h) promises: every   *)
(* process that was added is reported by one wait_for_any(), after it      *)
(* ended and with the status it ended with.  A process is named <<p, n>>,  *)
(* the n-th process to have pid p, because pids are used again.            *)
(***************************************************************************)
CONSTANT Runs        \* the processes that may exist

VARIABLES watched,   \* added and not reported yet
          ended,     \* ended their execution
          reported,  \* returned by a wait_for_any()
          calling    \* whether the owner is inside wait_for_any()

vars == <<watched, ended, reported, calling>>

Init ==
  /\ watched = {}
  /\ ended = {}
  /\ reported = {}
  /\ calling = FALSE

Watch(r) ==
  /\ r \notin watched \cup reported
  /\ watched' = watched \cup {r}
  /\ UNCHANGED <<ended, reported, calling>>

End(r) ==
  /\ ended' = ended \cup {r}
  /\ UNCHANGED <<watched, reported, calling>>

Call ==
  /\ calling' = TRUE
  /\ UNCHANGED <<watched, ended, reported>>

Report(r) ==
  /\ calling
  /\ r \in watched \cap ended
  /\ watched' = watched \ {r}
  /\ reported' = reported \cup {r}
  /\ calling' = FALSE
  /\ UNCHANGED ended

(* The destructor waits for what was not reported.                         *)
Destroy ==
  /\ watched \subseteq ended
  /\ watched' = {}
  /\ UNCHANGED <<ended, reported, calling>>

Next ==
  \/ Call
  \/ Destroy
  \/ \E r \in Runs : Watch(r) \/ End(r) \/ Report(r)

Safety == Init /\ [][Next]_vars

(* wait_for_any() returns as long as there is something to report.         *)
Progress == WF_vars(\E r \in Runs : Report(r))

=============================================================================
