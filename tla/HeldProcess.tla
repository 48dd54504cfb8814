---------------------------- MODULE HeldProcess ----------------------------
(***************************************************************************)
(* What util::sync_process (src/src/util/process.h) gives its callers: a   *)
(* process that exists from prepare() on but does not run its command      *)
(* until the runtime lets go of it.  The runtime lets go of a process in   *)
(* start(), in the destructor of its sync_process, and by dying.           *)
(***************************************************************************)
CONSTANT Procs

VARIABLES proc,    \* proc[p]: "none", "held", "running", "zombie" or "reaped"
          let_go   \* the processes the runtime has let go of

vars == <<proc, let_go>>

Init ==
  /\ proc = [p \in Procs |-> "none"]
  /\ let_go = {}

Become(p, state) == proc' = [proc EXCEPT ![p] = state]

Prepare(p) ==
  /\ proc[p] = "none"
  /\ p \notin let_go
  /\ Become(p, "held")
  /\ UNCHANGED let_go

(* start() lets go of one process, the death of the runtime of all.        *)
LetGo ==
  /\ let_go \subseteq let_go'
  /\ let_go' \subseteq Procs
  /\ UNCHANGED proc

Run(p) ==
  /\ proc[p] = "held"
  /\ p \in let_go
  /\ Become(p, "running")
  /\ UNCHANGED let_go

Die(p) ==
  /\ proc[p] \in {"held", "running"}
  /\ Become(p, "zombie")
  /\ UNCHANGED let_go

(* The parent collects the process, after killing it if need be.           *)
Reap(p) ==
  /\ proc[p] \in {"held", "running", "zombie"}
  /\ Become(p, "reaped")
  /\ UNCHANGED let_go

Next ==
  \/ LetGo
  \/ \E p \in Procs : Prepare(p) \/ Run(p) \/ Die(p) \/ Reap(p)

Safety == Init /\ [][Next]_vars

(* A process that was let go of does not stay on hold.                     *)
Progress == \A p \in Procs : WF_vars(Run(p))

=============================================================================
