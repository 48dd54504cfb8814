---------------------------- MODULE SyncProcess ----------------------------
(***************************************************************************)
(* util::sync_process, util::process and util::pipe                        *)
(* (src/src/util/process.{h,cc}, src/src/util/impl/process.h) for a        *)
(* runtime that owns several sync_process objects.                         *)
(*                                                                         *)
(* prepare() forks a child that reports over child_ready_pipe_ and then    *)
(* blocks reading go_pipe_; start() writes to go_pipe_.  A read returns    *)
(* when there is a byte or when NO process holds the write end any more,   *)
(* and the code never looks at which of the two it was.  fork() copies all *)
(* descriptors of the parent, those of the other objects included, and     *)
(* exec() drops only those of go_pipe_ (O_CLOEXEC), so who holds which end *)
(* is the state that decides everything.                                   *)
(***************************************************************************)
EXTENDS Naturals

CONSTANTS Procs,    \* the sync_process objects and their children
          Runtime,  \* the parent process
          Missing,  \* objects whose args_[0] does not exist
          Broken,   \* objects whose execvp fails although the path exists
          Eager,    \* whether several objects may be constructed before the
                    \* first is prepared (test/process_monitor.cc); otherwise
                    \* one at a time, as simple_manager::prepare_bench does
          Faults    \* what may go wrong: "runtime", "child", "fork"

ASSUME ProcsAssumption == Runtime \notin Procs
ASSUME ConfigAssumption ==
  /\ Missing \subseteq Procs
  /\ Broken \subseteq Procs
  /\ Eager \in BOOLEAN
  /\ Faults \subseteq {"runtime", "child", "fork"}

VARIABLES
  object,             \* object[i]: how far the runtime is with object i
  alive,              \* the runtime process exists
  child,              \* child[i]: how far the child of object i is
  leader,             \* children that lead a process group of their own
  fds,                \* fds[a]: the pipe ends process a has open
  go_pipe_,           \* go_pipe_[i]: bytes in that pipe of object i
  child_ready_pipe_   \* likewise

vars == <<object, alive, child, leader, fds, go_pipe_, child_ready_pipe_>>

Actors == Procs \cup {Runtime}
go(i, end) == <<"go", i, end>>
ready(i, end) == <<"ready", i, end>>
PipesOf(i) == {go(i, "R"), go(i, "W"), ready(i, "R"), ready(i, "W")}
GoEnds == {go(i, end) : i \in Procs, end \in {"R", "W"}}
Ends == UNION {PipesOf(i) : i \in Procs}

Open(end) == \E a \in Actors : end \in fds[a]

Init ==
  /\ object = [i \in Procs |-> "none"]
  /\ alive = TRUE
  /\ child = [i \in Procs |-> "none"]
  /\ leader = {}
  /\ fds = [a \in Actors |-> {}]
  /\ go_pipe_ = [i \in Procs |-> 0]
  /\ child_ready_pipe_ = [i \in Procs |-> 0]

-----------------------------------------------------------------------------
(* The runtime's main thread, which blocks inside prepare() and the        *)
(* destructor.                                                             *)

Busy(i) == object[i] \in {"forked", "reading", "destroying"}
Idle == alive /\ \A i \in Procs : ~Busy(i)

RuntimeCloses(ends) == fds' = [fds EXCEPT ![Runtime] = @ \ ends]

RuntimeDies ==
  /\ alive' = FALSE
  /\ fds' = [fds EXCEPT ![Runtime] = {}]
  /\ UNCHANGED <<object, child, leader, go_pipe_, child_ready_pipe_>>

construct(i) ==
  /\ Idle
  /\ object[i] = "none"
  /\ Eager \/ \A j \in Procs : object[j] # "constructed"
  /\ object' = [object EXCEPT ![i] = "constructed"]
  /\ fds' = [fds EXCEPT ![Runtime] = @ \cup PipesOf(i)]
  /\ UNCHANGED <<alive, child, leader, go_pipe_, child_ready_pipe_>>

(* process::start(), up to and including a fork() that succeeds.           *)
prepare(i) ==
  /\ Idle
  /\ object[i] = "constructed"
  /\ i \notin Missing
  /\ object' = [object EXCEPT ![i] = "forked"]
  /\ child' = [child EXCEPT ![i] = "forked"]
  /\ fds' = [fds EXCEPT ![i] = fds[Runtime]]
  /\ UNCHANGED <<alive, leader, go_pipe_, child_ready_pipe_>>

(* The path does not exist, or fork() fails: both throw, and main() does   *)
(* not catch.  A client that does catch is left with the object it had.    *)
prepare_throws(i) ==
  /\ Idle
  /\ object[i] = "constructed"
  /\ i \in Missing \/ "fork" \in Faults
  /\ RuntimeDies

wait_for_child_keeps_writing_end(i) ==
  /\ alive
  /\ object[i] = "forked"
  /\ RuntimeCloses({go(i, "R")})
  /\ object' = [object EXCEPT ![i] = "reading"]
  /\ UNCHANGED <<alive, child, leader, go_pipe_, child_ready_pipe_>>

wait_for_child_closes_wrong_end(i) ==
  /\ alive
  /\ object[i] = "forked"
  /\ RuntimeCloses({ready(i, "W"), go(i, "W")})
  /\ object' = [object EXCEPT ![i] = "reading"]
  /\ UNCHANGED <<alive, child, leader, go_pipe_, child_ready_pipe_>>

wait_for_child(i) ==
  /\ alive
  /\ object[i] = "forked"
  /\ RuntimeCloses({ready(i, "W"), go(i, "R")})
  /\ object' = [object EXCEPT ![i] = "reading"]
  /\ UNCHANGED <<alive, child, leader, go_pipe_, child_ready_pipe_>>

wait_for_child_keeps_reading_end(i) ==
  /\ alive
  /\ object[i] = "reading"
  /\ child_ready_pipe_[i] > 0 \/ ~Open(ready(i, "W"))
  /\ child_ready_pipe_' = [child_ready_pipe_ EXCEPT ![i] = 0]
  /\ UNCHANGED fds
  /\ object' = [object EXCEPT ![i] = "prepared"]
  /\ UNCHANGED <<alive, child, leader, go_pipe_>>

(* child_ready_pipe_.read() returns, with a byte or at end of file.        *)
wait_for_child_read(i) ==
  /\ alive
  /\ object[i] = "reading"
  /\ child_ready_pipe_[i] > 0 \/ ~Open(ready(i, "W"))
  /\ child_ready_pipe_' = [child_ready_pipe_ EXCEPT ![i] = 0]
  /\ RuntimeCloses({ready(i, "R")})
  /\ object' = [object EXCEPT ![i] = "prepared"]
  /\ UNCHANGED <<alive, child, leader, go_pipe_>>

start_without_closing(i) ==
  /\ Idle
  /\ object[i] = "prepared"
  /\ Open(go(i, "R"))
  /\ go_pipe_' = [go_pipe_ EXCEPT ![i] = @ + 1]
  /\ UNCHANGED <<object, alive, child, leader, fds, child_ready_pipe_>>

start(i) ==
  /\ Idle
  /\ object[i] = "prepared"
  /\ Open(go(i, "R"))
  /\ go_pipe_' = [go_pipe_ EXCEPT ![i] = @ + 1]
  /\ RuntimeCloses({go(i, "W")})
  /\ object' = [object EXCEPT ![i] = "started"]
  /\ UNCHANGED <<alive, child, leader, child_ready_pipe_>>

(* Nobody can read what start() writes: SIGPIPE, which nothing handles.    *)
start_sigpipe(i) ==
  /\ Idle
  /\ object[i] = "prepared"
  /\ ~Open(go(i, "R"))
  /\ RuntimeDies

(* process::wait(), called from a thread of process_monitor.               *)
wait(i) ==
  /\ alive
  /\ object[i] \in {"prepared", "started"}
  /\ child[i] = "zombie"
  /\ child' = [child EXCEPT ![i] = "reaped"]
  /\ UNCHANGED <<object, alive, leader, fds, go_pipe_, child_ready_pipe_>>

(* The destructor: the members are destroyed in reverse order, both pipes  *)
(* before the process.                                                     *)
destroy_pipes(i) ==
  /\ Idle
  /\ object[i] \in {"constructed", "prepared", "started"}
  /\ RuntimeCloses(PipesOf(i))
  /\ object' = [object EXCEPT ![i] =
       IF child[i] \in {"none", "reaped"} THEN "gone" ELSE "destroying"]
  /\ UNCHANGED <<alive, child, leader, go_pipe_, child_ready_pipe_>>

(* ~process(): the process was started and has not been waited for, so it  *)
(* is killed and collected.                                                *)
destroy_process(i) ==
  /\ alive
  /\ object[i] = "destroying"
  /\ child' = [child EXCEPT ![i] = "reaped"]
  /\ fds' = [fds EXCEPT ![i] = {}]
  /\ object' = [object EXCEPT ![i] = "gone"]
  /\ UNCHANGED <<alive, leader, go_pipe_, child_ready_pipe_>>

runtime_killed ==
  /\ alive
  /\ "runtime" \in Faults
  /\ RuntimeDies

-----------------------------------------------------------------------------
(* The child, between fork() and exec().                                   *)

ChildGoes(i, state) == child' = [child EXCEPT ![i] = state]

ChildDies(i) ==
  /\ ChildGoes(i, "zombie")
  /\ fds' = [fds EXCEPT ![i] = {}]
  /\ UNCHANGED <<object, alive, leader, go_pipe_, child_ready_pipe_>>

wait_for_parent(i) ==
  /\ child[i] = "forked"
  /\ ChildGoes(i, "setup")
  /\ leader' = leader \cup {i}
  /\ fds' = [fds EXCEPT ![i] = @ \ {ready(i, "R"), go(i, "W")}]
  /\ UNCHANGED <<object, alive, go_pipe_, child_ready_pipe_>>

wait_for_parent_ready_at_once(i) ==
  /\ child[i] \in {"forked", "setup"}
  /\ Open(ready(i, "R"))
  /\ ChildGoes(i, "held")
  /\ child_ready_pipe_' = [child_ready_pipe_ EXCEPT ![i] = @ + 1]
  /\ fds' = [fds EXCEPT ![i] = @ \ {ready(i, "W"), ready(i, "R"), go(i, "W")}]
  /\ UNCHANGED <<object, alive, leader, go_pipe_>>

wait_for_parent_ready(i) ==
  /\ child[i] = "setup"
  /\ Open(ready(i, "R"))
  /\ ChildGoes(i, "held")
  /\ child_ready_pipe_' = [child_ready_pipe_ EXCEPT ![i] = @ + 1]
  /\ fds' = [fds EXCEPT ![i] = @ \ {ready(i, "W")}]
  /\ UNCHANGED <<object, alive, leader, go_pipe_>>

wait_for_parent_sigpipe(i) ==
  /\ child[i] = "setup"
  /\ ~Open(ready(i, "R"))
  /\ ChildDies(i)

(* go_pipe_.read() returns, with a byte or at end of file.                 *)
wait_for_parent_go(i) ==
  /\ child[i] = "held"
  /\ go_pipe_[i] > 0 \/ ~Open(go(i, "W"))
  /\ go_pipe_' = [go_pipe_ EXCEPT ![i] = 0]
  /\ ChildGoes(i, "released")
  /\ UNCHANGED <<object, alive, leader, fds, child_ready_pipe_>>

exec_without_cloexec(i) ==
  /\ child[i] = "released"
  /\ i \notin Broken
  /\ ChildGoes(i, "running")
  /\ UNCHANGED <<object, alive, leader, fds, go_pipe_, child_ready_pipe_>>

exec(i) ==
  /\ child[i] = "released"
  /\ i \notin Broken
  /\ ChildGoes(i, "running")
  /\ fds' = [fds EXCEPT ![i] = @ \ GoEnds]
  /\ UNCHANGED <<object, alive, leader, go_pipe_, child_ready_pipe_>>

(* execvp returns; exec_error throws in a process with no handler for it.  *)
exec_error(i) ==
  /\ child[i] = "released"
  /\ i \in Broken
  /\ ChildDies(i)

(* The command ends: by itself, or because somebody kills it.              *)
command_ends(i) ==
  /\ child[i] = "running"
  /\ ChildDies(i)

child_killed(i) ==
  /\ "child" \in Faults
  /\ child[i] \in {"forked", "setup", "held", "released"}
  /\ ChildDies(i)

-----------------------------------------------------------------------------
Client(i) ==
  \/ construct(i) \/ prepare(i) \/ prepare_throws(i)
  \/ start(i) \/ start_sigpipe(i) \/ wait(i) \/ destroy_pipes(i)

(* The steps a process takes without anybody calling anything.             *)
RuntimeContinues(i) ==
  wait_for_child(i) \/ wait_for_child_read(i) \/ destroy_process(i)

ChildContinues(i) ==
  \/ wait_for_parent(i) \/ wait_for_parent_ready(i)
  \/ wait_for_parent_sigpipe(i) \/ wait_for_parent_go(i)
  \/ exec(i) \/ exec_error(i)

Next ==
  \/ runtime_killed
  \/ \E i \in Procs : \/ Client(i) \/ RuntimeContinues(i) \/ ChildContinues(i)
                      \/ command_ends(i) \/ child_killed(i)

(* The kernel schedules both sides.  No client has to make a call, and a   *)
(* command may run for ever.                                               *)
Fairness == \A i \in Procs : /\ WF_vars(RuntimeContinues(i))
                             /\ WF_vars(ChildContinues(i))

Spec == Init /\ [][Next]_vars
FairSpec == Spec /\ Fairness

-----------------------------------------------------------------------------
ObjectStates == {"none", "constructed", "forked", "reading", "prepared",
                 "started", "destroying", "gone"}
ChildStates == {"none", "forked", "setup", "held", "released", "running",
                "zombie", "reaped"}

(* The objects, the children and the pipes stay within their types; in     *)
(* particular neither pipe ever carries more than the one byte that        *)
(* start() and wait_for_parent() write.                                    *)
TypeOK ==
  /\ object \in [Procs -> ObjectStates]
  /\ alive \in BOOLEAN
  /\ child \in [Procs -> ChildStates]
  /\ leader \subseteq Procs
  /\ fds \in [Actors -> SUBSET Ends]
  /\ go_pipe_ \in [Procs -> 0..1]
  /\ child_ready_pipe_ \in [Procs -> 0..1]

Proc(i) ==
  CASE child[i] = "none" -> "none"
    [] child[i] \in {"forked", "setup", "held"} -> "held"
    [] child[i] \in {"released", "running"} -> "running"
    [] OTHER -> child[i]

LetGo ==
  {i \in Procs : ~alive \/ object[i] \in {"started", "destroying", "gone"}}

Held == INSTANCE HeldProcess WITH proc <- [i \in Procs |-> Proc(i)],
                                  let_go <- LetGo

(* The pipes implement the hold: whatever dies and however descriptors are *)
(* inherited, no child goes on to exec() while the runtime is alive and    *)
(* has neither started nor destroyed its object.                           *)
HoldSafety == Held!Safety

(* A child that was started, or whose runtime died, does not stay blocked  *)
(* on go_pipe_ (or in the code before it) for ever, although children      *)
(* forked after it hold a copy of the write end it waits for.              *)
HoldProgress == Held!Progress

(* prepare() returns, whatever happens to the child it waits for.          *)
PrepareReturns ==
  \A i \in Procs : object[i] = "reading" ~> (~alive \/ object[i] = "prepared")

(* Once prepare() has returned, the child leads its own process group or   *)
(* never will because it is dead.  kill_group() on it would otherwise kill *)
(* the runtime's own group.                                                *)
PreparedLeadsGroup ==
  \A i \in Procs : object[i] \in {"prepared", "started"} =>
    i \in leader \/ child[i] \in {"zombie", "reaped"}

(* A command inherits none of the runtime's pipe ends, of its own object   *)
(* or of another.  Only go_pipe_ is O_CLOEXEC: for child_ready_pipe_ this  *)
(* rests on both sides closing every end before the next fork().           *)
NoDescriptorLeak ==
  \A i \in Procs : child[i] = "running" => fds[i] = {}

=============================================================================
