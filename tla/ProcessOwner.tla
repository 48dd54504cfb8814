---------------------------- MODULE ProcessOwner ----------------------------
(***************************************************************************)
(* util::process objects (src/src/util/process.h, impl/process.h) as the   *)
(* owners of processes: start, wait, kill_process in its two modes         *)
(* (kill.cc), destruction and moves, over a kernel that uses the pids of   *)
(* collected processes again, for processes of the runtime and of others.  *)
(*                                                                         *)
(* A process that was started forks a tree of processes, none of which     *)
(* leaves its process group.  wait() runs in a thread of process_monitor,  *)
(* say: waitpid() and the assignment to terminated_ that follows it are    *)
(* two steps, between which other threads of the runtime act.              *)
(***************************************************************************)
CONSTANTS Objects,      \* the process objects of the runtime
          Pids,         \* the pids the kernel hands out
          NoPid,        \* -1
          Nobody,       \* the owner of the processes of others
          RuntimeGroup, \* the process group of the runtime
          Sync          \* the objects that are sync_process objects

ASSUME KernelAssumption == NoPid \notin Pids /\ RuntimeGroup \notin Pids
ASSUME ObjectsAssumption == Nobody \notin Objects /\ Sync \subseteq Objects

VARIABLES
  object,       \* object[o]: "raw" (not constructed), "live", "moved" (it
                \* has no arguments left to start) or "gone"
  pid_,         \* process::pid_
  terminated_,  \* process::terminated_
  waiting,      \* objects between the two steps of wait()
  runtime,      \* whether the runtime is alive
  state,        \* state[p]: "free", "alive" or "zombie"
  children,     \* pids of the children of the runtime
  group,        \* group[p]: the process group of p
  family,       \* family[p]: the object whose tree p belongs to
  copied,       \* history: whether the pid of a running process was copied
  dropped       \* history: or overwritten, by a move

object_vars == <<object, pid_, terminated_, waiting>>
kernel_vars == <<runtime, state, children, group, family>>
history_vars == <<copied, dropped>>
vars == <<object_vars, kernel_vars, history_vars>>

Init ==
  /\ object = [o \in Objects |-> "raw"]
  /\ pid_ = [o \in Objects |-> NoPid]
  /\ terminated_ = [o \in Objects |-> FALSE]
  /\ waiting = {}
  /\ runtime = TRUE
  /\ state = [p \in Pids |-> "free"]
  /\ children = {}
  /\ group = [p \in Pids |-> p]
  /\ family = [p \in Pids |-> Nobody]
  /\ copied = FALSE
  /\ dropped = FALSE

-----------------------------------------------------------------------------
(* The kernel.                                                             *)

(* A number is not used again while it names a process or a group.         *)
Free(p) ==
  /\ state[p] = "free"
  /\ \A q \in Pids : state[q] # "free" => group[q] # p

NewProcess(p, owner, g) ==
  /\ Free(p)
  /\ state' = [state EXCEPT ![p] = "alive"]
  /\ family' = [family EXCEPT ![p] = owner]
  /\ group' = [group EXCEPT ![p] = g]

(* The processes in S end.  Those of the runtime wait to be collected,     *)
(* the others have parents, or init, to collect them.                      *)
End(S) ==
  state' = [p \in Pids |-> IF p \notin S \/ state[p] # "alive" THEN state[p]
                           ELSE IF p \in children THEN "zombie" ELSE "free"]

Collect(p) ==
  /\ state' = [state EXCEPT ![p] = "free"]
  /\ children' = children \ {p}

fork_child(p, q) ==
  /\ state[p] = "alive"
  /\ NewProcess(q, family[p], group[p])
  /\ UNCHANGED <<object_vars, runtime, children, history_vars>>

stranger_starts(p) ==
  /\ NewProcess(p, Nobody, p)
  /\ UNCHANGED <<object_vars, runtime, children, history_vars>>

process_ends(p) ==
  /\ state[p] = "alive"
  /\ End({p})
  /\ UNCHANGED <<object_vars, runtime, children, group, family, history_vars>>

-----------------------------------------------------------------------------
(* The operations on objects.                                              *)

Exists(o) == object[o] \in {"live", "moved"}

(* A thread of the runtime can act on o.                                   *)
Usable(o) == runtime /\ Exists(o)

started(o) == pid_[o] # NoPid

(* The objects that kill_process() and the destructor act on.              *)
Manages(o) == started(o) /\ ~terminated_[o]

construct(o) ==
  /\ runtime
  /\ object[o] = "raw"
  /\ object' = [object EXCEPT ![o] = "live"]
  /\ UNCHANGED <<pid_, terminated_, waiting, kernel_vars, history_vars>>

(* sync_process::wait_for_parent() calls setpgid() before prepare()        *)
(* returns; a process without callbacks stays in the group of the runtime. *)
GroupOfChild(o, p) == IF o \in Sync THEN p ELSE RuntimeGroup

(* start() that throws, or whose fork() fails, changes nothing.  An object *)
(* moved from has no arguments left to start.                              *)
start(o, p) ==
  /\ Usable(o)
  /\ object[o] = "live"
  /\ ~started(o)
  /\ NewProcess(p, o, GroupOfChild(o, p))
  /\ children' = children \cup {p}
  /\ pid_' = [pid_ EXCEPT ![o] = p]
  /\ UNCHANGED <<object, terminated_, waiting, runtime, history_vars>>

(* waitpid() throws if the pid is not a child of the runtime.              *)
wait(o) ==
  /\ Usable(o)
  /\ o \notin waiting
  /\ Manages(o)
  /\ pid_[o] \in children
  /\ state[pid_[o]] = "zombie"
  /\ Collect(pid_[o])
  /\ waiting' = waiting \cup {o}
  /\ UNCHANGED <<object, pid_, terminated_, runtime, group, family,
                 history_vars>>

set_terminated_if_exited(o) ==
  /\ runtime
  /\ o \in waiting
  /\ \E exited \in BOOLEAN : terminated_' = [terminated_ EXCEPT ![o] = exited]
  /\ waiting' = waiting \ {o}
  /\ UNCHANGED <<object, pid_, kernel_vars, history_vars>>

set_terminated(o) ==
  /\ runtime
  /\ o \in waiting
  /\ terminated_' = [terminated_ EXCEPT ![o] = TRUE]
  /\ waiting' = waiting \ {o}
  /\ UNCHANGED <<object, pid_, kernel_vars, history_vars>>

(* The processes that get the signal: none, and an exception, if the pid   *)
(* is free, and the whole group in mode TREE.                              *)
Signaled(o, mode) ==
  LET p == pid_[o]
  IN IF mode = "PROC" \/ state[p] = "free" THEN {p}
     ELSE {q \in Pids : group[q] = group[p]}

SignalsRuntime(o, mode) ==
  /\ mode = "TREE"
  /\ state[pid_[o]] # "free"
  /\ group[pid_[o]] = RuntimeGroup

(* On an object that is terminated it returns at once.                     *)
kill_process(o, mode) ==
  /\ Usable(o)
  /\ Manages(o)
  /\ End(Signaled(o, mode))
  /\ runtime' = ~SignalsRuntime(o, mode)
  /\ UNCHANGED <<object_vars, children, group, family, history_vars>>

destroy_without_waiting(o) ==
  /\ Usable(o) /\ o \notin waiting
  /\ object' = [object EXCEPT ![o] = "gone"]
  /\ IF Manages(o) THEN End({pid_[o]}) ELSE UNCHANGED state
  /\ UNCHANGED <<children, pid_, terminated_, waiting, runtime, group, family,
                 history_vars>>

(* ~process(): kills the process and waits for it; what they throw is      *)
(* caught.  The wait fails if the process is not a child of the runtime.   *)
destroy(o) ==
  /\ Usable(o) /\ o \notin waiting
  /\ object' = [object EXCEPT ![o] = "gone"]
  /\ \/ /\ Manages(o) /\ pid_[o] \in children
        /\ Collect(pid_[o])
     \/ /\ Manages(o) /\ pid_[o] \notin children
        /\ End({pid_[o]})
        /\ UNCHANGED children
     \/ /\ ~Manages(o)
        /\ UNCHANGED <<state, children>>
  /\ UNCHANGED <<pid_, terminated_, waiting, runtime, group, family,
                 history_vars>>

(* n is constructed from o or assigned o, an object of the same class; no  *)
(* thread is inside wait() on either.                                      *)
CanMove(o, n) ==
  /\ o # n /\ (o \in Sync <=> n \in Sync)
  /\ object[n] # "gone"
  /\ {o, n} \cap waiting = {}

(* The defaulted moves of process and of sync_process: pid_ and            *)
(* terminated_ are copied, and the object moved from keeps them.  What is  *)
(* left of its tree is now n's, what was n's is nobody's.  The callbacks   *)
(* of a sync_process refer to the object they were made for, so that only  *)
(* a process can be started after it moved.                                *)
move(o, n) ==
  /\ Usable(o)
  /\ CanMove(o, n)
  /\ object' = [object EXCEPT ![n] = IF n \in Sync THEN "moved" ELSE object[o],
                              ![o] = "moved"]
  /\ pid_' = [pid_ EXCEPT ![n] = pid_[o]]
  /\ terminated_' = [terminated_ EXCEPT ![n] = terminated_[o]]
  /\ family' = [p \in Pids |-> IF family[p] = o THEN n
                            ELSE IF family[p] = n THEN Nobody ELSE family[p]]
  /\ copied' = (copied \/ Manages(o))
  /\ dropped' = (dropped \/ Manages(n))
  /\ UNCHANGED <<waiting, runtime, state, children, group>>

Next ==
  \/ \E o \in Objects :
       \/ construct(o) \/ wait(o) \/ set_terminated(o) \/ destroy(o)
       \/ \E p \in Pids : start(o, p)
       \/ \E mode \in {"PROC", "TREE"} : kill_process(o, mode)
       \/ \E n \in Objects : move(o, n)
  \/ \E p \in Pids :
       \/ stranger_starts(p) \/ process_ends(p)
       \/ \E q \in Pids : fork_child(p, q)

Spec == Init /\ [][Next]_vars

-----------------------------------------------------------------------------
(* The members of the process objects and the process table keep their     *)
(* types.                                                                  *)
TypeOK ==
  /\ object \in [Objects -> {"raw", "live", "moved", "gone"}]
  /\ pid_ \in [Objects -> Pids \cup {NoPid}]
  /\ terminated_ \in [Objects -> BOOLEAN]
  /\ waiting \subseteq Objects
  /\ runtime \in BOOLEAN
  /\ state \in [Pids -> {"free", "alive", "zombie"}]
  /\ children \subseteq Pids
  /\ group \in [Pids -> Pids \cup {RuntimeGroup}]
  /\ family \in [Pids -> Objects \cup {Nobody}]
  /\ copied \in BOOLEAN /\ dropped \in BOOLEAN

Owns(o) == Exists(o) /\ Manages(o) /\ o \notin waiting

(* Every child of the runtime has an object that will kill and collect it, *)
(* unless an object that managed a process was assigned another one.  And  *)
(* the pid of every object that would send a signal is that of its own     *)
(* child, never of a process that merely got the same pid nor of the child *)
(* of another object, unless an object that managed a process was moved    *)
(* from.                                                                   *)
OneOwner ==
  /\ ~dropped =>
       \A p \in children : \E o \in Objects : Owns(o) /\ pid_[o] = p
  /\ ~copied =>
       \A o \in Objects :
         Owns(o) => pid_[o] \in children /\ family[pid_[o]] = o

Tree(o) == {p \in Pids : state[p] = "alive" /\ family[p] = o}
Victims == {p \in Pids : state[p] = "alive" /\ state'[p] # "alive"}

(* kill_process() in mode PROC ends the process of the object and nothing  *)
(* else; in mode TREE, on a sync_process, that process and all its         *)
(* descendants and nothing else, and the runtime survives.  On a process   *)
(* without callbacks, whose group is that of the runtime, mode TREE ends   *)
(* all its descendants and the runtime with them.  So it is unless a       *)
(* thread is between the two steps of wait() on the object, when the pid   *)
(* is free and whoever gets it is killed, or the pid of a running process  *)
(* was copied by a move.                                                   *)
KillIsExact ==
  [][\A o \in Objects \ waiting : ~copied =>
       /\ kill_process(o, "PROC") => Victims = Tree(o) \cap {pid_[o]}
       /\ kill_process(o, "TREE") =>
            IF o \in Sync THEN Victims = Tree(o) /\ runtime'
            ELSE Tree(o) \subseteq Victims /\ ~runtime']_vars

(* "Moving is allowed" and "The process is killed if it is still running"  *)
(* (process.h): a destructor ends no process but that of its own object.   *)
(* The moves leave the pid behind in the object moved from, whose          *)
(* destructor kills the process of the object moved to.                    *)
DestroyIsExact ==
  [][\A o \in Objects : destroy(o) => Victims \subseteq Tree(o)]_vars

=============================================================================
