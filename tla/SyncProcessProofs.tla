------------------------- MODULE SyncProcessProofs -------------------------
(***************************************************************************)
(* Proofs about SyncProcess, for any set of objects, either order of       *)
(* construction and any faults.                                            *)
(***************************************************************************)
EXTENDS SyncProcess, WellFoundedInduction, TLAPS

-----------------------------------------------------------------------------
(* What the ends of the pipes are called does not matter, only that they   *)
(* are all different.                                                      *)
LEMMA EndsDiffer ==
  /\ \A i, j : \A e, f : go(i, e) = go(j, f) <=> i = j /\ e = f
  /\ \A i, j : \A e, f : ready(i, e) = ready(j, f) <=> i = j /\ e = f
  /\ \A i, j : \A e, f : go(i, e) # ready(j, f)
  /\ \A i, j \in Procs : go(i, "W") \in PipesOf(j) => i = j
  /\ \A i, j \in Procs : ready(i, "W") \in PipesOf(j) => i = j
BY DEF go, ready, PipesOf

(* The pipes of an object are among all ends of pipes.                     *)
LEMMA PipesAreEnds == \A i \in Procs : PipesOf(i) \subseteq Ends
BY DEF Ends

-----------------------------------------------------------------------------
(* How far the object is and how far its child is fit together.            *)
Lives ==
  \A i \in Procs :
    /\ object[i] \in {"none", "constructed"} => child[i] = "none"
    /\ object[i] \in {"forked", "reading", "prepared", "started"}
         => child[i] # "none"
    /\ object[i] = "destroying" => child[i] \notin {"none", "reaped"}

(* Until the runtime lets go of it, nothing can end the child's read of    *)
(* go_pipe_: the pipe is empty and the runtime holds the write end.        *)
OnHold ==
  \A i \in Procs \ LetGo :
    /\ go_pipe_[i] = 0
    /\ object[i] # "none" => go(i, "W") \in fds[Runtime]

(* Before it reports, the child holds a write end of child_ready_pipe_ and *)
(* has not written; once it has reported it leads its group.               *)
Reports ==
  \A i \in Procs :
    /\ alive /\ object[i] = "constructed" => ready(i, "W") \in fds[Runtime]
    /\ child[i] \in {"forked", "setup"} => ready(i, "W") \in fds[i]
    /\ child[i] \in {"none", "forked", "setup"} => child_ready_pipe_[i] = 0
    /\ child[i] \in {"setup", "held", "released", "running"} => i \in leader
    /\ child_ready_pipe_[i] > 0 => i \in leader

(* The inductive invariant.                                                *)
IInv ==
  /\ TypeOK
  /\ Lives
  /\ OnHold
  /\ Reports
  /\ PreparedLeadsGroup

(* Before the first object there is nothing to hold.                       *)
LEMMA InitIInv == Init => IInv
BY ProcsAssumption
   DEF Init, IInv, TypeOK, Lives, OnHold, Reports, PreparedLeadsGroup, LetGo,
       Actors, ObjectStates, ChildStates

-----------------------------------------------------------------------------
(* The steps of the runtime.                                               *)

(* When the runtime dies its descriptors are closed and nothing else       *)
(* changes.                                                                *)
LEMMA DeathKeepsIInv ==
  ASSUME IInv, RuntimeDies
  PROVE  IInv'
BY ProcsAssumption
   DEF RuntimeDies, IInv, TypeOK, Lives, OnHold, Reports,
       PreparedLeadsGroup, LetGo, Actors

(* The calls of the client: constructor, prepare(), start(), wait() and    *)
(* the first part of the destructor.                                       *)
LEMMA ClientKeepsIInv ==
  ASSUME IInv, NEW i \in Procs, Client(i)
  PROVE  IInv'
<1> USE ProcsAssumption, EndsDiffer
    DEF IInv, TypeOK, Lives, OnHold, Reports, PreparedLeadsGroup, LetGo,
        Actors, ObjectStates, ChildStates
<1>1. CASE construct(i)
  <2>1. PipesOf(i) \subseteq Ends /\ go(i, "W") \in PipesOf(i)
        /\ ready(i, "W") \in PipesOf(i)
    BY PipesAreEnds DEF PipesOf
  <2> QED
    BY <1>1, <2>1 DEF construct, Idle
<1>2. CASE prepare(i)
  BY <1>2 DEF prepare, Idle
<1>3. CASE prepare_throws(i) \/ start_sigpipe(i)
  BY <1>3, DeathKeepsIInv DEF prepare_throws, start_sigpipe
<1>4. CASE start(i)
  BY <1>4 DEF start, RuntimeCloses, Idle
<1>5. CASE wait(i)
  BY <1>5 DEF wait
<1>6. CASE destroy_pipes(i)
  BY <1>6 DEF destroy_pipes, RuntimeCloses, Idle
<1> QED
  BY <1>1, <1>2, <1>3, <1>4, <1>5, <1>6 DEF Client

(* The rest of prepare() and of the destructor.                            *)
LEMMA RuntimeKeepsIInv ==
  ASSUME IInv, NEW i \in Procs, RuntimeContinues(i)
  PROVE  IInv'
<1> USE ProcsAssumption, EndsDiffer
    DEF IInv, TypeOK, Lives, OnHold, Reports, PreparedLeadsGroup, LetGo,
        Actors, ObjectStates, ChildStates
<1>1. CASE wait_for_child(i)
  BY <1>1 DEF wait_for_child, RuntimeCloses
<1>2. CASE wait_for_child_read(i)
  BY <1>2 DEF wait_for_child_read, RuntimeCloses, Open
<1>3. CASE destroy_process(i)
  BY <1>3 DEF destroy_process
<1> QED
  BY <1>1, <1>2, <1>3 DEF RuntimeContinues

-----------------------------------------------------------------------------
(* The steps of a child.                                                   *)

(* What a child does from fork() to its end.                               *)
LEMMA ChildKeepsIInv ==
  ASSUME IInv, NEW i \in Procs,
         ChildContinues(i) \/ command_ends(i) \/ child_killed(i)
  PROVE  IInv'
<1> USE ProcsAssumption, EndsDiffer
    DEF IInv, TypeOK, Lives, OnHold, Reports, PreparedLeadsGroup, LetGo,
        Actors, ObjectStates, ChildStates, ChildGoes
<1>1. CASE wait_for_parent(i)
  BY <1>1 DEF wait_for_parent
<1>2. CASE wait_for_parent_ready(i)
  BY <1>2 DEF wait_for_parent_ready
<1>3. CASE wait_for_parent_go(i)
  BY <1>3 DEF wait_for_parent_go
<1>4. CASE exec(i)
  BY <1>4 DEF exec
<1>5. CASE \/ wait_for_parent_sigpipe(i) \/ exec_error(i)
           \/ command_ends(i) \/ child_killed(i)
  BY <1>5 DEF wait_for_parent_sigpipe, exec_error, command_ends,
              child_killed, ChildDies
<1> QED
  BY <1>1, <1>2, <1>3, <1>4, <1>5 DEF ChildContinues

(* IInv is inductive.                                                      *)
LEMMA NextIInv == IInv /\ [Next]_vars => IInv'
<1> SUFFICES ASSUME IInv, [Next]_vars PROVE IInv'
  OBVIOUS
<1>1. CASE runtime_killed
  BY <1>1, DeathKeepsIInv DEF runtime_killed
<1>2. CASE UNCHANGED vars
  BY <1>2 DEF vars, IInv, TypeOK, Lives, OnHold, Reports,
              PreparedLeadsGroup, LetGo
<1> QED
  BY <1>1, <1>2, ClientKeepsIInv, RuntimeKeepsIInv, ChildKeepsIInv DEF Next

(* The inductive invariant holds in every reachable state.                 *)
THEOREM Invariance == Spec => []IInv
BY InitIInv, NextIInv, PTL DEF Spec

(* Type correctness; in particular neither pipe carries more than a byte.  *)
THEOREM TypeCorrect == Spec => []TypeOK
<1>1. IInv => TypeOK
  BY DEF IInv
<1> QED
  BY <1>1, Invariance, PTL

(* A child that prepare() returned for leads its own process group.        *)
THEOREM GroupIsLed == Spec => []PreparedLeadsGroup
<1>1. IInv => PreparedLeadsGroup
  BY DEF IInv
<1> QED
  BY <1>1, Invariance, PTL

-----------------------------------------------------------------------------
(* The abstract process changes its state the way the child does.          *)
LEMMA ChildStep ==
  ASSUME TypeOK, NEW i \in Procs, NEW s \in ChildStates, ChildGoes(i, s)
  PROVE  /\ \A j \in Procs \ {i} : Proc(j)' = Proc(j)
         /\ s = "none" => Proc(i)' = "none"
         /\ s \in {"forked", "setup", "held"} => Proc(i)' = "held"
         /\ s \in {"released", "running"} => Proc(i)' = "running"
         /\ s \in {"zombie", "reaped"} => Proc(i)' = s
BY DEF ChildGoes, TypeOK, ChildStates, Proc

(* A step of the child that the abstract process does not see.             *)
LEMMA Unseen ==
  ASSUME UNCHANGED <<object, alive>>, \A j \in Procs : Proc(j)' = Proc(j)
  PROVE  UNCHANGED Held!vars
BY DEF Held!vars, LetGo

(* The runtime lets go of one process, or of all of them.                  *)
LEMMA LettingGo ==
  ASSUME LetGo \subseteq LetGo', UNCHANGED child
  PROVE  Held!Next
BY DEF Held!Next, Held!LetGo, LetGo, Proc

(* The abstract process changes state.                                     *)
LEMMA Becoming ==
  ASSUME NEW i \in Procs, NEW s, Proc(i)' = s,
         \A j \in Procs \ {i} : Proc(j)' = Proc(j)
  PROVE  Held!Become(i, s)
BY DEF Held!Become

(* A child that dies is a zombie of the abstract specification.            *)
LEMMA Dying ==
  ASSUME IInv, NEW i \in Procs, ChildDies(i),
         child[i] \in {"forked", "setup", "held", "released", "running"}
  PROVE  Held!Next
<1>1. Held!Become(i, "zombie")
  BY ChildStep, Becoming DEF ChildDies, IInv, ChildStates
<1>2. Proc(i) \in {"held", "running"}
  BY DEF Proc
<1>3. LetGo' = LetGo
  BY DEF ChildDies, LetGo
<1>4. Held!Die(i)
  BY <1>1, <1>2, <1>3 DEF Held!Die
<1> QED
  BY <1>4 DEF Held!Next

(* The death of the runtime lets go of every child.                        *)
LEMMA Dead ==
  ASSUME RuntimeDies
  PROVE  Held!Next
<1>1. LetGo \subseteq LetGo'
  BY DEF RuntimeDies, LetGo
<1> QED
  BY <1>1, LettingGo DEF RuntimeDies

(* A child goes on only if it was let go of: while the runtime is alive    *)
(* and has neither started nor destroyed the object, the pipe is empty and *)
(* the runtime itself holds the write end.                                 *)
LEMMA GoesOnlyIfLetGo ==
  ASSUME IInv, NEW i \in Procs, wait_for_parent_go(i)
  PROVE  i \in LetGo
<1> SUFFICES ASSUME i \notin LetGo PROVE FALSE
  OBVIOUS
<1>1. child[i] = "held" /\ (go_pipe_[i] > 0 \/ ~Open(go(i, "W")))
  BY DEF wait_for_parent_go
<1>2. object[i] # "none"
  BY <1>1 DEF IInv, Lives
<1>3. go_pipe_[i] = 0 /\ go(i, "W") \in fds[Runtime]
  BY <1>2 DEF IInv, OnHold
<1> QED
  BY <1>1, <1>3 DEF Open, Actors

(* The pipes implement the hold, whatever dies and whatever the children   *)
(* inherit: sync_process is a process that exists but does not run its     *)
(* command until the runtime lets go of it.                                *)
THEOREM ImplementsHold == Spec => HoldSafety
<1>1. Init => Held!Init
  BY DEF Init, Held!Init, Proc, LetGo
<1>2. IInv /\ [Next]_vars => [Held!Next]_Held!vars
  <2> SUFFICES ASSUME IInv, [Next]_vars
               PROVE  Held!Next \/ UNCHANGED Held!vars
    BY DEF Held!vars
  <2> USE DEF ChildStates
  <2>1. ASSUME NEW i \in Procs, Client(i)
        PROVE  Held!Next \/ UNCHANGED Held!vars
    <3>1. CASE construct(i) \/ start(i) \/ destroy_pipes(i)
      <4>1. LetGo \subseteq LetGo' /\ UNCHANGED child
        BY <3>1 DEF construct, start, destroy_pipes, LetGo, IInv, TypeOK
      <4> QED
        BY <4>1, LettingGo
    <3>2. CASE prepare(i)
      <4>1. Proc(i) = "none" /\ i \notin LetGo /\ LetGo' = LetGo
        BY <3>2 DEF prepare, Idle, IInv, TypeOK, Lives, Proc, LetGo
      <4>2. Held!Become(i, "held")
        BY <3>2, ChildStep, Becoming DEF prepare, ChildGoes, IInv
      <4> QED
        BY <4>1, <4>2 DEF Held!Next, Held!Prepare
    <3>3. CASE prepare_throws(i) \/ start_sigpipe(i)
      BY <3>3, Dead DEF prepare_throws, start_sigpipe
    <3>4. CASE wait(i)
      <4>1. Proc(i) = "zombie" /\ LetGo' = LetGo
        BY <3>4 DEF wait, Proc, LetGo
      <4>2. Held!Become(i, "reaped")
        BY <3>4, ChildStep, Becoming DEF wait, ChildGoes, IInv
      <4> QED
        BY <4>1, <4>2 DEF Held!Next, Held!Reap
    <3> QED
      BY <2>1, <3>1, <3>2, <3>3, <3>4 DEF Client
  <2>2. ASSUME NEW i \in Procs, RuntimeContinues(i)
        PROVE  Held!Next \/ UNCHANGED Held!vars
    <3>1. CASE wait_for_child(i) \/ wait_for_child_read(i)
      <4>1. LetGo \subseteq LetGo' /\ UNCHANGED child
        BY <3>1 DEF wait_for_child, wait_for_child_read, LetGo, IInv, TypeOK
      <4> QED
        BY <4>1, LettingGo
    <3>2. CASE destroy_process(i)
      <4>1. Proc(i) \in {"held", "running", "zombie"}
        BY <3>2 DEF destroy_process, IInv, TypeOK, Lives, Proc
      <4>2. LetGo' = LetGo
        BY <3>2 DEF destroy_process, IInv, TypeOK, LetGo
      <4>3. Held!Become(i, "reaped")
        BY <3>2, ChildStep, Becoming DEF destroy_process, ChildGoes, IInv
      <4> QED
        BY <4>1, <4>2, <4>3 DEF Held!Next, Held!Reap
    <3> QED
      BY <2>2, <3>1, <3>2 DEF RuntimeContinues
  <2>3. ASSUME NEW i \in Procs,
               ChildContinues(i) \/ command_ends(i) \/ child_killed(i)
        PROVE  Held!Next \/ UNCHANGED Held!vars
    <3>1. CASE wait_for_parent(i) \/ wait_for_parent_ready(i) \/ exec(i)
      <4>1. \A j \in Procs : Proc(j)' = Proc(j)
        BY <3>1 DEF wait_for_parent, wait_for_parent_ready, exec,
                    ChildGoes, IInv, TypeOK, Proc
      <4> QED
        BY <3>1, <4>1, Unseen DEF wait_for_parent, wait_for_parent_ready, exec
    <3>2. CASE wait_for_parent_go(i)
      <4>1. Proc(i) = "held" /\ LetGo' = LetGo
        BY <3>2 DEF wait_for_parent_go, Proc, LetGo
      <4>2. Held!Become(i, "running")
        BY <3>2, ChildStep, Becoming DEF wait_for_parent_go, IInv
      <4> QED
        BY <3>2, <4>1, <4>2, GoesOnlyIfLetGo DEF Held!Next, Held!Run
    <3>3. CASE \/ wait_for_parent_sigpipe(i) \/ exec_error(i)
               \/ command_ends(i) \/ child_killed(i)
      BY <3>3, Dying DEF wait_for_parent_sigpipe, exec_error, command_ends,
                         child_killed
    <3> QED
      BY <2>3, <3>1, <3>2, <3>3 DEF ChildContinues
  <2>4. CASE runtime_killed
    BY <2>4, Dead DEF runtime_killed
  <2>5. CASE UNCHANGED vars
    BY <2>5, Unseen DEF vars, Proc
  <2> QED
    BY <2>1, <2>2, <2>3, <2>4, <2>5 DEF Next
<1> QED
  BY <1>1, <1>2, Invariance, PTL DEF Spec, HoldSafety, Held!Safety

-----------------------------------------------------------------------------
(* Why a command inherits nothing when objects are prepared one at a time. *)
(* The runtime has ends of child_ready_pipe_ open for one object at most,  *)
(* the one whose construction or preparation is going on, so a child       *)
(* inherits none but its own, and it closes those before it is on hold.    *)
BeingPrepared(i) == object[i] \in {"constructed", "forked", "reading"}

Sealed ==
  /\ \A i, j \in Procs : BeingPrepared(i) /\ BeingPrepared(j) => i = j
  /\ \A i \in Procs :
       /\ \A end \in {"R", "W"} :
            ready(i, end) \in fds[Runtime] => BeingPrepared(i)
       /\ object[i] = "reading" => ready(i, "W") \notin fds[Runtime]
       /\ fds[i] \subseteq GoEnds \cup {ready(i, "R"), ready(i, "W")}
       /\ child[i] = "setup" => ready(i, "R") \notin fds[i]
       /\ child[i] \in {"held", "released"} => fds[i] \subseteq GoEnds
  /\ NoDescriptorLeak

(* Every end of a pipe is one of a go_pipe_ or of a child_ready_pipe_,     *)
(* never of both.                                                          *)
LEMMA EndKinds ==
  /\ \A x \in Ends :
       x \in GoEnds \/ \E i \in Procs : x \in {ready(i, "R"), ready(i, "W")}
  /\ \A i \in Procs : /\ ready(i, "R") \notin GoEnds
                      /\ ready(i, "W") \notin GoEnds
  /\ \A i, j \in Procs : \A end \in {"R", "W"} :
       ready(i, end) \in PipesOf(j) <=> i = j
BY EndsDiffer DEF Ends, PipesOf, GoEnds

(* Sealed is inductive relative to IInv.                                   *)
LEMMA SealedInvariant ==
  ASSUME ~Eager, IInv, Sealed, [Next]_vars
  PROVE  Sealed'
<1> USE ProcsAssumption
    DEF IInv, TypeOK, Sealed, NoDescriptorLeak, BeingPrepared, Actors
<1>1. ASSUME NEW i \in Procs, Client(i) PROVE Sealed'
  <2>1. CASE construct(i)
    BY <2>1, EndKinds DEF construct, Idle, Busy
  <2>2. CASE prepare(i)
    <3>1. fds[Runtime] \subseteq GoEnds \cup {ready(i, "R"), ready(i, "W")}
      BY <2>2, EndKinds DEF prepare
    <3> QED
      BY <2>2, <3>1 DEF prepare
  <2>3. CASE prepare_throws(i) \/ start_sigpipe(i)
    BY <2>3 DEF prepare_throws, start_sigpipe, RuntimeDies
  <2>4. CASE start(i)
    BY <2>4 DEF start, RuntimeCloses
  <2>5. CASE wait(i)
    BY <2>5 DEF wait
  <2>6. CASE destroy_pipes(i)
    BY <2>6, EndKinds DEF destroy_pipes, RuntimeCloses
  <2> QED
    BY <1>1, <2>1, <2>2, <2>3, <2>4, <2>5, <2>6 DEF Client
<1>2. ASSUME NEW i \in Procs, RuntimeContinues(i) PROVE Sealed'
  <2>1. CASE wait_for_child(i)
    BY <2>1 DEF wait_for_child, RuntimeCloses
  <2>2. CASE wait_for_child_read(i)
    BY <2>2 DEF wait_for_child_read, RuntimeCloses
  <2>3. CASE destroy_process(i)
    BY <2>3 DEF destroy_process
  <2> QED
    BY <1>2, <2>1, <2>2, <2>3 DEF RuntimeContinues
<1>3. ASSUME NEW i \in Procs,
             ChildContinues(i) \/ command_ends(i) \/ child_killed(i)
      PROVE  Sealed'
  <2> USE DEF ChildGoes
  <2>1. CASE wait_for_parent(i)
    BY <2>1 DEF wait_for_parent
  <2>2. CASE wait_for_parent_ready(i)
    BY <2>2 DEF wait_for_parent_ready
  <2>3. CASE wait_for_parent_go(i)
    BY <2>3 DEF wait_for_parent_go
  <2>4. CASE exec(i)
    BY <2>4 DEF exec
  <2>5. CASE \/ wait_for_parent_sigpipe(i) \/ exec_error(i)
             \/ command_ends(i) \/ child_killed(i)
    BY <2>5 DEF wait_for_parent_sigpipe, exec_error, command_ends,
                child_killed, ChildDies
  <2> QED
    BY <1>3, <2>1, <2>2, <2>3, <2>4, <2>5 DEF ChildContinues
<1>4. CASE runtime_killed
  BY <1>4 DEF runtime_killed, RuntimeDies
<1>5. CASE UNCHANGED vars
  BY <1>5 DEF vars
<1> QED
  BY <1>1, <1>2, <1>3, <1>4, <1>5 DEF Next

(* No end of a child_ready_pipe_ gets beyond the child it is meant for.    *)
LEMMA SealedHolds ==
  ASSUME ~Eager
  PROVE  Spec => []Sealed
<1>1. Init => Sealed
  BY ProcsAssumption DEF Init, Sealed, NoDescriptorLeak, BeingPrepared, Actors
<1>2. IInv /\ Sealed /\ [Next]_vars => Sealed'
  BY SealedInvariant
<1> QED
  BY <1>1, <1>2, Invariance, PTL DEF Spec

(* When each object is prepared before the next is constructed, as         *)
(* simple_manager does, no command inherits an end of any pipe, although   *)
(* child_ready_pipe_ is not O_CLOEXEC.                                     *)
THEOREM NothingInherited ==
  ASSUME ~Eager
  PROVE  Spec => []NoDescriptorLeak
<1>1. Sealed => NoDescriptorLeak
  BY DEF Sealed
<1> QED
  BY <1>1, SealedHolds, PTL

-----------------------------------------------------------------------------
(* Who holds a copy of the writing end of a go_pipe_, and when the byte is *)
(* in it.                                                                  *)
Copies ==
  /\ ~alive => fds[Runtime] = {}
  /\ \A i \in Procs :
       /\ child[i] \in {"none", "zombie", "reaped"} => fds[i] = {}
       /\ child[i] \notin {"none", "forked"} => go(i, "W") \notin fds[i]
       /\ object[i] = "none" => go(i, "W") \notin fds[Runtime]
       /\ object[i] \in {"none", "constructed"} =>
            \A k \in Procs : go(i, "W") \notin fds[k]
       /\ object[i] = "started" /\ child[i] \in {"forked", "setup", "held"} =>
            go_pipe_[i] > 0

(* Copies is inductive relative to IInv and Sealed: fork() copies what the *)
(* runtime has open, and every other step only closes.                     *)
LEMMA CopiesInvariant ==
  ASSUME ~Eager, IInv, Sealed, Copies, [Next]_vars
  PROVE  Copies'
<1> USE ProcsAssumption, EndsDiffer DEF IInv, TypeOK, Copies, Actors
<1>1. ASSUME NEW i \in Procs, Client(i) PROVE Copies'
  <2>1. CASE construct(i)
    <3>1. \A j \in Procs : go(j, "W") \in PipesOf(i) => j = i
      OBVIOUS
    <3> QED
      BY <2>1, <3>1 DEF construct, Idle
  <2>2. CASE prepare(i)
    <3>1. \A j \in Procs : object[j] = "constructed" => j = i
      BY <2>2 DEF prepare, Sealed, BeingPrepared
    <3> QED
      BY <2>2, <3>1 DEF prepare, Idle
  <2>3. CASE prepare_throws(i) \/ start_sigpipe(i)
    BY <2>3 DEF prepare_throws, start_sigpipe, RuntimeDies
  <2>4. CASE start(i)
    BY <2>4 DEF start, RuntimeCloses
  <2>5. CASE wait(i)
    BY <2>5 DEF wait
  <2>6. CASE destroy_pipes(i)
    BY <2>6 DEF destroy_pipes, RuntimeCloses
  <2> QED
    BY <1>1, <2>1, <2>2, <2>3, <2>4, <2>5, <2>6 DEF Client
<1>2. ASSUME NEW i \in Procs, RuntimeContinues(i) PROVE Copies'
  <2>1. CASE wait_for_child(i)
    BY <2>1 DEF wait_for_child, RuntimeCloses
  <2>2. CASE wait_for_child_read(i)
    BY <2>2 DEF wait_for_child_read, RuntimeCloses
  <2>3. CASE destroy_process(i)
    BY <2>3 DEF destroy_process
  <2> QED
    BY <1>2, <2>1, <2>2, <2>3 DEF RuntimeContinues
<1>3. ASSUME NEW i \in Procs,
             ChildContinues(i) \/ command_ends(i) \/ child_killed(i)
      PROVE  Copies'
  <2> USE DEF ChildGoes
  <2>1. CASE wait_for_parent(i)
    BY <2>1 DEF wait_for_parent
  <2>2. CASE wait_for_parent_ready(i)
    BY <2>2 DEF wait_for_parent_ready
  <2>3. CASE wait_for_parent_go(i)
    BY <2>3 DEF wait_for_parent_go
  <2>4. CASE exec(i)
    BY <2>4 DEF exec
  <2>5. CASE \/ wait_for_parent_sigpipe(i) \/ exec_error(i)
             \/ command_ends(i) \/ child_killed(i)
    BY <2>5 DEF wait_for_parent_sigpipe, exec_error, command_ends,
                child_killed, ChildDies
  <2> QED
    BY <1>3, <2>1, <2>2, <2>3, <2>4, <2>5 DEF ChildContinues
<1>4. CASE runtime_killed
  BY <1>4 DEF runtime_killed, RuntimeDies
<1>5. CASE UNCHANGED vars
  BY <1>5 DEF vars
<1> QED
  BY <1>1, <1>2, <1>3, <1>4, <1>5 DEF Next

(* prepare() never waits for what does not come: while it reads from       *)
(* child_ready_pipe_ the child has yet to report, or nobody is left who    *)
(* has the writing end open.                                               *)
PrepareGoesOn ==
  \A i \in Procs : object[i] = "reading" =>
    child[i] \in {"forked", "setup"} \/ ~Open(ready(i, "W"))

(* prepare() does not wait for a child that has reported or is dead, as    *)
(* long as each object is prepared before the next is constructed.         *)
THEOREM PrepareGoesOnHolds ==
  ASSUME ~Eager
  PROVE  Spec => []PrepareGoesOn
<1>1. Init => Copies
  BY ProcsAssumption DEF Init, Copies, Actors
<1>2. IInv /\ Sealed /\ Copies /\ [Next]_vars => Copies'
  BY CopiesInvariant
<1>3. IInv /\ Sealed /\ Copies => PrepareGoesOn
  <2> SUFFICES ASSUME IInv, Sealed, Copies,
                      NEW i \in Procs, object[i] = "reading",
                      child[i] \notin {"forked", "setup"},
                      NEW a \in Actors, ready(i, "W") \in fds[a]
               PROVE  FALSE
    BY DEF PrepareGoesOn, Open
  <2>1. a \in Procs
    BY DEF Sealed, Actors
  <2>2. ready(i, "W") \notin GoEnds
    BY EndKinds
  <2>3. a = i
    BY <2>1, <2>2, EndsDiffer DEF Sealed
  <2>4. child[i] \in {"none", "held", "released", "running", "zombie", "reaped"}
    BY DEF IInv, TypeOK, ChildStates
  <2> QED
    BY <2>2, <2>3, <2>4 DEF Sealed, NoDescriptorLeak, Copies
<1> QED
  BY <1>1, <1>2, <1>3, Invariance, SealedHolds, PTL DEF Spec

-----------------------------------------------------------------------------
(* The children can be numbered, in the order of their fork(), so that     *)
(* only a later one has a copy of the writing end that a child waits for:  *)
(* they never wait for each other in a circle.                             *)
RankedBy(r, n) ==
  /\ \A i \in Procs : child[i] # "none" => r[i] < n
  /\ \A i, k \in Procs :
       i # k /\ child[i] # "none" /\ go(i, "W") \in fds[k] => r[i] < r[k]

Ranked == \E r \in [Procs -> Nat], n \in Nat : RankedBy(r, n)

(* Only fork() makes new copies; the other steps keep the order.           *)
LEMMA RankIsKept ==
  ASSUME Ranked, \A k \in Procs : fds'[k] \subseteq fds[k],
         \A i \in Procs : child'[i] # "none" => child[i] # "none"
  PROVE  Ranked'
<1>1. PICK r \in [Procs -> Nat], n \in Nat : RankedBy(r, n)
  BY DEF Ranked
<1>2. RankedBy(r, n)'
  BY <1>1 DEF RankedBy
<1> QED
  BY <1>2 DEF Ranked

(* A child that is forked comes after all others.                          *)
LEMMA ForkedIsLast ==
  ASSUME IInv, Copies, Ranked, NEW i \in Procs, prepare(i)
  PROVE  Ranked'
<1>1. PICK r \in [Procs -> Nat], n \in Nat : RankedBy(r, n)
  BY DEF Ranked
<1> DEFINE s == [r EXCEPT ![i] = n]
<1>2. s \in [Procs -> Nat] /\ n + 1 \in Nat
  OBVIOUS
<1>3. /\ object[i] = "constructed" /\ child[i] = "none"
      /\ \A j \in Procs : j # i => child'[j] = child[j] /\ fds'[j] = fds[j]
  BY ProcsAssumption DEF prepare, IInv, TypeOK, Lives, Actors
<1>4. ASSUME NEW j \in Procs, child'[j] # "none" PROVE s[j] < n + 1
  BY <1>1, <1>3, <1>4 DEF RankedBy
<1>5. ASSUME NEW j \in Procs, NEW k \in Procs, j # k, child'[j] # "none",
             go(j, "W") \in fds'[k]
      PROVE  s[j] < s[k]
  <2>1. CASE k = i
    BY <1>1, <1>3, <1>5, <2>1 DEF RankedBy
  <2>2. CASE j = i
    BY <1>3, <1>5, <2>2 DEF Copies
  <2>3. CASE j # i /\ k # i
    BY <1>1, <1>3, <1>5, <2>3 DEF RankedBy
  <2> QED
    BY <2>1, <2>2, <2>3
<1>6. RankedBy(s, n + 1)'
  BY <1>4, <1>5 DEF RankedBy
<1> QED
  BY <1>2, <1>6 DEF Ranked

(* Ranked is inductive relative to IInv and Copies.                        *)
LEMMA RankedInvariant ==
  ASSUME IInv, Copies, Ranked, [Next]_vars
  PROVE  Ranked'
<1> USE ProcsAssumption DEF IInv, TypeOK, Actors
<1>1. ASSUME NEW i \in Procs, Client(i) PROVE Ranked'
  <2>1. CASE prepare(i)
    BY <2>1, ForkedIsLast
  <2>2. CASE construct(i) \/ start(i) \/ wait(i) \/ destroy_pipes(i)
    <3>1. \A k \in Procs : fds'[k] = fds[k]
      BY <2>2 DEF construct, start, wait, destroy_pipes, RuntimeCloses
    <3>2. \A k \in Procs : child'[k] # "none" => child[k] # "none"
      BY <2>2 DEF construct, start, wait, destroy_pipes
    <3> QED
      BY <3>1, <3>2, RankIsKept
  <2>3. CASE prepare_throws(i) \/ start_sigpipe(i)
    BY <2>3, RankIsKept DEF prepare_throws, start_sigpipe, RuntimeDies
  <2> QED
    BY <1>1, <2>1, <2>2, <2>3 DEF Client
<1>2. ASSUME NEW i \in Procs, RuntimeContinues(i) PROVE Ranked'
  <2>1. \A k \in Procs : fds'[k] \subseteq fds[k]
    BY <1>2 DEF RuntimeContinues, wait_for_child, wait_for_child_read,
                destroy_process, RuntimeCloses
  <2>2. \A k \in Procs : child'[k] # "none" => child[k] # "none"
    BY <1>2 DEF RuntimeContinues, wait_for_child, wait_for_child_read,
                destroy_process, Lives
  <2> QED
    BY <2>1, <2>2, RankIsKept
<1>3. ASSUME NEW i \in Procs,
             ChildContinues(i) \/ command_ends(i) \/ child_killed(i)
      PROVE  Ranked'
  <2> USE DEF ChildContinues, wait_for_parent, wait_for_parent_ready,
              wait_for_parent_sigpipe, wait_for_parent_go, exec, exec_error,
              command_ends, child_killed, ChildDies, ChildGoes
  <2>1. \A k \in Procs : fds'[k] \subseteq fds[k]
    BY <1>3
  <2>2. \A k \in Procs : child'[k] # "none" => child[k] # "none"
    BY <1>3
  <2> QED
    BY <2>1, <2>2, RankIsKept
<1>4. CASE runtime_killed
  BY <1>4, RankIsKept DEF runtime_killed, RuntimeDies
<1>5. CASE UNCHANGED vars
  BY <1>5, RankIsKept DEF vars
<1> QED
  BY <1>1, <1>2, <1>3, <1>4, <1>5 DEF Next

(* The child is on hold and cannot go on, or it can.                       *)
Waits(i) == child[i] = "held" /\ go_pipe_[i] = 0 /\ Open(go(i, "W"))
GoesOn(i) ==
  \/ child[i] \in {"forked", "setup", "released"}
  \/ child[i] = "held" /\ ~Waits(i)

(* A child that start() was called for is not blocked; and if the runtime  *)
(* is dead, then as long as a child is on hold there is one that is not    *)
(* blocked, although each has inherited the writing ends the others wait   *)
(* for to be closed.                                                       *)
HoldEnds ==
  /\ \A i \in Procs : object[i] = "started" /\ child[i] = "held" => GoesOn(i)
  /\ ~alive /\ (\E i \in Procs : child[i] = "held") =>
       \E k \in Procs : GoesOn(k)

(* Among children that wait there is one that was forked last.             *)
LEMMA LastWaiter ==
  ASSUME Ranked, NEW S, S \subseteq Procs, S # {},
         \A i \in S : child[i] # "none"
  PROVE  \E i \in S : \A k \in S : go(i, "W") \in fds[k] => k = i
<1>1. PICK r \in [Procs -> Nat], n \in Nat : RankedBy(r, n)
  BY DEF Ranked
<1> DEFINE D == {n - r[i] : i \in S}
           R == {ss \in Nat \X Nat : ss[1] < ss[2]}
<1>2. \A i \in S : r[i] \in Nat /\ r[i] < n
  BY <1>1 DEF RankedBy
<1>3. D \subseteq Nat /\ D # {}
  BY <1>2
<1>4. PICK d \in D : \A e \in D : ~(<<e, d>> \in R)
  <2>1. IsWellFoundedOn(R, Nat)
    BY NatLessThanWellFounded DEF OpToRel
  <2> HIDE DEF R, D
  <2> QED
    BY <1>3, <2>1, WFMin
<1>5. PICK i \in S : d = n - r[i]
  OBVIOUS
<1>6. ASSUME NEW k \in S, go(i, "W") \in fds[k], k # i PROVE FALSE
  <2>1. r[i] < r[k]
    BY <1>1, <1>6 DEF RankedBy
  <2>2. n - r[k] \in D /\ n - r[k] < d
    BY <1>2, <1>5, <2>1
  <2> QED
    BY <1>3, <1>4, <2>2
<1> QED
  BY <1>6

(* No child stays on hold for ever because of the others: the wait is over *)
(* for the one that was forked last, and so on.                            *)
THEOREM HoldEndsHolds ==
  ASSUME ~Eager
  PROVE  Spec => []HoldEnds
<1>1. Init => Copies /\ Ranked
  <2> SUFFICES ASSUME Init PROVE Copies /\ Ranked
    OBVIOUS
  <2>1. RankedBy([i \in Procs |-> 0], 0)
    BY DEF Init, RankedBy
  <2>2. [i \in Procs |-> 0] \in [Procs -> Nat]
    OBVIOUS
  <2> QED
    BY <2>1, <2>2, ProcsAssumption DEF Init, Copies, Ranked, Actors
<1>2. IInv /\ Sealed /\ Copies /\ Ranked /\ [Next]_vars => Copies' /\ Ranked'
  BY CopiesInvariant, RankedInvariant
<1>3. IInv /\ Sealed /\ Copies /\ Ranked => HoldEnds
  <2> SUFFICES ASSUME IInv, Sealed, Copies, Ranked PROVE HoldEnds
    OBVIOUS
  <2>1. ASSUME NEW i \in Procs, object[i] = "started", child[i] = "held"
        PROVE  GoesOn(i)
    BY <2>1 DEF IInv, TypeOK, Copies, GoesOn, Waits
  <2>2. ASSUME ~alive, NEW i \in Procs, child[i] = "held",
               \A k \in Procs : ~GoesOn(k)
        PROVE  FALSE
    <3> DEFINE S == {k \in Procs : child[k] = "held"}
    <3>1. PICK j \in S : \A k \in S : go(j, "W") \in fds[k] => k = j
      <4>1. S \subseteq Procs /\ S # {} /\ \A k \in S : child[k] # "none"
        BY <2>2
      <4> HIDE DEF S
      <4> QED
        BY <4>1, LastWaiter
    <3>2. PICK a \in Actors : go(j, "W") \in fds[a]
      BY <2>2 DEF GoesOn, Waits, Open
    <3>3. a \in Procs /\ fds[a] # {}
      BY <2>2, <3>2 DEF Copies, Actors
    <3>4. child[a] = "held"
      BY <2>2, <3>3 DEF IInv, TypeOK, ChildStates, Copies, Sealed,
                        NoDescriptorLeak, GoesOn
    <3>5. a = j
      BY <3>1, <3>2, <3>3, <3>4
    <3> QED
      BY <3>1, <3>2, <3>5 DEF Copies
  <2> QED
    BY <2>1, <2>2 DEF HoldEnds
<1> QED
  BY <1>1, <1>2, <1>3, Invariance, SealedHolds, PTL DEF Spec

=============================================================================
