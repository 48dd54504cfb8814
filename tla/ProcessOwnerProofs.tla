------------------------- MODULE ProcessOwnerProofs -------------------------
(***************************************************************************)
(* ProcessOwner for any number of objects and pids.                        *)
(***************************************************************************)
EXTENDS ProcessOwner, TLAPS

(* The kernel does not hand out the pid of a child again, and what is      *)
(* constructed or moved does not come with the pid of a process.           *)
PidInv ==
  /\ \A p \in children : state[p] # "free"
  /\ \A o \in Objects :
       /\ object[o] = "raw" => ~started(o)
       /\ ~started(o) => ~terminated_[o] /\ o \notin waiting

(* What a process without callbacks forks stays in the group of the        *)
(* runtime.                                                                *)
PlainInv ==
  \A q \in Pids :
    state[q] # "free" /\ family[q] \in Objects \ Sync =>
      group[q] = RuntimeGroup

(* The process group of a sync_process is exactly its tree.                *)
GroupInv ==
  \A o \in Sync :
    /\ ~started(o) => \A q \in Pids : family[q] # o
    /\ Owns(o) /\ ~copied =>
         /\ group[pid_[o]] = pid_[o]
         /\ \A q \in Pids :
              state[q] # "free" => (family[q] = o <=> group[q] = pid_[o])

Inv == TypeOK /\ PidInv /\ OneOwner /\ PlainInv /\ GroupInv

-----------------------------------------------------------------------------
(* Type correctness of the objects and of the process table.               *)
THEOREM TypeCorrect == Spec => []TypeOK
<1>. USE KernelAssumption, ObjectsAssumption
     DEF TypeOK, object_vars, kernel_vars,
         history_vars
<1>1. Init => TypeOK
  <2>. SUFFICES ASSUME Init PROVE TypeOK
    OBVIOUS
  <2>1. copied \in BOOLEAN /\ dropped \in BOOLEAN /\ runtime \in BOOLEAN
    BY DEF Init
  <2>2. terminated_ \in [Objects -> BOOLEAN]
    BY DEF Init
  <2>. QED  BY <2>1, <2>2 DEF Init
<1>2. TypeOK /\ [Next]_vars => TypeOK'
  <2>. SUFFICES ASSUME TypeOK, [Next]_vars PROVE TypeOK'
    OBVIOUS
  <2>1. ASSUME NEW o \in Objects, construct(o) PROVE TypeOK'
    BY <2>1 DEF construct, Exists
  <2>2. ASSUME NEW o \in Objects, wait(o) PROVE TypeOK'
    BY <2>2 DEF wait, Collect, Usable
  <2>3. ASSUME NEW o \in Objects, set_terminated(o) PROVE TypeOK'
    BY <2>3 DEF set_terminated
  <2>4. ASSUME NEW o \in Objects, destroy(o) PROVE TypeOK'
    BY <2>4 DEF destroy, Collect, End, Usable
  <2>5. ASSUME NEW o \in Objects, NEW p \in Pids, start(o, p) PROVE TypeOK'
    BY <2>5 DEF start, NewProcess, Free, GroupOfChild, Usable
  <2>6. ASSUME NEW o \in Objects, NEW mode \in {"PROC", "TREE"},
               kill_process(o, mode)
        PROVE  TypeOK'
    BY <2>6 DEF kill_process, End
  <2>7. ASSUME NEW o \in Objects, NEW n \in Objects, move(o, n) PROVE TypeOK'
    BY <2>7 DEF move, CanMove, Usable
  <2>8. ASSUME NEW p \in Pids, stranger_starts(p) PROVE TypeOK'
    BY <2>8 DEF stranger_starts, NewProcess, Free
  <2>9. ASSUME NEW p \in Pids, process_ends(p) PROVE TypeOK'
    BY <2>9 DEF process_ends, End
  <2>10. ASSUME NEW p \in Pids, NEW q \in Pids, fork_child(p, q) PROVE TypeOK'
    BY <2>10 DEF fork_child, NewProcess, Free
  <2>11. CASE UNCHANGED vars
    BY <2>11 DEF vars
  <2>. QED
    BY <2>1, <2>2, <2>3, <2>4, <2>5, <2>6, <2>7, <2>8, <2>9, <2>10, <2>11
       DEF Next
<1>. QED
  BY <1>1, <1>2, PTL DEF Spec

-----------------------------------------------------------------------------
(* The pid of a child stays in use until the child is collected, and an    *)
(* object without a pid neither waits nor is terminated.                   *)
LEMMA PidInvHolds == Spec => []PidInv
<1>. USE KernelAssumption, ObjectsAssumption
     DEF PidInv, started, object_vars, kernel_vars,
         history_vars
<1>1. Init => PidInv
  BY DEF Init
<1>2. TypeOK /\ PidInv /\ [Next]_vars => PidInv'
  <2>. SUFFICES ASSUME TypeOK, PidInv, [Next]_vars PROVE PidInv'
    OBVIOUS
  <2>. USE DEF TypeOK, Manages, Exists
  <2>1. ASSUME NEW o \in Objects, construct(o) PROVE PidInv'
    BY <2>1 DEF construct, Exists
  <2>2. ASSUME NEW o \in Objects, wait(o) PROVE PidInv'
    BY <2>2 DEF wait, Collect, Usable
  <2>3. ASSUME NEW o \in Objects, set_terminated(o) PROVE PidInv'
    BY <2>3 DEF set_terminated
  <2>4. ASSUME NEW o \in Objects, destroy(o) PROVE PidInv'
    BY <2>4 DEF destroy, Collect, End, Usable
  <2>5. ASSUME NEW o \in Objects, NEW p \in Pids, start(o, p) PROVE PidInv'
    BY <2>5 DEF start, NewProcess, Free, GroupOfChild, Usable
  <2>6. ASSUME NEW o \in Objects, NEW mode \in {"PROC", "TREE"},
               kill_process(o, mode)
        PROVE  PidInv'
    BY <2>6 DEF kill_process, End
  <2>7. ASSUME NEW o \in Objects, NEW n \in Objects, move(o, n) PROVE PidInv'
    BY <2>7 DEF move, CanMove, Usable
  <2>8. ASSUME NEW p \in Pids, stranger_starts(p) PROVE PidInv'
    BY <2>8 DEF stranger_starts, NewProcess, Free
  <2>9. ASSUME NEW p \in Pids, process_ends(p) PROVE PidInv'
    BY <2>9 DEF process_ends, End
  <2>10. ASSUME NEW p \in Pids, NEW q \in Pids, fork_child(p, q) PROVE PidInv'
    BY <2>10 DEF fork_child, NewProcess, Free
  <2>11. CASE UNCHANGED vars
    BY <2>11 DEF vars
  <2>. QED
    BY <2>1, <2>2, <2>3, <2>4, <2>5, <2>6, <2>7, <2>8, <2>9, <2>10, <2>11
       DEF Next
<1>. QED
  BY <1>1, <1>2, TypeCorrect, PTL DEF Spec

-----------------------------------------------------------------------------
(* Every child of the runtime has an object that will kill and collect it, *)
(* whatever was moved, as long as no object with a running process was     *)
(* assigned another; and no object would signal a pid that is not its      *)
(* child's as long as no object with a running process was moved from.     *)
THEOREM OneOwnerHolds == Spec => []OneOwner
<1>. USE KernelAssumption, ObjectsAssumption
     DEF OneOwner, Owns, Manages, Exists, started, object_vars, kernel_vars,
         history_vars
<1>1. Init => OneOwner
  BY DEF Init
<1>2. TypeOK /\ PidInv /\ OneOwner /\ [Next]_vars => OneOwner'
  <2>. SUFFICES ASSUME TypeOK, PidInv, OneOwner, [Next]_vars PROVE OneOwner'
    OBVIOUS
  <2>. USE DEF TypeOK, PidInv
  <2>1. ASSUME NEW o \in Objects, construct(o) PROVE OneOwner'
    BY <2>1 DEF construct, Exists
  <2>2. ASSUME NEW o \in Objects, wait(o) PROVE OneOwner'
    BY <2>2 DEF wait, Collect, Usable
  <2>3. ASSUME NEW o \in Objects, set_terminated(o) PROVE OneOwner'
    BY <2>3 DEF set_terminated
  <2>4. ASSUME NEW o \in Objects, destroy(o) PROVE OneOwner'
    BY <2>4 DEF destroy, Collect, End, Usable
  <2>5. ASSUME NEW o \in Objects, NEW p \in Pids, start(o, p) PROVE OneOwner'
    BY <2>5 DEF start, NewProcess, Free, GroupOfChild, Usable
  <2>6. ASSUME NEW o \in Objects, NEW mode \in {"PROC", "TREE"},
               kill_process(o, mode)
        PROVE  OneOwner'
    BY <2>6 DEF kill_process, End
  <2>7. ASSUME NEW o \in Objects, NEW n \in Objects, move(o, n) PROVE OneOwner'
    <3>1. /\ object' = [object EXCEPT ![n] = IF n \in Sync THEN "moved"
                                             ELSE object[o],
                                      ![o] = "moved"]
          /\ pid_' = [pid_ EXCEPT ![n] = pid_[o]]
          /\ terminated_' = [terminated_ EXCEPT ![n] = terminated_[o]]
          /\ o # n /\ Exists(o)
          /\ UNCHANGED <<waiting, children>>
      BY ONLY <2>7 DEF move, CanMove, Usable
    <3>2. family' = [p \in Pids |-> IF family[p] = o THEN n
                            ELSE IF family[p] = n THEN Nobody ELSE family[p]]
      BY ONLY <2>7 DEF move
    <3>3. \A x \in Objects \ {n} : Owns(x)' <=> Owns(x)
      BY <3>1
    <3>4. ASSUME ~dropped', NEW p \in children'
          PROVE  \E x \in Objects : Owns(x)' /\ pid_'[x] = p
      <4>1. ~dropped /\ ~Manages(n)
        BY ONLY <2>7, <3>4 DEF move
      <4>2. PICK x \in Objects : Owns(x) /\ pid_[x] = p
        BY <3>1, <3>4, <4>1
      <4>3. x # n
        BY <4>1, <4>2
      <4>. QED  BY <3>1, <3>3, <4>2, <4>3
    <3>5. ASSUME ~copied', NEW x \in Objects, Owns(x)'
          PROVE  pid_'[x] \in children' /\ family'[pid_'[x]] = x
      <4>1. ~copied /\ ~Manages(o)
        BY ONLY <2>7, <3>5 DEF move
      <4>2. ~Owns(n)' /\ ~Owns(o)
        BY <3>1, <4>1
      <4>3. x # n /\ x # o
        BY <3>3, <3>5, <4>2
      <4>4. Owns(x) /\ pid_'[x] = pid_[x]
        BY <3>1, <3>3, <3>5, <4>3
      <4>. QED  BY <3>1, <3>2, <4>1, <4>3, <4>4
    <3>. QED  BY <3>4, <3>5
  <2>8. ASSUME NEW p \in Pids, stranger_starts(p) PROVE OneOwner'
    BY <2>8 DEF stranger_starts, NewProcess, Free
  <2>9. ASSUME NEW p \in Pids, process_ends(p) PROVE OneOwner'
    BY <2>9 DEF process_ends, End
  <2>10. ASSUME NEW p \in Pids, NEW q \in Pids,
               fork_child(p, q)
        PROVE  OneOwner'
    BY <2>10 DEF fork_child, NewProcess, Free
  <2>11. CASE UNCHANGED vars
    BY <2>11 DEF vars
  <2>. QED
    BY <2>1, <2>2, <2>3, <2>4, <2>5, <2>6, <2>7, <2>8, <2>9, <2>10, <2>11
       DEF Next
<1>. QED
  BY <1>1, <1>2, TypeCorrect, PidInvHolds, PTL DEF Spec

-----------------------------------------------------------------------------
(* The descendants of a process without callbacks are in the group of the  *)
(* runtime, whichever object of that class manages it by now.              *)
LEMMA PlainInvHolds == Spec => []PlainInv
<1>. USE KernelAssumption, ObjectsAssumption
     DEF PlainInv, object_vars, kernel_vars,
         history_vars
<1>1. Init => PlainInv
  BY DEF Init
<1>2. TypeOK /\ PlainInv /\ [Next]_vars => PlainInv'
  <2>. SUFFICES ASSUME TypeOK, PlainInv, [Next]_vars PROVE PlainInv'
    OBVIOUS
  <2>. USE DEF TypeOK
  <2>1. ASSUME NEW o \in Objects, construct(o) PROVE PlainInv'
    BY <2>1 DEF construct, Exists
  <2>2. ASSUME NEW o \in Objects, wait(o) PROVE PlainInv'
    BY <2>2 DEF wait, Collect, Usable
  <2>3. ASSUME NEW o \in Objects, set_terminated(o) PROVE PlainInv'
    BY <2>3 DEF set_terminated
  <2>4. ASSUME NEW o \in Objects, destroy(o) PROVE PlainInv'
    BY <2>4 DEF destroy, Collect, End, Usable
  <2>5. ASSUME NEW o \in Objects, NEW p \in Pids, start(o, p) PROVE PlainInv'
    BY <2>5 DEF start, NewProcess, Free, GroupOfChild, Usable
  <2>6. ASSUME NEW o \in Objects, NEW mode \in {"PROC", "TREE"},
               kill_process(o, mode)
        PROVE  PlainInv'
    BY <2>6 DEF kill_process, End
  <2>7. ASSUME NEW o \in Objects, NEW n \in Objects, move(o, n) PROVE PlainInv'
    BY <2>7 DEF move, CanMove, Usable
  <2>8. ASSUME NEW p \in Pids, stranger_starts(p) PROVE PlainInv'
    BY <2>8 DEF stranger_starts, NewProcess, Free
  <2>9. ASSUME NEW p \in Pids, process_ends(p) PROVE PlainInv'
    BY <2>9 DEF process_ends, End
  <2>10. ASSUME NEW p \in Pids, NEW q \in Pids,
               fork_child(p, q)
        PROVE  PlainInv'
    BY <2>10 DEF fork_child, NewProcess, Free
  <2>11. CASE UNCHANGED vars
    BY <2>11 DEF vars
  <2>. QED
    BY <2>1, <2>2, <2>3, <2>4, <2>5, <2>6, <2>7, <2>8, <2>9, <2>10, <2>11
       DEF Next
<1>. QED
  BY <1>1, <1>2, TypeCorrect, PTL DEF Spec

-----------------------------------------------------------------------------
(* What a sync_process forks stays in its group, and nothing else enters   *)
(* that group while the object owns its process.                           *)
LEMMA GroupInvHolds == Spec => []GroupInv
<1>. USE KernelAssumption, ObjectsAssumption
     DEF GroupInv, Owns, Manages, Exists, started, object_vars, kernel_vars,
         history_vars
<1>1. Init => GroupInv
  BY DEF Init
<1>2. TypeOK /\ PidInv /\ OneOwner /\ GroupInv /\ [Next]_vars => GroupInv'
  <2>. SUFFICES ASSUME TypeOK, PidInv, OneOwner, GroupInv, [Next]_vars
                PROVE  GroupInv'
    OBVIOUS
  <2>. USE DEF TypeOK, PidInv, OneOwner
  <2>1. ASSUME NEW o \in Objects, construct(o) PROVE GroupInv'
    BY <2>1 DEF construct, Exists
  <2>2. ASSUME NEW o \in Objects, wait(o) PROVE GroupInv'
    BY <2>2 DEF wait, Collect, Usable
  <2>3. ASSUME NEW o \in Objects, set_terminated(o) PROVE GroupInv'
    BY <2>3 DEF set_terminated
  <2>4. ASSUME NEW o \in Objects, destroy(o) PROVE GroupInv'
    BY <2>4 DEF destroy, Collect, End, Usable
  <2>5. ASSUME NEW o \in Objects, NEW p \in Pids, start(o, p) PROVE GroupInv'
    BY <2>5 DEF start, NewProcess, Free, GroupOfChild, Usable
  <2>6. ASSUME NEW o \in Objects, NEW mode \in {"PROC", "TREE"},
               kill_process(o, mode)
        PROVE  GroupInv'
    BY <2>6 DEF kill_process, End
  <2>7. ASSUME NEW o \in Objects, NEW n \in Objects, move(o, n) PROVE GroupInv'
    <3>1. /\ object' = [object EXCEPT ![n] = IF n \in Sync THEN "moved"
                                             ELSE object[o],
                                      ![o] = "moved"]
          /\ pid_' = [pid_ EXCEPT ![n] = pid_[o]]
          /\ terminated_' = [terminated_ EXCEPT ![n] = terminated_[o]]
          /\ o # n /\ (o \in Sync <=> n \in Sync)
          /\ UNCHANGED <<waiting, children, state, group>>
      BY ONLY <2>7 DEF move, CanMove, Usable
    <3>2. family' = [p \in Pids |-> IF family[p] = o THEN n
                            ELSE IF family[p] = n THEN Nobody ELSE family[p]]
      BY ONLY <2>7 DEF move
    <3>3. ASSUME NEW x \in Sync, ~started(x)', NEW q \in Pids
          PROVE  family'[q] # x
      <4>1. x # n => ~started(x)
        BY <3>1, <3>3
      <4>2. x = n => ~started(o) /\ o \in Sync
        BY <3>1, <3>3
      <4>. QED  BY <3>2, <4>1, <4>2
    <3>4. ASSUME NEW x \in Sync, Owns(x)', ~copied'
          PROVE  /\ group'[pid_'[x]] = pid_'[x]
                 /\ \A q \in Pids : state'[q] # "free" =>
                      (family'[q] = x <=> group'[q] = pid_'[x])
      <4>1. ~copied /\ ~Manages(o)
        BY ONLY <2>7, <3>4 DEF move
      <4>2. x # n /\ x # o
        BY <3>1, <3>4, <4>1
      <4>3. Owns(x) /\ pid_'[x] = pid_[x]
        BY <3>1, <3>4, <4>2
      <4>. QED  BY <3>1, <3>2, <4>1, <4>2, <4>3
    <3>. QED  BY <3>3, <3>4
  <2>8. ASSUME NEW p \in Pids, stranger_starts(p) PROVE GroupInv'
    BY <2>8 DEF stranger_starts, NewProcess, Free
  <2>9. ASSUME NEW p \in Pids, process_ends(p) PROVE GroupInv'
    BY <2>9 DEF process_ends, End
  <2>10. ASSUME NEW p \in Pids, NEW q \in Pids,
               fork_child(p, q)
        PROVE  GroupInv'
    BY <2>10 DEF fork_child, NewProcess, Free
  <2>11. CASE UNCHANGED vars
    BY <2>11 DEF vars
  <2>. QED
    BY <2>1, <2>2, <2>3, <2>4, <2>5, <2>6, <2>7, <2>8, <2>9, <2>10, <2>11
       DEF Next
<1>. QED
  BY <1>1, <1>2, TypeCorrect, PidInvHolds, OneOwnerHolds, PTL DEF Spec

-----------------------------------------------------------------------------
(* As long as no object with a running process was moved from,             *)
(* kill_process() ends the process of its object, or the whole tree of a   *)
(* sync_process, and nothing else, the runtime included, unless a thread   *)
(* is between the two steps of wait() on that object.  In mode TREE on a   *)
(* process without callbacks it ends the tree and the runtime.             *)
THEOREM KillIsExactHolds == Spec => KillIsExact
<1>. USE KernelAssumption, ObjectsAssumption
     DEF Inv, TypeOK, PidInv, OneOwner, Victims, Tree
<1>1. ASSUME Inv, ~copied, NEW o \in Objects \ waiting, NEW mode,
             kill_process(o, mode)
      PROVE  /\ Owns(o) /\ pid_[o] \in Pids /\ state[pid_[o]] # "free"
             /\ family[pid_[o]] = o
             /\ End(Signaled(o, mode))
             /\ runtime' = ~SignalsRuntime(o, mode)
  BY <1>1 DEF kill_process, Usable, Owns
<1>2. ASSUME Inv, ~copied, NEW o \in Objects \ waiting, kill_process(o, "PROC")
      PROVE  Victims = Tree(o) \cap {pid_[o]}
  <2>1. Signaled(o, "PROC") = {pid_[o]}
    BY DEF Signaled
  <2>2. \A p \in Pids : p \in Victims <=> p = pid_[o] /\ state[p] = "alive"
    BY <1>1, <1>2, <2>1 DEF End
  <2>. QED  BY <1>1, <1>2, <2>2
<1>3. ASSUME Inv, ~copied, NEW o \in Objects \ waiting, o \in Sync,
             kill_process(o, "TREE")
      PROVE  Victims = Tree(o) /\ runtime'
  <2>1. /\ group[pid_[o]] = pid_[o]
        /\ \A q \in Pids :
             state[q] # "free" => (family[q] = o <=> group[q] = pid_[o])
    BY <1>1, <1>3 DEF GroupInv
  <2>2. Signaled(o, "TREE") = {q \in Pids : group[q] = pid_[o]}
    BY <1>1, <1>3, <2>1 DEF Signaled
  <2>3. runtime'
    <3>1. SignalsRuntime(o, "TREE") = FALSE
      BY <1>1, <1>3, <2>1 DEF SignalsRuntime
    <3>2. runtime' = ~SignalsRuntime(o, "TREE")
      BY <1>1, <1>3
    <3>. QED  BY <3>1, <3>2
  <2>4. \A p \in Pids :
          p \in Victims <=> group[p] = pid_[o] /\ state[p] = "alive"
    BY <1>1, <1>3, <2>2 DEF End
  <2>. QED  BY <2>1, <2>3, <2>4
<1>4. ASSUME Inv, ~copied, NEW o \in Objects \ waiting, o \notin Sync,
             kill_process(o, "TREE")
      PROVE  Tree(o) \subseteq Victims /\ ~runtime'
  <2>1. \A q \in Pids :
          state[q] # "free" /\ family[q] = o => group[q] = RuntimeGroup
    BY <1>4 DEF PlainInv
  <2>2. group[pid_[o]] = RuntimeGroup
    BY <1>1, <1>4, <2>1
  <2>3. Signaled(o, "TREE") = {q \in Pids : group[q] = RuntimeGroup}
    BY <1>1, <1>4, <2>2 DEF Signaled
  <2>4. ~runtime'
    <3>1. SignalsRuntime(o, "TREE") = TRUE
      BY <1>1, <1>4, <2>2 DEF SignalsRuntime
    <3>2. runtime' = ~SignalsRuntime(o, "TREE")
      BY <1>1, <1>4
    <3>. QED  BY <3>1, <3>2
  <2>5. \A p \in Pids :
          p \in Victims <=> group[p] = RuntimeGroup /\ state[p] = "alive"
    BY <1>1, <1>4, <2>3 DEF End
  <2>. QED  BY <2>1, <2>4, <2>5
<1>5. Spec => []Inv
  BY TypeCorrect, PidInvHolds, OneOwnerHolds, PlainInvHolds, GroupInvHolds,
     PTL DEF Inv
<1>. DEFINE Exact == \A o \in Objects \ waiting : ~copied =>
       /\ kill_process(o, "PROC") => Victims = Tree(o) \cap {pid_[o]}
       /\ kill_process(o, "TREE") =>
            IF o \in Sync THEN Victims = Tree(o) /\ runtime'
            ELSE Tree(o) \subseteq Victims /\ ~runtime'
<1>6. Inv => Exact
  BY ONLY <1>2, <1>3, <1>4
<1>. QED
  BY <1>5, <1>6, PTL DEF KillIsExact

=============================================================================
