--------------------------- MODULE MCProcessOwner ---------------------------
(* ProcessOwner for TLC: pids, and objects of a class, are interchangeable, *)
(* and what an object or a process that is gone leaves behind is not told   *)
(* apart: nothing reads it.                                                 *)
EXTENDS ProcessOwner, TLC

Symmetry ==
  Permutations(Sync) \cup Permutations(Objects \ Sync) \cup Permutations(Pids)

View ==
  <<object, waiting, runtime, children, history_vars,
    [o \in {x \in Objects : object[x] # "gone"} |-> <<pid_[o], terminated_[o]>>],
    [p \in {q \in Pids : state[q] # "free"} |->
       <<state[p], group[p], family[p]>>]>>

=============================================================================
