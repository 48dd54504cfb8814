----------------------------- MODULE FifoQueue -----------------------------
(***************************************************************************)
(* What util::concurrent_queue promises its callers                        *)
(* (src/src/util/concurrent_queue.h): one FIFO sequence of values, every   *)
(* operation taking effect in a single step between its call and its       *)
(* return.  pop() returns only with the value at the front; pop(timeout)   *)
(* may also give up, but only at an instant when the queue is empty.       *)
(*                                                                         *)
(* ConcurrentQueue, which has the mutex and the condition variable, is     *)
(* shown to implement this module; the modules that use a queue            *)
(* (SimpleManager) use its atomic operations.                              *)
(***************************************************************************)
EXTENDS Sequences

CONSTANTS Consumers,  \* the threads that pop
          Values,     \* the values that are pushed
          Nothing     \* what a pop(timeout) that gave up returns

VARIABLES queue_,     \* the contents, front first
          call,       \* call[c]: the pop that c is inside of, or "none"
          result      \* result[c]: what c's last pop returned

vars == <<queue_, call, result>>

Init ==
  /\ queue_ = <<>>
  /\ call = [c \in Consumers |-> "none"]
  /\ result = [c \in Consumers |-> Nothing]

Push(v) ==
  /\ queue_' = Append(queue_, v)
  /\ UNCHANGED <<call, result>>

Call(c, kind) ==
  /\ call[c] = "none"
  /\ call' = [call EXCEPT ![c] = kind]
  /\ UNCHANGED <<queue_, result>>

Return(c, v) ==
  /\ call' = [call EXCEPT ![c] = "none"]
  /\ result' = [result EXCEPT ![c] = v]

Pop(c) ==
  /\ call[c] # "none"
  /\ queue_ # <<>>
  /\ queue_' = Tail(queue_)
  /\ Return(c, Head(queue_))

GiveUp(c) ==
  /\ call[c] = "pop_for"
  /\ queue_ = <<>>
  /\ Return(c, Nothing)
  /\ UNCHANGED queue_

Next ==
  \/ \E v \in Values : Push(v)
  \/ \E c \in Consumers :
       \/ \E kind \in {"pop", "pop_for"} : Call(c, kind)
       \/ Pop(c)
       \/ GiveUp(c)

(* The queue hands over a value as long as it has one and someone waits.   *)
Progress == WF_vars(\E c \in Consumers : Pop(c))

Safety == Init /\ [][Next]_vars

=============================================================================
