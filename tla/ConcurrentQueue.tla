-------------------------- MODULE ConcurrentQueue --------------------------
(***************************************************************************)
(* util::concurrent_queue (src/src/util/concurrent_queue.h): a std::queue  *)
(* behind a mutex, with one condition variable on which the consumers wait *)
(* for the queue to become non-empty.                                      *)
(*                                                                         *)
(* A thread is between two steps wherever another thread can run and see   *)
(* the difference: taking the mutex, leaving the critical section, and     *)
(* notifying, which push() does AFTER it has released the mutex.           *)
(* cv_.wait(lock, pred) is the loop the standard defines it to be, and may *)
(* wake up spuriously.  Each value is pushed once (pids are, in the two    *)
(* queues of this program), so Values also bounds the model.               *)
(***************************************************************************)
EXTENDS Naturals, Sequences, FiniteSets

CONSTANTS Producers, Consumers, Values, Nothing, NoThread

Threads == Producers \cup Consumers

ASSUME ThreadsAssumption ==
  /\ IsFiniteSet(Producers) /\ IsFiniteSet(Consumers)
  /\ Producers \cap Consumers = {}
  /\ NoThread \notin Threads

ASSUME ValuesAssumption == Nothing \notin Values

VARIABLES
  queue_,   \* std::queue<T> queue_
  mutex_,   \* the thread that owns mutex_, or NoThread
  pc,       \* pc[t]: where t is inside the operation it called
  unsent,   \* values no producer has pushed yet
  value,    \* value[p]: the argument of p's push
  call,     \* call[c]: "pop", "pop_for" (pop with a timeout) or "none"
  expired,  \* expired[c]: wait_for has reported the timeout to c's call
  result    \* result[c]: what c's last pop returned

vars == <<queue_, mutex_, pc, unsent, value, call, expired, result>>

(* Threads blocked on cv_, waiting to be notified. *)
cv_ == {c \in Consumers : pc[c] = "wait"}

Init ==
  /\ queue_ = <<>>
  /\ mutex_ = NoThread
  /\ pc = [t \in Threads |-> "idle"]
  /\ unsent = Values
  /\ value = [p \in Producers |-> Nothing]
  /\ call = [c \in Consumers |-> "none"]
  /\ expired = [c \in Consumers |-> FALSE]
  /\ result = [c \in Consumers |-> Nothing]

-----------------------------------------------------------------------------
(* push(): the two overloads have the same body.                           *)

push_lock_unguarded(p, v) ==
  /\ pc[p] = "idle"
  /\ v \in unsent
  /\ mutex_' = p
  /\ unsent' = unsent \ {v}
  /\ value' = [value EXCEPT ![p] = v]
  /\ pc' = [pc EXCEPT ![p] = "push"]
  /\ UNCHANGED <<queue_, call, expired, result>>

push_lock(p, v) ==
  /\ pc[p] = "idle"
  /\ v \in unsent
  /\ mutex_ = NoThread
  /\ mutex_' = p
  /\ unsent' = unsent \ {v}
  /\ value' = [value EXCEPT ![p] = v]
  /\ pc' = [pc EXCEPT ![p] = "push"]
  /\ UNCHANGED <<queue_, call, expired, result>>

push_unlock_moved_from(p) ==
  /\ pc[p] = "push"
  /\ queue_' = Append(queue_, Nothing)
  /\ mutex_' = NoThread
  /\ pc' = [pc EXCEPT ![p] = "notify"]
  /\ UNCHANGED <<unsent, value, call, expired, result>>

push_unlock(p) ==
  /\ pc[p] = "push"
  /\ queue_' = Append(queue_, value[p])
  /\ value' = [value EXCEPT ![p] = Nothing]
  /\ mutex_' = NoThread
  /\ pc' = [pc EXCEPT ![p] = "notify"]
  /\ UNCHANGED <<unsent, call, expired, result>>

push_notify_if_was_empty(p) ==
  /\ pc[p] = "notify"
  /\ \/ /\ cv_ = {} \/ Len(queue_) # 1
        /\ pc' = [pc EXCEPT ![p] = "idle"]
     \/ /\ Len(queue_) = 1
        /\ \E c \in cv_ : pc' = [pc EXCEPT ![p] = "idle", ![c] = "woken"]
  /\ UNCHANGED <<queue_, mutex_, unsent, value, call, expired, result>>

push_notify(p) ==
  /\ pc[p] = "notify"
  /\ \/ /\ cv_ = {}
        /\ pc' = [pc EXCEPT ![p] = "idle"]
     \/ \E c \in cv_ : pc' = [pc EXCEPT ![p] = "idle", ![c] = "woken"]
  /\ UNCHANGED <<queue_, mutex_, unsent, value, call, expired, result>>

-----------------------------------------------------------------------------
(* pop() and pop(timeout).                                                 *)

pop_lock(c, kind) ==
  /\ pc[c] = "idle"
  /\ mutex_ = NoThread
  /\ mutex_' = c
  /\ pc' = [pc EXCEPT ![c] = "check"]
  /\ call' = [call EXCEPT ![c] = kind]
  /\ expired' = [expired EXCEPT ![c] = FALSE]
  /\ UNCHANGED <<queue_, unsent, value, result>>

(* The predicate fails and the timeout has not been reported: wait() lets  *)
(* go of the mutex and blocks in one step.                                 *)
pop_wait(c) ==
  /\ pc[c] = "check"
  /\ queue_ = <<>>
  /\ ~expired[c]
  /\ mutex_' = NoThread
  /\ pc' = [pc EXCEPT ![c] = "wait"]
  /\ UNCHANGED <<queue_, unsent, value, call, expired, result>>

(* wait() returns to its loop without a notification: spuriously, or, in a *)
(* pop(timeout), because the time is up.                                   *)
pop_wake(c) ==
  /\ pc[c] = "wait"
  /\ pc' = [pc EXCEPT ![c] = "woken"]
  /\ \/ UNCHANGED expired
     \/ /\ call[c] = "pop_for"
        /\ expired' = [expired EXCEPT ![c] = TRUE]
  /\ UNCHANGED <<queue_, mutex_, unsent, value, call, result>>

pop_relock(c) ==
  /\ pc[c] = "woken"
  /\ mutex_ = NoThread
  /\ mutex_' = c
  /\ pc' = [pc EXCEPT ![c] = "check"]
  /\ UNCHANGED <<queue_, unsent, value, call, expired, result>>

pop_return(c, v) ==
  /\ pc[c] = "check"
  /\ mutex_' = NoThread
  /\ pc' = [pc EXCEPT ![c] = "idle"]
  /\ call' = [call EXCEPT ![c] = "none"]
  /\ result' = [result EXCEPT ![c] = v]
  /\ UNCHANGED <<unsent, value, expired>>

pop_take(c) ==
  /\ queue_ # <<>>
  /\ queue_' = Tail(queue_)
  /\ pop_return(c, Head(queue_))

pop_give_up_unchecked(c) ==
  /\ expired[c]
  /\ UNCHANGED queue_
  /\ pop_return(c, Nothing)

(* wait_for evaluates the predicate once more before it returns false.     *)
pop_give_up(c) ==
  /\ queue_ = <<>>
  /\ expired[c]
  /\ UNCHANGED queue_
  /\ pop_return(c, Nothing)

-----------------------------------------------------------------------------
ProducerNext(p) ==
  \/ \E v \in Values : push_lock(p, v)
  \/ push_unlock(p)
  \/ push_notify(p)

ConsumerNext(c) ==
  \/ \E kind \in {"pop", "pop_for"} : pop_lock(c, kind)
  \/ pop_wait(c)
  \/ pop_wake(c)
  \/ pop_relock(c)
  \/ pop_take(c)
  \/ pop_give_up(c)

Next ==
  \/ \E p \in Producers : ProducerNext(p)
  \/ \E c \in Consumers : ConsumerNext(c)

(* A thread that is inside an operation and can run is scheduled.  Nothing *)
(* makes a client call, a wait wake up spuriously or a timeout expire.     *)
Fairness ==
  /\ \A p \in Producers : WF_vars(push_unlock(p)) /\ WF_vars(push_notify(p))
  /\ \A c \in Consumers :
       WF_vars(pop_wait(c) \/ pop_relock(c) \/ pop_take(c) \/ pop_give_up(c))

Spec == Init /\ [][Next]_vars
FairSpec == Spec /\ Fairness

-----------------------------------------------------------------------------
(* Every variable holds a value of its type: the members of                *)
(* concurrent_queue, and the callers' positions inside its operations.     *)
TypeOK ==
  /\ queue_ \in Seq(Values)
  /\ mutex_ \in Threads \cup {NoThread}
  /\ pc \in [Threads -> {"idle", "push", "notify", "check", "wait", "woken"}]
  /\ \A p \in Producers : pc[p] \in {"idle", "push", "notify"}
  /\ \A c \in Consumers : pc[c] \in {"idle", "check", "wait", "woken"}
  /\ unsent \subseteq Values
  /\ value \in [Producers -> Values \cup {Nothing}]
  /\ \A p \in Producers : pc[p] = "push" => value[p] \in Values
  /\ call \in [Consumers -> {"none", "pop", "pop_for"}]
  /\ expired \in [Consumers -> BOOLEAN]
  /\ result \in [Consumers -> Values \cup {Nothing}]

(* queue_ is only touched by the thread that owns mutex_, and a thread     *)
(* that returned from push or pop, or waits on cv_, does not own it: the   *)
(* lock_guard and unique_lock scopes are right on every path.              *)
MutualExclusion ==
  \A t \in Threads : pc[t] \in {"push", "check"} <=> mutex_ = t

Notifying == {p \in Producers : pc[p] = "notify"}
Awake == {c \in Consumers : pc[c] \in {"check", "woken"}}

(* No lost wake-up, although push() notifies after releasing the mutex     *)
(* and notifies one waiter only: while some consumer is blocked on cv_,    *)
(* every queued value has a thread that will deal with it, a producer      *)
(* about to notify or a consumer about to test the predicate.              *)
NoLostWakeup ==
  cv_ # {} => Len(queue_) <= Cardinality(Notifying) + Cardinality(Awake)

Fifo == INSTANCE FifoQueue

(* The queue implements the atomic FIFO queue: values come out once each   *)
(* and in push order, and pop(timeout) reports failure only if the queue   *)
(* is empty when it does.                                                  *)
FifoSafety == Fifo!Safety

(* A value never stays in the queue while a consumer is blocked in pop():  *)
(* the progress condition of the atomic queue.                             *)
FifoProgress == Fifo!Progress

=============================================================================
