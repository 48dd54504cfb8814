----------------------- MODULE ConcurrentQueueProofs -----------------------
(***************************************************************************)
(* Proofs about ConcurrentQueue, for any finite sets of producers and      *)
(* consumers and any set of values.                                        *)
(***************************************************************************)
EXTENDS ConcurrentQueue, FiniteSetTheorems, TLAPS

-----------------------------------------------------------------------------
(* Type correctness of the queue's state and of its callers' positions.    *)
THEOREM TypeCorrect == Spec => []TypeOK
<1> USE ThreadsAssumption, ValuesAssumption DEF TypeOK, Threads
<1>1. Init => TypeOK
  BY DEF Init
<1>2. TypeOK /\ [Next]_vars => TypeOK'
  <2> SUFFICES ASSUME TypeOK, [Next]_vars PROVE TypeOK'
    OBVIOUS
  <2>1. ASSUME NEW p \in Producers, NEW v \in Values, push_lock(p, v)
        PROVE  TypeOK'
    BY <2>1 DEF push_lock
  <2>2. ASSUME NEW p \in Producers, push_unlock(p) PROVE TypeOK'
    BY <2>2 DEF push_unlock
  <2>3. ASSUME NEW p \in Producers, push_notify(p) PROVE TypeOK'
    BY <2>3 DEF push_notify, cv_
  <2>4. ASSUME NEW c \in Consumers, NEW kind \in {"pop", "pop_for"},
               pop_lock(c, kind)
        PROVE  TypeOK'
    BY <2>4 DEF pop_lock
  <2>5. ASSUME NEW c \in Consumers, pop_wait(c) PROVE TypeOK'
    BY <2>5 DEF pop_wait
  <2>6. ASSUME NEW c \in Consumers, pop_wake(c) PROVE TypeOK'
    BY <2>6 DEF pop_wake
  <2>7. ASSUME NEW c \in Consumers, pop_relock(c) PROVE TypeOK'
    BY <2>7 DEF pop_relock
  <2>8. ASSUME NEW c \in Consumers, pop_take(c) PROVE TypeOK'
    BY <2>8 DEF pop_take, pop_return
  <2>9. ASSUME NEW c \in Consumers, pop_give_up(c) PROVE TypeOK'
    BY <2>9 DEF pop_give_up, pop_return
  <2>10. CASE UNCHANGED vars
    BY <2>10 DEF vars
  <2> QED
    BY <2>1, <2>2, <2>3, <2>4, <2>5, <2>6, <2>7, <2>8, <2>9, <2>10
       DEF Next, ProducerNext, ConsumerNext
<1> QED
  BY <1>1, <1>2, PTL DEF Spec

-----------------------------------------------------------------------------
(* The mutex owner is exactly the thread that is inside a critical         *)
(* section of push() or pop().  MutualExclusion is inductive relative to   *)
(* TypeOK.                                                                 *)
THEOREM MutualExclusionHolds == Spec => []MutualExclusion
<1> USE ThreadsAssumption DEF MutualExclusion, Threads
<1>1. Init => MutualExclusion
  BY DEF Init
<1>2. TypeOK /\ MutualExclusion /\ [Next]_vars => MutualExclusion'
  <2> SUFFICES ASSUME TypeOK, MutualExclusion, [Next]_vars
               PROVE  MutualExclusion'
    OBVIOUS
  <2> USE DEF TypeOK
  <2>1. ASSUME NEW p \in Producers, NEW v \in Values, push_lock(p, v)
        PROVE  MutualExclusion'
    BY <2>1 DEF push_lock
  <2>2. ASSUME NEW p \in Producers, push_unlock(p) PROVE MutualExclusion'
    BY <2>2 DEF push_unlock
  <2>3. ASSUME NEW p \in Producers, push_notify(p) PROVE MutualExclusion'
    BY <2>3 DEF push_notify, cv_
  <2>4. ASSUME NEW c \in Consumers, NEW kind \in {"pop", "pop_for"},
               pop_lock(c, kind)
        PROVE  MutualExclusion'
    BY <2>4 DEF pop_lock
  <2>5. ASSUME NEW c \in Consumers, pop_wait(c) PROVE MutualExclusion'
    BY <2>5 DEF pop_wait
  <2>6. ASSUME NEW c \in Consumers, pop_wake(c) PROVE MutualExclusion'
    BY <2>6 DEF pop_wake
  <2>7. ASSUME NEW c \in Consumers, pop_relock(c) PROVE MutualExclusion'
    BY <2>7 DEF pop_relock
  <2>8. ASSUME NEW c \in Consumers, pop_take(c) PROVE MutualExclusion'
    BY <2>8 DEF pop_take, pop_return
  <2>9. ASSUME NEW c \in Consumers, pop_give_up(c) PROVE MutualExclusion'
    BY <2>9 DEF pop_give_up, pop_return
  <2>10. CASE UNCHANGED vars
    BY <2>10 DEF vars
  <2> QED
    BY <2>1, <2>2, <2>3, <2>4, <2>5, <2>6, <2>7, <2>8, <2>9, <2>10
       DEF Next, ProducerNext, ConsumerNext
<1> QED
  BY <1>1, <1>2, TypeCorrect, PTL DEF Spec

-----------------------------------------------------------------------------
(* The two sets that NoLostWakeup counts are finite, whatever the state.   *)
LEMMA FiniteCounts ==
  ASSUME NEW S \in SUBSET Producers, NEW T \in SUBSET Consumers
  PROVE  /\ IsFiniteSet(S) /\ Cardinality(S) \in Nat
         /\ IsFiniteSet(T) /\ Cardinality(T) \in Nat
BY ThreadsAssumption, FS_Subset, FS_CardinalityType

(* An added element counts one more, a removed element one less.           *)
LEMMA CountOne ==
  ASSUME NEW S, NEW x, IsFiniteSet(S)
  PROVE  /\ x \notin S => Cardinality(S \cup {x}) = Cardinality(S) + 1
         /\ x \in S => Cardinality(S \ {x}) = Cardinality(S) - 1
BY FS_AddElement, FS_RemoveElement

(* No wake-up is lost, for any number of producers and consumers: the      *)
(* condition is inductive, because each step that takes a thread out of    *)
(* the count puts another one in or takes a value out of queue_, and a     *)
(* consumer only blocks in cv_.wait when queue_ is empty.                  *)
THEOREM NoWakeupIsLost == Spec => []NoLostWakeup
<1>1. Init => NoLostWakeup
  BY DEF Init, NoLostWakeup, cv_, Threads
<1>2. TypeOK /\ NoLostWakeup /\ [Next]_vars => NoLostWakeup'
  <2> SUFFICES ASSUME TypeOK, NoLostWakeup, [Next]_vars
               PROVE  NoLostWakeup'
    OBVIOUS
  <2> DEFINE n == Cardinality(Notifying)
             a == Cardinality(Awake)
  <2>f. /\ IsFiniteSet(Notifying) /\ n \in Nat
        /\ IsFiniteSet(Awake) /\ a \in Nat
    BY FiniteCounts DEF Notifying, Awake
  <2>g. n' \in Nat /\ a' \in Nat
    BY FiniteCounts DEF Notifying, Awake
  <2>l. Len(queue_) \in Nat
    BY DEF TypeOK
  <2>1. ASSUME NEW p \in Producers, NEW v \in Values, push_lock(p, v)
        PROVE  NoLostWakeup'
    <3>1. cv_' = cv_ /\ Notifying' = Notifying /\ Awake' = Awake
      BY <2>1, ThreadsAssumption
         DEF push_lock, cv_, Notifying, Awake, TypeOK, Threads
    <3> QED
      BY <3>1, <2>1 DEF push_lock, NoLostWakeup
  <2>2. ASSUME NEW p \in Producers, push_unlock(p) PROVE NoLostWakeup'
    <3>1. cv_' = cv_ /\ Awake' = Awake
      BY <2>2, ThreadsAssumption DEF push_unlock, cv_, Awake, TypeOK, Threads
    <3>2. Notifying' = Notifying \cup {p} /\ p \notin Notifying
      BY <2>2 DEF push_unlock, Notifying, TypeOK, Threads
    <3>3. n' = n + 1
      BY <3>2, <2>f, CountOne
    <3>4. Len(queue_') = Len(queue_) + 1
      BY <2>2 DEF push_unlock, TypeOK
    <3> QED
      BY <3>1, <3>3, <3>4, <2>f, <2>l DEF NoLostWakeup
  <2>3. ASSUME NEW p \in Producers, push_notify(p) PROVE NoLostWakeup'
    <3>1. CASE cv_ = {} /\ pc' = [pc EXCEPT ![p] = "idle"]
      BY <3>1, ThreadsAssumption DEF cv_, TypeOK, Threads, NoLostWakeup
    <3>2. ASSUME NEW c \in cv_,
                 pc' = [pc EXCEPT ![p] = "idle", ![c] = "woken"]
          PROVE  NoLostWakeup'
      <4>1. /\ Notifying' = Notifying \ {p} /\ p \in Notifying
            /\ Awake' = Awake \cup {c} /\ c \notin Awake
        BY <2>3, <3>2, ThreadsAssumption
           DEF push_notify, cv_, Notifying, Awake, TypeOK, Threads
      <4>2. n' = n - 1 /\ a' = a + 1
        BY <4>1, <2>f, CountOne
      <4>3. queue_' = queue_ /\ cv_ # {}
        BY <2>3, <3>2 DEF push_notify
      <4> QED
        BY <4>2, <4>3, <2>f, <2>l DEF NoLostWakeup
    <3> QED
      BY <2>3, <3>1, <3>2 DEF push_notify
  <2>4. ASSUME NEW c \in Consumers, NEW kind \in {"pop", "pop_for"},
               pop_lock(c, kind)
        PROVE  NoLostWakeup'
    <3>1. cv_' = cv_ /\ Notifying' = Notifying
      BY <2>4, ThreadsAssumption
         DEF pop_lock, cv_, Notifying, TypeOK, Threads
    <3>2. Awake' = Awake \cup {c} /\ c \notin Awake
      BY <2>4 DEF pop_lock, Awake, TypeOK, Threads
    <3>3. a' = a + 1
      BY <3>2, <2>f, CountOne
    <3> QED
      BY <3>1, <3>3, <2>4, <2>f, <2>l DEF pop_lock, NoLostWakeup
  <2>5. ASSUME NEW c \in Consumers, pop_wait(c) PROVE NoLostWakeup'
    BY <2>5, <2>g DEF pop_wait, NoLostWakeup
  <2>6. ASSUME NEW c \in Consumers, pop_wake(c) PROVE NoLostWakeup'
    <3>1. Notifying' = Notifying /\ c \in cv_
      BY <2>6, ThreadsAssumption
         DEF pop_wake, cv_, Notifying, TypeOK, Threads
    <3>2. Awake' = Awake \cup {c} /\ c \notin Awake
      BY <2>6 DEF pop_wake, Awake, TypeOK, Threads
    <3>3. a' = a + 1
      BY <3>2, <2>f, CountOne
    <3> QED
      BY <3>1, <3>3, <2>6, <2>f, <2>l DEF pop_wake, NoLostWakeup
  <2>7. ASSUME NEW c \in Consumers, pop_relock(c) PROVE NoLostWakeup'
    <3>1. cv_' = cv_ /\ Notifying' = Notifying /\ Awake' = Awake
      BY <2>7, ThreadsAssumption
         DEF pop_relock, cv_, Notifying, Awake, TypeOK, Threads
    <3> QED
      BY <3>1, <2>7 DEF pop_relock, NoLostWakeup
  <2>8. ASSUME NEW c \in Consumers, pop_take(c) PROVE NoLostWakeup'
    <3>1. cv_' = cv_ /\ Notifying' = Notifying
      BY <2>8, ThreadsAssumption
         DEF pop_take, pop_return, cv_, Notifying, TypeOK, Threads
    <3>2. Awake' = Awake \ {c} /\ c \in Awake
      BY <2>8 DEF pop_take, pop_return, Awake, TypeOK, Threads
    <3>3. a' = a - 1
      BY <3>2, <2>f, CountOne
    <3>4. Len(queue_') = Len(queue_) - 1
      BY <2>8 DEF pop_take, TypeOK
    <3> QED
      BY <3>1, <3>3, <3>4, <2>f, <2>l DEF NoLostWakeup
  <2>9. ASSUME NEW c \in Consumers, pop_give_up(c) PROVE NoLostWakeup'
    BY <2>9, <2>g DEF pop_give_up, NoLostWakeup
  <2>10. CASE UNCHANGED vars
    BY <2>10 DEF vars, NoLostWakeup, cv_, Notifying, Awake
  <2> QED
    BY <2>1, <2>2, <2>3, <2>4, <2>5, <2>6, <2>7, <2>8, <2>9, <2>10
       DEF Next, ProducerNext, ConsumerNext
<1> QED
  BY <1>1, <1>2, TypeCorrect, PTL DEF Spec

-----------------------------------------------------------------------------
(* A consumer is inside a call exactly while it is inside pop(), and only  *)
(* pop(timeout) is told that the time is up.                               *)
CallInv ==
  \A c \in Consumers :
    /\ pc[c] = "idle" <=> call[c] = "none"
    /\ pc[c] # "idle" /\ expired[c] => call[c] = "pop_for"

(* What c was told about the time belongs to the call it is inside of.     *)
LEMMA CallsMatch == Spec => []CallInv
<1> USE ThreadsAssumption DEF CallInv, Threads
<1>1. Init => CallInv
  BY DEF Init
<1>2. TypeOK /\ CallInv /\ [Next]_vars => CallInv'
  <2> SUFFICES ASSUME TypeOK, CallInv, [Next]_vars PROVE CallInv'
    OBVIOUS
  <2> USE DEF TypeOK
  <2>1. ASSUME NEW p \in Producers, NEW v \in Values, push_lock(p, v)
        PROVE  CallInv'
    BY <2>1 DEF push_lock
  <2>2. ASSUME NEW p \in Producers, push_unlock(p) PROVE CallInv'
    BY <2>2 DEF push_unlock
  <2>3. ASSUME NEW p \in Producers, push_notify(p) PROVE CallInv'
    BY <2>3 DEF push_notify, cv_
  <2>4. ASSUME NEW c \in Consumers, NEW kind \in {"pop", "pop_for"},
               pop_lock(c, kind)
        PROVE  CallInv'
    BY <2>4 DEF pop_lock
  <2>5. ASSUME NEW c \in Consumers, pop_wait(c) PROVE CallInv'
    BY <2>5 DEF pop_wait
  <2>6. ASSUME NEW c \in Consumers, pop_wake(c) PROVE CallInv'
    BY <2>6 DEF pop_wake
  <2>7. ASSUME NEW c \in Consumers, pop_relock(c) PROVE CallInv'
    BY <2>7 DEF pop_relock
  <2>8. ASSUME NEW c \in Consumers, pop_take(c) PROVE CallInv'
    BY <2>8 DEF pop_take, pop_return
  <2>9. ASSUME NEW c \in Consumers, pop_give_up(c) PROVE CallInv'
    BY <2>9 DEF pop_give_up, pop_return
  <2>10. CASE UNCHANGED vars
    BY <2>10 DEF vars
  <2> QED
    BY <2>1, <2>2, <2>3, <2>4, <2>5, <2>6, <2>7, <2>8, <2>9, <2>10
       DEF Next, ProducerNext, ConsumerNext
<1> QED
  BY <1>1, <1>2, TypeCorrect, PTL DEF Spec

(* The queue with its mutex and condition variable implements the atomic   *)
(* FIFO queue: the step that releases the mutex is where push() and pop()  *)
(* take effect, and every other step leaves the abstract state alone,      *)
(* except the one that enters pop().                                       *)
THEOREM ImplementsFifo == Spec => FifoSafety
<1>1. Init => Fifo!Init
  BY DEF Init, Fifo!Init
<1>2. TypeOK /\ CallInv /\ [Next]_vars => [Fifo!Next]_Fifo!vars
  <2> SUFFICES ASSUME TypeOK, CallInv, [Next]_vars
               PROVE  Fifo!Next \/ UNCHANGED Fifo!vars
    BY DEF Fifo!vars
  <2>1. ASSUME NEW p \in Producers, NEW v \in Values, push_lock(p, v)
        PROVE  UNCHANGED Fifo!vars
    BY <2>1 DEF push_lock, Fifo!vars
  <2>2. ASSUME NEW p \in Producers, push_unlock(p) PROVE Fifo!Next
    <3>1. value[p] \in Values /\ Fifo!Push(value[p])
      BY <2>2 DEF push_unlock, TypeOK, Fifo!Push
    <3> QED
      BY <3>1 DEF Fifo!Next
  <2>3. ASSUME NEW p \in Producers, push_notify(p) PROVE UNCHANGED Fifo!vars
    BY <2>3 DEF push_notify, Fifo!vars
  <2>4. ASSUME NEW c \in Consumers, NEW kind \in {"pop", "pop_for"},
               pop_lock(c, kind)
        PROVE  Fifo!Next
    <3>1. Fifo!Call(c, kind)
      BY <2>4 DEF pop_lock, CallInv, Fifo!Call
    <3> QED
      BY <3>1 DEF Fifo!Next
  <2>5. ASSUME NEW c \in Consumers,
               pop_wait(c) \/ pop_wake(c) \/ pop_relock(c)
        PROVE  UNCHANGED Fifo!vars
    BY <2>5 DEF pop_wait, pop_wake, pop_relock, Fifo!vars
  <2>6. ASSUME NEW c \in Consumers, pop_take(c) PROVE Fifo!Next
    <3>1. Fifo!Pop(c)
      BY <2>6 DEF pop_take, pop_return, CallInv, Fifo!Pop, Fifo!Return
    <3> QED
      BY <3>1 DEF Fifo!Next
  <2>7. ASSUME NEW c \in Consumers, pop_give_up(c) PROVE Fifo!Next
    <3>1. Fifo!GiveUp(c)
      BY <2>7 DEF pop_give_up, pop_return, CallInv, Fifo!GiveUp, Fifo!Return
    <3> QED
      BY <3>1 DEF Fifo!Next
  <2>8. CASE UNCHANGED vars
    BY <2>8 DEF vars, Fifo!vars
  <2> QED
    BY <2>1, <2>2, <2>3, <2>4, <2>5, <2>6, <2>7, <2>8
       DEF Next, ProducerNext, ConsumerNext
<1> QED
  BY <1>1, <1>2, TypeCorrect, CallsMatch, PTL
     DEF Spec, FifoSafety, Fifo!Safety

=============================================================================
