------------------------ MODULE ProcessMonitorProofs ------------------------
(***************************************************************************)
(* Theorems about ProcessMonitor, for any set of pids and any number of    *)
(* processes that have the same pid in turn.                               *)
(***************************************************************************)
EXTENDS ProcessMonitor, TLAPS

(* Where the thread of a pid is says whether the pid has a future, and     *)
(* whether it is on the queue.                                             *)
Working(p) == waiter[p] \in {"waitpid", "push", "return"}

ThreadInv ==
  /\ \A p \in Pids : Working(p) => p \in status_
  /\ \A p \in Pids :
       InQueue(p) \/ BeingGot(p) => /\ p \in status_
                                    /\ waiter[p] \in {"return", "returned"}
  /\ \A p \in Pids : ~(InQueue(p) /\ BeingGot(p))
  /\ \A i, j \in DOMAIN ended_process_queue_ :
       ended_process_queue_[i] = ended_process_queue_[j] => i = j
  /\ owner = "gone" => status_ = {} /\ ended_process_queue_ = <<>>

(* A life of a pid is waited for, collected, and reported in this order.   *)
Over(p) == added[p] < lives[p] \/ process[p] = "none"

LifeInv ==
  /\ \A p \in Pids :
       /\ lives[p] <= MaxLives
       /\ added[p] <= lives[p]
       /\ process[p] # "none" => lives[p] > 0
       /\ p \in status_ => added[p] > 0 /\ waiter[p] # "none"
       /\ p \in Foreign => waiter[p] \in {"none", "waitpid", "thrown"}
       /\ p \notin Foreign => waiter[p] # "thrown"
       /\ p \notin Foreign /\ waiter[p] = "waitpid" =>
            added[p] = lives[p] /\ process[p] # "none"
       /\ p \in status_ /\ waiter[p] \in {"push", "return", "returned"} =>
            status[p] = added[p] /\ Over(p)
  /\ \A r \in reported :
       /\ r[1] \notin Foreign
       /\ r[2] <= added[r[1]]
       /\ r[1] \in status_ => r[2] < added[r[1]]

Inv == TypeOK /\ ThreadInv /\ LifeInv

-----------------------------------------------------------------------------
(* Type correctness of process_monitor, its threads and the processes.     *)
THEOREM TypeCorrect == Spec => []TypeOK
<1>. USE PidsAssumption DEF TypeOK, kernel_vars, thread_vars, owner_vars
<1>1. Init => TypeOK
  BY DEF Init
<1>2. TypeOK /\ [Next]_vars => TypeOK'
  <2>. SUFFICES ASSUME TypeOK, [Next]_vars PROVE TypeOK'
    OBVIOUS
  <2>1. CASE wait_for_any
    BY <2>1 DEF wait_for_any
  <2>2. CASE destroy
    BY <2>2 DEF destroy
  <2>3. CASE wait_for_any_pop
    BY <2>3 DEF wait_for_any_pop
  <2>4. CASE wait_for_any_get
    BY <2>4 DEF wait_for_any_get
  <2>5. CASE destroy_return
    BY <2>5 DEF destroy_return, gotten
  <2>6. ASSUME NEW p \in Pids, add_process(p) PROVE TypeOK'
    BY <2>6 DEF add_process, check_duplicated_pid
  <2>7. ASSUME NEW p \in Pids, waitpid(p) PROVE TypeOK'
    BY <2>7 DEF waitpid, WaiterGoes, Collect
  <2>8. ASSUME NEW p \in Pids, waitpid_fails(p) PROVE TypeOK'
    BY <2>8 DEF waitpid_fails, WaiterGoes
  <2>9. ASSUME NEW p \in Pids, push(p) PROVE TypeOK'
    BY <2>9 DEF push, WaiterGoes
  <2>10. ASSUME NEW p \in Pids, return(p) PROVE TypeOK'
    BY <2>10 DEF return, WaiterGoes
  <2>11. ASSUME NEW p \in Pids, process_starts(p) PROVE TypeOK'
    BY <2>11 DEF process_starts
  <2>12. ASSUME NEW p \in Pids, process_ends(p) PROVE TypeOK'
    BY <2>12 DEF process_ends
  <2>13. CASE UNCHANGED vars
    BY <2>13 DEF vars
  <2>. QED
    BY <2>1, <2>2, <2>3, <2>4, <2>5, <2>6, <2>7, <2>8, <2>9, <2>10, <2>11,
       <2>12, <2>13 DEF Next, Owner, Waiter
<1>. QED
  BY <1>1, <1>2, PTL DEF Spec

-----------------------------------------------------------------------------
(* What is on the queue once its head is popped or a pid is pushed.        *)
LEMMA PoppedQueue ==
  ASSUME NEW q \in Seq(Pids), q # <<>>
  PROVE  /\ Tail(q) \in Seq(Pids) /\ Head(q) = q[1] /\ 1 \in DOMAIN q
         /\ \A i \in DOMAIN Tail(q) : i + 1 \in DOMAIN q /\ i # 0 /\ i \in Nat
                                      /\ Tail(q)[i] = q[i + 1]
  OBVIOUS

(* What the queue still has once its head is popped.                       *)
LEMMA RestOfQueue ==
  ASSUME NEW q \in Seq(Pids), NEW i \in DOMAIN q, i # 1
  PROVE  i - 1 \in DOMAIN Tail(q) /\ Tail(q)[i - 1] = q[i]
<1>1. i \in 1..Len(q) /\ i - 1 \in 1..(Len(q) - 1) /\ q # <<>>
  OBVIOUS
<1>2. DOMAIN Tail(q) = 1..(Len(q) - 1)
  BY <1>1
<1>3. \A k \in 1..(Len(q) - 1) : Tail(q)[k] = q[k + 1]
  BY <1>1
<1>4. i - 1 + 1 = i
  BY <1>1
<1>5. Tail(q)[i - 1] = q[i - 1 + 1]
  BY <1>1, <1>3
<1>. QED  BY <1>1, <1>2, <1>4, <1>5

(* What it has once a pid is pushed.                                       *)
LEMMA PushedQueue ==
  ASSUME NEW q \in Seq(Pids), NEW p \in Pids
  PROVE  /\ DOMAIN Append(q, p) = (DOMAIN q) \cup {Len(q) + 1}
         /\ \A i \in DOMAIN q : i # Len(q) + 1 /\ Append(q, p)[i] = q[i]
         /\ Append(q, p)[Len(q) + 1] = p
  OBVIOUS

-----------------------------------------------------------------------------
(* A pid is on the queue, or was taken from it by the wait_for_any() under *)
(* way, only while its future is in status_ and its thread has pushed it.  *)
LEMMA ThreadInvHolds == Spec => []ThreadInv
<1>. USE PidsAssumption
       DEF ThreadInv, Working, InQueue, BeingGot, kernel_vars, thread_vars,
           owner_vars
<1>1. Init => ThreadInv
  BY DEF Init
<1>2. TypeOK /\ ThreadInv /\ [Next]_vars => ThreadInv'
  <2>. SUFFICES ASSUME TypeOK, ThreadInv, [Next]_vars PROVE ThreadInv'
    OBVIOUS
  <2>. USE DEF TypeOK
  <2>1. CASE wait_for_any
    BY <2>1 DEF wait_for_any
  <2>2. CASE destroy
    BY <2>2 DEF destroy
  <2>3. CASE wait_for_any_pop
    <3>. DEFINE q == ended_process_queue_
    <3>1. /\ q \in Seq(Pids) /\ q # <<>>
          /\ popped' = Head(q) /\ q' = Tail(q) /\ owner' = "get"
          /\ owner = "pop" /\ waiter' = waiter /\ status_' = status_
      BY <2>3 DEF wait_for_any_pop
    <3>2. /\ popped' = q[1] /\ 1 \in DOMAIN q
          /\ \A i \in DOMAIN q' : /\ i + 1 \in DOMAIN q /\ i # 0 /\ i \in Nat
                                 /\ q'[i] = q[i + 1]
      BY <3>1, PoppedQueue
    <3>. HIDE DEF q
    <3>3. \A p \in Pids : InQueue(p)' \/ BeingGot(p)' => InQueue(p)
      BY <3>2 DEF q
    <3>4. \A p \in Pids : ~(InQueue(p)' /\ BeingGot(p)')
      <4>. SUFFICES ASSUME NEW i \in DOMAIN q', q'[i] = q[1] PROVE FALSE
        BY <3>2 DEF q
      <4>1. i + 1 = 1
        BY <3>2 DEF q
      <4>. QED  BY <4>1, <3>2
    <3>5. \A i, j \in DOMAIN q' : q'[i] = q'[j] => i = j
      <4>. SUFFICES ASSUME NEW i \in DOMAIN q', NEW j \in DOMAIN q',
                           q'[i] = q'[j]
                    PROVE  i = j
        OBVIOUS
      <4>1. i + 1 = j + 1
        BY <3>2 DEF q
      <4>. QED  BY <4>1, <3>2
    <3>. QED  BY <3>1, <3>3, <3>4, <3>5 DEF q
  <2>4. CASE wait_for_any_get
    BY <2>4 DEF wait_for_any_get
  <2>5. CASE destroy_return
    <3>1. \A p \in Pids : ~Working(p)
      BY <2>5 DEF destroy_return, gotten
    <3>2. /\ waiter' = waiter /\ owner' = "gone" /\ status_' = {}
          /\ ended_process_queue_' = <<>> /\ DOMAIN <<>> = {}
      BY <2>5 DEF destroy_return
    <3>. QED  BY <3>1, <3>2
  <2>6. ASSUME NEW p \in Pids, add_process(p) PROVE ThreadInv'
    BY <2>6 DEF add_process, check_duplicated_pid
  <2>7. ASSUME NEW p \in Pids, waitpid(p) PROVE ThreadInv'
    BY <2>7 DEF waitpid, WaiterGoes, Collect
  <2>8. ASSUME NEW p \in Pids, waitpid_fails(p) PROVE ThreadInv'
    BY <2>8 DEF waitpid_fails, WaiterGoes
  <2>9. ASSUME NEW p \in Pids, push(p) PROVE ThreadInv'
    <3>. DEFINE q == ended_process_queue_
    <3>1. /\ q \in Seq(Pids) /\ q' = Append(q, p)
          /\ waiter[p] = "push" /\ waiter' = [waiter EXCEPT ![p] = "return"]
          /\ status_' = status_ /\ owner' = owner /\ popped' = popped
      BY <2>9 DEF push, WaiterGoes
    <3>2. /\ DOMAIN q' = (DOMAIN q) \cup {Len(q) + 1}
          /\ \A i \in DOMAIN q : i # Len(q) + 1 /\ q'[i] = q[i]
          /\ q'[Len(q) + 1] = p
      BY <3>1, PushedQueue
    <3>3. p \in status_ /\ ~InQueue(p) /\ ~BeingGot(p) /\ owner # "gone"
      BY <3>1
    <3>4. \A o \in Pids : InQueue(o)' => InQueue(o) \/ o = p
      BY <3>2
    <3>5. \A i, j \in DOMAIN q' : q'[i] = q'[j] => i = j
      BY <3>2, <3>3
    <3>. HIDE DEF q
    <3>. QED  BY <3>1, <3>3, <3>4, <3>5 DEF q
  <2>10. ASSUME NEW p \in Pids, return(p) PROVE ThreadInv'
    BY <2>10 DEF return, WaiterGoes
  <2>11. ASSUME NEW p \in Pids, process_starts(p) PROVE ThreadInv'
    BY <2>11 DEF process_starts
  <2>12. ASSUME NEW p \in Pids, process_ends(p) PROVE ThreadInv'
    BY <2>12 DEF process_ends
  <2>13. CASE UNCHANGED vars
    BY <2>13 DEF vars
  <2>. QED
    BY <2>1, <2>2, <2>3, <2>4, <2>5, <2>6, <2>7, <2>8, <2>9, <2>10, <2>11,
       <2>12, <2>13 DEF Next, Owner, Waiter
<1>. QED
  BY <1>1, <1>2, TypeCorrect, PTL DEF Spec

-----------------------------------------------------------------------------
(* The life of a pid whose thread is done is over, and is the one added;  *)
(* a life that was reported is not the one that has a future now.          *)
LEMMA LifeInvHolds == Spec => []LifeInv
<1>. USE PidsAssumption DEF LifeInv, Over, kernel_vars, thread_vars, owner_vars
<1>1. Init => LifeInv
  BY DEF Init
<1>2. TypeOK /\ ThreadInv /\ LifeInv /\ [Next]_vars => LifeInv'
  <2>. SUFFICES ASSUME TypeOK, ThreadInv, LifeInv, [Next]_vars PROVE LifeInv'
    OBVIOUS
  <2>. USE DEF TypeOK, ThreadInv, Working
  <2>1. CASE wait_for_any
    BY <2>1 DEF wait_for_any
  <2>2. CASE destroy
    BY <2>2 DEF destroy
  <2>3. CASE wait_for_any_pop
    BY <2>3 DEF wait_for_any_pop
  <2>4. CASE wait_for_any_get
    <3>1. /\ popped \in status_ \cap Pids /\ waiter[popped] = "returned"
          /\ status[popped] = added[popped] /\ popped \notin Foreign
      BY <2>4 DEF wait_for_any_get
    <3>2. /\ reported' = reported \cup {<<popped, added[popped]>>}
          /\ status_' = status_ \ {popped}
          /\ UNCHANGED <<kernel_vars, waiter, status, added>>
      BY <2>4, <3>1 DEF wait_for_any_get
    <3>. QED  BY <3>1, <3>2
  <2>5. CASE destroy_return
    BY <2>5 DEF destroy_return, gotten
  <2>6. ASSUME NEW p \in Pids, add_process(p) PROVE LifeInv'
    BY <2>6 DEF add_process, check_duplicated_pid
  <2>7. ASSUME NEW p \in Pids, waitpid(p) PROVE LifeInv'
    BY <2>7 DEF waitpid, WaiterGoes, Collect
  <2>8. ASSUME NEW p \in Pids, waitpid_fails(p) PROVE LifeInv'
    BY <2>8 DEF waitpid_fails, WaiterGoes
  <2>9. ASSUME NEW p \in Pids, push(p) PROVE LifeInv'
    BY <2>9 DEF push, WaiterGoes
  <2>10. ASSUME NEW p \in Pids, return(p) PROVE LifeInv'
    BY <2>10 DEF return, WaiterGoes
  <2>11. ASSUME NEW p \in Pids, process_starts(p) PROVE LifeInv'
    BY <2>11 DEF process_starts
  <2>12. ASSUME NEW p \in Pids, process_ends(p) PROVE LifeInv'
    BY <2>12 DEF process_ends
  <2>13. CASE UNCHANGED vars
    BY <2>13 DEF vars
  <2>. QED
    BY <2>1, <2>2, <2>3, <2>4, <2>5, <2>6, <2>7, <2>8, <2>9, <2>10, <2>11,
       <2>12, <2>13 DEF Next, Owner, Waiter
<1>. QED
  BY <1>1, <1>2, TypeCorrect, ThreadInvHolds, PTL DEF Spec

-----------------------------------------------------------------------------
(* assert(it != end(status_)) of wait_for_any() holds for any number of    *)
(* processes, and a pid is pushed once for each future.                    *)
THEOREM PushedHasFutureHolds == Spec => []PushedHasFuture
<1>1. ThreadInv => PushedHasFuture
  BY DEF ThreadInv, PushedHasFuture
<1>. QED
  BY <1>1, ThreadInvHolds, PTL

(* When ~process_monitor() has returned, every async thread is done: none  *)
(* of them pushes on the queue that was destroyed with the monitor.        *)
THEOREM NoThreadSurvivesHolds == Spec => []NoThreadSurvives
<1>1. TypeOK /\ ThreadInv => NoThreadSurvives
  BY DEF TypeOK, ThreadInv, Working, NoThreadSurvives
<1>. QED
  BY <1>1, TypeCorrect, ThreadInvHolds, PTL

(* Type correctness and both invariants, together.                         *)
LEMMA InvHolds == Spec => []Inv
  BY TypeCorrect, ThreadInvHolds, LifeInvHolds, PTL DEF Inv

-----------------------------------------------------------------------------
(* wait_for_any() reports a process that was added, has ended and was not  *)
(* reported before: the steps of the monitor are those of ExitReports.     *)
THEOREM ReportsSafetyHolds == Spec => ReportsSafety
<1>. USE PidsAssumption DEF kernel_vars, thread_vars, owner_vars
<1>1. Init => Reports!Init
  BY DEF Init, Reports!Init, ChildRuns, watched, ended, calling
<1>2. Inv /\ [Next]_vars => [Reports!Next]_Reports!vars
  <2>. SUFFICES ASSUME Inv, [Next]_vars
                PROVE  Reports!Next \/ UNCHANGED Reports!vars
    OBVIOUS
  <2>. USE DEF Inv, TypeOK
  <2>1. CASE wait_for_any
    BY <2>1 DEF wait_for_any, Reports!Next, Reports!Call,
       watched, ended, calling
  <2>2. CASE destroy
    BY <2>2 DEF destroy, Reports!vars,
       watched, ended, calling
  <2>3. CASE wait_for_any_pop
    BY <2>3 DEF wait_for_any_pop, Reports!vars,
       watched, ended, calling
  <2>4. CASE wait_for_any_get
    <3>. DEFINE r == <<popped, added[popped]>>
    <3>1. /\ popped \in status_ /\ popped \in Pids \ Foreign
          /\ status[popped] = added[popped] /\ Over(popped)
          /\ added[popped] \in 1..MaxLives /\ added[popped] <= lives[popped]
      <4>1. popped \in status_ \cap Pids /\ waiter[popped] = "returned"
        BY <2>4 DEF wait_for_any_get
      <4>. QED  BY <4>1 DEF LifeInv
    <3>2. /\ calling /\ calling' = FALSE
          /\ reported' = reported \cup {r}
          /\ UNCHANGED <<lives, process, added>>
          /\ status_' = status_ \ {popped}
      BY <2>4, <3>1 DEF wait_for_any_get, calling
    <3>3. r \in ChildRuns /\ r \in watched /\ r \in ended
      BY <3>1 DEF ChildRuns, watched, ended, Over
    <3>4. watched' = watched \ {r} /\ ended' = ended
      BY <3>1, <3>2 DEF watched, ended, ChildRuns
    <3>. QED
      BY <3>2, <3>3, <3>4 DEF Reports!Next, Reports!Report
  <2>5. CASE destroy_return
    <3>1. \A p \in status_ \ Foreign :
            Over(p) /\ added[p] \in 1..MaxLives /\ added[p] <= lives[p]
      BY <2>5 DEF destroy_return, gotten, LifeInv
    <3>2. watched \subseteq ended
      BY <3>1 DEF watched, ended, ChildRuns, Over
    <3>3. /\ watched' = {} /\ UNCHANGED <<ended, reported, calling>>
      BY <2>5 DEF destroy_return, watched, ended, calling
    <3>. QED
      BY <3>2, <3>3 DEF Reports!Next, Reports!Destroy
  <2>6. ASSUME NEW p \in Pids, add_process(p)
        PROVE  Reports!Next \/ UNCHANGED Reports!vars
    <3>1. UNCHANGED <<ended, reported, calling>>
      BY <2>6 DEF add_process, ended, calling, ChildRuns
    <3>2. CASE p \in Foreign
      <4>1. watched' = watched
        BY <2>6, <3>2 DEF add_process, watched
      <4>. QED
        BY <3>1, <4>1 DEF Reports!vars
    <3>3. CASE p \notin Foreign
      <4>. DEFINE r == <<p, lives[p]>>
      <4>1. r \in ChildRuns
        BY <2>6, <3>3 DEF add_process, ChildRuns, LifeInv
      <4>2. r \notin watched
        BY <2>6 DEF add_process, check_duplicated_pid, watched
      <4>3. added[p] < lives[p]
        BY <2>6 DEF add_process, LifeInv
      <4>4. r \notin reported
        BY <4>3 DEF LifeInv
      <4>5. watched' = watched \cup {r}
        BY <2>6, <3>3 DEF add_process, check_duplicated_pid, watched
      <4>. QED
        BY <3>1, <4>1, <4>2, <4>4, <4>5 DEF Reports!Next, Reports!Watch
    <3>. QED  BY <3>2, <3>3
  <2>7. ASSUME NEW p \in Pids, waitpid(p) PROVE UNCHANGED Reports!vars
    <3>1. watched' = watched /\ UNCHANGED <<reported, calling>>
      BY <2>7 DEF waitpid, WaiterGoes, watched, calling
    <3>2. ended' = ended
      BY <2>7 DEF waitpid, Collect, ended, ChildRuns
    <3>. QED  BY <3>1, <3>2 DEF Reports!vars
  <2>8. ASSUME NEW p \in Pids, waitpid_fails(p) PROVE UNCHANGED Reports!vars
    BY <2>8 DEF waitpid_fails, WaiterGoes, Reports!vars,
       watched, ended, calling
  <2>9. ASSUME NEW p \in Pids, push(p) PROVE UNCHANGED Reports!vars
    BY <2>9 DEF push, WaiterGoes, Reports!vars,
       watched, ended, calling
  <2>10. ASSUME NEW p \in Pids, return(p) PROVE UNCHANGED Reports!vars
    BY <2>10 DEF return, WaiterGoes, Reports!vars,
       watched, ended, calling
  <2>11. ASSUME NEW p \in Pids, process_starts(p) PROVE UNCHANGED Reports!vars
    <3>1. watched' = watched /\ UNCHANGED <<reported, calling>>
      BY <2>11 DEF process_starts, watched, calling
    <3>2. ended' = ended
      BY <2>11 DEF process_starts, ended, ChildRuns
    <3>. QED  BY <3>1, <3>2 DEF Reports!vars
  <2>12. ASSUME NEW p \in Pids, process_ends(p)
         PROVE  Reports!Next \/ UNCHANGED Reports!vars
    <3>1. watched' = watched /\ UNCHANGED <<reported, calling>>
      BY <2>12 DEF process_ends, watched, calling
    <3>2. CASE p \in Foreign
      <4>1. ended' = ended
        BY <2>12, <3>2 DEF process_ends, ended, ChildRuns
      <4>. QED  BY <3>1, <4>1 DEF Reports!vars
    <3>3. CASE p \notin Foreign
      <4>1. <<p, lives[p]>> \in ChildRuns
        <5>1. process[p] # "none"
          BY <2>12 DEF process_ends
        <5>2. lives[p] \in 1..MaxLives
          BY <5>1 DEF LifeInv
        <5>. QED  BY <5>2, <3>3 DEF ChildRuns
      <4>2. ended' = ended \cup {<<p, lives[p]>>}
        BY <2>12, <3>3, <4>1 DEF process_ends, ended, ChildRuns
      <4>. QED
        BY <3>1, <4>1, <4>2 DEF Reports!Next, Reports!End
    <3>. QED  BY <3>2, <3>3
  <2>13. CASE UNCHANGED vars
    BY <2>13 DEF vars, Reports!vars,
       watched, ended, calling
  <2>. QED
    BY <2>1, <2>2, <2>3, <2>4, <2>5, <2>6, <2>7, <2>8, <2>9, <2>10, <2>11,
       <2>12, <2>13 DEF Next, Owner, Waiter
<1>3. Spec => []Inv
  BY InvHolds
<1>. QED
  BY <1>1, <1>2, <1>3, PTL DEF Spec, ReportsSafety, Reports!Safety

-----------------------------------------------------------------------------
(* A pid that was pushed is on the queue until it is popped, and then has  *)
(* its future until wait_for_any() has got it.                             *)
QueuedInv ==
  /\ \A p \in status_ :
       waiter[p] \in {"return", "returned"} => InQueue(p) \/ BeingGot(p)
  /\ owner = "get" => popped \in Pids

(* No pop loses a pid, and none is taken for another.                      *)
LEMMA QueuedInvHolds == Spec => []QueuedInv
<1>. USE PidsAssumption
       DEF QueuedInv, InQueue, BeingGot, kernel_vars, thread_vars, owner_vars
<1>1. Init => QueuedInv
  BY DEF Init
<1>2. Inv /\ QueuedInv /\ [Next]_vars => QueuedInv'
  <2>. SUFFICES ASSUME Inv, QueuedInv, [Next]_vars PROVE QueuedInv'
    OBVIOUS
  <2>. USE DEF Inv, TypeOK
  <2>1. CASE wait_for_any
    BY <2>1 DEF wait_for_any
  <2>2. CASE destroy
    BY <2>2 DEF destroy
  <2>3. CASE wait_for_any_pop
    <3>. DEFINE q == ended_process_queue_
    <3>1. /\ q \in Seq(Pids) /\ q # <<>> /\ q' = Tail(q) /\ popped' = Head(q)
          /\ owner' = "get" /\ UNCHANGED <<status_, waiter>>
          /\ ~\E p \in Pids : BeingGot(p)
      BY <2>3 DEF wait_for_any_pop
    <3>2. ASSUME NEW p, InQueue(p) PROVE InQueue(p)' \/ p = Head(q)
      <4>1. PICK i \in DOMAIN q : q[i] = p
        BY <3>2
      <4>2. CASE i = 1
        BY <3>1, <4>1, <4>2
      <4>3. CASE i # 1
        <5>1. i - 1 \in DOMAIN Tail(q) /\ Tail(q)[i - 1] = q[i]
          BY <3>1, <4>3, RestOfQueue
        <5>. QED  BY <3>1, <4>1, <5>1
      <4>. QED  BY <4>2, <4>3
    <3>. HIDE DEF InQueue
    <3>. QED  BY <3>1, <3>2
  <2>4. CASE wait_for_any_get
    BY <2>4 DEF wait_for_any_get
  <2>5. CASE destroy_return
    BY <2>5 DEF destroy_return, gotten
  <2>6. ASSUME NEW p \in Pids, add_process(p) PROVE QueuedInv'
    BY <2>6 DEF add_process, check_duplicated_pid
  <2>7. ASSUME NEW p \in Pids, waitpid(p) PROVE QueuedInv'
    BY <2>7 DEF waitpid, WaiterGoes, Collect
  <2>8. ASSUME NEW p \in Pids, waitpid_fails(p) PROVE QueuedInv'
    BY <2>8 DEF waitpid_fails, WaiterGoes
  <2>9. ASSUME NEW p \in Pids, push(p) PROVE QueuedInv'
    <3>. DEFINE q == ended_process_queue_
    <3>1. /\ q \in Seq(Pids) /\ q' = Append(q, p)
          /\ UNCHANGED <<status_, owner, popped>>
          /\ waiter' = [waiter EXCEPT ![p] = "return"]
      BY <2>9 DEF push, WaiterGoes
    <3>2. InQueue(p)' /\ \A r : InQueue(r) => InQueue(r)'
      BY <3>1, PushedQueue
    <3>. HIDE DEF InQueue
    <3>. QED  BY <3>1, <3>2
  <2>10. ASSUME NEW p \in Pids, return(p) PROVE QueuedInv'
    BY <2>10 DEF return, WaiterGoes
  <2>11. ASSUME NEW p \in Pids, process_starts(p) PROVE QueuedInv'
    BY <2>11 DEF process_starts
  <2>12. ASSUME NEW p \in Pids, process_ends(p) PROVE QueuedInv'
    BY <2>12 DEF process_ends
  <2>13. CASE UNCHANGED vars
    BY <2>13 DEF vars
  <2>. QED
    BY <2>1, <2>2, <2>3, <2>4, <2>5, <2>6, <2>7, <2>8, <2>9, <2>10, <2>11,
       <2>12, <2>13 DEF Next, Owner, Waiter
<1>. QED
  BY <1>1, <1>2, InvHolds, PTL DEF Spec

(* The thread of p is not blocked.                                         *)
CanGoOn(p) ==
  \/ waiter[p] = "waitpid" /\ (p \in Foreign \/ process[p] = "zombie")
  \/ waiter[p] \in {"push", "return"}

(* The owner never waits for what does not come: as long as a child that   *)
(* was added has ended and was not reported, its thread is on its way to   *)
(* the queue that wait_for_any() pops from; the future it gets is there;   *)
(* and ~process_monitor() waits for no thread of a process that has ended  *)
(* or is foreign, unless the thread can go on.                             *)
OwnerIsServed ==
  /\ owner = "pop" /\ ended_process_queue_ = <<>> =>
       \A p \in status_ \ Foreign : Ended(p) => CanGoOn(p)
  /\ owner = "get" =>
       popped \in status_ /\ (waiter[popped] # "returned" => CanGoOn(popped))
  /\ owner = "destroying" =>
       \A p \in status_ : Ended(p) => gotten(p) \/ CanGoOn(p)

(* wait_for_any() and the destructor wait for threads that are not blocked *)
(* or for processes that have not ended, however pids are used again.      *)
THEOREM OwnerIsServedHolds == Spec => []OwnerIsServed
<1>1. Inv /\ QueuedInv => OwnerIsServed
  <2>. SUFFICES ASSUME Inv, QueuedInv PROVE OwnerIsServed
    OBVIOUS
  <2>. USE DEF Inv, TypeOK, CanGoOn, gotten, BeingGot
  <2>1. ASSUME NEW p \in status_, Ended(p)
        PROVE  waiter[p] = "waitpid" => CanGoOn(p)
    BY <2>1 DEF LifeInv, Ended
  <2>2. ASSUME NEW p \in status_
        PROVE  /\ waiter[p] \in {"waitpid", "push", "return", "returned",
                                 "thrown"}
               /\ p \notin Foreign => waiter[p] # "thrown"
    BY <2>2 DEF LifeInv
  <2>3. ASSUME owner = "pop", ended_process_queue_ = <<>>,
               NEW p \in status_ \ Foreign, Ended(p)
        PROVE  CanGoOn(p)
    <3>1. ~InQueue(p) /\ ~BeingGot(p)
      BY <2>3 DEF InQueue
    <3>. QED  BY <2>1, <2>2, <2>3, <3>1 DEF QueuedInv
  <2>4. ASSUME owner = "get"
        PROVE  /\ popped \in status_
               /\ waiter[popped] # "returned" => CanGoOn(popped)
    BY <2>4 DEF ThreadInv, QueuedInv
  <2>5. ASSUME NEW p \in status_, Ended(p)
        PROVE  gotten(p) \/ CanGoOn(p)
    BY <2>1, <2>2, <2>5
  <2>. QED  BY <2>3, <2>4, <2>5 DEF OwnerIsServed
<1>. QED
  BY <1>1, InvHolds, QueuedInvHolds, PTL

=============================================================================
