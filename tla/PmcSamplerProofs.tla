-------------------------- MODULE PmcSamplerProofs --------------------------
(***************************************************************************)
(* PmcSampler for any number of processes, events and descriptors.         *)
(***************************************************************************)
EXTENDS PmcSampler, WellFoundedInduction, TLAPS

InQueue(p) == \E i \in DOMAIN event_queue_ : event_queue_[i] = p

(* A process is notified once, so that an event_manager is made for it     *)
(* once: the one in the map is not replaced.                               *)
OnceInv ==
  /\ \A p \in Pids :
       InQueue(p) \/ p \in Managed \/ (thread_ = "open" /\ adding = p) =>
         p \in notified
  /\ \A p \in Pids : InQueue(p) => p \notin Managed
  /\ \A i, j \in DOMAIN event_queue_ :
       event_queue_[i] = event_queue_[j] => i = j
  /\ thread_ = "open" =>
       adding \in Pids /\ adding \notin Managed /\ ~InQueue(adding)
  /\ thread_ = "gone" => Managed = {}

-----------------------------------------------------------------------------
(* perf_event_open() returns a descriptor that is free, if there is one.   *)
LEMMA LowestFreeIsFree ==
  ASSUME Free # {}
  PROVE  LowestFree \in Fds /\ file[LowestFree] = None
<1>1. Free \subseteq Nat
  BY FdsAssumption DEF Free
<1>2. PICK f \in Free : \A g \in Free : <<g, f>> \notin OpToRel(<, Nat)
  BY <1>1, NatLessThanWellFounded, WFMin, Zenon
<1>3. \A g \in Free : f <= g
  <2>. HIDE DEF Free
  <2>1. \A g \in Free : ~(g < f)
    BY <1>1, <1>2 DEF OpToRel
  <2>. QED  BY <1>1, <2>1
<1>4. LowestFree \in Free
  BY <1>3, Zenon DEF LowestFree
<1>. QED  BY <1>4 DEF Free

(* The descriptors of an event_manager once it has one more event.         *)
LEMMA OneMore ==
  ASSUME NEW s \in Seq(Fds), NEW f \in Fds
  PROVE  /\ Append(s, f) # <<>>
         /\ Range(Append(s, f)) = Range(s) \cup {f}
         /\ IsInjective(s) /\ f \notin Range(s) => IsInjective(Append(s, f))
<1>1. /\ DOMAIN Append(s, f) = (DOMAIN s) \cup {Len(s) + 1}
      /\ \A i \in DOMAIN s : i # Len(s) + 1 /\ Append(s, f)[i] = s[i]
      /\ Append(s, f)[Len(s) + 1] = f
  OBVIOUS
<1>2. Range(Append(s, f)) = Range(s) \cup {f}
  BY <1>1, Zenon DEF Range
<1>3. IsInjective(s) /\ f \notin Range(s) => IsInjective(Append(s, f))
  BY <1>1 DEF Range, IsInjective
<1>4. Append(s, f) # <<>>
  <2>1. DOMAIN <<>> = {}
    OBVIOUS
  <2>. QED  BY <1>1, <2>1
<1>. QED  BY <1>2, <1>3, <1>4

(* What open_event does with the descriptor f.                             *)
Stores == event_managers_' = [event_managers_ EXCEPT ![adding] = events_']

Opens(f) ==
  /\ thread_ = "open" /\ file[f] = None
  /\ file' = [file EXCEPT ![f] = adding]
  /\ events_' = Append(events_, f) /\ events_' \in Seq(Fds)
  /\ \/ Stores /\ thread_' = "process_events"
     \/ UNCHANGED <<event_managers_, thread_>>
  /\ UNCHANGED <<queue_vars, left, adding, sampled, others, ended>>

(* An event is opened on a descriptor that was free.                       *)
LEMMA OpensOne ==
  ASSUME TypeOK, open_event
  PROVE  \E f \in Fds : Opens(f)
<1>1. LowestFree \in Fds /\ file[LowestFree] = None
  BY LowestFreeIsFree DEF open_event, perf_event_open
<1>2. events_' = Append(events_, LowestFree) /\ events_' \in Seq(Fds)
  BY <1>1 DEF open_event, perf_event_open, TypeOK
<1>. QED
  BY <1>1, <1>2, Zenon
     DEF open_event, perf_event_open, Emplace, Opens, Stores

-----------------------------------------------------------------------------
(* Type correctness of the sampler, its descriptors and the kernel's.      *)
THEOREM TypeCorrect == Spec => []TypeOK
<1>. USE PidsAssumption, FdsAssumption
     DEF TypeOK, queue_vars, thread_vars, kernel_vars
<1>1. Init => TypeOK
  <2>1. Init => execution_ended_ \in BOOLEAN
    BY Zenon DEF Init
  <2>2. <<>> \in Seq(Fds) /\ <<>> \in Seq(Pids)
    OBVIOUS
  <2>. QED  BY <2>1, <2>2 DEF Init
<1>2. TypeOK /\ [Next]_vars => TypeOK'
  <2>. SUFFICES ASSUME TypeOK, [Next]_vars PROVE TypeOK'
    OBVIOUS
  <2>1. CASE check
    BY <2>1 DEF check
  <2>2. CASE loop_impl
    BY <2>2 DEF loop_impl, Managed
  <2>3. ASSUME NEW p \in Pids, read_events(p) PROVE TypeOK'
    <3>1. Range(event_managers_[p]) \subseteq Fds
      BY DEF Range
    <3>2. {file[f] : f \in Range(event_managers_[p])} \subseteq
            Pids \cup {Other, None}
      BY <3>1
    <3>. QED  BY <2>3, <3>2 DEF read_events
  <2>4. CASE loop_impl_return
    BY <2>4 DEF loop_impl_return
  <2>5. CASE process_events
    BY <2>5 DEF process_events
  <2>6. CASE process_events_return
    BY <2>6 DEF process_events_return
  <2>7. CASE open_event
    <3>1. PICK f \in Fds : Opens(f)
      BY <2>7, OpensOne
    <3>. USE DEF Opens, Stores
    <3>2. event_managers_' \in [Pids -> Seq(Fds)]
      BY <3>1
    <3>. QED  BY <3>1, <3>2
  <2>8. CASE open_event_fails \/ read_events_fails
    BY <2>8 DEF open_event_fails, read_events_fails, Terminate
  <2>9. CASE destroy
    BY <2>9 DEF destroy, Closes
  <2>10. CASE execution_end
    BY <2>10 DEF execution_end
  <2>11. CASE other_opens
    BY <2>11, LowestFreeIsFree DEF other_opens
  <2>12. ASSUME NEW f \in Fds, other_closes(f) PROVE TypeOK'
    BY <2>12 DEF other_closes
  <2>13. ASSUME NEW p \in Pids, notify_process_creation(p) PROVE TypeOK'
    BY <2>13 DEF notify_process_creation
  <2>14. ASSUME NEW p \in Pids, process_ends(p) PROVE TypeOK'
    BY <2>14 DEF process_ends
  <2>15. CASE UNCHANGED vars
    BY <2>15 DEF vars
  <2>. QED
    BY <2>1, <2>2, <2>3, <2>4, <2>5, <2>6, <2>7, <2>8, <2>9, <2>10, <2>11,
       <2>12, <2>13, <2>14, <2>15 DEF Next, Thread, Environment
<1>. QED
  BY <1>1, <1>2, PTL DEF Spec

-----------------------------------------------------------------------------
(* No process has two event_managers, one after the other or at once.      *)
LEMMA OnceInvHolds == Spec => []OnceInv
<1>. USE PidsAssumption, FdsAssumption
     DEF OnceInv, InQueue, Managed, queue_vars, thread_vars, kernel_vars
<1>1. Init => OnceInv
  BY DEF Init
<1>2. TypeOK /\ OnceInv /\ [Next]_vars => OnceInv'
  <2>. SUFFICES ASSUME TypeOK, OnceInv, [Next]_vars PROVE OnceInv'
    OBVIOUS
  <2>. USE DEF TypeOK
  <2>1. CASE check
    BY <2>1 DEF check
  <2>2. CASE loop_impl
    BY <2>2 DEF loop_impl
  <2>3. ASSUME NEW p \in Pids, read_events(p) PROVE OnceInv'
    BY <2>3 DEF read_events
  <2>4. CASE loop_impl_return
    BY <2>4 DEF loop_impl_return
  <2>5. CASE process_events
    <3>. DEFINE q == event_queue_
    <3>1. /\ q # <<>> /\ q' = Tail(q) /\ adding' = Head(q) /\ thread_' = "open"
          /\ UNCHANGED <<notified, event_managers_>>
      BY <2>5 DEF process_events
    <3>2. /\ adding' = q[1] /\ 1 \in DOMAIN q /\ q[1] \in Pids
          /\ \A i \in DOMAIN q' : /\ i \in Nat \ {0} /\ i + 1 \in DOMAIN q
                                 /\ q'[i] = q[i + 1]
      BY <3>1
    <3>. HIDE DEF q
    <3>3. \A p \in Pids : InQueue(p)' => InQueue(p)
      BY <3>2 DEF q
    <3>4. InQueue(adding')
      BY <3>2 DEF q
    <3>5. ~InQueue(adding)'
      <4>. SUFFICES ASSUME NEW i \in DOMAIN q', q'[i] = q[1] PROVE FALSE
        BY <3>2 DEF q
      <4>1. i + 1 = 1
        BY <3>2 DEF q
      <4>. QED  BY <4>1, <3>2
    <3>6. \A i, j \in DOMAIN q' : q'[i] = q'[j] => i = j
      <4>. SUFFICES ASSUME NEW i \in DOMAIN q', NEW j \in DOMAIN q',
                           q'[i] = q'[j]
                    PROVE  i = j
        OBVIOUS
      <4>1. i + 1 = j + 1
        BY <3>2 DEF q
      <4>. QED  BY <4>1, <3>2
    <3>7. /\ adding' \in Pids /\ adding' \in notified'
          /\ event_managers_'[adding'] = <<>>
      BY <3>1, <3>2, <3>4
    <3>8. \A p \in Pids : InQueue(p)' \/ event_managers_'[p] # <<>> =>
                             p \in notified'
      BY <3>1, <3>3
    <3>9. \A p \in Pids : InQueue(p)' => event_managers_'[p] = <<>>
      BY <3>1, <3>3
    <3>. HIDE DEF InQueue
    <3>. QED  BY <3>1, <3>5, <3>6, <3>7, <3>8, <3>9 DEF q
  <2>6. CASE process_events_return
    BY <2>6 DEF process_events_return
  <2>7. CASE open_event
    BY <2>7, OpensOne, OneMore DEF Opens, Stores
  <2>8. CASE open_event_fails \/ read_events_fails
    BY <2>8 DEF open_event_fails, read_events_fails, Terminate
  <2>9. CASE destroy
    BY <2>9 DEF destroy, Closes
  <2>10. CASE execution_end
    BY <2>10 DEF execution_end
  <2>11. CASE other_opens
    BY <2>11, LowestFreeIsFree DEF other_opens
  <2>12. ASSUME NEW f \in Fds, other_closes(f) PROVE OnceInv'
    BY <2>12 DEF other_closes
  <2>13. ASSUME NEW p \in Pids, notify_process_creation(p) PROVE OnceInv'
    BY <2>13 DEF notify_process_creation
  <2>14. ASSUME NEW p \in Pids, process_ends(p) PROVE OnceInv'
    BY <2>14 DEF process_ends
  <2>15. CASE UNCHANGED vars
    BY <2>15 DEF vars
  <2>. QED
    BY <2>1, <2>2, <2>3, <2>4, <2>5, <2>6, <2>7, <2>8, <2>9, <2>10, <2>11,
       <2>12, <2>13, <2>14, <2>15 DEF Next, Thread, Environment
<1>. QED
  BY <1>1, <1>2, TypeCorrect, PTL DEF Spec

-----------------------------------------------------------------------------
(* DescriptorsOwned needs that the event_manager under construction has    *)
(* each of its descriptors once.                                           *)
OwnedInv ==
  DescriptorsOwned /\ (thread_ = "open" => IsInjective(events_))

(* No event_manager is given a descriptor that is somebody else's.         *)
LEMMA OwnedInvHolds == Spec => []OwnedInv
<1>. USE PidsAssumption, FdsAssumption
     DEF OwnedInv, DescriptorsOwned, FdsInHand, FdsOf, queue_vars, thread_vars,
         kernel_vars
<1>1. Init => OwnedInv
  BY DEF Init, Managed, Range
<1>2. TypeOK /\ OnceInv /\ OwnedInv /\ [Next]_vars => OwnedInv'
  <2>. SUFFICES ASSUME TypeOK, OnceInv, OwnedInv, [Next]_vars
                PROVE  OwnedInv'
    OBVIOUS
  <2>. USE DEF TypeOK, OnceInv, Managed
  <2>1. CASE check
    BY <2>1 DEF check
  <2>2. CASE loop_impl
    BY <2>2 DEF loop_impl
  <2>3. ASSUME NEW p \in Pids, read_events(p) PROVE OwnedInv'
    BY <2>3 DEF read_events
  <2>4. CASE loop_impl_return
    BY <2>4 DEF loop_impl_return
  <2>5. CASE process_events
    <3>1. Range(<<>>) = {} /\ IsInjective(<<>>)
      BY DEF Range, IsInjective
    <3>2. /\ thread_ = "process_events" /\ thread_' = "open" /\ events_' = <<>>
          /\ UNCHANGED <<event_managers_, file, others>>
      BY <2>5 DEF process_events
    <3>. QED  BY <3>1, <3>2
  <2>6. CASE process_events_return
    BY <2>6 DEF process_events_return
  <2>7. CASE open_event
    <3>1. PICK f \in Fds : Opens(f)
      BY <2>7, OpensOne
    <3>. USE DEF Opens, Stores
    <3>2. /\ adding \in Pids /\ event_managers_[adding] = <<>>
          /\ \A g \in Range(events_) : file[g] = adding
          /\ f \notin Range(events_)
      BY <3>1
    <3>3. /\ Range(events_') = Range(events_) \cup {f}
          /\ IsInjective(events_')
      BY <3>1, <3>2, OneMore
    <3>4. \A g \in Fds : g # f => file'[g] = file[g]
      BY <3>1
    <3>5. \A g \in Range(events_') : g \in Fds /\ file'[g] = adding
      BY <3>1, <3>2, <3>3 DEF Range
    <3>6. \A p \in Managed : \A g \in FdsOf(p) :
            g \in Fds /\ g # f /\ p # adding /\ file'[g] = p
      BY <3>1, <3>2 DEF Range
    <3>7. \A g \in others : file'[g] = Other
      BY <3>1
    <3>8. CASE UNCHANGED <<event_managers_, thread_>>
      <4>1. ASSUME NEW p \in Managed, NEW g \in FdsOf(p)
            PROVE  g \notin Range(events_')
        <5>. HIDE DEF TypeOK, OnceInv, OwnedInv, DescriptorsOwned, Managed,
                      FdsOf
        <5>1. file'[g] = p /\ p # adding
          BY <3>6
        <5>. QED  BY <3>5, <5>1
      <4>2. Managed' = Managed /\ \A p : FdsOf(p)' = FdsOf(p)
        BY <3>8
      <4>. QED  BY <3>1, <3>3, <3>5, <3>6, <3>7, <3>8, <4>1, <4>2
    <3>9. CASE Stores /\ thread_' = "process_events"
      <4>1. /\ FdsOf(adding)' = Range(events_')
            /\ event_managers_'[adding] = events_'
        BY <3>1, <3>2, <3>9
      <4>2. \A p \in Pids \ {adding} : event_managers_'[p] = event_managers_[p]
        BY <3>2, <3>9
      <4>3. \A p \in Managed' :
              /\ IsInjective(event_managers_'[p])
              /\ \A g \in Range(event_managers_'[p]) : file'[g] = p
        <5>. TAKE p \in Managed'
        <5>1. CASE p = adding
          BY <3>3, <3>5, <4>1, <5>1
        <5>2. CASE p # adding
          <6>1. p \in Managed /\ event_managers_'[p] = event_managers_[p]
            BY <4>2, <5>2
          <6>2. IsInjective(event_managers_[p])
            BY <3>1, <6>1
          <6>. QED  BY <3>6, <6>1, <6>2
        <5>. QED  BY <5>1, <5>2
      <4>. QED  BY <3>1, <3>7, <3>9, <4>3
    <3>. QED  BY <3>1, <3>8, <3>9
  <2>8. CASE open_event_fails \/ read_events_fails
    BY <2>8 DEF open_event_fails, read_events_fails, Terminate
  <2>9. CASE destroy
    <3>1. /\ thread_' = "gone" /\ others' = others
          /\ \A p \in Pids : event_managers_'[p] = <<>>
      BY <2>9 DEF destroy
    <3>2. \A f \in others : \A p \in Pids : f \notin Range(event_managers_[p])
      <4>. SUFFICES ASSUME NEW f \in others, NEW p \in Pids,
                           f \in Range(event_managers_[p])
                    PROVE  FALSE
        OBVIOUS
      <4>1. p \in Managed
        BY DEF Range
      <4>. QED  BY <2>9, <4>1 DEF destroy
    <3>3. \A f \in others : file'[f] = Other
      BY <2>9, <3>2 DEF destroy, Closes
    <3>. QED  BY <3>1, <3>3
  <2>10. CASE execution_end
    BY <2>10 DEF execution_end
  <2>11. CASE other_opens
    BY <2>11, LowestFreeIsFree DEF other_opens
  <2>12. ASSUME NEW f \in Fds, other_closes(f) PROVE OwnedInv'
    BY <2>12 DEF other_closes
  <2>13. ASSUME NEW p \in Pids, notify_process_creation(p) PROVE OwnedInv'
    BY <2>13 DEF notify_process_creation
  <2>14. ASSUME NEW p \in Pids, process_ends(p) PROVE OwnedInv'
    BY <2>14 DEF process_ends
  <2>15. CASE UNCHANGED vars
    BY <2>15 DEF vars
  <2>. QED
    BY <2>1, <2>2, <2>3, <2>4, <2>5, <2>6, <2>7, <2>8, <2>9, <2>10, <2>11,
       <2>12, <2>13, <2>14, <2>15 DEF Next, Thread, Environment
<1>. QED
  BY <1>1, <1>2, TypeCorrect, OnceInvHolds, PTL DEF Spec

(* Every descriptor of an event counts for the process of that event, and  *)
(* is nobody else's.                                                       *)
THEOREM DescriptorsOwnedHolds == Spec => []DescriptorsOwned
<1>1. OwnedInv => DescriptorsOwned
  BY DEF OwnedInv
<1>. QED
  BY <1>1, OwnedInvHolds, PTL

-----------------------------------------------------------------------------
(* What is open for a process will be closed by the destructor of its      *)
(* event, as long as perf_event_open() never returns 0, which fd_ is where *)
(* there is no descriptor: standard input is open.                         *)
THEOREM NothingLeftHolds ==
  ASSUME 0 \notin Fds
  PROVE  Spec => []NothingLeft
<1>. USE PidsAssumption, FdsAssumption
     DEF NothingLeft, FdsInHand, FdsOf, queue_vars, thread_vars, kernel_vars
<1>1. Init => NothingLeft
  BY DEF Init
<1>2. TypeOK /\ OnceInv /\ OwnedInv /\ NothingLeft /\ [Next]_vars
        => NothingLeft'
  <2>. SUFFICES ASSUME TypeOK, OnceInv, OwnedInv, NothingLeft, [Next]_vars
                PROVE  NothingLeft'
    OBVIOUS
  <2>. USE DEF TypeOK, OnceInv, OwnedInv, DescriptorsOwned, Managed
  <2>1. CASE check
    BY <2>1 DEF check
  <2>2. CASE loop_impl
    BY <2>2 DEF loop_impl
  <2>3. ASSUME NEW p \in Pids, read_events(p) PROVE NothingLeft'
    BY <2>3 DEF read_events
  <2>4. CASE loop_impl_return
    BY <2>4 DEF loop_impl_return
  <2>5. CASE process_events
    BY <2>5 DEF process_events
  <2>6. CASE process_events_return
    BY <2>6 DEF process_events_return
  <2>7. CASE open_event
    <3>1. PICK f \in Fds : Opens(f)
      BY <2>7, OpensOne
    <3>. USE DEF Opens, Stores
    <3>2. Range(events_') = Range(events_) \cup {f}
      BY <3>1, OneMore
    <3>3. /\ adding \in Pids /\ FdsOf(adding) = {}
          /\ \A g \in Range(events_) : file[g] = adding
      BY <3>1 DEF Range
    <3>4. \A g \in Fds : file'[g] = adding => g \in Range(events_')
      BY <3>1, <3>2, <3>3
    <3>5. \A g \in Fds :
            file'[g] \in Pids \ {adding} =>
              g \in Range(event_managers_'[file'[g]])
      BY <3>1, <3>3
    <3>6. CASE UNCHANGED <<event_managers_, thread_>>
      BY <3>1, <3>4, <3>5, <3>6
    <3>7. CASE Stores /\ thread_' = "process_events"
      <4>1. event_managers_'[adding] = events_'
        BY <3>3, <3>7
      <4>. QED  BY <3>4, <3>5, <3>7, <4>1
    <3>. QED  BY <3>1, <3>6, <3>7
  <2>8. CASE open_event_fails \/ read_events_fails
    <3>1. file' = [f \in Fds |-> None]
      BY <2>8 DEF open_event_fails, read_events_fails, Terminate
    <3>. QED  BY <3>1, PidsAssumption DEF NothingLeft
  <2>9. CASE destroy
    BY <2>9 DEF destroy, Closes
  <2>10. CASE execution_end
    BY <2>10 DEF execution_end
  <2>11. CASE other_opens
    BY <2>11, LowestFreeIsFree DEF other_opens
  <2>12. ASSUME NEW f \in Fds, other_closes(f) PROVE NothingLeft'
    BY <2>12 DEF other_closes
  <2>13. ASSUME NEW p \in Pids, notify_process_creation(p) PROVE NothingLeft'
    BY <2>13 DEF notify_process_creation
  <2>14. ASSUME NEW p \in Pids, process_ends(p) PROVE NothingLeft'
    BY <2>14 DEF process_ends
  <2>15. CASE UNCHANGED vars
    BY <2>15 DEF vars
  <2>. QED
    BY <2>1, <2>2, <2>3, <2>4, <2>5, <2>6, <2>7, <2>8, <2>9, <2>10, <2>11,
       <2>12, <2>13, <2>14, <2>15 DEF Next, Thread, Environment
<1>. QED
  BY <1>1, <1>2, TypeCorrect, OnceInvHolds, OwnedInvHolds, PTL DEF Spec

-----------------------------------------------------------------------------
(* After ~pmc_sampler() no counter of a process is open.                   *)
AllClosed == thread_ = "gone" => \A f \in Fds : file[f] \notin Pids

(* The destructors of the event_managers close every counter there is,     *)
(* whatever the rest of the runtime opened and closed meanwhile.           *)
THEOREM AllClosedHolds ==
  ASSUME 0 \notin Fds
  PROVE  Spec => []AllClosed
<1>1. OnceInv /\ NothingLeft => AllClosed
  BY DEF OnceInv, NothingLeft, AllClosed, Managed, FdsInHand, FdsOf, Range
<1>. QED
  BY <1>1, OnceInvHolds, NothingLeftHolds, PTL

(* What was reported as the counts of p.                                   *)
SampledIsOwn == \A p \in Pids : sampled[p] \subseteq {p}

(* pmc_sampler reports as the counts of a process what was counted for     *)
(* that process, and not what a descriptor that was used again counts.     *)
THEOREM SampledIsOwnHolds == Spec => []SampledIsOwn
<1>. USE DEF SampledIsOwn, queue_vars, thread_vars, kernel_vars
<1>1. Init => SampledIsOwn
  BY DEF Init
<1>2. TypeOK /\ OwnedInv /\ SampledIsOwn /\ [Next]_vars => SampledIsOwn'
  <2>. SUFFICES ASSUME TypeOK, OwnedInv, SampledIsOwn, [Next]_vars
                PROVE  SampledIsOwn'
    OBVIOUS
  <2>1. ASSUME NEW p \in Pids, read_events(p) PROVE SampledIsOwn'
    <3>1. \A f \in Range(event_managers_[p]) : p \in Managed
      BY DEF Range, Managed
    <3>2. {file[f] : f \in Range(event_managers_[p])} \subseteq {p}
      BY <2>1, <3>1 DEF read_events, OwnedInv, DescriptorsOwned, FdsOf
    <3>. QED  BY <2>1, <3>2 DEF read_events, TypeOK
  <2>2. CASE ~\E p \in Pids : read_events(p)
    <3>1. sampled' = sampled
      BY <2>2 DEF Next, Thread, Environment, vars, check, loop_impl,
         loop_impl_return, process_events, process_events_return, open_event,
         perf_event_open, open_event_fails, read_events_fails, Terminate,
         destroy, execution_end, other_opens, other_closes,
         notify_process_creation, process_ends
    <3>. QED  BY <3>1
  <2>. QED
    BY <2>1, <2>2
<1>. QED
  BY <1>1, <1>2, TypeCorrect, OwnedInvHolds, PTL DEF Spec

-----------------------------------------------------------------------------
(* What the queue still has once its head is popped.                       *)
LEMMA RestOfQueue ==
  ASSUME NEW q \in Seq(Pids), NEW i \in DOMAIN q, i # 1
  PROVE  \E k \in DOMAIN Tail(q) : Tail(q)[k] = q[i]
<1>1. i \in 1..Len(q) /\ i - 1 \in 1..(Len(q) - 1) /\ q # <<>>
  OBVIOUS
<1>2. DOMAIN Tail(q) = 1..(Len(q) - 1)
  BY <1>1
<1>3. \A k \in 1..(Len(q) - 1) : Tail(q)[k] = q[k + 1]
  BY <1>1
<1>4. i - 1 + 1 = i
  BY <1>1
<1>. QED  BY <1>1, <1>2, <1>3, <1>4

(* As long as the thread runs, a process that was notified is waiting on   *)
(* the queue, has its event_manager under construction or has it in the    *)
(* map; and a round over the map leaves nobody out: a process that is not  *)
(* left to read has been sampled, with its own counts.                     *)
NoneForgotten ==
  thread_ \notin {"done", "gone", "terminated"} =>
    /\ \A p \in notified :
         InQueue(p) \/ p \in Managed \/ (thread_ = "open" /\ adding = p)
    /\ thread_ = "read_events" =>
         \A p \in Managed \ left : sampled[p] = {p}

(* No notification of exec_manager is lost between its queue and the map   *)
(* of pmc_sampler, whenever it comes.                                      *)
THEOREM NoneForgottenHolds == Spec => []NoneForgotten
<1>. USE PidsAssumption, FdsAssumption
     DEF NoneForgotten, InQueue, Managed, queue_vars, thread_vars, kernel_vars
<1>1. Init => NoneForgotten
  BY DEF Init
<1>2. /\ TypeOK /\ OnceInv /\ OwnedInv /\ SampledIsOwn /\ NoneForgotten
      /\ [Next]_vars
      => NoneForgotten'
  <2>. SUFFICES ASSUME TypeOK, OnceInv, OwnedInv, SampledIsOwn, NoneForgotten,
                       [Next]_vars
                PROVE  NoneForgotten'
    OBVIOUS
  <2>. USE DEF TypeOK
  <2>1. CASE check
    BY <2>1 DEF check
  <2>2. CASE loop_impl
    BY <2>2 DEF loop_impl
  <2>3. ASSUME NEW p \in Pids, read_events(p)
        PROVE  NoneForgotten'
    <3>1. /\ p \in left /\ left' = left \ {p} /\ thread_ = "read_events"
          /\ sampled' = [sampled EXCEPT ![p] =
               @ \cup {file[f] : f \in Range(event_managers_[p])}]
          /\ UNCHANGED <<thread_, notified, event_queue_, adding,
                         event_managers_>>
      BY <2>3 DEF read_events
    <3>2. CASE p \in Managed
      <4>1. PICK f \in Range(event_managers_[p]) : TRUE
        <5>1. event_managers_[p] \in Seq(Fds) /\ event_managers_[p] # <<>>
          BY <3>2
        <5>2. 1 \in DOMAIN event_managers_[p]
          BY <5>1
        <5>. QED  BY <5>2 DEF Range
      <4>2. \A g \in Range(event_managers_[p]) : file[g] = p
        BY <3>1, <3>2 DEF OwnedInv, DescriptorsOwned, FdsOf
      <4>3. sampled[p] \subseteq {p}
        BY DEF SampledIsOwn
      <4>4. {file[g] : g \in Range(event_managers_[p])} = {p}
        <5>. DEFINE R == Range(event_managers_[p])
        <5>1. f \in R /\ \A g \in R : file[g] = p
          BY <4>1, <4>2
        <5>. HIDE DEF R
        <5>2. {file[g] : g \in R} = {p}
          BY <5>1
        <5>. QED  BY <5>2 DEF R
      <4>5. sampled'[p] = sampled[p] \cup {p}
        BY <3>1, <4>4
      <4>6. sampled'[p] = {p}
        BY <4>3, <4>5
      <4>. QED  BY <3>1, <4>6
    <3>3. CASE p \notin Managed
      BY <3>1, <3>3
    <3>. QED  BY <3>2, <3>3
  <2>4. CASE loop_impl_return
    BY <2>4 DEF loop_impl_return
  <2>5. CASE process_events
    <3>1. /\ event_queue_ # <<>> /\ thread_ = "process_events"
          /\ event_queue_' = Tail(event_queue_)
          /\ adding' = Head(event_queue_) /\ thread_' = "open"
          /\ UNCHANGED <<notified, event_managers_>>
      BY <2>5 DEF process_events
    <3>2. ASSUME NEW p, InQueue(p) PROVE InQueue(p)' \/ p = adding'
      <4>1. PICK i \in DOMAIN event_queue_ : event_queue_[i] = p
        BY <3>2
      <4>2. CASE i = 1
        BY <3>1, <4>1, <4>2
      <4>3. CASE i # 1
        BY <3>1, <4>1, <4>3, RestOfQueue
      <4>. QED  BY <4>2, <4>3
    <3>. HIDE DEF InQueue
    <3>. QED  BY <3>1, <3>2
  <2>6. CASE process_events_return
    BY <2>6 DEF process_events_return
  <2>7. CASE open_event
    <3>1. PICK f \in Fds : Opens(f)
      BY <2>7, OpensOne
    <3>2. events_' # <<>> /\ adding \in Pids
      BY <3>1, OneMore DEF Opens, OnceInv
    <3>3. UNCHANGED <<notified, event_queue_, adding>> /\ thread_ = "open"
      BY <3>1 DEF Opens, queue_vars
    <3>4. CASE Stores /\ thread_' = "process_events"
      BY <3>2, <3>3, <3>4 DEF Stores
    <3>5. CASE UNCHANGED <<event_managers_, thread_>>
      BY <3>3, <3>5
    <3>. QED  BY <3>1, <3>4, <3>5 DEF Opens
  <2>8. CASE open_event_fails \/ read_events_fails
    BY <2>8 DEF open_event_fails, read_events_fails, Terminate
  <2>9. CASE destroy
    BY <2>9 DEF destroy
  <2>10. CASE execution_end
    BY <2>10 DEF execution_end
  <2>11. CASE other_opens
    BY <2>11 DEF other_opens
  <2>12. ASSUME NEW f \in Fds, other_closes(f)
         PROVE  NoneForgotten'
    BY <2>12 DEF other_closes
  <2>13. ASSUME NEW p \in Pids, notify_process_creation(p)
         PROVE  NoneForgotten'
    <3>1. /\ event_queue_' = Append(event_queue_, p)
          /\ notified' = notified \cup {p}
          /\ UNCHANGED thread_vars
      BY <2>13 DEF notify_process_creation
    <3>2. InQueue(p)' /\ \A r : InQueue(r) => InQueue(r)'
      <4>1. /\ DOMAIN event_queue_' = 1..(Len(event_queue_) + 1)
            /\ event_queue_'[Len(event_queue_) + 1] = p
            /\ \A i \in DOMAIN event_queue_ :
                 event_queue_'[i] = event_queue_[i] /\ i \in DOMAIN event_queue_'
        BY <3>1
      <4>2. Len(event_queue_) + 1 \in DOMAIN event_queue_'
        BY <4>1
      <4>3. InQueue(p)'
        BY ONLY <4>1, <4>2 DEF InQueue
      <4>4. \A r : InQueue(r) => InQueue(r)'
        BY ONLY <4>1 DEF InQueue
      <4>. QED  BY ONLY <4>3, <4>4
    <3>. HIDE DEF InQueue
    <3>. QED  BY <3>1, <3>2
  <2>14. ASSUME NEW p \in Pids, process_ends(p)
         PROVE  NoneForgotten'
    BY <2>14 DEF process_ends
  <2>15. CASE UNCHANGED vars
    BY <2>15 DEF vars
  <2>. QED
    BY <2>1, <2>2, <2>3, <2>4, <2>5, <2>6, <2>7, <2>8, <2>9, <2>10, <2>11,
       <2>12, <2>13, <2>14, <2>15 DEF Next, Thread, Environment
<1>. QED
  BY <1>1, <1>2, TypeCorrect, OnceInvHolds, OwnedInvHolds, SampledIsOwnHolds,
     PTL DEF Spec

=============================================================================
