--------------------------- MODULE MonitorProofs ---------------------------
(***************************************************************************)
(* What the threads of the two monitors keep: the tables of cpu_hopper     *)
(* (CpuHopper), for any number of processes and CPUs, and the readings of  *)
(* pmc_sampler (EventManager), for any number of events.                   *)
(***************************************************************************)
EXTENDS CpuHopper, EventManager, FunctionTheorems,
        FiniteSetTheorems, WellFoundedInduction, TLAPS

-----------------------------------------------------------------------------
(* std::find returns a CPU that is free, if there is one.                  *)
LEMMA FindsFreeCpu ==
  ASSUME FreeCpus # {}
  PROVE  find_available_cpu \in FreeCpus
<1> DEFINE R == {ss \in Nat \X Nat : ss[1] < ss[2]}
<1>1. FreeCpus \subseteq Nat
  BY CpusAssumption DEF FreeCpus, CpuSet
<1>2. \E x \in FreeCpus : \A y \in FreeCpus : ~ (<<y, x>> \in R)
  <2>1. IsWellFoundedOn(R, Nat)
    BY NatLessThanWellFounded DEF OpToRel
  <2> HIDE DEF R
  <2> QED
    BY <1>1, <2>1, WFMin
<1>3. PICK x \in FreeCpus : \A y \in FreeCpus : ~ (<<y, x>> \in R)
  BY <1>2
<1>4. \A y \in FreeCpus : x <= y
  <2> SUFFICES ASSUME NEW y \in FreeCpus PROVE x <= y
    OBVIOUS
  <2>1. x \in Nat /\ y \in Nat /\ ~ (y < x)
    BY <1>1, <1>3
  <2> QED
    BY <2>1
<1> QED
  BY <1>3, <1>4 DEF find_available_cpu

-----------------------------------------------------------------------------
(* No two processes are mapped to the same CPU.                            *)
Injective ==
  \A p, q \in Mapped : p # q => cpu_mapping_[p] # cpu_mapping_[q]

(* The kernel has every process where cpu_mapping_ says, if the process    *)
(* exists and the CPU is online.                                           *)
Bound == \A p \in Placed : affinity[p] = cpu_mapping_[p]

(* What a round of hops knows: the processes it has left are where they    *)
(* were, and nothing is ever removed from cpu_mapping_.                    *)
Round ==
  /\ \A p \in left : before[p] = cpu_mapping_[p]
  /\ \A p \in Pids : before[p] # NoCpu => p \in Mapped

(* What it has dealt with is mapped elsewhere.                             *)
Remapped ==
  \A p \in Pids \ left : before[p] # NoCpu => cpu_mapping_[p] # before[p]

(* The inductive invariant.                                                *)
IInv ==
  /\ TypeOK
  /\ AllocationMatchesMapping
  /\ Injective
  /\ Bound
  /\ Round
  /\ Remapped

(* cpu_hopper before the first process.                                    *)
LEMMA InitIInv == Init => IInv
BY CpusAssumption
   DEF Init, IInv, TypeOK, AllocationMatchesMapping, Injective, Bound, Placed, Round,
       Remapped, Mapped

(* A step that leaves the tables and the affinities alone.                 *)
LEMMA TablesKept ==
  ASSUME IInv, thrown' \in {"nothing", "Too many processes", "No available CPUs"},
         UNCHANGED <<cpu_mapping_, allocated_cpus_, left, before, affinity>>,
         ended \subseteq ended', ended' \subseteq Pids
  PROVE  IInv'
<1>1. Mapped' = Mapped
  BY DEF Mapped
<1>2. TypeOK'
  BY <1>1 DEF IInv, TypeOK
<1>3. AllocationMatchesMapping'
  BY <1>1 DEF IInv, AllocationMatchesMapping
<1>4. Injective' /\ Bound' /\ Round' /\ Remapped'
  BY <1>1 DEF IInv, Injective, Bound, Placed, Round, Remapped
<1> QED
  BY <1>2, <1>3, <1>4 DEF IInv

(* The step that gives a process a CPU, in add_process() or in a hop.      *)
LEMMA GetsCpu ==
  ASSUME TypeOK, NEW p \in Pids, FreeCpus # {},
         bind_process(p, find_available_cpu)
  PROVE  /\ find_available_cpu \in CpuSet
         /\ find_available_cpu \notin allocated_cpus_
         /\ find_available_cpu # NoCpu
         /\ cpu_mapping_' = [cpu_mapping_ EXCEPT ![p] = find_available_cpu]
         /\ Mapped' = Mapped \cup {p}
         /\ affinity' = IF BindFails(p, find_available_cpu) THEN affinity
                        ELSE [affinity EXCEPT ![p] = find_available_cpu]
<1>1. find_available_cpu \in CpuSet \ allocated_cpus_
  BY FindsFreeCpu DEF FreeCpus
<1> QED
  BY <1>1, CpusAssumption DEF bind_process, sched_setaffinity, TypeOK, Mapped

(* add_process() of a process that is new.                                 *)
LEMMA AddKeepsIInv ==
  ASSUME IInv, NEW p \in Pids, add_process(p)
  PROVE  IInv'
<1>1. CASE FreeCpus = {}
  BY <1>1, TablesKept DEF add_process, NoAvailableCpus, IInv, TypeOK
<1>2. CASE FreeCpus # {}
  <2> DEFINE c == find_available_cpu
  <2>1. /\ c \in CpuSet /\ c \notin allocated_cpus_ /\ c # NoCpu
        /\ cpu_mapping_' = [cpu_mapping_ EXCEPT ![p] = c]
        /\ Mapped' = Mapped \cup {p}
        /\ affinity' = IF BindFails(p, c) THEN affinity
                       ELSE [affinity EXCEPT ![p] = c]
    BY <1>2, GetsCpu DEF add_process, TakesCpu, IInv
  <2>2. /\ allocated_cpus_' = allocated_cpus_ \cup {c}
        /\ p \notin Mapped /\ left = {} /\ left' = left
        /\ before' = before /\ ended' = ended
        /\ thrown' \in {"nothing", "Too many processes"}
    BY <1>2 DEF add_process, TakesCpu
  <2> HIDE DEF c
  <2> USE <2>1, <2>2 DEF IInv
  <2>3. TypeOK'
    BY DEF TypeOK
  <2>4. \A q \in Mapped : cpu_mapping_'[q] = cpu_mapping_[q] /\ q # p
    BY DEF TypeOK, Mapped
  <2>5. p \in Mapped' /\ cpu_mapping_'[p] = c
    BY DEF TypeOK
  <2>6. AllocationMatchesMapping'
    BY <2>4, <2>5 DEF AllocationMatchesMapping
  <2>7. Injective'
    <3>1. \A q \in Mapped : cpu_mapping_[q] # c
      BY DEF AllocationMatchesMapping
    <3>2. \A q, r \in Mapped :
            q # r => cpu_mapping_'[q] # cpu_mapping_'[r]
      BY <2>4 DEF Injective
    <3>3. \A q \in Mapped : cpu_mapping_'[q] # cpu_mapping_'[p]
      BY <2>4, <2>5, <3>1
    <3>4. \A q, r \in Mapped \cup {p} :
            q # r => cpu_mapping_'[q] # cpu_mapping_'[r]
      BY ONLY <3>2, <3>3
    <3> QED
      BY <3>4 DEF Injective
  <2>8. Bound'
    BY <2>4, <2>5 DEF Bound, Placed, BindFails, TypeOK, Mapped
  <2>9. Round' /\ Remapped'
    BY <2>4, <2>5 DEF Round, Remapped, TypeOK
  <2> QED
    BY <2>3, <2>6, <2>7, <2>8, <2>9
<1> QED
  BY <1>1, <1>2

(* One hop of a round of hop_processes().                                  *)
LEMMA HopKeepsIInv ==
  ASSUME IInv, NEW p \in Pids, hop_process(p)
  PROVE  IInv'
<1>1. CASE FreeCpus = {}
  BY <1>1, TablesKept DEF hop_process, NoAvailableCpus, IInv, TypeOK
<1>2. CASE FreeCpus # {}
  <2> DEFINE c == find_available_cpu
             old == cpu_mapping_[p]
  <2>1. /\ c \in CpuSet /\ c \notin allocated_cpus_ /\ c # NoCpu
        /\ cpu_mapping_' = [cpu_mapping_ EXCEPT ![p] = c]
        /\ Mapped' = Mapped \cup {p}
        /\ affinity' = IF BindFails(p, c) THEN affinity
                       ELSE [affinity EXCEPT ![p] = c]
    BY <1>2, GetsCpu DEF hop_process, Hops, IInv
  <2>2. /\ allocated_cpus_' = (allocated_cpus_ \cup {c}) \ {old}
        /\ p \in left /\ left' = left \ {p}
        /\ before' = before /\ ended' = ended /\ thrown' = thrown
    BY <1>2 DEF hop_process, Hops, IsNext
  <2>3. p \in Mapped
    BY <2>2 DEF IInv, TypeOK
  <2>4. old \in allocated_cpus_ /\ old # c
    BY <2>1, <2>3 DEF IInv, AllocationMatchesMapping
  <2> HIDE DEF c
  <2> USE <2>1, <2>2, <2>3, <2>4 DEF IInv
  <2>5. TypeOK'
    BY DEF TypeOK
  <2>6. \A q \in Mapped \ {p} : cpu_mapping_'[q] = cpu_mapping_[q]
    BY DEF TypeOK, Mapped
  <2>7. cpu_mapping_'[p] = c /\ Mapped' = Mapped
    BY DEF TypeOK
  <2>8. AllocationMatchesMapping'
    BY <2>6, <2>7 DEF AllocationMatchesMapping, Injective
  <2>9. Injective'
    BY <2>6, <2>7 DEF AllocationMatchesMapping, Injective
  <2>10. Bound'
    BY <2>6, <2>7 DEF Bound, Placed, BindFails, TypeOK, Mapped
  <2>11. Round'
    BY <2>6, <2>7 DEF Round, TypeOK
  <2>12. Remapped'
    BY <2>6, <2>7 DEF Round, Remapped, TypeOK
  <2> QED
    BY <2>5, <2>8, <2>9, <2>10, <2>11, <2>12
<1> QED
  BY <1>1, <1>2

(* Every step of the hopper and of the processes.                          *)
LEMMA NextIInv == IInv /\ [Next]_vars => IInv'
<1> SUFFICES ASSUME IInv, [Next]_vars PROVE IInv'
  OBVIOUS
<1>1. CASE hop_processes
  BY <1>1 DEF hop_processes, IInv, TypeOK, AllocationMatchesMapping,
              Injective, Bound, Placed, Round, Remapped, Mapped
<1>2. ASSUME NEW p \in Pids, process_ends(p) PROVE IInv'
  BY <1>2, TablesKept DEF process_ends, IInv, TypeOK
<1>3. CASE UNCHANGED vars
  BY <1>3, TablesKept DEF vars, IInv, TypeOK
<1> QED
  BY <1>1, <1>2, <1>3, AddKeepsIInv, HopKeepsIInv DEF Next

(* The inductive invariant holds in every reachable state.                 *)
THEOREM Invariance == Spec => []IInv
BY InitIInv, NextIInv, PTL DEF Spec

(* Type correctness of the tables of cpu_hopper.                           *)
THEOREM TypeCorrect == Spec => []TypeOK
<1>1. IInv => TypeOK
  BY DEF IInv
<1> QED
  BY <1>1, Invariance, PTL

(* allocated_cpus_ is the range of cpu_mapping_ at every instant, in the   *)
(* middle of a round of hops too.                                          *)
THEOREM TablesAgree == Spec => []AllocationMatchesMapping
<1>1. IInv => AllocationMatchesMapping
  BY DEF IInv
<1> QED
  BY <1>1, Invariance, PTL

(* Processes that exist and are meant to be on CPUs that are online never  *)
(* share one.                                                              *)
THEOREM CpusAreOwned == Spec => []OwnCpu
<1>1. IInv => OwnCpu
  BY DEF IInv, OwnCpu, Bound, Placed, Injective
<1> QED
  BY <1>1, Invariance, PTL

(* A round maps every process to another CPU than it had, and a process    *)
(* that exists is bound to another CPU unless that one is offline.         *)
THEOREM EveryProcessHops == Spec => []HopsAway
<1>1. IInv => HopsAway
  BY DEF IInv, HopsAway, Remapped, Bound
<1> QED
  BY <1>1, Invariance, PTL

-----------------------------------------------------------------------------
(* A bit of allocated_cpus_ is set for each process in cpu_mapping_.       *)
LEMMA AsManyCpusAsProcesses ==
  ASSUME IInv
  PROVE  /\ IsFiniteSet(Mapped) /\ Cardinality(Mapped) \in Nat
         /\ Cardinality(Mapped) <= Cpus
         /\ Cardinality(Mapped) = Cpus <=> FreeCpus = {}
<1> DEFINE f == [p \in Mapped |-> cpu_mapping_[p]]
<1>1. IsFiniteSet(Mapped) /\ Cardinality(Mapped) \in Nat
  BY PidsAssumption, FS_Subset, FS_CardinalityType DEF Mapped
<1>2. f \in Surjection(Mapped, allocated_cpus_)
  BY DEF IInv, AllocationMatchesMapping, Surjection
<1>3. f \in Injection(Mapped, allocated_cpus_)
  BY DEF IInv, AllocationMatchesMapping, Injective, Injection, IsInjective
<1>4. Cardinality(Mapped) = Cardinality(allocated_cpus_)
  BY <1>1, <1>2, <1>3, FS_Surjection
<1>5. IsFiniteSet(CpuSet) /\ Cardinality(CpuSet) = Cpus
  BY CpusAssumption, FS_Interval DEF CpuSet
<1>6. /\ Cardinality(allocated_cpus_) <= Cpus
      /\ Cardinality(allocated_cpus_) = Cpus <=> CpuSet = allocated_cpus_
  BY <1>5, FS_Subset DEF IInv, TypeOK
<1>7. FreeCpus = {} <=> CpuSet = allocated_cpus_
  BY DEF IInv, TypeOK, FreeCpus
<1> QED
  BY <1>1, <1>4, <1>6, <1>7

(* As long as the monitor thread runs there is a CPU to hop to: what       *)
(* add_process() tests, with an equality, after each process it adds, is   *)
(* enough to keep find_available_cpu() from throwing in a hop.             *)
THEOREM SpareCpuIsKept == Spec => []SpareCpu
<1>1. Init => SpareCpu
  BY DEF Init, SpareCpu, Mapped
<1>2. IInv /\ IInv' /\ SpareCpu /\ [Next]_vars => SpareCpu'
  <2> SUFFICES ASSUME IInv, IInv', SpareCpu, [Next]_vars PROVE SpareCpu'
    OBVIOUS
  <2>1. ASSUME NEW p \in Pids, add_process(p) PROVE SpareCpu'
    <3>1. CASE FreeCpus = {}
      BY <2>1, <3>1, AsManyCpusAsProcesses
         DEF add_process, NoAvailableCpus, SpareCpu, Mapped
    <3>2. CASE FreeCpus # {}
      <4>1. /\ left' = {}
            /\ thrown' = IF Cardinality(Mapped') = Cpus
                         THEN "Too many processes" ELSE "nothing"
        BY <2>1, <3>2 DEF add_process, TakesCpu
      <4>2. (Cardinality(Mapped) = Cpus <=> FreeCpus = {})'
        BY AsManyCpusAsProcesses, PTL
      <4> QED
        BY <4>1, <4>2 DEF SpareCpu
    <3> QED
      BY <3>1, <3>2
  <2>2. ASSUME NEW p \in Pids, hop_process(p) PROVE SpareCpu'
    <3>1. p \in Mapped /\ thrown = "nothing"
      BY <2>2 DEF hop_process, IsNext, IInv, TypeOK
    <3>2. FreeCpus # {}
      BY <3>1 DEF SpareCpu
    <3>3. thrown' = "nothing" /\ Mapped' = Mapped
      BY <2>2, <3>1, <3>2, GetsCpu DEF hop_process, Hops, IInv
    <3>4. Cardinality(Mapped) # Cpus
      BY <3>2, AsManyCpusAsProcesses
    <3>5. (Cardinality(Mapped) = Cpus <=> FreeCpus = {})'
      BY AsManyCpusAsProcesses, PTL
    <3> QED
      BY <3>3, <3>4, <3>5 DEF SpareCpu
  <2>3. CASE hop_processes
    BY <2>3 DEF hop_processes, SpareCpu, FreeCpus, Mapped
  <2>4. ASSUME NEW p \in Pids, process_ends(p) PROVE SpareCpu'
    BY <2>4 DEF process_ends, SpareCpu, FreeCpus, Mapped
  <2>5. CASE UNCHANGED vars
    BY <2>5 DEF vars, SpareCpu, FreeCpus, Mapped
  <2> QED
    BY <2>1, <2>2, <2>3, <2>4, <2>5 DEF Next
<1> QED
  BY <1>1, <1>2, Invariance, PTL DEF Spec

(* When the thread of cpu_hopper ends: what SimpleManager!HopperThrows     *)
(* says of the handler, and nothing else ends it.                          *)
ThrowsWithoutSpareCpu ==
  /\ \A p \in Pids : add_process(p) =>
       (thrown' # "nothing" <=> Cardinality(Mapped) + 1 >= Cpus)
  /\ thrown' # thrown => \E p \in Pids : add_process(p)
  /\ thrown' = "nothing" /\ Mapped' # Mapped =>
       Cardinality(Mapped') = Cardinality(Mapped) + 1

(* Any of the two exceptions of add_process(), that of                     *)
(* find_available_cpu() and that of the test for too many processes, is    *)
(* thrown exactly if the process would leave no CPU to spare; hops and     *)
(* failing bindings throw nothing, and each event that was handled added   *)
(* one process.  This is what SimpleManager has in place of cpu_hopper.    *)
THEOREM ThrowsWithoutSpareCpuHolds == Spec => [][ThrowsWithoutSpareCpu]_vars
<1>1. ASSUME IInv, IInv', SpareCpu, [Next]_vars
      PROVE  [ThrowsWithoutSpareCpu]_vars
  <2> USE <1>1
  <2>1. /\ IsFiniteSet(Mapped) /\ Cardinality(Mapped) \in Nat
        /\ Cardinality(Mapped) <= Cpus /\ Cpus \in Nat
        /\ Cardinality(Mapped) = Cpus <=> FreeCpus = {}
    BY AsManyCpusAsProcesses, CpusAssumption
  <2>2. (Cardinality(Mapped) <= Cpus)'
    BY AsManyCpusAsProcesses, PTL
  <2>3. ASSUME NEW p \in Pids, add_process(p)
        PROVE  /\ thrown' # "nothing" <=> Cardinality(Mapped) + 1 >= Cpus
               /\ thrown' = "nothing" =>
                    Cardinality(Mapped') = Cardinality(Mapped) + 1
    <3>1. CASE FreeCpus = {}
      <4>1. thrown' = "No available CPUs"
        BY <2>3, <3>1 DEF add_process, NoAvailableCpus
      <4>2. Cardinality(Mapped) + 1 >= Cpus
        BY <2>1, <3>1
      <4> QED
        BY ONLY <4>1, <4>2
    <3>2. CASE FreeCpus # {}
      <4>1. Mapped' = Mapped \cup {p} /\ p \notin Mapped
        BY <2>3, <3>2, GetsCpu DEF add_process, TakesCpu, IInv
      <4>2. Cardinality(Mapped') = Cardinality(Mapped) + 1
        BY <2>1, <4>1, FS_AddElement
      <4>3. thrown' = IF Cardinality(Mapped') = Cpus
                      THEN "Too many processes" ELSE "nothing"
        BY <2>3, <3>2 DEF add_process
      <4>4. Cardinality(Mapped') <= Cpus
        BY <2>2
      <4>5. Cardinality(Mapped') = Cpus <=> Cardinality(Mapped) + 1 >= Cpus
        BY ONLY <2>1, <4>2, <4>4
      <4> QED
        BY ONLY <4>2, <4>3, <4>5
    <3> QED
      BY <3>1, <3>2
  <2>4. ASSUME NEW p \in Pids, hop_process(p)
        PROVE  thrown' = thrown /\ Mapped' = Mapped
    <3>1. p \in Mapped /\ thrown = "nothing"
      BY <2>4 DEF hop_process, IsNext, IInv, TypeOK
    <3>2. FreeCpus # {}
      BY <3>1 DEF SpareCpu
    <3> QED
      BY <2>4, <3>1, <3>2, GetsCpu DEF hop_process, Hops, IInv
  <2>5. CASE hop_processes \/ \E p \in Pids : process_ends(p)
    <3>1. thrown' = thrown /\ Mapped' = Mapped
      BY <2>5 DEF hop_processes, process_ends, Mapped
    <3> QED
      BY <2>3, <3>1 DEF ThrowsWithoutSpareCpu
  <2>6. CASE \E p \in Pids : add_process(p)
    BY <2>3, <2>6 DEF ThrowsWithoutSpareCpu
  <2>7. CASE \E p \in Pids : hop_process(p)
    BY <2>3, <2>4, <2>7 DEF ThrowsWithoutSpareCpu
  <2> QED
    BY <2>5, <2>6, <2>7 DEF Next
<1>2. IInv /\ IInv' /\ SpareCpu /\ [Next]_vars =>
        [ThrowsWithoutSpareCpu]_vars
  BY <1>1
<1> QED
  BY <1>2, Invariance, SpareCpuIsKept, PTL DEF Spec

-----------------------------------------------------------------------------
(* The event_manager of pmc_sampler, for any number of events and any      *)
(* rate of counting.                                                       *)

Samples ==
  [value : Fractions, scaling : Fractions, enabled : BOOLEAN]

(* Reading b is not before reading a: nothing has decreased, and the       *)
(* counter was not running for longer than it was enabled in between.      *)
Follows(b, a) ==
  /\ a.value <= b.value /\ a.enabled <= b.enabled /\ a.running <= b.running
  /\ b.running + a.enabled <= b.enabled + a.running

(* A counter counts only while it runs.                                    *)
Sane(a) == a.running = 0 => a.value = 0

(* event::prev_ is a reading that event::count_ follows, and event::count_ *)
(* one that the kernel's counts follow.                                    *)
ReadingInv ==
  \A e \in Events :
    /\ reported[e] = prev_[e]
    /\ Follows(counter[e], count_[e]) /\ Follows(count_[e], prev_[e])
    /\ Follows(prev_[e], ZeroCounts)
    /\ Sane(counter[e]) /\ Sane(count_[e])

(* Readings are added, and subtracted from a later one, field by field.    *)
LEMMA PlusIs ==
  ASSUME NEW a \in Counts, NEW b \in Counts
  PROVE  /\ Plus(a, b) \in Counts
         /\ Plus(a, b).value = a.value + b.value
         /\ Plus(a, b).enabled = a.enabled + b.enabled
         /\ Plus(a, b).running = a.running + b.running
  BY DEF Counts, Plus

(* What a RELATIVE read computes, and that it undoes an addition.          *)
LEMMA MinusIs ==
  ASSUME NEW a \in Counts, NEW b \in Counts, Follows(b, a)
  PROVE  /\ Minus(b, a) \in Counts
         /\ Minus(b, a).value = b.value - a.value
         /\ Minus(b, a).enabled = b.enabled - a.enabled
         /\ Minus(b, a).running = b.running - a.running
         /\ Plus(a, Minus(b, a)) = b
  BY DEF Counts, Plus, Minus, Follows

(* Following is reflexive, which a read needs, and transitive, which a     *)
(* tick of the counter and a RELATIVE read need.                           *)
LEMMA FollowsItself ==
  ASSUME NEW a \in Counts
  PROVE  Follows(a, a)
  BY DEF Counts, Follows

(* Readings that follow each other add up to one interval.                 *)
LEMMA FollowsTransitive ==
  ASSUME NEW a \in Counts, NEW b \in Counts, NEW c \in Counts,
         Follows(b, a), Follows(c, b)
  PROVE  Follows(c, a)
  BY DEF Counts, Follows

(* scale() complains about no reading of a counter that behaves.           *)
LEMMA Scales ==
  ASSUME NEW p \in Counts, NEW c \in Counts,
         Follows(c, p), Follows(p, ZeroCounts), Sane(c)
  PROVE  /\ ~(c.running > c.enabled)
         /\ ~(c.running = 0 /\ c.value # p.value)
  BY DEF Counts, Follows, Sane, ZeroCounts

(* The fraction of the time when the event was running is at most 1.       *)
LEMMA SampleIs ==
  ASSUME NEW i \in Counts, i.running <= i.enabled
  PROVE  /\ Sample(i) \in Samples
         /\ Sample(i).scaling[1] <= Sample(i).scaling[2]
  BY DEF Counts, Sample, Fractions, Samples

CountersInv ==
  EventsTypeOK /\ ReadingInv /\ ScalingIsFraction /\ NoSpuriousError

(* Every step of event_manager and every tick of a counter keeps the       *)
(* readings in order.  That the unsigned differences of a RELATIVE read    *)
(* do not wrap around, scale() does not throw and the samples are          *)
(* fractions hang together with it.                                        *)
LEMMA CountersInvHolds == EventsSpec => []CountersInv
<1>. USE EventsAssumption DEF EventsTypeOK, Samples
<1>1. EventsInit => CountersInv
  <2>. SUFFICES ASSUME EventsInit PROVE CountersInv
    OBVIOUS
  <2>. USE DEF EventsInit
  <2>1. /\ ZeroCounts \in Counts /\ Sane(ZeroCounts)
        /\ Follows(ZeroCounts, ZeroCounts)
    BY DEF ZeroCounts, Counts, Follows, Sane
  <2>2. /\ NoSample \in Samples
        /\ NoSample.scaling[1] <= NoSample.scaling[2]
    BY DEF NoSample, Fractions, Samples
  <2>3. error \in BOOLEAN /\ ~error
    BY Zenon
  <2>4. 1 \in Events
    BY DEF Events
  <2>5. EventsTypeOK
    BY <2>1, <2>2, <2>3, <2>4
  <2>. QED
    BY <2>1, <2>2, <2>3, <2>5
       DEF CountersInv, ReadingInv, ScalingIsFraction, NoSpuriousError
<1>2. CountersInv /\ [EventsNext]_events_vars => CountersInv'
  <2>. SUFFICES ASSUME CountersInv, [EventsNext]_events_vars PROVE CountersInv'
    OBVIOUS
  <2>. USE DEF CountersInv
  <2>0. ASSUME manager' \in {"opening", "idle", "reading", "scaling", "gone"},
               next' \in Events, mode' \in {"RELATIVE", "AGGREGATED"},
               open' \subseteq Events,
               UNCHANGED <<counter, count_, prev_, latest_samples_, error,
                           reported>>
        PROVE  CountersInv'
    BY <2>0 DEF ReadingInv, ScalingIsFraction, NoSpuriousError
  <2>a. (IF next = N THEN 1 ELSE next + 1) \in Events
    BY DEF Events
  <2>1. ASSUME NEW e \in Events, NEW ran \in 0..1, NEW n \in 0..MaxRate,
               count(e, ran, n)
        PROVE  CountersInv'
    <3>. DEFINE d == [value |-> n, enabled |-> 1, running |-> ran]
    <3>1. d \in Counts /\ d.value = n /\ d.enabled = 1 /\ d.running = ran
      BY DEF Counts
    <3>2. /\ counter' = [counter EXCEPT ![e] = Plus(counter[e], d)]
          /\ n > 0 => ran = 1
          /\ UNCHANGED <<manager, next, mode, open, count_, prev_,
                         latest_samples_, error, reported>>
      BY <2>1 DEF count
    <3>. HIDE DEF d
    <3>3. /\ Plus(counter[e], d) \in Counts
          /\ Follows(Plus(counter[e], d), counter[e])
          /\ Sane(counter[e]) => Sane(Plus(counter[e], d))
      BY <3>1, <3>2, PlusIs DEF Follows, Sane, Counts
    <3>4. EventsTypeOK'
      BY <3>2, <3>3
    <3>5. ReadingInv'
      BY <3>2, <3>3, FollowsTransitive DEF ReadingInv
    <3>. QED  BY <3>2, <3>4, <3>5 DEF ScalingIsFraction, NoSpuriousError
  <2>2. CASE open_event
    BY <2>2, <2>0, <2>a DEF open_event, Loop
  <2>3. CASE open_event_fails
    BY <2>3, <2>0 DEF open_event_fails, Leave, Events
  <2>4. ASSUME NEW m \in {"RELATIVE", "AGGREGATED"}, read_events(m)
        PROVE  CountersInv'
    BY <2>4, <2>0 DEF read_events
  <2>5. CASE read
    <3>1. /\ count_' = [count_ EXCEPT ![next] = counter[next]]
          /\ UNCHANGED <<mode, open, counter, prev_, latest_samples_, error,
                         reported>>
          /\ manager' \in {"reading", "scaling"} /\ next' \in Events
      BY <2>5, <2>a DEF read, Loop
    <3>2. EventsTypeOK'
      BY <3>1
    <3>3. ReadingInv'
      BY <3>1, FollowsItself, FollowsTransitive DEF ReadingInv
    <3>. QED  BY <3>1, <3>2, <3>3 DEF ScalingIsFraction, NoSpuriousError
  <2>6. CASE read_fails
    BY <2>6, <2>0 DEF read_fails, Leave, Events
  <2>7. CASE scale
    <3>. DEFINE c == count_[next]  p == prev_[next]
    <3>1. /\ c \in Counts /\ p \in Counts
          /\ Follows(c, p) /\ Follows(p, ZeroCounts) /\ Sane(c)
          /\ reported[next] = p
      BY DEF ReadingInv
    <3>2. ~ScaleError(next)
      BY <3>1, Scales DEF ScaleError
    <3>3. ZeroCounts \in Counts
      BY DEF ZeroCounts, Counts
    <3>4. /\ Interval(next, mode) \in Counts
          /\ Interval(next, mode).running <= Interval(next, mode).enabled
      <4>1. CASE mode = "RELATIVE"
        <5>1. Interval(next, mode) = Minus(c, p)
          BY <4>1 DEF Interval
        <5>. HIDE DEF c, p
        <5>2. /\ Minus(c, p) \in Counts
              /\ Minus(c, p).running = c.running - p.running
              /\ Minus(c, p).enabled = c.enabled - p.enabled
          BY <3>1, MinusIs
        <5>3. /\ {c.running, c.enabled, p.running, p.enabled} \subseteq Nat
              /\ c.running + p.enabled <= c.enabled + p.running
          BY <3>1 DEF Follows, Counts
        <5>. QED  BY <5>1, <5>2, <5>3
      <4>2. CASE mode # "RELATIVE"
        <5>1. Interval(next, mode) = c
          BY <4>2 DEF Interval
        <5>. HIDE DEF c, p
        <5>. QED  BY <3>1, <5>1, Scales DEF Counts
      <4>. QED  BY <4>1, <4>2
    <3>5. mode = "RELATIVE" => Plus(p, Interval(next, mode)) = c
      BY <3>1, MinusIs DEF Interval
    <3>6. /\ latest_samples_' =
               [latest_samples_ EXCEPT
                  ![next] = Sample(Interval(next, mode))]
          /\ IF mode = "RELATIVE"
             THEN /\ prev_' = [prev_ EXCEPT ![next] = c]
                  /\ reported' = [reported EXCEPT
                       ![next] = Plus(@, Interval(next, mode))]
             ELSE UNCHANGED <<prev_, reported>>
          /\ manager' \in {"scaling", "idle"} /\ next' \in Events
          /\ UNCHANGED <<mode, open, counter, count_, error>>
      BY <2>7, <2>a, <3>2 DEF scale, Loop
    <3>7. EventsTypeOK'
      BY <3>1, <3>4, <3>5, <3>6, SampleIs
    <3>8. ReadingInv'
      BY <3>1, <3>3, <3>5, <3>6, FollowsItself, FollowsTransitive
         DEF ReadingInv
    <3>9. ScalingIsFraction'
      BY <3>4, <3>6, SampleIs DEF ScalingIsFraction
    <3>. QED  BY <3>6, <3>7, <3>8, <3>9 DEF NoSpuriousError
  <2>8. CASE destroy
    BY <2>8, <2>0 DEF destroy, Leave, Events
  <2>9. CASE UNCHANGED events_vars
    BY <2>9, <2>0 DEF events_vars
  <2>. QED
    BY <2>1, <2>2, <2>3, <2>4, <2>5, <2>6, <2>7, <2>8, <2>9 DEF EventsNext
<1>. QED
  BY <1>1, <1>2, PTL DEF EventsSpec

(* Type correctness of an event_manager; the counts are natural numbers.   *)
THEOREM EventManagerTypeCorrect == EventsSpec => []EventsTypeOK
<1>1. CountersInv => EventsTypeOK
  BY DEF CountersInv
<1>. QED
  BY <1>1, CountersInvHolds, PTL

(* The intervals of the RELATIVE reads follow each other without gap or    *)
(* overlap, whatever AGGREGATED and failing reads come in between.         *)
THEOREM IntervalsAddUpHolds == EventsSpec => []IntervalsAddUp
<1>1. CountersInv => IntervalsAddUp
  BY DEF CountersInv, EventsTypeOK, ReadingInv, Follows, IntervalsAddUp,
         ZeroCounts, Counts
<1>. QED
  BY <1>1, CountersInvHolds, PTL

(* event_sample::scaling is never more than 1, in RELATIVE samples too.    *)
THEOREM ScalingIsFractionHolds == EventsSpec => []ScalingIsFraction
<1>1. CountersInv => ScalingIsFraction
  BY DEF CountersInv
<1>. QED
  BY <1>1, CountersInvHolds, PTL

(* Neither of the two conditions that event::scale() checks arises.        *)
THEOREM NoSpuriousErrorHolds == EventsSpec => []NoSpuriousError
<1>1. CountersInv => NoSpuriousError
  BY DEF CountersInv
<1>. QED
  BY <1>1, CountersInvHolds, PTL

=============================================================================
