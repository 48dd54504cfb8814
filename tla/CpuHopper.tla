----------------------------- MODULE CpuHopper -----------------------------
(***************************************************************************)
(* cpu_hopper (exec_monitor/cpu_hopper.cc): every process has a CPU of its *)
(* own, and once per sampling interval each one moves to a free CPU.       *)
(*                                                                         *)
(* The monitor is one thread; what runs beside it are the processes, which *)
(* may end at any time, after which binding them fails, as it does for a   *)
(* CPU that is offline or not allowed.  affinity is the kernel's view,     *)
(* which bind_process() tries to keep equal to cpu_mapping_.               *)
(***************************************************************************)
EXTENDS Integers, FiniteSets

CONSTANTS Pids,    \* the processes whose creation is notified
          Cpus,    \* std::thread::hardware_concurrency(), which may be 0
          Offline, \* the CPUs no process can be bound to
          NoCpu,   \* not in cpu_mapping_
          AnyCpu   \* not bound

CpuSet == 0..(Cpus - 1)

ASSUME PidsAssumption == Pids \subseteq Nat /\ IsFiniteSet(Pids)
ASSUME CpusAssumption ==
  Cpus \in Nat /\ Offline \subseteq CpuSet /\ NoCpu \notin CpuSet /\ AnyCpu \notin CpuSet

VARIABLES
  cpu_mapping_,     \* cpu_mapping_[p], or NoCpu
  allocated_cpus_,  \* the CPUs whose bit is set
  left,             \* the processes this round of hop_processes() has left
  before,           \* cpu_mapping_ when the round began
  thrown,           \* what ended the monitor thread, or "nothing"
  ended,            \* the processes that do not exist any more
  affinity          \* affinity[p]: the CPU p is bound to

vars == <<cpu_mapping_, allocated_cpus_, left, before, thrown, ended, affinity>>

Mapped == {p \in Pids : cpu_mapping_[p] # NoCpu}
FreeCpus == CpuSet \ allocated_cpus_

Init ==
  /\ cpu_mapping_ = [p \in Pids |-> NoCpu]
  /\ allocated_cpus_ = {}
  /\ left = {}
  /\ before = cpu_mapping_
  /\ thrown = "nothing"
  /\ ended = {}
  /\ affinity = [p \in Pids |-> AnyCpu]

(* std::find over the vector: the lowest.                                  *)
find_available_cpu == CHOOSE c \in FreeCpus : \A d \in FreeCpus : c <= d

BindFails(p, c) == p \in ended \/ c \in Offline

sched_setaffinity(p, c) ==
  affinity' = IF BindFails(p, c) THEN affinity ELSE [affinity EXCEPT ![p] = c]

bind_process_only_if_bound(p, c) ==
  /\ sched_setaffinity(p, c)
  /\ cpu_mapping_' = IF BindFails(p, c) THEN cpu_mapping_
                     ELSE [cpu_mapping_ EXCEPT ![p] = c]

(* A failure is reported and the mapping is updated all the same.  The     *)
(* bit in allocated_cpus_ is set by the callers here, which know what else *)
(* happens to that table.                                                  *)
bind_process(p, c) ==
  /\ sched_setaffinity(p, c)
  /\ cpu_mapping_' = [cpu_mapping_ EXCEPT ![p] = c]

(* find_available_cpu() throws.                                            *)
NoAvailableCpus ==
  /\ thrown' = "No available CPUs"
  /\ UNCHANGED <<cpu_mapping_, allocated_cpus_, left, affinity>>

-----------------------------------------------------------------------------
TakesCpu(p) ==
  /\ bind_process(p, find_available_cpu)
  /\ allocated_cpus_' = allocated_cpus_ \cup {find_available_cpu}
  /\ UNCHANGED left

add_process_one_too_many(p) ==
  /\ thrown = "nothing"
  /\ left = {}
  /\ p \notin Mapped
  /\ IF FreeCpus = {}
     THEN NoAvailableCpus
     ELSE /\ TakesCpu(p)
          /\ thrown' = IF Cardinality(Mapped') > Cpus
                       THEN "Too many processes" ELSE "nothing"
  /\ UNCHANGED <<before, ended>>

(* The PROCESS_CREATED handler, which runs between two rounds of hops.     *)
add_process(p) ==
  /\ thrown = "nothing"
  /\ left = {}
  /\ p \notin Mapped
  /\ IF FreeCpus = {}
     THEN NoAvailableCpus
     ELSE /\ TakesCpu(p)
          /\ thrown' = IF Cardinality(Mapped') = Cpus
                       THEN "Too many processes" ELSE "nothing"
  /\ UNCHANGED <<before, ended>>

hop_processes_but_one ==
  /\ thrown = "nothing"
  /\ left = {}
  /\ Mapped # {}
  /\ left' = Mapped \ {CHOOSE p \in Mapped : TRUE}
  /\ before' = cpu_mapping_
  /\ UNCHANGED <<cpu_mapping_, allocated_cpus_, thrown, ended, affinity>>

(* loop_impl() after its sleep.                                            *)
hop_processes ==
  /\ thrown = "nothing"
  /\ left = {}
  /\ Mapped # {}
  /\ left' = Mapped
  /\ before' = cpu_mapping_
  /\ UNCHANGED <<cpu_mapping_, allocated_cpus_, thrown, ended, affinity>>

(* cpu_mapping_ is iterated in the order of the pids.                      *)
IsNext(p) == p \in left /\ \A q \in left : p <= q

HopsByReference(p) ==
  /\ bind_process(p, find_available_cpu)
  /\ UNCHANGED allocated_cpus_
  /\ left' = left \ {p}
  /\ UNCHANGED thrown

Hops(p) ==
  /\ bind_process(p, find_available_cpu)
  /\ allocated_cpus_' =
       (allocated_cpus_ \cup {find_available_cpu}) \ {cpu_mapping_[p]}
  /\ left' = left \ {p}
  /\ UNCHANGED thrown

hop_process(p) ==
  /\ thrown = "nothing"
  /\ IsNext(p)
  /\ IF FreeCpus = {} THEN NoAvailableCpus ELSE Hops(p)
  /\ UNCHANGED <<before, ended>>

process_ends(p) ==
  /\ p \notin ended
  /\ ended' = ended \cup {p}
  /\ UNCHANGED <<cpu_mapping_, allocated_cpus_, left, before, thrown, affinity>>

Next ==
  \/ hop_processes
  \/ \E p \in Pids : add_process(p) \/ hop_process(p) \/ process_ends(p)

Spec == Init /\ [][Next]_vars

-----------------------------------------------------------------------------
(* The two tables of cpu_hopper and the kernel's affinities are typed.     *)
TypeOK ==
  /\ cpu_mapping_ \in [Pids -> CpuSet \cup {NoCpu}]
  /\ allocated_cpus_ \subseteq CpuSet
  /\ left \subseteq Mapped
  /\ before \in [Pids -> CpuSet \cup {NoCpu}]
  /\ thrown \in {"nothing", "Too many processes", "No available CPUs"}
  /\ ended \subseteq Pids
  /\ affinity \in [Pids -> CpuSet \cup {AnyCpu}]

(* allocated_cpus_ and cpu_mapping_ tell the same story: a bit is set      *)
(* exactly for the CPUs some process is mapped to.                         *)
AllocationMatchesMapping ==
  allocated_cpus_ = {cpu_mapping_[p] : p \in Mapped}

(* The processes that exist and that cpu_hopper means to be on a CPU that  *)
(* is online.                                                              *)
Placed == {p \in Mapped \ ended : cpu_mapping_[p] \notin Offline}

(* These are bound to the CPU cpu_mapping_ says, and no two to the same,   *)
(* in the middle of a round too, whatever processes ended meanwhile and    *)
(* although binding others failed and the failure was passed over.         *)
OwnCpu ==
  \A p \in Placed :
    /\ affinity[p] = cpu_mapping_[p]
    /\ \A q \in Placed : p # q => affinity[p] # affinity[q]

(* cpu_hopper.h: "all processes under the control of the execution manager *)
(* will hop to another CPU".  A process that the round has dealt with is   *)
(* not mapped to the CPU it had when the round began, and it is not bound  *)
(* to it either if it exists and the CPU it was sent to is online: sent to *)
(* one that is offline, it stays bound as it was.                          *)
HopsAway ==
  \A p \in Pids \ left : before[p] # NoCpu =>
    /\ cpu_mapping_[p] # before[p]
    /\ p \in Placed => affinity[p] # before[p]

(* The monitor thread is ended by add_process() only, for want of a spare  *)
(* CPU, and never in the middle of a round of hops: as long as it runs     *)
(* there is a CPU to hop to.                                               *)
SpareCpu ==
  /\ thrown = "nothing" => FreeCpus # {} \/ Mapped = {}
  /\ thrown # "nothing" => left = {} /\ Cardinality(Mapped) = Cpus

=============================================================================
