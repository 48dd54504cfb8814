----------------------------- MODULE PmcSampler ----------------------------
(***************************************************************************)
(* pmc_sampler (exec_monitor/impl/pmc_sampler.h): the thread of            *)
(* exec_monitor with one event_manager per process, and every event_linux_ *)
(* impl with a file descriptor of its own.                                 *)
(*                                                                         *)
(* EventManager looks into the counters of one process; this module looks  *)
(* at whose counters they are.  The rest of the runtime opens and closes   *)
(* descriptors meanwhile, processes end, a counter cannot be attached to a *)
(* process that has ended, and perf may fail for any other one as well.    *)
(***************************************************************************)
EXTENDS Integers, Sequences, Functions

CONSTANTS Pids,    \* the processes whose creation is notified
          Fds,     \* the descriptors that are free when the sampler starts
          N,       \* events per process: pmc_sampler::events_
          None,    \* no process, and no file
          Other    \* a file of the rest of the runtime

ASSUME PidsAssumption == Pids \subseteq Nat /\ {None, Other} \cap Pids = {}
ASSUME FdsAssumption == Fds \subseteq Nat /\ N \in Nat \ {0} /\ None # Other

VARIABLES
  event_queue_,      \* pids of the PROCESS_CREATED events
  notified,          \* the processes whose creation was notified
  execution_ended_,
  thread_,           \* how far the thread of exec_monitor is
  left,              \* the processes its round has left to read
  adding,            \* the process it is constructing an event_manager for
  events_,           \* the descriptors of that event_manager, so far
  event_managers_,   \* event_managers_[p]: the descriptors, or none
  file,              \* file[f]: the process f counts for, Other or None
  others,            \* the descriptors the rest of the runtime has open
  ended,             \* the processes that do not exist any more
  sampled            \* sampled[p]: whose counts were reported as p's

queue_vars == <<event_queue_, notified, execution_ended_>>
thread_vars == <<thread_, left, adding, events_, event_managers_, sampled>>
kernel_vars == <<file, others, ended>>
vars == <<queue_vars, thread_vars, kernel_vars>>

Managed == {p \in Pids : event_managers_[p] # <<>>}
Free == {f \in Fds : file[f] = None}
LowestFree == CHOOSE f \in Free : \A g \in Free : f <= g

Init ==
  /\ event_queue_ = <<>>
  /\ notified = {}
  /\ execution_ended_ = FALSE
  /\ thread_ = "check"
  /\ left = {}
  /\ adding = None
  /\ events_ = <<>>
  /\ event_managers_ = [p \in Pids |-> <<>>]
  /\ file = [f \in Fds |-> None]
  /\ others = {}
  /\ ended = {}
  /\ sampled = [p \in Pids |-> {}]

-----------------------------------------------------------------------------
(* The execution manager, the rest of the runtime and the processes.       *)

notify_process_creation(p) ==
  /\ p \notin notified
  /\ ~execution_ended_
  /\ event_queue_' = Append(event_queue_, p)
  /\ notified' = notified \cup {p}
  /\ UNCHANGED <<execution_ended_, thread_vars, kernel_vars>>

execution_end ==
  /\ ~execution_ended_
  /\ execution_ended_' = TRUE
  /\ UNCHANGED <<event_queue_, notified, thread_vars, kernel_vars>>

other_opens ==
  /\ Free # {}
  /\ file' = [file EXCEPT ![LowestFree] = Other]
  /\ others' = others \cup {LowestFree}
  /\ UNCHANGED <<queue_vars, thread_vars, ended>>

other_closes(f) ==
  /\ f \in others
  /\ file' = [file EXCEPT ![f] = None]
  /\ others' = others \ {f}
  /\ UNCHANGED <<queue_vars, thread_vars, ended>>

process_ends(p) ==
  /\ p \notin ended
  /\ ended' = ended \cup {p}
  /\ UNCHANGED <<queue_vars, thread_vars, file, others>>

-----------------------------------------------------------------------------
(* The thread of exec_monitor.                                             *)

check ==
  /\ thread_ = "check"
  /\ thread_' = IF execution_ended_ THEN "done" ELSE "loop_impl"
  /\ UNCHANGED <<queue_vars, kernel_vars, left, adding, events_,
                 event_managers_, sampled>>

loop_impl_skipping_first ==
  /\ thread_ = "loop_impl"
  /\ thread_' = "read_events"
  /\ left' = {p \in Managed : \E q \in Managed : q < p}
  /\ UNCHANGED <<queue_vars, kernel_vars, adding, events_, event_managers_,
                 sampled>>

(* After the sleep: the loop over event_managers_ begins.                  *)
loop_impl ==
  /\ thread_ = "loop_impl"
  /\ thread_' = "read_events"
  /\ left' = Managed
  /\ UNCHANGED <<queue_vars, kernel_vars, adding, events_, event_managers_,
                 sampled>>

(* Nobody catches what the thread throws: std::terminate() ends the        *)
(* runtime on the spot, no destructor runs, and the kernel closes all that *)
(* the runtime has open.                                                   *)
Terminate ==
  /\ thread_' = "terminated"
  /\ file' = [f \in Fds |-> None]
  /\ others' = {}
  /\ UNCHANGED <<queue_vars, left, adding, events_, event_managers_, sampled,
                 ended>>

(* The map is iterated in the order of the pids.  Reading a counter can    *)
(* succeed after the end of its process too.                               *)
read_events(p) ==
  /\ thread_ = "read_events"
  /\ p \in left
  /\ \A q \in left : p <= q
  /\ left' = left \ {p}
  /\ sampled' = [sampled EXCEPT ![p] =
                   @ \cup {file[f] : f \in Range(event_managers_[p])}]
  /\ UNCHANGED <<queue_vars, kernel_vars, thread_, adding, events_,
                 event_managers_>>

(* A read returns less than it should, or times that scale() refuses.      *)
read_events_fails ==
  /\ thread_ = "read_events"
  /\ left # {}
  /\ Terminate

loop_impl_return ==
  /\ thread_ = "read_events"
  /\ left = {}
  /\ thread_' = "process_events"
  /\ UNCHANGED <<queue_vars, kernel_vars, left, adding, events_,
                 event_managers_, sampled>>

(* pop() with a timeout of 0; the handler is add_process().                *)
process_events ==
  /\ thread_ = "process_events"
  /\ event_queue_ # <<>>
  /\ adding' = Head(event_queue_)
  /\ event_queue_' = Tail(event_queue_)
  /\ events_' = <<>>
  /\ thread_' = "open"
  /\ UNCHANGED <<notified, execution_ended_, kernel_vars, left,
                 event_managers_, sampled>>

process_events_return ==
  /\ thread_ = "process_events"
  /\ event_queue_ = <<>>
  /\ thread_' = "check"
  /\ UNCHANGED <<queue_vars, kernel_vars, left, adding, events_,
                 event_managers_, sampled>>

ClosesNone(s) == {}

(* ~event_linux_impl(): fd_ = 0 stands for an event that is not open.      *)
Closes(s) == Range(s) \ {0}

CloseFiles(s) == [f \in Fds |-> IF f \in Closes(s) THEN None ELSE file[f]]

(* perf_event_open() succeeds for a process that has not ended.            *)
perf_event_open ==
  /\ thread_ = "open"
  /\ adding \notin ended
  /\ Free # {}
  /\ events_' = Append(events_, LowestFree)
  /\ UNCHANGED <<queue_vars, left, adding, sampled, others, ended>>

(* The last one: the event_manager is moved into the map, its vector of    *)
(* events with it, so that no event moves.                                 *)
Emplace ==
  IF Len(events_') = N
  THEN /\ event_managers_' = [event_managers_ EXCEPT ![adding] = events_']
       /\ thread_' = "process_events"
  ELSE UNCHANGED <<event_managers_, thread_>>

open_event_while_growing ==
  /\ perf_event_open
  /\ file' = [CloseFiles(events_) EXCEPT ![LowestFree] = adding]
  /\ Emplace

(* The events were all made and moved into the vector before.              *)
open_event ==
  /\ perf_event_open
  /\ file' = [file EXCEPT ![LowestFree] = adding]
  /\ Emplace

(* The constructor throws: the process has ended, or there is no           *)
(* descriptor, no permission or no such event.                             *)
open_event_fails ==
  /\ thread_ = "open"
  /\ Terminate

(* After the join(): the manager destroys its monitor.                     *)
destroy ==
  /\ thread_ = "done"
  /\ thread_' = "gone"
  /\ file' = [f \in Fds |->
       IF \E p \in Pids : f \in Closes(event_managers_[p]) THEN None
       ELSE file[f]]
  /\ event_managers_' = [p \in Pids |-> <<>>]
  /\ UNCHANGED <<queue_vars, left, adding, events_, sampled, others, ended>>

Thread ==
  \/ check \/ loop_impl \/ loop_impl_return
  \/ read_events_fails \/ \E p \in Pids : read_events(p)
  \/ process_events \/ process_events_return
  \/ open_event \/ open_event_fails
  \/ destroy

Environment ==
  \/ execution_end
  \/ other_opens
  \/ \E f \in Fds : other_closes(f)
  \/ \E p \in Pids : notify_process_creation(p) \/ process_ends(p)

Next == Thread \/ (thread_ # "terminated" /\ Environment)

Spec == Init /\ [][Next]_vars
FairSpec == Spec /\ WF_vars(Thread)

-----------------------------------------------------------------------------
(* Every descriptor an event of pmc_sampler has is one that                *)
(* perf_event_open() returned, and the other variables are typed.          *)
TypeOK ==
  /\ event_queue_ \in Seq(Pids)
  /\ notified \subseteq Pids
  /\ execution_ended_ \in BOOLEAN
  /\ thread_ \in {"check", "loop_impl", "read_events", "process_events",
                  "open", "done", "gone", "terminated"}
  /\ left \subseteq Pids
  /\ adding \in Pids \cup {None}
  /\ events_ \in Seq(Fds)
  /\ event_managers_ \in [Pids -> Seq(Fds)]
  /\ file \in [Fds -> Pids \cup {Other, None}]
  /\ others \subseteq Fds
  /\ ended \subseteq Pids
  /\ sampled \in [Pids -> SUBSET (Pids \cup {Other, None})]

FdsOf(p) == Range(event_managers_[p])
FdsInHand == IF thread_ = "open" THEN Range(events_) ELSE {}

(* A descriptor has one owner as long as the runtime runs: an event of one *)
(* process, the event_manager under construction or the rest of the        *)
(* runtime, and it is open for that owner.  No event is closed or moved    *)
(* under the others.                                                       *)
DescriptorsOwned ==
  thread_ # "terminated" =>
    /\ \A f \in others : file[f] = Other
    /\ \A f \in FdsInHand : file[f] = adding
    /\ \A p \in Managed :
         /\ IsInjective(event_managers_[p])
         /\ \A f \in FdsOf(p) : file[f] = p /\ f \notin FdsInHand

(* Every descriptor that is open for a process is one the destructors will *)
(* find, and once the monitor is gone they have closed all and none of     *)
(* somebody else's.                                                        *)
NothingLeft ==
  \A f \in Fds : file[f] \in Pids => f \in FdsInHand \cup FdsOf(file[f])

Over == execution_ended_ \/ thread_ = "terminated"

(* A process whose creation is notified is sampled, and what is reported   *)
(* as its counts was counted for it and for no other, unless the execution *)
(* ends first.                                                             *)
EverySampled ==
  \A p \in Pids : p \in notified ~> (sampled[p] = {p} \/ Over)

=============================================================================
