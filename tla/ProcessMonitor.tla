--------------------------- MODULE ProcessMonitor --------------------------
(***************************************************************************)
(* process_monitor (src/src/core/impl/process_monitor.h): one std::async   *)
(* thread per process blocks in waitpid() and pushes the pid on a queue;   *)
(* wait_for_any() pops a pid and gets its future.                          *)
(*                                                                         *)
(* The owner is one thread that adds processes, calls wait_for_any() and   *)
(* destroys the monitor, in any order.  The queue is that of FifoQueue.    *)
(* The kernel gives the pid of a process that was collected to a new one.  *)
(* add_pid() also takes pids that are not children of the runtime.         *)
(***************************************************************************)
EXTENDS Naturals, Sequences

CONSTANTS Pids,      \* the pids the kernel hands out
          Foreign,   \* those it gives to processes of somebody else
          MaxLives,  \* bound: how many processes have the same pid in turn
          NoPid

ASSUME PidsAssumption ==
  Foreign \subseteq Pids /\ NoPid \notin Pids /\ MaxLives \in Nat

VARIABLES
  process,               \* process[p]: "none", "alive" or "zombie"
  lives,                 \* lives[p]: how many processes have had pid p
  status_,               \* pids with a future in process_monitor::status_
  waiter,                \* waiter[p]: how far the async thread of p is
  added,                 \* added[p]: the life of p that was added
  status,                \* status[p]: the life whose status waitpid returned
  ended_process_queue_,
  owner,                 \* what the owner is doing
  popped,                \* the pid wait_for_any() popped
  reported               \* what wait_for_any() has returned so far

kernel_vars == <<process, lives>>
thread_vars == <<waiter, status, ended_process_queue_>>
owner_vars == <<status_, added, owner, popped, reported>>
vars == <<kernel_vars, thread_vars, owner_vars>>

Init ==
  /\ process = [p \in Pids |-> "none"]
  /\ lives = [p \in Pids |-> 0]
  /\ status_ = {}
  /\ waiter = [p \in Pids |-> "none"]
  /\ added = [p \in Pids |-> 0]
  /\ status = [p \in Pids |-> 0]
  /\ ended_process_queue_ = <<>>
  /\ owner = "idle"
  /\ popped = NoPid
  /\ reported = {}

-----------------------------------------------------------------------------
(* The owner's thread.                                                     *)

no_check_of_pid(p) == TRUE

(* Otherwise add_pid() and add_process() throw and change nothing.         *)
check_duplicated_pid(p) == p \notin status_

(* add_pid() and add_process(): the two differ in who calls waitpid().     *)
(* The process exists, and is not one that was added before.  To assign    *)
(* to a future is to wait for the thread of the one it replaces.           *)
add_process(p) ==
  /\ owner = "idle"
  /\ process[p] # "none"
  /\ added[p] # lives[p]
  /\ check_duplicated_pid(p)
  /\ waiter[p] \in {"none", "returned", "thrown"}
  /\ status_' = status_ \cup {p}
  /\ added' = [added EXCEPT ![p] = lives[p]]
  /\ waiter' = [waiter EXCEPT ![p] = "waitpid"]
  /\ UNCHANGED <<kernel_vars, status, ended_process_queue_, owner, popped,
                 reported>>

wait_for_any ==
  /\ owner = "idle"
  /\ owner' = "pop"
  /\ UNCHANGED <<kernel_vars, thread_vars, status_, added, popped, reported>>

wait_for_any_pop ==
  /\ owner = "pop"
  /\ ended_process_queue_ # <<>>
  /\ popped' = Head(ended_process_queue_)
  /\ ended_process_queue_' = Tail(ended_process_queue_)
  /\ owner' = "get"
  /\ UNCHANGED <<kernel_vars, waiter, status, status_, added, reported>>

(* assert(it != end(status_)), get() the future, erase it.                 *)
wait_for_any_get ==
  /\ owner = "get"
  /\ popped \in status_
  /\ waiter[popped] = "returned"
  /\ reported' = reported \cup {<<popped, status[popped]>>}
  /\ status_' = status_ \ {popped}
  /\ owner' = "idle"
  /\ UNCHANGED <<kernel_vars, thread_vars, added, popped>>

destroy ==
  /\ owner = "idle"
  /\ owner' = "destroying"
  /\ UNCHANGED <<kernel_vars, thread_vars, status_, added, popped, reported>>

gotten_if_returned(p) == waiter[p] = "returned"

gotten_at_once(p) == TRUE

(* s.second.get() in a try block: it returns or throws, once the thread    *)
(* is done.                                                                *)
gotten(p) == waiter[p] \in {"returned", "thrown"}

destroy_return ==
  /\ owner = "destroying"
  /\ \A p \in status_ : gotten(p)
  /\ status_' = {}
  /\ ended_process_queue_' = <<>>
  /\ owner' = "gone"
  /\ UNCHANGED <<kernel_vars, waiter, status, added, popped, reported>>

Owner == wait_for_any_pop \/ wait_for_any_get \/ destroy_return

-----------------------------------------------------------------------------
(* The thread of p: wait_for_pid() and wait_for_process().                 *)

WaiterGoes(p, from, to) ==
  /\ waiter[p] = from
  /\ waiter' = [waiter EXCEPT ![p] = to]
  /\ UNCHANGED owner_vars

Collect(p) == process' = [process EXCEPT ![p] = "none"]

waitpid_without_waiting(p) ==
  /\ p \notin Foreign
  /\ IF process[p] = "zombie" THEN Collect(p) ELSE UNCHANGED process
  /\ status' = [status EXCEPT ![p] = lives[p]]
  /\ WaiterGoes(p, "waitpid", "push")
  /\ UNCHANGED <<lives, ended_process_queue_>>

(* waitpid() collects the process, and its pid may be used again.          *)
waitpid(p) ==
  /\ p \notin Foreign
  /\ process[p] = "zombie"
  /\ Collect(p)
  /\ status' = [status EXCEPT ![p] = lives[p]]
  /\ WaiterGoes(p, "waitpid", "push")
  /\ UNCHANGED <<lives, ended_process_queue_>>

(* ECHILD: the exception is kept in the future, and nothing is pushed.     *)
waitpid_fails(p) ==
  /\ p \in Foreign
  /\ WaiterGoes(p, "waitpid", "thrown")
  /\ UNCHANGED <<kernel_vars, status, ended_process_queue_>>

push(p) ==
  /\ ended_process_queue_' = Append(ended_process_queue_, p)
  /\ WaiterGoes(p, "push", "return")
  /\ UNCHANGED <<kernel_vars, status>>

return(p) ==
  /\ WaiterGoes(p, "return", "returned")
  /\ UNCHANGED <<kernel_vars, status, ended_process_queue_>>

Waiter(p) == waitpid(p) \/ waitpid_fails(p) \/ push(p) \/ return(p)

-----------------------------------------------------------------------------
(* The processes.  Somebody else collects the foreign ones.                *)

process_starts(p) ==
  /\ process[p] = "none"
  /\ lives[p] < MaxLives
  /\ process' = [process EXCEPT ![p] = "alive"]
  /\ lives' = [lives EXCEPT ![p] = @ + 1]
  /\ UNCHANGED <<thread_vars, owner_vars>>

process_ends(p) ==
  /\ process[p] = "alive"
  /\ process' = [process EXCEPT ![p] = IF p \in Foreign THEN "none" ELSE "zombie"]
  /\ UNCHANGED <<lives, thread_vars, owner_vars>>

Next ==
  \/ wait_for_any
  \/ destroy
  \/ Owner
  \/ \E p \in Pids : add_process(p) \/ Waiter(p)
                     \/ process_starts(p) \/ process_ends(p)

(* Threads are scheduled; processes need not end.                          *)
Fairness == WF_vars(Owner) /\ \A p \in Pids : WF_vars(Waiter(p))

Spec == Init /\ [][Next]_vars
FairSpec == Spec /\ Fairness

-----------------------------------------------------------------------------
(* The members of process_monitor, its threads and the processes keep      *)
(* their types.                                                            *)
TypeOK ==
  /\ process \in [Pids -> {"none", "alive", "zombie"}]
  /\ lives \in [Pids -> Nat]
  /\ status_ \subseteq Pids
  /\ waiter \in [Pids -> {"none", "waitpid", "push", "return", "returned",
                          "thrown"}]
  /\ added \in [Pids -> Nat]
  /\ status \in [Pids -> Nat]
  /\ ended_process_queue_ \in Seq(Pids)
  /\ owner \in {"idle", "pop", "get", "destroying", "gone"}
  /\ popped \in Pids \cup {NoPid}
  /\ reported \subseteq Pids \X Nat

InQueue(p) == \E i \in DOMAIN ended_process_queue_ : ended_process_queue_[i] = p
BeingGot(p) == owner = "get" /\ popped = p

(* The assertion of wait_for_any() holds whatever the owner does and       *)
(* however pids are used again: a pid that was pushed still has its        *)
(* future, and was pushed once for it.                                     *)
PushedHasFuture ==
  /\ \A p \in Pids : InQueue(p) \/ BeingGot(p) => p \in status_
  /\ \A p \in Pids : ~(InQueue(p) /\ BeingGot(p))
  /\ \A i, j \in DOMAIN ended_process_queue_ :
       ended_process_queue_[i] = ended_process_queue_[j] => i = j

(* After ~process_monitor() no thread is left that would push on the       *)
(* queue it destroyed, and no process that was added was left uncollected. *)
NoThreadSurvives ==
  owner = "gone" => \A p \in Pids : waiter[p] \in {"none", "returned", "thrown"}

Ended(p) == added[p] < lives[p] \/ process[p] # "alive"

(* The destructor returns once the processes it still watches have ended,  *)
(* those whose waitpid() failed included.                                  *)
DestructorReturns ==
  (owner = "destroying" /\ \A p \in status_ : Ended(p)) ~> owner = "gone"

ChildRuns == (Pids \ Foreign) \X (1..MaxLives)

(* The state of ExitReports that a state of the monitor stands for.        *)
watched == {<<p, added[p]>> : p \in status_ \ Foreign}
ended == {r \in ChildRuns :
            \/ r[2] < lives[r[1]]
            \/ r[2] = lives[r[1]] /\ process[r[1]] # "alive"}
calling == owner \in {"pop", "get"}

Reports == INSTANCE ExitReports WITH Runs <- ChildRuns

(* The monitor implements ExitReports for the children of the runtime:     *)
(* each that was added is reported at most once, after it ended, with its  *)
(* own status even if its pid is in use again, and the destructor waits    *)
(* for the others.  A foreign process is never reported.                   *)
ReportsSafety == Reports!Safety

(* wait_for_any() returns as long as a child that was added has ended and  *)
(* was not reported, whatever became of the threads of foreign pids.       *)
ReportsProgress == Reports!Progress

=============================================================================
