--------------------------- MODULE CallbackTimer ---------------------------
(***************************************************************************)
(* util::callback_timer (src/src/util/timer.{h,cc}): a thread that waits   *)
(* on a condition variable until the duration is over or the destructor    *)
(* cancels it, and that calls the callback WITHOUT releasing the mutex.    *)
(* The timers of a program share nothing; each has its own mutex.          *)
(***************************************************************************)
CONSTANT Timers

VARIABLES
  owner,      \* owner[t]: "using", "cancel", "notify", "join" or "destroyed"
  thread_,    \* thread_[t]: how far the thread is in run()
  mutex_,     \* mutex_[t]: "free", or "run" while the thread owns it
  canceled_,
  timed_out,  \* timed_out[t]: wait_for has seen the end of the duration
  callback_   \* callback_[t]: "not called", "running" or "returned"

timer_vars == <<owner, thread_, mutex_, canceled_, timed_out, callback_>>

TimerInit ==
  /\ owner = [t \in Timers |-> "using"]
  /\ thread_ = [t \in Timers |-> "lock"]
  /\ mutex_ = [t \in Timers |-> "free"]
  /\ canceled_ = [t \in Timers |-> FALSE]
  /\ timed_out = [t \in Timers |-> FALSE]
  /\ callback_ = [t \in Timers |-> "not called"]

-----------------------------------------------------------------------------
(* run(): cond_.wait_for(lock, duration_, [&] { return canceled_; }) and   *)
(* the call of the callback.                                               *)

Goes(t, from, to) ==
  /\ thread_[t] = from
  /\ thread_' = [thread_ EXCEPT ![t] = to]
  /\ UNCHANGED <<owner, canceled_>>

Locks(t) == mutex_[t] = "free" /\ mutex_' = [mutex_ EXCEPT ![t] = "run"]
Unlocks(t) == mutex_' = [mutex_ EXCEPT ![t] = "free"]

run_lock(t) ==
  /\ Goes(t, "lock", "check")
  /\ Locks(t)
  /\ UNCHANGED <<timed_out, callback_>>

run_not_over(t) ==
  /\ Goes(t, "check", "block")
  /\ ~canceled_[t] /\ ~timed_out[t]
  /\ UNCHANGED <<mutex_, timed_out, callback_>>

run_block(t) ==
  /\ Goes(t, "block", "wait")
  /\ Unlocks(t)
  /\ UNCHANGED <<timed_out, callback_>>

(* Spuriously, or because the duration is over.                            *)
run_wake(t) ==
  /\ Goes(t, "wait", "lock")
  /\ \E b \in BOOLEAN : timed_out' = [timed_out EXCEPT ![t] = b]
  /\ UNCHANGED <<mutex_, callback_>>

run_canceled_or_expired(t) ==
  /\ Goes(t, "check", "done")
  /\ canceled_[t] \/ timed_out[t]
  /\ Unlocks(t)
  /\ UNCHANGED <<timed_out, callback_>>

run_canceled(t) ==
  /\ Goes(t, "check", "done")
  /\ canceled_[t]
  /\ Unlocks(t)
  /\ UNCHANGED <<timed_out, callback_>>

run_expired_unlocked(t) ==
  /\ Goes(t, "check", "callback")
  /\ ~canceled_[t] /\ timed_out[t]
  /\ callback_' = [callback_ EXCEPT ![t] = "running"]
  /\ Unlocks(t)
  /\ UNCHANGED timed_out

run_expired(t) ==
  /\ Goes(t, "check", "callback")
  /\ ~canceled_[t] /\ timed_out[t]
  /\ callback_' = [callback_ EXCEPT ![t] = "running"]
  /\ UNCHANGED <<mutex_, timed_out>>

callback_returns(t) ==
  /\ Goes(t, "callback", "done")
  /\ callback_' = [callback_ EXCEPT ![t] = "returned"]
  /\ Unlocks(t)
  /\ UNCHANGED timed_out

(* What the thread does when it is scheduled; to be notified, or for the   *)
(* duration to be over, it has to wait.                                    *)
Run(t) ==
  \/ run_lock(t) \/ run_not_over(t) \/ run_block(t)
  \/ run_canceled(t) \/ run_expired(t) \/ callback_returns(t)

-----------------------------------------------------------------------------
(* The destructor.                                                         *)

OwnerGoes(t, from, to) ==
  /\ owner[t] = from
  /\ owner' = [owner EXCEPT ![t] = to]
  /\ UNCHANGED <<mutex_, timed_out, callback_>>

begin_destroy(t) ==
  /\ OwnerGoes(t, "using", "cancel")
  /\ UNCHANGED <<thread_, canceled_>>

cancel_without_lock(t) ==
  /\ OwnerGoes(t, "cancel", "notify")
  /\ canceled_' = [canceled_ EXCEPT ![t] = TRUE]
  /\ UNCHANGED thread_

cancel(t) ==
  /\ OwnerGoes(t, "cancel", "notify")
  /\ mutex_[t] = "free"
  /\ canceled_' = [canceled_ EXCEPT ![t] = TRUE]
  /\ UNCHANGED thread_

notify(t) ==
  /\ OwnerGoes(t, "notify", "join")
  /\ thread_' = IF thread_[t] = "wait"
                THEN [thread_ EXCEPT ![t] = "lock"] ELSE thread_
  /\ UNCHANGED canceled_

join(t) ==
  /\ OwnerGoes(t, "join", "destroyed")
  /\ thread_[t] = "done"
  /\ UNCHANGED <<thread_, canceled_>>

Destructor(t) == cancel(t) \/ notify(t) \/ join(t)

TimerNext ==
  \E t \in Timers :
    Run(t) \/ run_wake(t) \/ begin_destroy(t) \/ Destructor(t)

(* Both threads are scheduled, and the callback returns.  Strong fairness: *)
(* a mutex that is released again and again is not withheld from the       *)
(* destructor for ever (the thread may wake up spuriously any number of    *)
(* times).                                                                 *)
Fairness ==
  \A t \in Timers : WF_timer_vars(Run(t)) /\ SF_timer_vars(Destructor(t))

TimerSpec == TimerInit /\ [][TimerNext]_timer_vars
FairSpec == TimerSpec /\ Fairness

-----------------------------------------------------------------------------
(* The members of callback_timer and the positions of the two threads are  *)
(* typed, and the mutex is held exactly where run() holds it.              *)
TimerTypeOK ==
  /\ owner \in [Timers -> {"using", "cancel", "notify", "join", "destroyed"}]
  /\ thread_ \in [Timers ->
       {"lock", "check", "block", "wait", "callback", "done"}]
  /\ mutex_ \in [Timers -> {"free", "run"}]
  /\ canceled_ \in [Timers -> BOOLEAN]
  /\ timed_out \in [Timers -> BOOLEAN]
  /\ callback_ \in [Timers -> {"not called", "running", "returned"}]
  /\ \A t \in Timers :
       mutex_[t] = "run" <=> thread_[t] \in {"check", "block", "callback"}

(* timer.h: "If the timer object is destroyed, the timer is canceled and   *)
(* the callback function will not be called."  Once the destructor is past *)
(* its critical section the callback is not running, and will not run: an  *)
(* expiry that races the destructor is over by then or has lost.           *)
SilentOnceCanceled ==
  \A t \in Timers : canceled_[t] => callback_[t] # "running"

(* The destructor returns without waiting for the duration to be over: the *)
(* notification is not lost whenever it comes.                             *)
DestructorReturns ==
  \A t \in Timers : owner[t] = "cancel" ~> owner[t] = "destroyed"

(* An expiry is followed by the callback unless the timer is canceled.     *)
ExpiryIsServed ==
  \A t \in Timers :
    timed_out[t] ~> callback_[t] = "returned" \/ canceled_[t]

=============================================================================
