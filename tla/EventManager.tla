---------------------------- MODULE EventManager ----------------------------
(***************************************************************************)
(* perf::event_manager over perf::event<event_linux_impl>                  *)
(* (src/src/perf): several hardware counters of one process, opened        *)
(* together and read together, one system call after another while the     *)
(* process runs on.  pmc_sampler keeps one event_manager per process.      *)
(*                                                                         *)
(* The kernel's side of a counter is its raw value, the time it has been   *)
(* enabled and the time it has really been running (counters share the     *)
(* hardware in turns).  All three are uint64_t: the model's integers stay  *)
(* far below 2^64, which the times reach after centuries only.             *)
(***************************************************************************)
EXTENDS Naturals, FiniteSets

CONSTANTS N,        \* number of events
          MaxTime,  \* bound: time a counter is enabled
          MaxRate,  \* bound: how much a counter counts per unit of time
          Faults    \* whether perf_event_open and read may fail

ASSUME EventsAssumption == N \in Nat \ {0}
ASSUME BoundsAssumption ==
  {MaxTime, MaxRate} \subseteq Nat /\ Faults \in BOOLEAN

VARIABLES
  manager,   \* "opening", "idle", "reading", "scaling" or "gone"
  next,      \* the event the current loop is at
  mode,      \* the argument of read_events()
  open,      \* events whose fd_ is open
  counter,   \* counter[e]: the kernel's counts
  count_,    \* event::count_
  prev_,     \* event::prev_
  latest_samples_,
  error,     \* whether scale() has thrown
  reported   \* reported[e]: sum of what the RELATIVE reads returned

events_vars ==
  <<manager, next, mode, open, counter, count_, prev_, latest_samples_, error,
    reported>>

Events == 1..N   \* in the order of event_manager::events_

Counts == [value : Nat, enabled : Nat, running : Nat]
ZeroCounts == [value |-> 0, enabled |-> 0, running |-> 0]
NoSample == [value |-> <<0, 1>>, scaling |-> <<0, 1>>, enabled |-> FALSE]
Plus(a, b) == [f \in DOMAIN a |-> a[f] + b[f]]
Minus(a, b) == [f \in DOMAIN a |-> a[f] - b[f]]

EventsInit ==
  /\ manager = "opening"
  /\ next = 1
  /\ mode = "AGGREGATED"
  /\ open = {}
  /\ counter = [e \in Events |-> ZeroCounts]
  /\ count_ = [e \in Events |-> ZeroCounts]
  /\ prev_ = [e \in Events |-> ZeroCounts]
  /\ latest_samples_ = [e \in Events |-> NoSample]
  /\ error = FALSE
  /\ reported = [e \in Events |-> ZeroCounts]

-----------------------------------------------------------------------------
(* The kernel: an enabled counter may be running or wait for its turn.     *)
count(e, ran, n) ==
  /\ e \in open
  /\ counter[e].enabled < MaxTime
  /\ n > 0 => ran = 1
  /\ counter' = [counter EXCEPT ![e] =
       Plus(@, [value |-> n, enabled |-> 1, running |-> ran])]
  /\ UNCHANGED <<manager, next, mode, open, count_, prev_,
                 latest_samples_, error, reported>>

(* The loop over events_ called step.                                      *)
Loop(step, after) ==
  /\ manager' = IF next = N THEN after ELSE step
  /\ next' = IF next = N THEN 1 ELSE next + 1

(* Leaving the loop with an exception.                                     *)
Leave(step) == manager' = step /\ next' = 1

open_event ==
  /\ manager = "opening"
  /\ open' = open \cup {next}
  /\ Loop("opening", "idle")
  /\ UNCHANGED <<mode, counter, count_, prev_, latest_samples_, error,
                 reported>>

(* The constructor throws: the events that are open are destroyed.         *)
open_event_fails ==
  /\ manager = "opening"
  /\ Faults
  /\ Leave("gone")
  /\ open' = {}
  /\ UNCHANGED <<mode, counter, count_, prev_, latest_samples_, error,
                 reported>>

read_events(m) ==
  /\ manager = "idle"
  /\ manager' = "reading"
  /\ mode' = m
  /\ UNCHANGED <<next, open, counter, count_, prev_, latest_samples_, error,
                 reported>>

read ==
  /\ manager = "reading"
  /\ count_' = [count_ EXCEPT ![next] = counter[next]]
  /\ Loop("reading", "scaling")
  /\ UNCHANGED <<mode, open, counter, prev_, latest_samples_, error,
                 reported>>

read_fails ==
  /\ manager = "reading"
  /\ Faults
  /\ Leave("idle")
  /\ UNCHANGED <<mode, open, counter, count_, prev_, latest_samples_,
                 error, reported>>

(* What event::scale() complains about.                                    *)
ScaleError_unguarded(e) ==
  \/ count_[e].running > count_[e].enabled
  \/ count_[e].value # prev_[e].value

ScaleError(e) ==
  \/ count_[e].running > count_[e].enabled
  \/ count_[e].running = 0 /\ count_[e].value # prev_[e].value

Interval_of_value_and_enabled(e, m) ==
  IF m = "RELATIVE"
  THEN [Minus(count_[e], prev_[e]) EXCEPT !.running = count_[e].running]
  ELSE count_[e]

(* What it looks at: since the last RELATIVE read, or since the beginning. *)
Interval(e, m) ==
  IF m = "RELATIVE" THEN Minus(count_[e], prev_[e]) ELSE count_[e]

(* The sample of an interval; the two doubles are kept as fractions.       *)
Sample(i) ==
  IF i.running = 0
  THEN [value |-> <<0, 1>>, scaling |-> <<0, 1>>, enabled |-> i.enabled > 0]
  ELSE [value |-> <<i.value * i.enabled, i.running>>,
        scaling |-> <<i.running, i.enabled>>, enabled |-> TRUE]

scale_resets_always ==
  /\ manager = "scaling"
  /\ IF ScaleError(next)
     THEN /\ error' = TRUE
          /\ Leave("idle")
          /\ UNCHANGED <<prev_, latest_samples_, reported>>
     ELSE /\ latest_samples_' =
               [latest_samples_ EXCEPT ![next] = Sample(Interval(next, mode))]
          /\ prev_' = [prev_ EXCEPT ![next] = count_[next]]
          /\ IF mode = "RELATIVE"
             THEN reported' =
                    [reported EXCEPT ![next] = Plus(@, Interval(next, mode))]
             ELSE UNCHANGED reported
          /\ Loop("scaling", "idle")
          /\ UNCHANGED error
  /\ UNCHANGED <<mode, open, counter, count_>>

scale ==
  /\ manager = "scaling"
  /\ IF ScaleError(next)
     THEN /\ error' = TRUE
          /\ Leave("idle")
          /\ UNCHANGED <<prev_, latest_samples_, reported>>
     ELSE /\ latest_samples_' =
               [latest_samples_ EXCEPT ![next] = Sample(Interval(next, mode))]
          /\ IF mode = "RELATIVE"
             THEN /\ prev_' = [prev_ EXCEPT ![next] = count_[next]]
                  /\ reported' =
                       [reported EXCEPT ![next] = Plus(@, Interval(next, mode))]
             ELSE UNCHANGED <<prev_, reported>>
          /\ Loop("scaling", "idle")
          /\ UNCHANGED error
  /\ UNCHANGED <<mode, open, counter, count_>>

(* ~event_linux_impl() closes the descriptor of every event.               *)
destroy ==
  /\ manager = "idle"
  /\ Leave("gone")
  /\ open' = {}
  /\ UNCHANGED <<mode, counter, count_, prev_, latest_samples_, error,
                 reported>>

EventsNext ==
  \/ \E e \in Events, ran \in 0..1, n \in 0..MaxRate : count(e, ran, n)
  \/ open_event \/ open_event_fails
  \/ \E m \in {"RELATIVE", "AGGREGATED"} : read_events(m)
  \/ read \/ read_fails \/ scale \/ destroy

EventsSpec == EventsInit /\ [][EventsNext]_events_vars

-----------------------------------------------------------------------------
Fractions == Nat \X Nat

(* All variables are typed: counts are natural numbers, so the unsigned    *)
(* differences of a RELATIVE read never wrap around.                       *)
EventsTypeOK ==
  /\ manager \in {"opening", "idle", "reading", "scaling", "gone"}
  /\ next \in Events
  /\ mode \in {"RELATIVE", "AGGREGATED"}
  /\ open \subseteq Events
  /\ {counter, count_, prev_, reported} \subseteq [Events -> Counts]
  /\ latest_samples_ \in
       [Events -> [value : Fractions, scaling : Fractions, enabled : BOOLEAN]]
  /\ error \in BOOLEAN

(* event_read_mode: "the event count is reset every time after reading it" *)
(* for RELATIVE.  The intervals of the RELATIVE reads follow each other    *)
(* without gap or overlap, however AGGREGATED and failing reads come in    *)
(* between: what they add up to is what was read when the last one ended,  *)
(* and no reading is ahead of a later one or of the counter.               *)
IntervalsAddUp ==
  \A e \in Events :
    /\ reported[e] = prev_[e]
    /\ \A f \in DOMAIN ZeroCounts :
         reported[e][f] <= count_[e][f] /\ count_[e][f] <= counter[e][f]

(* event_sample::scaling is the "fraction of the time when the event was   *)
(* running": never more than 1, in RELATIVE samples too, although          *)
(* scale() checks the accumulated times only.                              *)
ScalingIsFraction ==
  \A e \in Events :
    latest_samples_[e].scaling[1] <= latest_samples_[e].scaling[2]

(* scale() throws for no counter that behaves: the two conditions it       *)
(* checks cannot arise from RELATIVE, AGGREGATED and failing reads of a    *)
(* counter that counts only while it runs.                                 *)
NoSpuriousError == ~error

=============================================================================
