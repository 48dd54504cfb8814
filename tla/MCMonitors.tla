----------------------------- MODULE MCMonitors -----------------------------
(* The threads of the two monitors for TLC.  A runtime has one of them:     *)
(* the two specifications share nothing, and here each runs while the other *)
(* has not begun.                                                           *)
EXTENDS CpuHopper, EventManager, TLC

MonitorsInit == Init /\ EventsInit

MonitorsNext ==
  \/ Next /\ EventsInit /\ UNCHANGED events_vars
  \/ EventsNext /\ Init /\ UNCHANGED vars

MonitorsSpec == MonitorsInit /\ [][MonitorsNext]_<<vars, events_vars>>

=============================================================================
