--------------------------- MODULE MCSprayActuator ----------------------------
(***************************************************************************)
(* SprayActuator on small instances.  The runs start with the automatic    *)
(* gates holding, the nozzle over a MARK and spray enabled, so that the    *)
(* few input changes the bounds allow are spent on arming, disarming,      *)
(* disabling and overriding rather than on getting ready to paint.         *)
(***************************************************************************)
EXTENDS SprayActuator

MCInit == Init /\ gates /\ mark /\ spray_enabled /\ ~valve

MCSpec     == MCInit /\ [][Next]_vars
MCFairSpec == MCSpec /\ Fairness

(* Spray disabled before the command service appears, nothing else going    *)
(* on: the watchdog drives the machine fifty times a second.                *)
DisabledAndNoService == Init /\ gates /\ mark /\ ~valve /\ ~spray_enabled /\ ~service_ready
DisabledSpec == DisabledAndNoService /\ [][WatchdogTick]_vars
=============================================================================
