--------------------------- MODULE MCControlPlane -----------------------------
(***************************************************************************)
(* ControlPlane on small instances.  Each run gives the requests it is     *)
(* about; the loops are always there.                                      *)
(***************************************************************************)
EXTENDS ControlPlane, TLC

Ready == loaded /\ ~unhealthy /\ ~armed

MCInit    == Init /\ Ready
PosedInit == MCInit /\ posed

MCSpec     == MCInit /\ [][Next]_vars
PosedSpec  == PosedInit /\ [][Next]_vars

(* For liveness, two stories: a client, one of the starts and an operator's  *)
(* emergency stop with the FCU answering; and both starts with faults.  Who  *)
(* has no part in a story has returned before it begins.                     *)
Story(absent, some) ==
  /\ Fresh /\ Ready /\ posed /\ faults = some
  /\ pc = [t \in Tasks |-> IF t \in absent THEN "done" ELSE "idle"]
LiveInit ==
  \/ Story(Starts \ {CHOOSE s \in Starts : TRUE}, 0)
  \/ Story(Acquires \cup Estops, MaxFaults)
MCFairSpec == LiveInit /\ [][Next]_vars /\ Fairness

(* A bound: of the faults and the loads, a run explores the one or the other. *)
FaultsOrLoads == faults = MaxFaults \/ \A l \in Loads : pc[l] = "idle"

Symmetry == Permutations(Clients) \cup Permutations(Releases) \cup Permutations(Starts)
=============================================================================
