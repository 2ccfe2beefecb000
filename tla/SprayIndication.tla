--------------------------- MODULE SprayIndication ----------------------------
(***************************************************************************)
(* What the spray node promises to whoever reads /spray/status: the        *)
(* indication is "off" or "on" only while the valve really is closed or    *)
(* open and cannot move, and the two are never exchanged without the node  *)
(* first admitting that it does not know.                                  *)
(***************************************************************************)
VARIABLES
  indication,   \* "off", "on" or "unknown"
  valve         \* TRUE while paint flows

Init == indication = "unknown" /\ valve \in BOOLEAN

(* The position of the valve is confirmed. *)
Confirm(position) ==
  /\ indication = "unknown"
  /\ valve = position
  /\ indication' = IF position THEN "on" ELSE "off"
  /\ UNCHANGED valve

(* The node gives up its certainty, before it commands anything else. *)
Doubt ==
  /\ indication # "unknown"
  /\ indication' = "unknown"
  /\ UNCHANGED valve

(* Only in doubt may the valve move. *)
Move ==
  /\ indication = "unknown"
  /\ valve' = ~valve
  /\ UNCHANGED indication

Next == Doubt \/ Move \/ \E position \in BOOLEAN : Confirm(position)

Spec == Init /\ [][Next]_<<indication, valve>>
=============================================================================
