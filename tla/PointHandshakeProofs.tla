------------------------- MODULE PointHandshakeProofs -------------------------
(***************************************************************************)
(* The safety of PointHandshake for every number of points and of faults.  *)
(*                                                                         *)
(* A node acts on what it has been told, and what it has been told was     *)
(* true when it was sent.  The invariant says so of every message and of   *)
(* every cached copy of one: Told of the announcements of RPP, Proven of   *)
(* the reports of the spray node, Approved of the taps of the operator.    *)
(***************************************************************************)
EXTENDS PointHandshake, SequenceTheorems, TLAPS

Told ==
  /\ \A i \in DOMAIN milestones : milestones[i] \in announced
  /\ atPoint \in announced \cup {NoPoint}
  /\ progress \in announced \cup {NoPoint}
  /\ phase \in {"dwell", "wait"} => hold.point \in Points
  /\ phase = "dwell" => hold.point \in announced
  /\ ~SettleZero => DwellIsAnnounced

Proven ==
  /\ \A i \in DOMAIN dones : dones[i].index \in dwelt
  /\ doneIn.index \in dwelt \cup {NoPoint}
  /\ ReleaseIsProven

Approved ==
  /\ tap \in approved \cup {NoPoint}
  /\ tapIn.index \in approved \cup {NoPoint}
  /\ OperatorReleases

Inv == TypeOK /\ Told /\ Proven /\ Approved

Holds  == [point : Points \cup {NoPoint}, dwelling : BOOLEAN,
           proof : {"none", "spray", "backstop"}, waiting : BOOLEAN, atArm : Int]
Meters == [target : 0..NumPoints, phase : Phases]

-----------------------------------------------------------------------------
(* The parts of a step.                                                     *)

(* NoHold is a hold of no point, and neither is a point.                    *)
LEMMA NoHoldFacts ==
  /\ NoHold \in Holds /\ NoHold.point = NoPoint /\ NoHold.proof = "none"
  /\ NoPoint \notin Points /\ NoPoint \in Int /\ Points \subseteq Int
  BY HandshakeAssumption DEF NoHold, Holds, NoPoint, Points

(* What RPP publishes keeps its announcements typed and told.               *)
LEMMA PublishTells ==
  ASSUME NEW ph \in {"approach", "dwell", "wait"}, NEW p,
         ph = "dwell" => p \in Points,
         TypeOK, Told, Publish(ph, p)
  PROVE  /\ phase' = ph
         /\ milestones' \in Seq(Points) /\ announced' \subseteq Points
         /\ announced \subseteq announced'
         /\ \A i \in DOMAIN milestones' : milestones'[i] \in announced'
         /\ ph = "dwell" /\ phase # "dwell" => p \in announced'
  <1>1. milestones \in Seq(Points) /\ announced \subseteq Points
    BY DEF TypeOK
  <1>2. \A i \in DOMAIN milestones : milestones[i] \in announced
    BY DEF Told
  <1>3. CASE ph = "dwell" /\ phase # "dwell"
    <2>1. milestones' = Append(milestones, p) /\ announced' = announced \cup {p} /\ p \in Points
      BY <1>3 DEF Publish
    <2>2. Len(milestones') = Len(milestones) + 1 /\ milestones' \in Seq(Points)
      BY <1>1, <2>1
    <2>3. \A i \in DOMAIN milestones' : milestones'[i] \in announced'
      BY <1>1, <1>2, <2>1, <2>2
    <2> QED
      BY <1>1, <1>3, <2>1, <2>2, <2>3 DEF Publish
  <1>4. CASE ~(ph = "dwell" /\ phase # "dwell")
    BY <1>1, <1>2, <1>4 DEF Publish
  <1> QED
    BY <1>3, <1>4

(* Where the meter turns to, and when it may dwell there.                   *)
LEMMA TurnToSound ==
  ASSUME NEW t \in 0..NumPoints, NEW gate \in BOOLEAN
  PROVE  /\ TurnTo(t, gate) \in Meters
         /\ TurnTo(t, gate).target = t
         /\ TurnTo(t, gate).phase = "done" <=> t = NumPoints
         /\ TurnTo(t, gate).phase # "off_wait"
         /\ TurnTo(t, gate).phase = "dwelling" => gate /\ SettleZero
  BY HandshakeAssumption DEF TurnTo, Meters, Phases

(* What one tick can make of the meter: a dwell begins with the gate open   *)
(* at the target the tick began with, and only a dwell is completed.        *)
LEMMA UpdateSound ==
  ASSUME TypeOK, NEW gate \in BOOLEAN, NEW offConfirmed \in BOOLEAN,
         NEW u \in Update(gate, offConfirmed)
  PROVE  /\ u.meter \in Meters
         /\ u.meter.phase = "done" <=> u.meter.target = NumPoints
         /\ u.completed \in Points \cup {NoPoint}
         /\ u.completed # NoPoint => meter.phase \in {"dwelling", "off_wait"}
         /\ ~SettleZero /\ u.meter.phase \in {"dwelling", "off_wait"} =>
              /\ u.meter.target = meter.target
              /\ gate \/ meter.phase \in {"dwelling", "off_wait"}
  <1>1. /\ meter \in Meters /\ (meter.phase = "done" <=> meter.target = NumPoints)
        /\ NumPoints \in Nat \ {0}
    BY HandshakeAssumption DEF TypeOK, Meters
  <1>2. CASE meter.phase # "done" /\ u = Turned(gate)
                /\ meter.phase \in {"dwelling", "off_wait"}
    <2>1. meter.target \in Points /\ meter.target + 1 \in 0..NumPoints
      BY <1>1, <1>2 DEF Meters, Points
    <2>2. u.meter = TurnTo(meter.target + 1, gate) /\ u.completed = meter.target
      BY <1>2 DEF Turned
    <2> QED
      BY <1>2, <2>1, <2>2, TurnToSound
  <1>3. CASE u = Skips /\ meter.phase \in {"transit", "arriving"}
    <2>1. meter.target + 1 \in 0..NumPoints
      BY <1>1, <1>3 DEF Meters
    <2>2. u.meter = TurnTo(meter.target + 1, FALSE) /\ u.completed = NoPoint
      BY <1>3 DEF Skips
    <2>3. /\ u.meter \in Meters
          /\ u.meter.phase = "done" <=> u.meter.target = NumPoints
          /\ u.meter.phase \notin {"dwelling", "off_wait"}
      BY HandshakeAssumption, <2>1, <2>2 DEF TurnTo, Meters, Phases
    <2> QED
      BY <2>2, <2>3
  <1>4. CASE u = [meter |-> TurnTo(meter.target, gate), completed |-> NoPoint]
             /\ meter.phase = "transit"
    <2>1. meter.target \in 0..NumPoints
      BY <1>1 DEF Meters
    <2> QED
      BY <1>4, <2>1, TurnToSound
  <1>5. ASSUME NEW ph \in Phases, u = Stays(ph),
               ph = "done" <=> meter.phase = "done",
               ph \in {"dwelling", "off_wait"} =>
                 gate \/ meter.phase \in {"dwelling", "off_wait"}
        PROVE  /\ u.meter \in Meters
               /\ u.meter.phase = "done" <=> u.meter.target = NumPoints
               /\ u.completed = NoPoint
               /\ u.meter.phase \in {"dwelling", "off_wait"} =>
                    /\ u.meter.target = meter.target
                    /\ gate \/ meter.phase \in {"dwelling", "off_wait"}
    BY <1>1, <1>5 DEF Stays, Meters
  <1>6. \/ u = Skips /\ meter.phase \in {"transit", "arriving"}
        \/ u = [meter |-> TurnTo(meter.target, gate), completed |-> NoPoint]
             /\ meter.phase = "transit"
        \/ u = Turned(gate) /\ meter.phase \in {"dwelling", "off_wait"}
        \/ u = Stays("arriving") /\ meter.phase = "arriving"
        \/ u = Stays("dwelling") /\ ((meter.phase = "arriving" /\ gate) \/ meter.phase = "dwelling")
        \/ u = Stays("off_wait") /\ meter.phase \in {"dwelling", "off_wait"}
        \/ u = Stays("done") /\ meter.phase = "done"
    BY <1>1 DEF Update, WatchdogSkips, Meters, Phases
  <1>7. CASE u = Stays("arriving") /\ meter.phase = "arriving"
    BY <1>5, <1>7 DEF Phases
  <1>8. CASE u = Stays("dwelling") /\ ((meter.phase = "arriving" /\ gate) \/ meter.phase = "dwelling")
    BY <1>5, <1>8 DEF Phases
  <1>9. CASE u = Stays("off_wait") /\ meter.phase \in {"dwelling", "off_wait"}
    BY <1>5, <1>9 DEF Phases
  <1>10. CASE u = Stays("done") /\ meter.phase = "done"
    BY <1>5, <1>10 DEF Phases
  <1> QED
    BY <1>2, <1>3, <1>4, <1>6, <1>7, <1>8, <1>9, <1>10
-----------------------------------------------------------------------------
(* The invariant, step by step.                                             *)

LEMMA InitEstablishes == Init => Inv
  <1> SUFFICES ASSUME Init PROVE Inv
    OBVIOUS
  <1>1. TypeOK
    BY HandshakeAssumption, NoHoldFacts DEF Init, TypeOK, Holds, Phases
  <1>2. Told /\ Proven /\ Approved
    BY NoHoldFacts DEF Init, Told, DwellIsAnnounced, Proven, ReleaseIsProven, Approved,
       OperatorReleases
  <1> QED
    BY <1>1, <1>2 DEF Inv

(* A control tick of RPP in a hold.                                         *)
LEMMA DwellTickTypes ==
  ASSUME Inv, DwellTick
  PROVE  /\ hold' \in Holds /\ done' \subseteq Points
         /\ phase' \in {"approach", "dwell", "wait"}
         /\ tapIn' \in [index : Points \cup {NoPoint}, new : BOOLEAN] /\ tapIn'.index = tapIn.index
         /\ milestones' \in Seq(Points) /\ announced' \subseteq Points
         /\ announced \subseteq announced'
         /\ \A i \in DOMAIN milestones' : milestones'[i] \in announced'
         /\ phase' \in {"dwell", "wait"} => hold'.point \in Points
         /\ phase' = "dwell" => hold'.point \in announced'
         /\ hold'.proof = "spray" => hold'.point \in dwelt \cup {NoPoint}
         /\ manual => done' \subseteq approved
  <1>1. /\ hold \in Holds /\ hold.point \in Points /\ done \subseteq Points
        /\ tapIn \in [index : Points \cup {NoPoint}, new : BOOLEAN]
        /\ manual => done \subseteq approved
        /\ tapIn.index \in approved \cup {NoPoint}
        /\ TypeOK /\ Told
    BY DEF Inv, TypeOK, Holds, DwellTick, Approved, OperatorReleases
  <1>2. PICK proof \in Proofs :
          LET held == [hold EXCEPT !.dwelling = TRUE, !.proof = proof] IN
          \/ /\ proof = "none"
             /\ hold' = held /\ Publish("dwell", hold.point) /\ UNCHANGED <<done, tapIn>>
          \/ proof # "none" /\ ~manual /\ Release
          \/ /\ proof # "none" /\ manual /\ ~hold.waiting
             /\ hold' = [held EXCEPT !.waiting = TRUE] /\ tapIn' = [tapIn EXCEPT !.new = FALSE]
             /\ Publish("wait", hold.point) /\ UNCHANGED done
          \/ hold.waiting /\ Advanced /\ Release
    BY DEF DwellTick
  <1>3. /\ proof \in {"none", "spray", "backstop"}
        /\ proof = "spray" => hold.point \in dwelt
    BY <1>1 DEF Inv, Proven, Proofs, Fresh, Holds, ReleaseIsProven, NoPoint, Points
  <1> DEFINE held == [hold EXCEPT !.dwelling = TRUE, !.proof = proof]
  <1>4. CASE proof = "none" /\ hold' = held /\ Publish("dwell", hold.point)
             /\ UNCHANGED <<done, tapIn>>
    <2>1. hold' \in Holds /\ hold'.point = hold.point /\ hold'.proof = "none"
      BY <1>1, <1>4 DEF Holds
    <2>2. /\ phase' = "dwell" /\ milestones' \in Seq(Points) /\ announced' \subseteq Points
          /\ announced \subseteq announced'
          /\ \A i \in DOMAIN milestones' : milestones'[i] \in announced'
          /\ phase # "dwell" => hold.point \in announced'
      BY <1>1, <1>4, PublishTells
    <2> QED
      BY <1>1, <1>4, <2>1, <2>2 DEF Told
  <1>5. CASE Release /\ (manual => hold.point \in approved)
    <2>1. /\ hold' \in Holds /\ hold'.point = NoPoint /\ hold'.proof = "none"
          /\ done' = done \cup {hold.point} /\ tapIn' = tapIn
      BY <1>5, NoHoldFacts DEF Release
    <2>2. /\ phase' = "approach" /\ milestones' \in Seq(Points) /\ announced' \subseteq Points
          /\ announced \subseteq announced'
          /\ \A i \in DOMAIN milestones' : milestones'[i] \in announced'
      BY <1>1, <1>5, PublishTells DEF Release
    <2> QED
      BY <1>1, <1>5, <2>1, <2>2
  <1>6. CASE /\ hold' = [held EXCEPT !.waiting = TRUE] /\ tapIn' = [tapIn EXCEPT !.new = FALSE]
             /\ Publish("wait", hold.point) /\ UNCHANGED done
    <2>1. /\ hold' \in Holds /\ hold'.point = hold.point /\ hold'.proof = proof
      BY <1>1, <1>3, <1>6 DEF Holds
    <2>2. /\ tapIn' \in [index : Points \cup {NoPoint}, new : BOOLEAN]
          /\ tapIn'.index = tapIn.index
      BY <1>1, <1>6
    <2>3. /\ phase' = "wait" /\ milestones' \in Seq(Points) /\ announced' \subseteq Points
          /\ announced \subseteq announced'
          /\ \A i \in DOMAIN milestones' : milestones'[i] \in announced'
      BY <1>1, <1>6, PublishTells
    <2> QED
      BY <1>1, <1>3, <1>6, <2>1, <2>2, <2>3
  <1>7. Advanced => hold.point \in approved
    BY <1>1, NoHoldFacts DEF Advanced
  <1> QED
    BY <1>2, <1>4, <1>5, <1>6, <1>7

(* A control tick of the spray node.                                        *)
LEMMA SprayTickTypes ==
  ASSUME Inv, SprayTick
  PROVE  /\ meter' \in Meters /\ (meter'.phase = "done" <=> meter'.target = NumPoints)
         /\ doneSeq' \in Nat /\ valve' \in {"off", "on", "closing"}
         /\ dones' \in Seq([index : Points, seq : Int])
         /\ \A i \in DOMAIN dones' : dones'[i].index \in dwelt'
         /\ dwelt \subseteq dwelt' /\ dwelt' \subseteq Points /\ painted' \subseteq Points
         /\ ~SettleZero => DwellIsAnnounced'
  <1> DEFINE Report == [index : Points, seq : Int]
  <1>1. /\ TypeOK /\ doneSeq \in Nat /\ valve \in {"off", "on", "closing"}
        /\ dones \in Seq(Report)
        /\ \A i \in DOMAIN dones : dones[i].index \in dwelt
        /\ dwelt \subseteq Points /\ painted \subseteq Points
        /\ atPoint \in announced \cup {NoPoint} /\ progress \in announced \cup {NoPoint}
        /\ ~SettleZero => DwellIsAnnounced
        /\ meter \in Meters /\ announced' = announced
    BY DEF Inv, TypeOK, Proven, Told, Meters, SprayTick
  <1>2. PICK u \in Update(Gate, valve = "off") :
          /\ meter' = u.meter
          /\ IF u.completed # NoPoint
             THEN /\ doneSeq' = doneSeq + 1
                  /\ dones' = Append(dones, [index |-> u.completed, seq |-> doneSeq + 1])
             ELSE UNCHANGED <<doneSeq, dones>>
          /\ valve' = CASE Desired(u.meter)  /\ valve = "off" -> "on"
                        [] ~Desired(u.meter) /\ valve = "on"  -> "closing"
                        [] OTHER -> valve
          /\ dwelt' = IF meter.phase \in {"dwelling", "off_wait"} /\ u.completed # NoPoint
                      THEN dwelt \cup {u.completed} ELSE dwelt
          /\ painted' = IF valve' = "on" THEN painted \cup {u.meter.target} ELSE painted
    BY DEF SprayTick
  <1>3. Gate \in BOOLEAN /\ (valve = "off") \in BOOLEAN
    BY DEF Gate
  <1> DEFINE gate == Gate
             offConfirmed == valve = "off"
  <1>4. gate \in BOOLEAN /\ offConfirmed \in BOOLEAN /\ u \in Update(gate, offConfirmed)
    BY <1>2, <1>3
  <1>5. /\ u.meter \in Meters
        /\ u.meter.phase = "done" <=> u.meter.target = NumPoints
        /\ u.completed \in Points \cup {NoPoint}
        /\ u.completed # NoPoint => meter.phase \in {"dwelling", "off_wait"}
        /\ ~SettleZero /\ u.meter.phase \in {"dwelling", "off_wait"} =>
             /\ u.meter.target = meter.target
             /\ gate \/ meter.phase \in {"dwelling", "off_wait"}
    <2> HIDE DEF gate, offConfirmed
    <2> QED
      BY <1>1, <1>4, UpdateSound
  <1>6. /\ doneSeq' \in Nat /\ dones' \in Seq(Report)
        /\ \A i \in DOMAIN dones' : dones'[i].index \in dwelt'
        /\ dwelt \subseteq dwelt' /\ dwelt' \subseteq Points
    <2>1. CASE u.completed = NoPoint
      BY <1>1, <1>2, <2>1
    <2>2. CASE u.completed # NoPoint
      <3> DEFINE r == [index |-> u.completed, seq |-> doneSeq + 1]
      <3>1. u.completed \in Points /\ dwelt' = dwelt \cup {u.completed}
        BY <1>2, <1>5, <2>2
      <3>2. r \in Report /\ r.index \in dwelt'
        BY <1>1, <3>1
      <3>3. dones' = Append(dones, r) /\ doneSeq' = doneSeq + 1
        BY <1>2, <2>2
      <3> HIDE DEF r, Report
      <3>4. Len(dones') = Len(dones) + 1 /\ dones' \in Seq(Report)
        BY <1>1, <3>2, <3>3
      <3>5. \A i \in DOMAIN dones' : dones'[i].index \in dwelt'
        BY <1>1, <3>1, <3>2, <3>3, <3>4
      <3> QED
        BY <1>1, <3>1, <3>3, <3>4, <3>5
    <2> QED
      BY <2>1, <2>2
  <1>7. valve' \in {"off", "on", "closing"} /\ (valve' = "on" => Desired(u.meter))
    BY <1>1, <1>2
  <1>8. painted' \subseteq Points
    <2>1. CASE valve' = "on"
      <3>1. u.meter.target \in Points
        BY <1>5, <1>7, <2>1, HandshakeAssumption DEF Desired, Meters, Points
      <3> QED
        BY <1>1, <1>2, <2>1, <3>1
    <2>2. CASE valve' # "on"
      BY <1>1, <1>2, <2>2
    <2> QED
      BY <2>1, <2>2
  <1>9. ~SettleZero => DwellIsAnnounced'
    <2> SUFFICES ASSUME ~SettleZero, u.meter.phase \in {"dwelling", "off_wait"}
                 PROVE  u.meter.target \in announced
      BY <1>1, <1>2 DEF DwellIsAnnounced
    <2>1. u.meter.target = meter.target /\ meter.target # NoPoint
      BY <1>1, <1>5, HandshakeAssumption DEF Meters, NoPoint
    <2>2. CASE meter.phase \in {"dwelling", "off_wait"}
      BY <1>1, <2>1, <2>2 DEF DwellIsAnnounced
    <2>3. CASE gate
      BY <1>1, <2>1, <2>3 DEF Gate
    <2> QED
      BY <1>5, <2>2, <2>3
  <1> QED
    BY <1>2, <1>5, <1>6, <1>7, <1>8, <1>9

LEMMA NextKeeps == Inv /\ [Next]_vars => Inv'
  <1> SUFFICES ASSUME Inv, [Next]_vars PROVE Inv'
    OBVIOUS
  <1> USE DEF parameters, rover, rppVars, sprayVars, channels, history
  <1>1. TypeOK /\ Told /\ Proven /\ Approved
    BY DEF Inv
  <1>2. CASE Arm
    <2>1. near \in Points /\ [NoHold EXCEPT !.point = near, !.atArm = doneIn.seq] \in Holds
      BY <1>1, <1>2, NoHoldFacts DEF Arm, TypeOK, Holds
    <2>2. hold' \in Holds /\ hold'.point = near /\ hold'.proof = "none"
      BY <2>1, <1>2 DEF Arm, NoHold
    <2>3. phase' = "approach" /\ milestones' = milestones /\ announced' = announced
      BY <1>2 DEF Arm, Publish
    <2>4. TypeOK'
      BY <1>1, <1>2, <2>2, <2>3 DEF Arm, TypeOK, Holds
    <2>5. Told'
      BY <1>1, <1>2, <2>2, <2>3 DEF Arm, Told, DwellIsAnnounced
    <2>6. Proven' /\ Approved'
      BY <1>1, <1>2, <2>2, <2>3 DEF Arm, Proven, ReleaseIsProven, Approved, OperatorReleases
    <2> QED
      BY <2>1, <2>2, <2>3, <2>4, <2>5, <2>6 DEF Inv
  <1>3. CASE HoldLost
    <2>1. hold' \in Holds /\ hold'.point = NoPoint /\ hold'.proof = "none"
      BY <1>3, NoHoldFacts DEF HoldLost
    <2>2. phase' = "approach" /\ milestones' = milestones /\ announced' = announced
      BY <1>3 DEF HoldLost, Publish
    <2>3. TypeOK'
      BY <1>1, <1>3, <2>1, <2>2 DEF HoldLost, TypeOK, Holds
    <2>4. Told'
      BY <1>1, <1>3, <2>1, <2>2 DEF HoldLost, Told, DwellIsAnnounced
    <2>5. Proven' /\ Approved'
      BY <1>1, <1>3, <2>1, <2>2 DEF HoldLost, Proven, ReleaseIsProven, Approved, OperatorReleases
    <2> QED
      BY <2>1, <2>2, <2>3, <2>4, <2>5 DEF Inv
  <1>4. CASE DwellTick
    <2>1. UNCHANGED <<parameters, rover, doneIn, sprayVars, dones, tap, dwelt, painted,
                     approved, faults>>
      BY <1>4 DEF DwellTick
    <2>2. TypeOK'
      BY <1>1, <1>4, <2>1, DwellTickTypes DEF Inv, TypeOK, Holds
    <2>3. Told'
      BY <1>1, <1>4, <2>1, DwellTickTypes DEF Inv, Told, DwellIsAnnounced
    <2>4. Proven'
      BY <1>1, <1>4, <2>1, DwellTickTypes DEF Inv, Proven, ReleaseIsProven
    <2>5. Approved'
      BY <1>1, <1>4, <2>1, DwellTickTypes DEF Inv, Approved, OperatorReleases
    <2> QED
      BY <2>1, <2>2, <2>3, <2>4, <2>5 DEF Inv
  <1>5. CASE PointDoneCb
    <2> DEFINE Report == [index : Points, seq : Int]
    <2>1. /\ doneIn' \in Report /\ doneIn'.index \in dwelt
          /\ dones' \in Seq(Report)
          /\ \A i \in DOMAIN dones' : dones'[i].index \in dwelt
      <3>1. /\ dones \in Seq(Report) /\ dones # <<>>
            /\ \A i \in DOMAIN dones : dones[i].index \in dwelt
            /\ doneIn' = Head(dones) /\ dones' = Tail(dones)
        BY <1>1, <1>5 DEF PointDoneCb, TypeOK, Proven
      <3> HIDE DEF Report
      <3> QED
        BY <3>1
    <2>2. TypeOK'
      BY <1>1, <1>5, <2>1 DEF PointDoneCb, TypeOK
    <2>3. Told'
      BY <1>1, <1>5 DEF PointDoneCb, Told, DwellIsAnnounced
    <2>4. Proven' /\ Approved'
      BY <1>1, <1>5, <2>1 DEF PointDoneCb, Proven, ReleaseIsProven, Approved, OperatorReleases
    <2> QED
      BY <2>1, <2>2, <2>3, <2>4 DEF Inv
  <1>6. CASE AdvanceCb
    <2>1. TypeOK'
      BY <1>1, <1>6 DEF AdvanceCb, TypeOK
    <2>2. Told'
      BY <1>1, <1>6 DEF AdvanceCb, Told, DwellIsAnnounced, TypeOK
    <2>3. Proven' /\ Approved'
      BY <1>1, <1>6 DEF AdvanceCb, Proven, ReleaseIsProven, Approved, OperatorReleases
    <2> QED
      BY <2>1, <2>2, <2>3 DEF Inv
  <1>7. CASE RppRestarts
    <2>1. hold' \in Holds /\ hold'.point = NoPoint /\ hold'.proof = "none"
      BY <1>7, NoHoldFacts DEF RppRestarts
    <2>2. next' \in 0..NumPoints /\ faults' \in 0..MaxFaults
      BY <1>1, <1>7, HandshakeAssumption DEF RppRestarts, SpendFault, TypeOK
    <2>3. TypeOK'
      <3>1. /\ done' = {} /\ phase' = "approach" /\ dones' = <<>> /\ tap' = NoPoint
            /\ UNCHANGED <<parameters, near, sprayVars, milestones, history>>
        BY <1>7 DEF RppRestarts
      <3>2. /\ doneIn' \in [index : Points \cup {NoPoint}, seq : Int]
            /\ tapIn' \in [index : Points \cup {NoPoint}, new : BOOLEAN]
        BY <1>7 DEF RppRestarts
      <3>3. dones' \in Seq([index : Points, seq : Int])
        BY <3>1
      <3> QED
        BY <1>1, <2>1, <2>2, <3>1, <3>2, <3>3 DEF TypeOK, Holds
    <2>4. Told'
      BY <1>1, <1>7, <2>1 DEF RppRestarts, Told, DwellIsAnnounced
    <2>5. Proven' /\ Approved'
      BY <1>1, <1>7, <2>1 DEF RppRestarts, Proven, ReleaseIsProven, Approved, OperatorReleases
    <2> QED
      BY <2>1, <2>2, <2>3, <2>4, <2>5 DEF Inv
  <1>8. CASE SprayTick
    <2>1. UNCHANGED <<parameters, rover, rppVars, atPoint, progress, milestones, tap,
                     announced, approved, faults>>
      BY <1>8 DEF SprayTick
    <2>2. TypeOK'
      BY <1>1, <1>8, <2>1, SprayTickTypes DEF Inv, TypeOK, Meters
    <2>3. Told'
      BY <1>1, <1>8, <2>1, SprayTickTypes DEF Inv, Told
    <2>4. Proven'
      BY <1>1, <1>8, <2>1, SprayTickTypes DEF Inv, Proven, ReleaseIsProven
    <2>5. Approved'
      BY <1>1, <1>8, <2>1 DEF Approved, OperatorReleases
    <2> QED
      BY <2>1, <2>2, <2>3, <2>4, <2>5 DEF Inv
  <1>9. CASE MilestoneCb
    <2>1. /\ atPoint' \in Points /\ atPoint' \in announced /\ milestones' \in Seq(Points)
          /\ \A i \in DOMAIN milestones' : milestones'[i] \in announced
      BY <1>1, <1>9 DEF MilestoneCb, TypeOK, Told
    <2>2. TypeOK'
      BY <1>1, <1>9, <2>1 DEF MilestoneCb, TypeOK
    <2>3. Told'
      BY <1>1, <1>9, <2>1 DEF MilestoneCb, Told, DwellIsAnnounced
    <2>4. Proven' /\ Approved'
      BY <1>1, <1>9 DEF MilestoneCb, Proven, ReleaseIsProven, Approved, OperatorReleases
    <2> QED
      BY <2>1, <2>2, <2>3, <2>4 DEF Inv
  <1>10. CASE ProgressCb
    <2>1. TypeOK'
      BY <1>1, <1>10 DEF ProgressCb, TypeOK
    <2>2. Told'
      BY <1>1, <1>10 DEF ProgressCb, Told, DwellIsAnnounced, TypeOK
    <2>3. Proven' /\ Approved'
      BY <1>1, <1>10 DEF ProgressCb, Proven, ReleaseIsProven, Approved, OperatorReleases
    <2> QED
      BY <2>1, <2>2, <2>3 DEF Inv
  <1>11. CASE ProgressStale
    <2>1. TypeOK'
      BY <1>1, <1>11 DEF ProgressStale, TypeOK
    <2>2. Told'
      BY <1>1, <1>11 DEF ProgressStale, Told, DwellIsAnnounced, TypeOK
    <2>3. Proven' /\ Approved'
      BY <1>1, <1>11 DEF ProgressStale, Proven, ReleaseIsProven, Approved, OperatorReleases
    <2> QED
      BY <2>1, <2>2, <2>3 DEF Inv
  <1>12. CASE OffConfirmed
    <2>1. TypeOK'
      BY <1>1, <1>12 DEF OffConfirmed, TypeOK
    <2>2. Told'
      BY <1>1, <1>12 DEF OffConfirmed, Told, DwellIsAnnounced, TypeOK
    <2>3. Proven' /\ Approved'
      BY <1>1, <1>12 DEF OffConfirmed, Proven, ReleaseIsProven, Approved, OperatorReleases
    <2> QED
      BY <2>1, <2>2, <2>3 DEF Inv
  <1>13. CASE SprayRestarts
    <2>1. faults' \in 0..MaxFaults
      BY <1>1, <1>13, HandshakeAssumption DEF SprayRestarts, SpendFault, TypeOK
    <2>2. TypeOK'
      BY <1>1, <1>13, <2>1, HandshakeAssumption DEF SprayRestarts, TypeOK, Phases
    <2>3. Told'
      BY <1>1, <1>13 DEF SprayRestarts, Told, DwellIsAnnounced
    <2>4. Proven' /\ Approved'
      BY <1>1, <1>13 DEF SprayRestarts, Proven, ReleaseIsProven, Approved, OperatorReleases
    <2> QED
      BY <2>1, <2>2, <2>3, <2>4 DEF Inv
  <1>14. CASE Reaches
    <2>1. next' \in 0..NumPoints /\ near' \in Points \cup {NoPoint} /\ faults' \in 0..MaxFaults
      BY <1>1, <1>14, HandshakeAssumption DEF Reaches, RoverStep, SpendFault, TypeOK, Points
    <2>2. UNCHANGED <<parameters, rppVars, sprayVars, channels, history>>
      BY <1>14 DEF Reaches, RoverStep
    <2>3. TypeOK'
      BY <1>1, <2>1, <2>2 DEF TypeOK
    <2>4. Told'
      BY <1>1, <2>2 DEF Told, DwellIsAnnounced
    <2>5. Proven' /\ Approved'
      BY <1>1, <2>2 DEF Proven, ReleaseIsProven, Approved, OperatorReleases
    <2> QED
      BY <2>1, <2>2, <2>3, <2>4, <2>5 DEF Inv
  <1>15. CASE Leaves
    <2>1. next' \in 0..NumPoints /\ near' \in Points \cup {NoPoint} /\ faults' \in 0..MaxFaults
      BY <1>1, <1>15, HandshakeAssumption DEF Leaves, RoverStep, SpendFault, TypeOK, Points
    <2>2. UNCHANGED <<parameters, rppVars, sprayVars, channels, history>>
      BY <1>15 DEF Leaves, RoverStep
    <2>3. TypeOK'
      BY <1>1, <2>1, <2>2 DEF TypeOK
    <2>4. Told'
      BY <1>1, <2>2 DEF Told, DwellIsAnnounced
    <2>5. Proven' /\ Approved'
      BY <1>1, <2>2 DEF Proven, ReleaseIsProven, Approved, OperatorReleases
    <2> QED
      BY <2>1, <2>2, <2>3, <2>4, <2>5 DEF Inv
  <1>16. CASE Misses
    <2>1. next' \in 0..NumPoints /\ near' \in Points \cup {NoPoint} /\ faults' \in 0..MaxFaults
      BY <1>1, <1>16, HandshakeAssumption DEF Misses, RoverStep, SpendFault, TypeOK, Points
    <2>2. UNCHANGED <<parameters, rppVars, sprayVars, channels, history>>
      BY <1>16 DEF Misses, RoverStep
    <2>3. TypeOK'
      BY <1>1, <2>1, <2>2 DEF TypeOK
    <2>4. Told'
      BY <1>1, <2>2 DEF Told, DwellIsAnnounced
    <2>5. Proven' /\ Approved'
      BY <1>1, <2>2 DEF Proven, ReleaseIsProven, Approved, OperatorReleases
    <2> QED
      BY <2>1, <2>2, <2>3, <2>4, <2>5 DEF Inv
  <1>17. CASE Slips
    <2>1. next' \in 0..NumPoints /\ near' \in Points \cup {NoPoint} /\ faults' \in 0..MaxFaults
      BY <1>1, <1>17, HandshakeAssumption DEF Slips, RoverStep, SpendFault, TypeOK, Points
    <2>2. UNCHANGED <<parameters, rppVars, sprayVars, channels, history>>
      BY <1>17 DEF Slips, RoverStep
    <2>3. TypeOK'
      BY <1>1, <2>1, <2>2 DEF TypeOK
    <2>4. Told'
      BY <1>1, <2>2 DEF Told, DwellIsAnnounced
    <2>5. Proven' /\ Approved'
      BY <1>1, <2>2 DEF Proven, ReleaseIsProven, Approved, OperatorReleases
    <2> QED
      BY <2>1, <2>2, <2>3, <2>4, <2>5 DEF Inv
  <1>18. CASE Taps
    <2>1. hold.point \in Points
      BY <1>1, <1>18 DEF Taps, Told
    <2>2. TypeOK'
      BY <1>1, <1>18, <2>1 DEF Taps, TypeOK
    <2>3. Told'
      BY <1>1, <1>18, <2>1 DEF Taps, Told, DwellIsAnnounced, TypeOK
    <2>4. Proven' /\ Approved'
      BY <1>1, <1>18, <2>1 DEF Taps, Proven, ReleaseIsProven, Approved, OperatorReleases
    <2> QED
      BY <2>1, <2>2, <2>3, <2>4 DEF Inv
  <1>19. CASE TapsAgain
    <2>1. tap' \in approved /\ faults' \in 0..MaxFaults
      BY <1>1, <1>19, HandshakeAssumption DEF TapsAgain, SpendFault, TypeOK
    <2>2. TypeOK'
      BY <1>1, <1>19, <2>1 DEF TapsAgain, TypeOK
    <2>3. Told'
      BY <1>1, <1>19, <2>1 DEF TapsAgain, Told, DwellIsAnnounced, TypeOK
    <2>4. Proven' /\ Approved'
      BY <1>1, <1>19, <2>1 DEF TapsAgain, Proven, ReleaseIsProven, Approved, OperatorReleases
    <2> QED
      BY <2>1, <2>2, <2>3, <2>4 DEF Inv
  <1>20. CASE UNCHANGED vars
    <2>1. TypeOK'
      BY <1>1, <1>20 DEF vars, TypeOK
    <2>2. Told'
      BY <1>1, <1>20 DEF vars, Told, DwellIsAnnounced
    <2>3. Proven' /\ Approved'
      BY <1>1, <1>20 DEF vars, Proven, ReleaseIsProven, Approved, OperatorReleases
    <2> QED
      BY <2>1, <2>2, <2>3 DEF Inv
  <1> QED
    BY <1>2, <1>3, <1>4, <1>5, <1>6, <1>7, <1>8, <1>9, <1>10, <1>11,
       <1>12, <1>13, <1>14, <1>15, <1>16, <1>17, <1>18, <1>19, <1>20
    DEF Next

-----------------------------------------------------------------------------
(* Every state the two nodes can reach is well typed.                       *)
THEOREM TypeCorrect == Spec => []TypeOK
  <1>1. Inv => TypeOK
    BY DEF Inv
  <1> QED
    BY <1>1, InitEstablishes, NextKeeps, PTL DEF Spec

(* With a settle time, the meter dwells for a point only when RPP has       *)
(* announced a confirmed stop at it: the arrival gate of PointMeter.update. *)
THEOREM DwellIsAlwaysAnnounced ==
  ASSUME ~SettleZero
  PROVE  Spec => []DwellIsAnnounced
  <1>1. Inv => DwellIsAnnounced
    BY DEF Inv, Told
  <1> QED
    BY <1>1, InitEstablishes, NextKeeps, PTL DEF Spec

(* A release on the spray node's report rests on a dwell finished at that   *)
(* very point: the index and sequence check of _point_handshake_ready.      *)
THEOREM ReleaseIsAlwaysProven == Spec => []ReleaseIsProven
  <1>1. Inv => ReleaseIsProven
    BY DEF Inv, Proven
  <1> QED
    BY <1>1, InitEstablishes, NextKeeps, PTL DEF Spec

(* In manual mode no point is left without a tap of the operator for it:    *)
(* expect_index and the receive count of _advance_cb.                       *)
THEOREM OperatorAlwaysReleases == Spec => []OperatorReleases
  <1>1. Inv => OperatorReleases
    BY DEF Inv, Approved
  <1> QED
    BY <1>1, InitEstablishes, NextKeeps, PTL DEF Spec

=============================================================================
