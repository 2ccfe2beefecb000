---------------------------- MODULE RppMotionProofs ----------------------------
(***************************************************************************)
(* What RPP's control tick guarantees for any missions and any settings:   *)
(* the end of a run is earned by driving it and then held, and nothing is  *)
(* turned, advanced or told DONE without a stop that was seen.             *)
(*                                                                         *)
(* The controller judges a stop by stamps that it keeps over many ticks, a *)
(* passer-by by what was seen.  Seen compares the two, for as long as a    *)
(* stop is awaited: a stamp that is carried over from another stop, or     *)
(* that outlives a drive, is older than what it stands for.  A tick ends   *)
(* in one of four ways (Outcome), whichever of the nested branches of the  *)
(* code it took.                                                           *)
(***************************************************************************)
EXTENDS RppMotion, SequenceTheorems, WellFoundedInduction, TLAPS

Stamps == [entered : StampAges(MaxHold), settle : StampAges(Dwell), complete : BOOLEAN,
           pivot : StampAges(PivotTimeout), align : StampAges(AlignSettle)]
Cursors == [run : Nat, seg : Nat, travel : Nat, align : BOOLEAN, boundary : BOOLEAN,
            completion : BOOLEAN, endpoint : StampAges(EndpointMax), done : BOOLEAN]

MotionTyped ==
  /\ MotionTypeOK /\ rpp \in Cursors
  /\ along \in Nat /\ far \in Nat /\ rested \in BOOLEAN
  /\ calm \in Nat /\ halted \in Nat

(* A stop is awaited at the end of the run or of the path, or before the    *)
(* first pivot.                                                             *)
Waits(r) == r.boundary \/ r.completion \/ r.endpoint # None
Awaited(r, c) == Waits(r) \/ (r.align /\ ~c.complete)

(* The stamps of a stop that is awaited tell no more than was seen.         *)
Seen(c) == /\ c.settle # None => c.settle <= calm
           /\ c.entered # None => c.entered <= halted

Enough(n) == IF Run.closed THEN 10 * n >= 9 * Run.length
             ELSE n >= MinGoalTravel \/ 2 * n >= Run.length

(* The precise stop has begun only at the end of the last run.              *)
Engaged(r) ==
  r.endpoint # None => Run.profile = "segment" /\ ~HasNext /\ Run.length > 0 /\ MinTravel(r)

(* Together: an alignment is the first thing on a run, a stop before the    *)
(* next run needs a next run, a latch means the brake, and progress is not  *)
(* ahead of where the rover was seen.                                       *)
MotionInv ==
  /\ MotionTyped
  /\ rpp.align => ~Waits(rpp)
  /\ rpp.boundary => HasNext
  /\ Engaged(rpp)
  /\ LatchHolds
  /\ Awaited(rpp, corner) => Seen(C)
  /\ rpp.align /\ corner.complete => rested
  /\ rpp.travel <= far /\ rpp.seg <= far
  /\ RunsAreDriven

-----------------------------------------------------------------------------
(* Runs and vertices                                                        *)

LEMMA LeastOf ==
  ASSUME NEW S, S \subseteq Nat, S # {}
  PROVE  \E v \in S : \A w \in S : v <= w
  <1> DEFINE Less == OpToRel(<, Nat)
  <1>1. IsWellFoundedOn(Less, Nat)
    BY NatLessThanWellFounded
  <1>2. PICK v \in S : \A w \in S : ~(<<w, v>> \in Less)
    <2> HIDE DEF Less
    <2> QED
      BY <1>1, WFMin
  <1>3. ASSUME NEW w \in S PROVE v <= w
    <2>1. ~(w < v)
      BY <1>2 DEF OpToRel
    <2> QED
      BY <2>1
  <1> QED
    BY <1>3

(* The mission in force, when there is one.                                 *)
LEMMA MissionTyped ==
  ASSUME runs \in Missions
  PROVE  /\ runs # <<>> /\ Len(runs) \in Nat /\ DOMAIN runs = 1..Len(runs) /\ Len(runs) # 0
         /\ \A i \in 1..Len(runs) : IsRun(runs[i])
  <1>1. runs \in Seq({runs[i] : i \in DOMAIN runs}) /\ runs # <<>>
    BY MotionAssumption
  <1>2. \A i \in DOMAIN runs : IsRun(runs[i])
    BY MotionAssumption
  <1>3. Len(runs) \in Nat /\ DOMAIN runs = 1..Len(runs)
    BY <1>1
  <1>4. Len(runs) # 0
    BY <1>1, EmptySeq
  <1> QED
    BY <1>1, <1>2, <1>3, <1>4

(* The end of a segment is an inner vertex ahead or the end of the run.     *)
LEMMA SegEndTyped ==
  ASSUME IsRun(Run), NEW s \in Nat
  PROVE  /\ SegEnd(s) \in Nat /\ SegEnd(s) <= Run.length
         /\ SegEnd(s) # Run.length => SegEnd(s) \in Run.vertices /\ SegEnd(s) > s
  <1> DEFINE ahead == {v \in Run.vertices : v > s}
  <1>1. Run.vertices \subseteq 1..Run.length - 1 /\ Run.length \in Nat
    BY DEF IsRun
  <1>2. CASE ahead = {}
    BY <1>1, <1>2 DEF SegEnd
  <1>3. CASE ahead # {}
    <2>0. ahead \subseteq Nat
      BY <1>1
    <2>1. \E v \in ahead : \A w \in ahead : v <= w
      <3> HIDE DEF ahead
      <3> QED
        BY <2>0, <1>3, LeastOf
    <2>2. SegEnd(s) \in ahead
      BY <1>3, <2>1 DEF SegEnd
    <2> QED
      BY <1>1, <2>2
  <1> QED
    BY <1>2, <1>3

-----------------------------------------------------------------------------
(* The stamps of a stop                                                     *)

LEMMA OlderTyped ==
  ASSUME NEW most \in Nat, NEW age \in StampAges(most)
  PROVE  StampOlder(age, most) \in StampAges(most)
  BY DEF StampAges, StampOlder, None

LEMMA AgedTyped ==
  ASSUME NEW c \in Stamps
  PROVE  /\ CornerAged(c) \in Stamps /\ CornerAged(c).complete = c.complete
         /\ CornerAged(c).settle = StampOlder(c.settle, Dwell)
         /\ CornerAged(c).entered = StampOlder(c.entered, MaxHold)
  <1>1. /\ StampOlder(c.entered, MaxHold) \in StampAges(MaxHold)
        /\ StampOlder(c.settle, Dwell) \in StampAges(Dwell)
        /\ StampOlder(c.pivot, PivotTimeout) \in StampAges(PivotTimeout)
        /\ StampOlder(c.align, AlignSettle) \in StampAges(AlignSettle)
    BY MotionAssumption, OlderTyped DEF Stamps
  <1> QED
    BY <1>1 DEF Stamps, CornerAged

LEMMA CheckedTyped ==
  ASSUME NEW c \in Stamps
  PROVE  /\ Checked(c) \in Stamps /\ Checked(Checked(c)) = Checked(c)
         /\ Checked(c).complete = c.complete
  <1>1. 0 \in StampAges(MaxHold) /\ 0 \in StampAges(Dwell) /\ None \in StampAges(Dwell)
    BY MotionAssumption DEF StampAges
  <1> QED
    BY <1>1 DEF Stamps, Checked, None

LEMMA NoCornerTyped ==
  /\ NoCorner \in Stamps /\ NoCorner.complete = FALSE
  /\ \A b \in BOOLEAN : [NoCorner EXCEPT !.complete = b] \in Stamps
  BY DEF NoCorner, Stamps, StampAges

LEMMA NoCornerSeen == Seen(NoCorner) /\ ~Stopped(Checked(NoCorner))
  BY MotionAssumption DEF NoCorner, Seen, Stopped, Checked, None

LEMMA CheckedSeen ==
  ASSUME NEW c \in Stamps, Seen(c), calm \in Nat, halted \in Nat
  PROVE  Seen(Checked(c))
  BY DEF Seen, Checked, Stamps, None

(* A stop that the controller is satisfied with has been seen.              *)
LEMMA StoppedSeen ==
  ASSUME NEW c \in Stamps, Seen(c), Stopped(Checked(c)), calm \in Nat, halted \in Nat
  PROVE  StopSeen
  <1> USE MotionAssumption DEF Seen, Stopped, Checked, StopSeen, Stamps, StampAges, None
  <1>1. CASE vel = "still" /\ Checked(c).settle # None /\ Checked(c).settle >= Dwell
    BY <1>1
  <1>2. CASE vel = "stale" /\ Checked(c).entered # None /\ Checked(c).entered >= MaxHold
    BY <1>2
  <1> QED
    BY <1>1, <1>2

LEMMA SettlingTyped ==
  ASSUME NEW c \in Stamps
  PROVE  /\ Settling(c) \in Stamps /\ Settling(c).complete = c.complete
         /\ Settling(c).settle = c.settle /\ Settling(c).entered = c.entered
  <1>1. 0 \in StampAges(PivotTimeout) /\ 0 \in StampAges(AlignSettle) /\ None \in StampAges(AlignSettle)
    BY MotionAssumption DEF StampAges
  <1>2. /\ Watched(c) \in Stamps /\ Watched(c).complete = c.complete
        /\ Watched(c).settle = c.settle /\ Watched(c).entered = c.entered
    BY <1>1 DEF Watched, Stamps
  <1> QED
    BY <1>1, <1>2 DEF Settling, Stamps

-----------------------------------------------------------------------------
(* How the work on a run ends a tick.  The farthest cell this tick knows of *)
(* is Reach.                                                                *)

Reach == Larger(far, along)

(* A cursor that a tick leaves behind: on the run, never ahead of where the  *)
(* rover was seen, and latched only where a latch belongs.                  *)
Left(r) ==
  /\ r \in Cursors /\ r.run = rpp.run /\ ~r.align
  /\ r.seg \in Run.vertices \cup {0} /\ r.travel \in 0..Run.length
  /\ r.travel <= Reach /\ r.seg <= Reach
  /\ r.boundary => HasNext
  /\ r.boundary \/ r.completion => Enough(Reach)
  /\ Engaged(r)

(* One that a tick carries along: the boundary was latched before it.       *)
Carried(r) == Left(r) /\ ~r.done /\ (r.boundary => rpp.boundary)

Moves ==
  /\ Left(rpp') /\ ~Waits(rpp') /\ ~rpp'.done
  /\ corner' \in Stamps /\ cmd' \in {"drive", "pivot", "brake"}

Holds ==
  /\ Left(rpp')
  /\ \E c \in Stamps : Seen(c) /\ corner' = Checked(c)
  /\ rpp'.done => StopSeen
  /\ cmd' \in {"brake", "zero", "correct"}
  /\ rpp'.boundary \/ rpp'.completion => cmd' # "correct"

Advances ==
  /\ HasNext /\ rpp' = Applied(runs, rpp.run + 1) /\ cmd' = cmd
  /\ \E stopped \in BOOLEAN :
       /\ corner' = [NoCorner EXCEPT !.complete = stopped /\ rpp'.align]
       /\ stopped => StopSeen /\ rpp.boundary
       /\ rpp'.align /\ Run.length > 0 => stopped

EndsAtOnce ==
  /\ Run.length = 0 /\ Left(rpp') /\ ~Waits(rpp')
  /\ corner' \in Stamps /\ cmd' = "zero"

Outcome == Moves \/ Holds \/ Advances \/ EndsAtOnce

OnRun == /\ runs \in Missions /\ rpp.run \in 1..Len(runs)
         /\ along \in Nat /\ far \in Nat /\ calm \in Nat /\ halted \in Nat

LEMMA OnRunTyped ==
  ASSUME OnRun
  PROVE  /\ IsRun(Run) /\ Reach \in Nat /\ Reach >= along /\ Reach >= far
         /\ HasNext => rpp.run + 1 \in 1..Len(runs) /\ IsRun(runs[rpp.run + 1])
  BY MissionTyped DEF OnRun, Run, HasNext, Reach, Larger

LEMMA AdvanceIsOutcome ==
  ASSUME OnRun, HasNext, NEW stopped \in BOOLEAN, AdvanceRun(stopped),
         stopped => StopSeen /\ rpp.boundary,
         runs[rpp.run + 1].turn /\ Run.length > 0 => stopped
  PROVE  Advances
  <1>1. rpp' = Applied(runs, rpp.run + 1) /\ cmd' = cmd
    BY DEF AdvanceRun
  <1>2. corner' = [NoCorner EXCEPT !.complete = stopped /\ rpp'.align]
    BY DEF AdvanceRun
  <1>3. rpp'.align => runs[rpp.run + 1].turn
    <2>1. rpp.run + 1 # 1
      BY DEF OnRun
    <2> QED
      BY <1>1, <2>1 DEF Applied, Cursor
  <1> QED
    BY <1>1, <1>2, <1>3 DEF Advances

LEMMA BoundaryOutcome ==
  ASSUME OnRun, NEW r, Carried(r), HasNext, Enough(Reach),
         NEW c \in Stamps, r.boundary => Seen(c), HoldBeforeRunAdvance(r, c)
  PROVE  Outcome
  <1> DEFINE base == IF r.boundary THEN c ELSE NoCorner
             held == Checked(base)
  <1>1. base \in Stamps /\ Seen(base)
    BY NoCornerTyped, NoCornerSeen
  <1>2. Stopped(held) => StopSeen /\ rpp.boundary
    BY <1>1, StoppedSeen, NoCornerSeen DEF OnRun, Carried
  <1>3. CASE ~runs[rpp.run + 1].turn /\ AdvanceRun(FALSE)
    <2>1. Advances
      <3> DEFINE no == FALSE
      <3>1. no \in BOOLEAN /\ ~no /\ AdvanceRun(no)
        BY <1>3
      <3> HIDE DEF no
      <3> QED
        BY <1>3, <3>1, AdvanceIsOutcome
    <2> QED
      BY <2>1 DEF Outcome
  <1>4. CASE Stopped(held) /\ AdvanceRun(TRUE)
    <2>1. Advances
      <3> DEFINE yes == TRUE
      <3>1. yes \in BOOLEAN /\ yes /\ AdvanceRun(yes)
        BY <1>4
      <3> HIDE DEF yes, held
      <3> QED
        BY <1>2, <1>4, <3>1, AdvanceIsOutcome
    <2> QED
      BY <2>1 DEF Outcome
  <1>5. CASE Publish("brake", [r EXCEPT !.boundary = TRUE], held)
    <2>1. Left(rpp')
      BY <1>5 DEF Publish, Carried, Left, Cursors, Engaged, MinTravel
    <2>2. ~rpp'.done
      BY <1>5 DEF Publish, Carried, Left, Cursors
    <2> QED
      BY <1>1, <1>5, <2>1, <2>2 DEF Outcome, Holds, Publish
  <1> QED
    BY <1>3, <1>4, <1>5 DEF HoldBeforeRunAdvance

LEMMA CompletionOutcome ==
  ASSUME OnRun, NEW r, Left(r), ~r.done, Enough(Reach),
         NEW c \in Stamps, r.completion => Seen(c), HoldAtCompletion(r, c)
  PROVE  Outcome
  <1> DEFINE base == IF r.completion THEN c ELSE NoCorner
             held == Checked(base)
  <1>1. base \in Stamps /\ Seen(base)
    BY NoCornerTyped, NoCornerSeen
  <1>2. Stopped(held) => StopSeen
    BY <1>1, StoppedSeen DEF OnRun
  <1>3. CASE Stopped(held) /\ PublishZero("DONE", [[r EXCEPT !.completion = TRUE] EXCEPT !.done = TRUE], held)
    <2>1. Left(rpp')
      BY <1>3 DEF PublishZero, Left, Cursors, Engaged, MinTravel
    <2> QED
      BY <1>1, <1>2, <1>3, <2>1 DEF Outcome, Holds, PublishZero
  <1>4. CASE Publish("brake", [r EXCEPT !.completion = TRUE], held)
    <2>1. Left(rpp') /\ ~rpp'.done
      BY <1>4 DEF Publish, Left, Cursors, Engaged, MinTravel
    <2> QED
      BY <1>1, <1>4, <2>1 DEF Outcome, Holds, Publish
  <1> QED
    BY <1>3, <1>4 DEF HoldAtCompletion

LEMMA EndpointOutcome ==
  ASSUME OnRun, NEW r, Carried(r), ~r.boundary, ~r.completion, EndpointEngages(r),
         NEW c \in Stamps, r.endpoint # None => Seen(c), EndpointStop(r, c)
  PROVE  Outcome
  <1> DEFINE base == IF r.endpoint # None THEN c ELSE NoCorner
             held == Checked(base)
             on   == [r EXCEPT !.endpoint = IF @ = None THEN 0 ELSE @]
             done == [on EXCEPT !.endpoint = None, !.completion = TRUE]
  <1>1. base \in Stamps /\ Seen(base)
    BY NoCornerTyped, NoCornerSeen
  <1>2. held \in Stamps /\ Seen(held)
    BY <1>1, CheckedTyped, CheckedSeen DEF OnRun
  <1>3. 0 \in StampAges(EndpointMax) /\ None \in StampAges(EndpointMax)
    BY MotionAssumption DEF StampAges
  <1>4. CASE HoldAtCompletion(done, held)
    <2>1. done \in Cursors /\ ~done.done
      BY <1>3 DEF Carried, Left, Cursors
    <2>2. Left(done) /\ Enough(Reach)
      <3>1. Enough(r.travel)
        BY DEF EndpointEngages, MinTravel, Enough
      <3>2. Enough(Reach)
        BY <3>1, OnRunTyped, MotionAssumption DEF Enough, Carried, Left, IsRun
      <3>3. Engaged(done)
        BY DEF Engaged, Carried, Left, Cursors
      <3>4. /\ done.run = r.run /\ done.align = r.align /\ done.seg = r.seg
            /\ done.travel = r.travel /\ done.boundary = r.boundary
        BY DEF Carried, Left, Cursors
      <3> QED
        BY <2>1, <3>2, <3>3, <3>4 DEF Carried, Left
    <2> HIDE DEF done, held
    <2> QED
      BY <1>2, <1>4, <2>1, <2>2, CompletionOutcome
  <1>5. CASE Publish(IF lateral = "wide" THEN "brake" ELSE "correct", on, held)
    <2>1. on \in Cursors
      BY <1>3 DEF Carried, Left, Cursors
    <2>2. /\ on.run = r.run /\ on.align = r.align /\ on.seg = r.seg /\ on.done = r.done
          /\ on.travel = r.travel /\ on.boundary = r.boundary /\ on.completion = r.completion
      BY DEF Carried, Left, Cursors
    <2>3. Engaged(on)
      BY <2>2 DEF Engaged, EndpointEngages, MinTravel
    <2>4. Left(on)
      BY <2>1, <2>2, <2>3 DEF Carried, Left
    <2>5. rpp' = on /\ corner' = held /\ cmd' \in {"brake", "correct"}
      BY <1>5 DEF Publish
    <2>6. Holds
      <3> HIDE DEF on, held
      <3>1. Left(rpp') /\ ~rpp'.done /\ ~rpp'.boundary /\ ~rpp'.completion
        BY <2>2, <2>4, <2>5 DEF Carried
      <3>2. \E d \in Stamps : Seen(d) /\ corner' = Checked(d)
        BY <1>1, <2>5 DEF held
      <3> QED
        BY <2>5, <3>1, <3>2 DEF Holds
    <2> QED
      BY <2>6 DEF Outcome
  <1> QED
    BY <1>4, <1>5 DEF EndpointStop

LEMMA GoalIsEnough ==
  ASSUME OnRun, NEW r, Left(r), MinTravel(r)
  PROVE  Enough(Reach)
  BY OnRunTyped, MotionAssumption DEF MinTravel, Enough, Left, IsRun

LEMMA EndOfRunOutcome ==
  ASSUME OnRun, NEW r, Carried(r), ~r.boundary, ~r.completion, AtGoal(r),
         NEW c \in Stamps, EndOfRun(r, c)
  PROVE  Outcome
  <1>1. Enough(Reach)
    BY GoalIsEnough DEF AtGoal, Carried
  <1>2. CASE HasNext /\ HoldBeforeRunAdvance(r, c)
    BY <1>1, <1>2, BoundaryOutcome
  <1>3. CASE HoldAtCompletion(r, c)
    BY <1>1, <1>3, CompletionOutcome DEF Carried
  <1> QED
    BY <1>2, <1>3 DEF EndOfRun

(* A corner inside a run, or the alignment at its start.                    *)
LEMMA SpinFacts ==
  ASSUME NEW r, NEW c \in Stamps, Spin(r, c)
  PROVE  /\ rpp' = r /\ corner' \in Stamps /\ cmd' \in {"brake", "pivot"}
         /\ \/ c.complete /\ corner'.complete
            \/ ~c.complete /\ corner'.complete /\ Stopped(Checked(c))
            \/ cmd' = "brake" /\ corner' = Checked(Settling(c)) /\ ~corner'.complete
  <1>1. /\ Settling(c) \in Stamps /\ Settling(c).complete = c.complete
        /\ Checked(Settling(c)) \in Stamps /\ Checked(Settling(c)).complete = c.complete
    BY SettlingTyped, CheckedTyped
  <1>2. [Checked(Settling(c)) EXCEPT !.complete = TRUE] \in Stamps
    BY <1>1 DEF Stamps
  <1>3. CASE c.complete /\ Publish("brake", r, Settling(c))
    BY <1>1, <1>3 DEF Publish
  <1>4. CASE c.complete /\ Publish("pivot", r, Settling(c))
    BY <1>1, <1>4 DEF Publish
  <1>5. CASE ~c.complete /\ Publish("brake", r, Checked(Settling(c)))
    BY <1>1, <1>5 DEF Publish
  <1>6. CASE /\ ~c.complete /\ Stopped(Checked(c))
             /\ Publish("pivot", r, [Checked(Settling(c)) EXCEPT !.complete = TRUE])
    <2>1. corner'.complete
      BY <1>1, <1>6 DEF Publish, Stamps
    <2> QED
      BY <1>2, <1>6, <2>1 DEF Publish
  <1> QED
    BY <1>3, <1>4, <1>5, <1>6 DEF Spin

LEMMA MovesOutcome ==
  ASSUME NEW r, Carried(r), ~Waits(r), NEW c \in Stamps,
         \/ Publish("drive", r, c) \/ Spin(r, c)
  PROVE  Outcome
  <1>1. rpp' = r /\ corner' \in Stamps /\ cmd' \in {"drive", "pivot", "brake"}
    BY SpinFacts DEF Publish
  <1> QED
    BY <1>1 DEF Outcome, Moves, Carried

LEMMA TravelCarried ==
  ASSUME OnRun, NEW r, Carried(r), r.endpoint = None, NEW n \in 0..Run.length, n <= Reach
  PROVE  LET moved == [r EXCEPT !.travel = Larger(@, n)]
         IN /\ Carried(moved) /\ Waits(moved) = Waits(r)
            /\ moved.boundary = r.boundary /\ moved.completion = r.completion
            /\ moved.endpoint = None
  <1> DEFINE moved == [r EXCEPT !.travel = Larger(@, n)]
  <1>1. moved.travel \in 0..Run.length /\ moved.travel \in Nat /\ moved.travel <= Reach
    BY OnRunTyped DEF Carried, Left, Cursors, Larger, IsRun
  <1>2. /\ moved.run = r.run /\ moved.align = r.align /\ moved.seg = r.seg /\ moved.done = r.done
        /\ moved.endpoint = None /\ moved.boundary = r.boundary /\ moved.completion = r.completion
    BY DEF Carried, Left, Cursors
  <1>3. moved \in Cursors
    BY <1>1 DEF Carried, Left, Cursors
  <1>4. Waits(moved) = Waits(r) /\ Engaged(moved)
    BY <1>2 DEF Waits, Engaged
  <1> HIDE DEF moved
  <1>5. Left(moved)
    BY <1>1, <1>2, <1>3, <1>4 DEF Left, Carried
  <1>6. Carried(moved)
    BY <1>2, <1>4, <1>5 DEF Carried
  <1> QED
    BY <1>2, <1>4, <1>6 DEF moved

LEMMA ClampTyped ==
  ASSUME OnRun, NEW lo \in 0..Run.length, NEW hi \in 0..Run.length, lo <= Reach
  PROVE  Clamp(along, lo, hi) \in 0..Run.length /\ Clamp(along, lo, hi) <= Reach
  BY OnRunTyped DEF Clamp, OnRun, IsRun

LEMMA FollowOutcome ==
  ASSUME OnRun, NEW r0, Carried(r0), ~Waits(r0), NEW c \in Stamps, Follow(r0, c)
  PROVE  Outcome
  <1> DEFINE end == SegEnd(r0.seg)
             reach == Clamp(along, r0.seg, end)
             r == [r0 EXCEPT !.travel = Larger(@, reach)]
  <1>1. r0.seg \in 0..Run.length /\ end \in 0..Run.length /\ r0.seg <= Reach
    <2>1. Run.length \in Nat /\ Run.vertices \subseteq 1..Run.length - 1 /\ IsRun(Run)
      BY OnRunTyped DEF IsRun
    <2>2. r0.seg \in Nat /\ r0.seg \in 0..Run.length /\ r0.seg <= Reach
      BY <2>1 DEF Carried, Left, Cursors
    <2>3. SegEnd(r0.seg) \in Nat /\ SegEnd(r0.seg) <= Run.length
      BY <2>1, <2>2, SegEndTyped
    <2> QED
      BY <2>1, <2>2, <2>3
  <1>2. Carried(r) /\ ~Waits(r)
    <2>1. reach \in 0..Run.length /\ reach <= Reach
      BY <1>1, ClampTyped
    <2>2. r0.endpoint = None
      BY DEF Waits
    <2> HIDE DEF reach
    <2> QED
      BY <2>1, <2>2, TravelCarried
  <1>3. ~r.boundary /\ ~r.completion /\ ~(r.endpoint # None)
    BY <1>2 DEF Waits
  <1>4. CASE EndpointEngages(r) /\ EndpointStop(r, c)
    <2> HIDE DEF r
    <2> QED
      BY <1>2, <1>3, <1>4, EndpointOutcome
  <1>5. CASE AtGoal(r) /\ EndOfRun(r, c)
    <2> HIDE DEF r
    <2> QED
      BY <1>2, <1>3, <1>5, EndOfRunOutcome
  <1>6. CASE DriveSegment(r, c) \/ Spin(r, c)
    <2> HIDE DEF r
    <2> QED
      BY <1>2, <1>6, MovesOutcome DEF DriveSegment
  <1> QED
    BY <1>4, <1>5, <1>6 DEF Follow

LEMMA SegmentOutcome ==
  ASSUME OnRun, NEW r, Carried(r), ~Waits(r), NEW c \in Stamps, ControlSegmentProfile(r, c)
  PROVE  Outcome
  <1>1. CASE Run.length = 0 /\ HasNext /\ AdvanceRun(FALSE)
    <2> DEFINE no == FALSE
    <2>1. no \in BOOLEAN /\ ~no /\ AdvanceRun(no)
      BY <1>1
    <2> HIDE DEF no
    <2> QED
      BY <1>1, <2>1, AdvanceIsOutcome DEF Outcome
  <1>2. CASE Run.length = 0 /\ PublishZero("DONE", [r EXCEPT !.done = TRUE], c)
    <2>1. Left(rpp') /\ ~Waits(rpp')
      BY <1>2 DEF PublishZero, Carried, Left, Cursors, Engaged, MinTravel, Waits
    <2> QED
      BY <1>2, <2>1 DEF PublishZero, Outcome, EndsAtOnce
  <1>3. CASE PassesVertex(r, c) /\ Follow([r EXCEPT !.travel = Larger(@, along), !.seg = SegEnd(r.seg)], NoCorner)
    <2> DEFINE there == [r EXCEPT !.travel = Larger(@, along)]
               next  == [there EXCEPT !.seg = SegEnd(r.seg)]
    <2>1. r.seg \in Nat /\ SegEnd(r.seg) \in Run.vertices /\ along = SegEnd(r.seg)
      BY <1>3, OnRunTyped, SegEndTyped DEF PassesVertex, Carried, Left, Cursors
    <2>2. along \in 0..Run.length /\ along <= Reach
      BY <2>1, OnRunTyped DEF IsRun
    <2>3. Carried(there) /\ ~Waits(there)
      BY <2>2, TravelCarried DEF Waits
    <2>4. Carried(next) /\ ~Waits(next)
      <3> HIDE DEF there
      <3>1. next \in Cursors
        BY <2>1, <2>2, <2>3 DEF Carried, Left, Cursors
      <3>2. /\ next.run = there.run /\ next.align = there.align /\ next.seg = along /\ next.done = there.done
            /\ next.travel = there.travel /\ next.endpoint = there.endpoint
            /\ next.boundary = there.boundary /\ next.completion = there.completion
        BY <2>1, <2>3 DEF Carried, Left, Cursors
      <3>3. ~Waits(next) /\ Engaged(next)
        BY <2>3, <3>2 DEF Waits, Engaged
      <3> HIDE DEF next
      <3>4. Left(next)
        BY <2>1, <2>2, <2>3, <3>1, <3>2, <3>3 DEF Carried, Left
      <3> QED
        BY <2>3, <3>2, <3>3, <3>4 DEF Carried
    <2>5. next = [r EXCEPT !.travel = Larger(@, along), !.seg = SegEnd(r.seg)]
      BY DEF Carried, Left, Cursors
    <2>6. Follow(next, NoCorner)
      BY <1>3, <2>5
    <2> HIDE DEF next
    <2> QED
      BY <2>4, <2>6, NoCornerTyped, FollowOutcome
  <1>4. CASE Follow(r, c)
    BY <1>4, FollowOutcome
  <1> QED
    BY <1>1, <1>2, <1>3, <1>4 DEF ControlSegmentProfile

LEMMA TrackOutcome ==
  ASSUME OnRun, NEW r0, Carried(r0), NEW c \in Stamps, Waits(r0) => Seen(c), Track(r0, c)
  PROVE  Outcome
  <1> DEFINE reach == Clamp(along, 0, Run.length)
             r == IF Run.profile = "segment" THEN r0 ELSE [r0 EXCEPT !.travel = Larger(@, reach)]
  <1>1. /\ Carried(r) /\ r.boundary = r0.boundary /\ r.completion = r0.completion
        /\ r.endpoint = r0.endpoint
    <2>1. CASE Run.profile = "segment"
      BY <2>1
    <2>2. CASE Run.profile # "segment"
      <3>1. r0.endpoint = None
        BY <2>2 DEF Carried, Left, Engaged
      <3>2. reach \in 0..Run.length /\ reach <= Reach
        <4>1. Run.length \in Nat /\ Reach \in Nat
          BY OnRunTyped DEF IsRun
        <4>2. 0 \in 0..Run.length /\ Run.length \in 0..Run.length /\ 0 <= Reach
          BY <4>1
        <4> QED
          BY <4>2, ClampTyped
      <3> HIDE DEF reach
      <3> QED
        BY <2>2, <3>1, <3>2, TravelCarried
    <2> QED
      BY <2>1, <2>2
  <1>2. Track(r0, c) =>
          \/ r.boundary /\ HoldBeforeRunAdvance(r, c)
          \/ r.completion /\ HoldAtCompletion(r, c)
          \/ /\ ~r.boundary /\ ~r.completion
             /\ \/ EndpointEngages(r) /\ EndpointStop(r, c)
                \/ AtGoal(r) /\ EndOfRun(r, c)
                \/ ~EndpointEngages(r) /\ (ControlSegmentProfile(r, c) \/ DriveSmooth(r, c))
    BY DEF Track
  <1> HIDE DEF r
  <1>3. Waits(r) => Seen(c)
    BY <1>1 DEF Waits
  <1>4. CASE r.boundary /\ HoldBeforeRunAdvance(r, c)
    BY <1>1, <1>3, <1>4, BoundaryOutcome DEF Carried, Left, Waits
  <1>5. CASE r.completion /\ HoldAtCompletion(r, c)
    BY <1>1, <1>3, <1>5, CompletionOutcome DEF Carried, Left, Waits
  <1>6. CASE ~r.boundary /\ ~r.completion /\ EndpointEngages(r) /\ EndpointStop(r, c)
    BY <1>1, <1>3, <1>6, EndpointOutcome DEF Waits
  <1>7. CASE ~r.boundary /\ ~r.completion /\ AtGoal(r) /\ EndOfRun(r, c)
    BY <1>1, <1>7, EndOfRunOutcome
  <1>8. CASE /\ ~r.boundary /\ ~r.completion /\ ~EndpointEngages(r)
             /\ ControlSegmentProfile(r, c) \/ DriveSmooth(r, c)
    <2>1. ~Waits(r)
      BY <1>1, <1>8 DEF Waits, EndpointEngages, Carried, Left, Engaged
    <2> QED
      BY <1>1, <1>8, <2>1, SegmentOutcome, MovesOutcome DEF DriveSmooth
  <1> QED
    BY <1>2, <1>4, <1>5, <1>6, <1>7, <1>8

-----------------------------------------------------------------------------
(* The tick                                                                 *)

LEMMA EnoughGrows ==
  ASSUME IsRun(Run), NEW n \in Nat, NEW k \in Nat, n <= k, Enough(n) PROVE Enough(k)
  BY MotionAssumption DEF Enough, IsRun

(* The cursor and the stamps a tick begins with.                            *)
LEMMA AgedCursor ==
  ASSUME rpp \in Cursors
  PROVE  /\ R \in Cursors /\ R.run = rpp.run /\ R.seg = rpp.seg /\ R.travel = rpp.travel
         /\ R.align = rpp.align /\ R.boundary = rpp.boundary /\ R.completion = rpp.completion
         /\ R.done = rpp.done /\ (R.endpoint = None <=> rpp.endpoint = None)
         /\ Waits(R) = Waits(rpp)
  <1>1. StampOlder(rpp.endpoint, EndpointMax) \in StampAges(EndpointMax)
    BY MotionAssumption, OlderTyped DEF Cursors
  <1>2. StampOlder(rpp.endpoint, EndpointMax) = None <=> rpp.endpoint = None
    BY MotionAssumption DEF Cursors, StampAges, StampOlder, None
  <1>3. /\ R \in Cursors /\ R.run = rpp.run /\ R.seg = rpp.seg /\ R.travel = rpp.travel
        /\ R.align = rpp.align /\ R.boundary = rpp.boundary /\ R.completion = rpp.completion
        /\ R.done = rpp.done /\ R.endpoint = StampOlder(rpp.endpoint, EndpointMax)
    BY <1>1 DEF Cursors, R
  <1> QED
    BY <1>2, <1>3 DEF Waits

LEMMA UsableOnRun ==
  ASSUME MotionInv, Drives
  PROVE  OnRun /\ IsRun(Run) /\ rpp.seg \in Run.vertices \cup {0} /\ rpp.travel \in 0..Run.length
  <1>1. OnRun
    BY MissionTyped DEF MotionInv, MotionTyped, MotionTypeOK, Drives, OnRun
  <1> QED
    BY <1>1, OnRunTyped DEF MotionInv, MotionTyped, MotionTypeOK, Drives

LEMMA TickBegins ==
  ASSUME MotionInv, Usable
  PROVE  /\ OnRun /\ C \in Stamps /\ C.complete = corner.complete
         /\ Carried([R EXCEPT !.align = FALSE])
         /\ Waits([R EXCEPT !.align = FALSE]) = Waits(rpp)
         /\ ~R.align => Carried(R)
  <1>1. OnRun /\ IsRun(Run) /\ Reach \in Nat /\ Reach >= far /\ far \in Nat
    BY UsableOnRun, OnRunTyped DEF Usable, OnRun
  <1>2. C \in Stamps /\ C.complete = corner.complete
    BY AgedTyped DEF MotionInv, MotionTyped, MotionTypeOK, Stamps, C
  <1>3. rpp \in Cursors /\ ~rpp.done
    BY DEF MotionInv, MotionTyped, Usable, Drives
  <1> DEFINE r == [R EXCEPT !.align = FALSE]
  <1>4. /\ r \in Cursors /\ r.run = rpp.run /\ r.seg = rpp.seg /\ r.travel = rpp.travel
        /\ ~r.align /\ r.boundary = rpp.boundary /\ r.completion = rpp.completion
        /\ ~r.done /\ (r.endpoint = None <=> rpp.endpoint = None)
    BY <1>3, AgedCursor DEF Cursors
  <1>5. rpp.boundary \/ rpp.completion => Enough(Reach)
    <2>1. rpp.boundary \/ rpp.completion => Enough(far)
      BY <1>3 DEF MotionInv, RunsAreDriven, Enough
    <2> QED
      BY <1>1, <2>1, EnoughGrows
  <1> HIDE DEF r
  <1>6. Engaged(r)
    BY <1>4 DEF MotionInv, Engaged, MinTravel
  <1>7. r.travel <= Reach /\ r.seg <= Reach
    <2>1. rpp.travel <= far /\ rpp.seg <= far /\ rpp.seg \in Nat /\ rpp.travel \in Nat
      BY <1>3 DEF MotionInv, Cursors
    <2> QED
      BY <1>1, <1>4, <2>1
  <1>8. r.seg \in Run.vertices \cup {0} /\ r.travel \in 0..Run.length
    BY <1>4, UsableOnRun DEF Usable
  <1>9. Left(r)
    BY <1>4, <1>5, <1>6, <1>7, <1>8 DEF Left, MotionInv
  <1>10. Carried(r) /\ Waits(r) = Waits(rpp)
    BY <1>4, <1>9 DEF Carried, Waits
  <1>11. ~R.align => R = r
    BY <1>3, AgedCursor DEF r, Cursors
  <1> QED
    BY <1>1, <1>2, <1>10, <1>11 DEF r

(* Where the rover is told to be stays a natural number.                    *)
LEMMA WorldTyped ==
  ASSUME along \in Nat, WorldMoves,
         runs # <<>> => IsRun(Run) /\ IsRun(runs[rpp'.run]) /\ rpp'.seg \in Nat
  PROVE  along' \in Nat
  <1>1. CASE Wanders
    <2> DEFINE room == IF runs = <<>> THEN 0 ELSE runs[rpp'.run].length + 1
    <2>1. room \in Nat
      BY DEF IsRun
    <2>2. along' \in 0..room
      <3> HIDE DEF room
      <3>1. CASE leap'
        BY <1>1, <3>1 DEF Wanders, room
      <3>2. CASE ~leap'
        BY <1>1, <3>2 DEF Wanders, room
      <3> QED
        BY <3>1, <3>2
    <2> HIDE DEF room
    <2> QED
      BY <2>1, <2>2
  <1>2. CASE runs # <<>> /\ Obeys
    <2> DEFINE goal == IF Run.profile = "smooth" THEN Run.length ELSE SegEnd(rpp'.seg)
    <2>1. goal \in Nat
      BY <1>2, SegEndTyped DEF IsRun
    <2>2. along' \in {0, along, along + 1} \/ (along > goal /\ along' = along - 1)
      BY <1>2 DEF Obeys
    <2> HIDE DEF goal
    <2> QED
      BY <2>1, <2>2
  <1> QED
    BY <1>1, <1>2 DEF WorldMoves

LEMMA HistoryTyped ==
  ASSUME MotionTyped, NEW known, Until(known)
  PROVE  /\ calm' \in 0..Dwell /\ halted' \in 0..MaxHold
         /\ rested' \in BOOLEAN /\ far' \in Nat
  <1>1. calm \in 0..Dwell /\ halted \in 0..MaxHold /\ along \in Nat /\ far \in Nat
    BY MotionAssumption DEF MotionTyped, MotionTypeOK
  <1>2. calm' \in 0..Dwell
    BY <1>1, MotionAssumption DEF Until, StampOlder, None
  <1>3. halted' \in 0..MaxHold
    BY <1>1, MotionAssumption DEF Until, StampOlder, None
  <1>4. far' \in Nat
    BY <1>1 DEF Until, Larger
  <1>5. rested' \in BOOLEAN
    BY DEF Until
  <1> QED
    BY <1>2, <1>3, <1>4, <1>5

(* A stop goes on being watched: the stamps age no faster than what they    *)
(* stand for.                                                               *)
LEMMA SeenAfter ==
  ASSUME MotionTyped, Usable, NEW c \in Stamps, Seen(c), corner' = Checked(c),
         cmd' \notin {"drive", "pivot"}, Until(TRUE)
  PROVE  Seen(C)'
  <1>1. calm \in 0..Dwell /\ halted \in 0..MaxHold
    BY MotionAssumption DEF MotionTyped, MotionTypeOK
  <1>2. /\ calm' = IF vel = "still" THEN StampOlder(calm, Dwell) ELSE 0
        /\ halted' = StampOlder(halted, MaxHold)
    BY DEF Until
  <1>3. /\ Checked(c) \in Stamps
        /\ CornerAged(Checked(c)).settle = StampOlder(Checked(c).settle, Dwell)
        /\ CornerAged(Checked(c)).entered = StampOlder(Checked(c).entered, MaxHold)
    BY CheckedTyped, AgedTyped
  <1>4. Checked(c).settle = IF vel # "still" THEN None ELSE IF c.settle = None THEN 0 ELSE c.settle
    BY DEF Checked, Stamps
  <1>5. Checked(c).entered = IF c.entered = None THEN 0 ELSE c.entered
    BY DEF Checked, Stamps
  <1>6. c.settle \in StampAges(Dwell) /\ c.entered \in StampAges(MaxHold)
    BY DEF Stamps
  <1> DEFINE settle == Checked(c).settle
             entered == Checked(c).entered
  <1>7. StampOlder(settle, Dwell) # None => StampOlder(settle, Dwell) <= calm'
    <2>1. CASE vel = "still"
      BY <1>1, <1>2, <1>4, <1>6, <2>1, MotionAssumption DEF Seen, StampOlder, StampAges, None
    <2>2. CASE vel # "still"
      BY <1>4, <2>2 DEF StampOlder
    <2> QED
      BY <2>1, <2>2
  <1>8. StampOlder(entered, MaxHold) # None => StampOlder(entered, MaxHold) <= halted'
    BY <1>1, <1>2, <1>5, <1>6, MotionAssumption DEF Seen, StampOlder, StampAges, None
  <1> QED
    BY <1>3, <1>7, <1>8 DEF Seen, C

(* Another tick in which the rover stands, seen or unseen.                  *)
LEMMA SeenUnused ==
  ASSUME MotionTyped, ~Usable, Seen(C), corner' = C, cmd' = "zero", NEW known, Until(known)
  PROVE  Seen(C)'
  <1>1. calm \in 0..Dwell /\ halted \in 0..MaxHold
    BY MotionAssumption DEF MotionTyped, MotionTypeOK
  <1>2. /\ calm' = IF calm = 0 THEN 0 ELSE StampOlder(calm, Dwell)
        /\ halted' = StampOlder(halted, MaxHold)
    BY DEF Until
  <1>3. corner \in Stamps
    BY DEF MotionTyped, MotionTypeOK, Stamps
  <1>4. /\ C \in Stamps
        /\ C.settle = StampOlder(corner.settle, Dwell)
        /\ C.entered = StampOlder(corner.entered, MaxHold)
        /\ CornerAged(C).settle = StampOlder(C.settle, Dwell)
        /\ CornerAged(C).entered = StampOlder(C.entered, MaxHold)
    BY <1>3, AgedTyped DEF C
  <1>5. corner.settle \in StampAges(Dwell) /\ corner.entered \in StampAges(MaxHold)
    BY <1>3 DEF Stamps
  <1> DEFINE settle == C.settle
             entered == C.entered
  <1>6. StampOlder(settle, Dwell) # None => StampOlder(settle, Dwell) <= calm'
    BY <1>1, <1>2, <1>4, <1>5, MotionAssumption DEF Seen, StampOlder, StampAges, None
  <1>7. StampOlder(entered, MaxHold) # None => StampOlder(entered, MaxHold) <= halted'
    BY <1>1, <1>2, <1>4, <1>5, MotionAssumption DEF Seen, StampOlder, StampAges, None
  <1> QED
    BY <1>4, <1>6, <1>7 DEF Seen, C

(* What is kept whenever the tick stays on its run.                         *)
LEMMA SameRun ==
  ASSUME MotionInv, Usable, Until(TRUE), OnRun,
         rpp' \in Cursors, rpp'.run = rpp.run,
         rpp'.seg \in Run.vertices \cup {0}, rpp'.travel \in 0..Run.length,
         rpp'.travel <= Reach, rpp'.seg <= Reach,
         rpp'.boundary => HasNext,
         rpp'.boundary \/ rpp'.completion => Enough(Reach),
         Engaged(rpp'),
         corner' \in Stamps, cmd' \in {"drive", "correct", "pivot", "brake", "zero"}
  PROVE  /\ MotionTyped' /\ (rpp.boundary => HasNext)' /\ Engaged(rpp)'
         /\ (rpp.travel <= far /\ rpp.seg <= far)' /\ RunsAreDriven'
  <1>1. runs' = runs /\ Run' = Run /\ HasNext' = HasNext /\ far' = Reach
    BY DEF Until, Run, HasNext, Reach
  <1>2. along' \in Nat
    <2>1. IsRun(Run) /\ runs[rpp'.run] = Run /\ rpp'.seg \in Nat
      BY OnRunTyped DEF Run, Cursors
    <2> QED
      BY <2>1, WorldTyped DEF OnRun, Until
  <1>3. MotionTyped'
    <2>1. MotionTyped
      BY DEF MotionInv
    <2>2. calm' \in 0..Dwell /\ halted' \in 0..MaxHold /\ rested' \in BOOLEAN /\ far' \in Nat
      BY <2>1, HistoryTyped
    <2>3. calm' \in Nat /\ halted' \in Nat /\ calm' <= Dwell /\ halted' <= MaxHold
      BY <2>2, MotionAssumption
    <2>4. rpp'.endpoint \in StampAges(EndpointMax)
      BY DEF Cursors
    <2> QED
      BY <1>1, <1>2, <2>1, <2>2, <2>3, <2>4 DEF MotionTyped, MotionTypeOK, Stamps
  <1>4. Engaged(rpp)'
    BY <1>1 DEF Engaged, MinTravel
  <1>5. RunsAreDriven'
    BY <1>1 DEF RunsAreDriven, Enough
  <1> QED
    BY <1>1, <1>3, <1>4, <1>5

LEMMA TurnKeeps ==
  ASSUME MotionInv, Align
  PROVE  MotionInv' /\ (cmd' = "pivot" => rested')
  <1>1. /\ OnRun /\ C \in Stamps /\ C.complete = corner.complete /\ IsRun(Run)
        /\ rpp.seg \in Run.vertices \cup {0} /\ rpp.travel \in 0..Run.length
    BY TickBegins, UsableOnRun DEF Align, Usable
  <1>2. /\ R \in Cursors /\ R.run = rpp.run /\ R.seg = rpp.seg /\ R.travel = rpp.travel
        /\ R.align = rpp.align /\ R.boundary = rpp.boundary /\ R.completion = rpp.completion
        /\ R.done = rpp.done /\ (R.endpoint = None <=> rpp.endpoint = None)
        /\ Waits(R) = Waits(rpp)
    BY AgedCursor DEF MotionInv, MotionTyped
  <1>3. rpp.align /\ ~Waits(rpp)
    BY <1>2 DEF Align, MotionInv
  <1>4. /\ rpp' = R /\ corner' \in Stamps /\ cmd' \in {"brake", "pivot"}
        /\ \/ C.complete /\ corner'.complete
           \/ ~C.complete /\ corner'.complete /\ Stopped(Checked(C))
           \/ cmd' = "brake" /\ corner' = Checked(Settling(C)) /\ ~corner'.complete
    BY <1>1, SpinFacts DEF Align
  <1>5. Until(TRUE) /\ Usable
    BY DEF Align
  <1>6. ~R.boundary /\ ~R.completion /\ ~(R.endpoint # None)
    BY <1>2, <1>3 DEF Waits
  <1>7. R.travel <= Reach /\ R.seg <= Reach
    <2>1. rpp.travel <= far /\ rpp.seg <= far /\ rpp.seg \in Nat /\ rpp.travel \in Nat
      BY <1>2 DEF MotionInv, Cursors
    <2> QED
      BY <1>1, <1>2, <2>1, OnRunTyped DEF OnRun
  <1>8. /\ MotionTyped' /\ (rpp.boundary => HasNext)' /\ Engaged(rpp)'
        /\ (rpp.travel <= far /\ rpp.seg <= far)' /\ RunsAreDriven'
    BY <1>1, <1>2, <1>4, <1>5, <1>6, <1>7, SameRun DEF Engaged
  <1>9. ~Waits(rpp)'
    BY <1>2, <1>3, <1>4 DEF Waits
  <1>10. LatchHolds'
    BY <1>4, <1>6 DEF LatchHolds
  <1>11. corner'.complete => rested'
    <2>1. CASE C.complete
      BY <1>1, <1>3, <1>4, <1>5, <2>1 DEF MotionInv, Until
    <2>2. CASE ~C.complete /\ Stopped(Checked(C))
      <3>1. StopSeen
        BY <1>1, <1>3, <2>2, StoppedSeen DEF MotionInv, Awaited, OnRun
      <3> QED
        BY <1>4, <1>5, <3>1 DEF Until
    <2> QED
      BY <1>4, <2>1, <2>2
  <1>12. (Awaited(rpp, corner) => Seen(C))'
    <2> SUFFICES ASSUME ~corner'.complete PROVE Seen(C)'
      BY <1>9 DEF Awaited
    <2>1. /\ cmd' = "brake" /\ corner' = Checked(Settling(C))
          /\ Settling(C) \in Stamps /\ Settling(C).complete = C.complete
          /\ Settling(C).settle = C.settle /\ Settling(C).entered = C.entered
      BY <1>1, <1>4, SettlingTyped
    <2>2. ~C.complete
      BY <2>1, CheckedTyped
    <2>3. Seen(Settling(C))
      BY <1>1, <1>3, <2>1, <2>2 DEF MotionInv, Awaited, Seen
    <2> QED
      BY <1>5, <2>1, <2>3, SeenAfter DEF MotionInv
  <1>13. MotionInv'
    BY <1>8, <1>9, <1>10, <1>11, <1>12 DEF MotionInv
  <1>14. cmd' = "pivot" => corner'.complete
    BY <1>4
  <1> QED
    BY <1>11, <1>13, <1>14

LEMMA OutcomeKeeps ==
  ASSUME MotionInv, Usable, Outcome, Until(TRUE)
  PROVE  MotionInv'
  <1>1. OnRun /\ IsRun(Run) /\ MotionTyped
    BY UsableOnRun DEF Usable, MotionInv
  <1>2. ASSUME Left(rpp'), corner' \in Stamps, cmd' \in {"drive", "correct", "pivot", "brake", "zero"},
               LatchHolds', Waits(rpp') => Seen(C)'
        PROVE  MotionInv'
    <2>1. /\ MotionTyped' /\ (rpp.boundary => HasNext)' /\ Engaged(rpp)'
          /\ (rpp.travel <= far /\ rpp.seg <= far)' /\ RunsAreDriven'
      BY <1>1, <1>2, SameRun DEF Left
    <2>2. ~rpp'.align
      BY <1>2 DEF Left
    <2> QED
      BY <1>2, <2>1, <2>2 DEF MotionInv, Awaited, Waits
  <1>3. CASE Moves
    BY <1>2, <1>3 DEF Moves, LatchHolds, Waits
  <1>4. CASE EndsAtOnce
    BY <1>2, <1>4 DEF EndsAtOnce, LatchHolds, Waits
  <1>5. CASE Holds
    <2>1. PICK c \in Stamps : Seen(c) /\ corner' = Checked(c)
      BY <1>5 DEF Holds
    <2>2. Seen(C)'
      BY <1>1, <1>5, <2>1, SeenAfter DEF Holds
    <2>3. LatchHolds'
      BY <1>5 DEF Holds, LatchHolds
    <2> QED
      BY <1>2, <1>5, <2>1, <2>2, <2>3, CheckedTyped DEF Holds
  <1>6. CASE Advances
    <2>1. PICK stopped \in BOOLEAN :
            /\ corner' = [NoCorner EXCEPT !.complete = stopped /\ rpp'.align]
            /\ stopped => StopSeen /\ rpp.boundary
            /\ rpp'.align /\ Run.length > 0 => stopped
      BY <1>6 DEF Advances
    <2>2. /\ rpp.run + 1 \in 1..Len(runs) /\ IsRun(runs[rpp.run + 1])
          /\ rpp' = Applied(runs, rpp.run + 1) /\ cmd' = cmd /\ runs' = runs
      BY <1>1, <1>6, OnRunTyped DEF Advances, Until
    <2>3. /\ rpp'.run = rpp.run + 1 /\ rpp'.seg = 0 /\ rpp'.travel = 0
          /\ ~rpp'.boundary /\ ~rpp'.completion /\ rpp'.endpoint = None /\ ~rpp'.done
          /\ rpp'.align \in BOOLEAN /\ rpp' \in Cursors
      <3>1. None \in StampAges(EndpointMax)
        BY DEF StampAges
      <3>2. rpp.run + 1 \in Nat
        BY <1>1 DEF OnRun
      <3> QED
        BY <2>2, <3>1, <3>2 DEF Applied, Cursor, Cursors, IsRun
    <2>4. corner' \in Stamps /\ corner'.settle = None /\ corner'.entered = None
          /\ corner'.complete = (stopped /\ rpp'.align)
      BY <2>1, <2>3, NoCornerTyped DEF NoCorner
    <2>5. far' = 0
      BY <1>1, <2>3 DEF Until, OnRun
    <2>6. along' \in Nat
      BY <1>1, <2>2, <2>3, WorldTyped DEF OnRun, Until
    <2>7. MotionTyped'
      <3>1. calm' \in 0..Dwell /\ halted' \in 0..MaxHold /\ rested' \in BOOLEAN
        BY <1>1, HistoryTyped
      <3>2. calm' \in Nat /\ halted' \in Nat /\ calm' <= Dwell /\ halted' <= MaxHold
        BY <3>1, MotionAssumption
      <3>3. Run' = runs[rpp.run + 1]
        BY <2>2, <2>3 DEF Run
      <3>4. rpp'.travel \in 0..Run'.length /\ rpp'.run \in 0..Len(runs') /\ rpp'.run # 0
        BY <2>2, <2>3, <3>3, <1>1 DEF IsRun, OnRun
      <3>5. rpp'.endpoint \in StampAges(EndpointMax)
        BY <2>3 DEF Cursors
      <3> QED
        BY <1>1, <2>2, <2>3, <2>4, <2>5, <2>6, <3>1, <3>2, <3>4, <3>5
           DEF MotionTyped, MotionTypeOK, Stamps
    <2>8. ~Waits(rpp') /\ Engaged(rpp)' /\ LatchHolds' /\ RunsAreDriven'
      BY <2>3 DEF Waits, Engaged, LatchHolds, RunsAreDriven
    <2>9. Seen(C)'
      <3>1. C'.settle = None /\ C'.entered = None
        BY <2>4, AgedTyped DEF C, StampOlder
      <3> QED
        BY <3>1 DEF Seen
    <2>10. corner'.complete => rested'
      <3> SUFFICES ASSUME stopped PROVE rested'
        BY <2>4
      <3>1. StopSeen /\ cmd' # "drive"
        BY <2>1, <2>2 DEF MotionInv, LatchHolds
      <3> QED
        BY <3>1 DEF Until
    <2>11. (rpp.travel <= far /\ rpp.seg <= far)'
      BY <2>3, <2>5
    <2> QED
      BY <2>3, <2>7, <2>8, <2>9, <2>10, <2>11 DEF MotionInv, Waits
  <1> QED
    BY <1>3, <1>4, <1>5, <1>6 DEF Outcome

(* A tick that a gate ends, or that finds nothing to do.                    *)
LEMMA UnusedKeeps ==
  ASSUME MotionInv, ~Usable, rpp' = R, corner' = C, cmd' = "zero", NEW known, Until(known)
  PROVE  MotionInv'
  <1>1. /\ R \in Cursors /\ R.run = rpp.run /\ R.seg = rpp.seg /\ R.travel = rpp.travel
        /\ R.align = rpp.align /\ R.boundary = rpp.boundary /\ R.completion = rpp.completion
        /\ R.done = rpp.done /\ (R.endpoint = None <=> rpp.endpoint = None)
        /\ Waits(R) = Waits(rpp)
    BY AgedCursor DEF MotionInv, MotionTyped
  <1>2. C \in Stamps /\ C.complete = corner.complete
    BY AgedTyped DEF MotionInv, MotionTyped, MotionTypeOK, Stamps, C
  <1>3. runs' = runs /\ far' = far /\ Run' = Run /\ HasNext' = HasNext
    BY <1>1 DEF Until, Run, HasNext
  <1>4. runs # <<>> => IsRun(Run) /\ runs[rpp'.run] = Run
    BY <1>1, MissionTyped DEF MotionInv, MotionTyped, MotionTypeOK, Run
  <1>5. along' \in Nat
    <2>1. rpp'.seg \in Nat /\ along \in Nat
      BY <1>1 DEF MotionInv, MotionTyped, Cursors
    <2> QED
      BY <1>4, <2>1, WorldTyped DEF Until
  <1>6. MotionTyped'
    <2>1. calm' \in 0..Dwell /\ halted' \in 0..MaxHold /\ rested' \in BOOLEAN
      BY HistoryTyped DEF MotionInv
    <2>2. calm' \in Nat /\ halted' \in Nat /\ calm' <= Dwell /\ halted' <= MaxHold
      BY <2>1, MotionAssumption
    <2>3. rpp'.endpoint \in StampAges(EndpointMax)
      BY <1>1 DEF Cursors
    <2> QED
      BY <1>1, <1>2, <1>3, <1>5, <2>1, <2>2, <2>3 DEF MotionInv, MotionTyped, MotionTypeOK, Stamps
  <1>7. (rpp.align => ~Waits(rpp))' /\ (rpp.boundary => HasNext)'
    BY <1>1, <1>3 DEF MotionInv
  <1>8. Engaged(rpp)' /\ RunsAreDriven' /\ LatchHolds'
    BY <1>1, <1>3 DEF MotionInv, Engaged, MinTravel, RunsAreDriven, LatchHolds
  <1>9. (Awaited(rpp, corner) => Seen(C))'
    <2> SUFFICES ASSUME Awaited(rpp, corner)' PROVE Seen(C)'
      OBVIOUS
    <2>1. Awaited(rpp, corner)
      BY <1>1, <1>2 DEF Awaited
    <2> QED
      BY <2>1, SeenUnused DEF MotionInv
  <1>10. (rpp.align /\ corner.complete => rested)'
    BY <1>1, <1>2 DEF MotionInv, Until
  <1>11. (rpp.travel <= far /\ rpp.seg <= far)'
    BY <1>1, <1>3 DEF MotionInv
  <1> QED
    BY <1>6, <1>7, <1>8, <1>9, <1>10, <1>11 DEF MotionInv

LEMMA LoadKeeps ==
  ASSUME MotionInv, NEW m \in Missions, Load(m)
  PROVE  MotionInv'
  <1>1. runs' \in Missions /\ runs' = m /\ rpp' = Applied(m, 1) /\ corner' = NoCorner
    BY DEF Load
  <1>2. m # <<>> /\ 1 \in DOMAIN m /\ IsRun(m[1]) /\ Len(m) \in Nat /\ Len(m) >= 1
    <2>1. m \in Seq({m[i] : i \in DOMAIN m}) /\ m # <<>> /\ \A i \in DOMAIN m : IsRun(m[i])
      BY MotionAssumption
    <2>2. Len(m) \in Nat /\ DOMAIN m = 1..Len(m) /\ Len(m) # 0
      BY <2>1, EmptySeq
    <2> QED
      BY <2>1, <2>2
  <1>3. /\ rpp'.run = 1 /\ rpp'.seg = 0 /\ rpp'.travel = 0
        /\ ~rpp'.boundary /\ ~rpp'.completion /\ rpp'.endpoint = None /\ ~rpp'.done
        /\ rpp' \in Cursors
    <2>1. None \in StampAges(EndpointMax)
      BY DEF StampAges
    <2> QED
      BY <1>1, <1>2, <2>1 DEF Applied, Cursor, Cursors, IsRun
  <1>4. corner' \in Stamps /\ corner'.complete = FALSE /\ C'.settle = None /\ C'.entered = None
    <2>1. NoCorner.settle = None /\ NoCorner.entered = None
      BY DEF NoCorner
    <2> QED
      BY <1>1, <2>1, NoCornerTyped, AgedTyped DEF C, StampOlder
  <1>5. MotionTyped'
    <2>1. Run' = m[1]
      BY <1>1, <1>3 DEF Run
    <2>2. rpp'.travel \in 0..Run'.length /\ rpp'.run \in 0..Len(runs')
      BY <1>1, <1>2, <1>3, <2>1 DEF IsRun
    <2>3. rpp'.endpoint \in StampAges(EndpointMax)
      BY <1>3 DEF Cursors
    <2> QED
      BY <1>1, <1>2, <1>3, <1>4, <2>2, <2>3 DEF MotionInv, MotionTyped, MotionTypeOK, Load, Stamps
  <1>6. ~Waits(rpp') /\ Engaged(rpp)' /\ LatchHolds' /\ RunsAreDriven'
    BY <1>3 DEF Waits, Engaged, LatchHolds, RunsAreDriven
  <1>7. Seen(C)'
    BY <1>4 DEF Seen
  <1>8. (rpp.travel <= far /\ rpp.seg <= far)'
    BY <1>3 DEF Load
  <1> QED
    BY <1>3, <1>4, <1>5, <1>6, <1>7, <1>8 DEF MotionInv, Waits

(* The parts of a tick that change nothing but the ages of the stamps.      *)
Unused == GateClosed \/ NoPath \/ AlreadyDone \/ JumpSkip

LEMMA UnusedFacts ==
  ASSUME Unused
  PROVE  ~Usable /\ rpp' = R /\ corner' = C /\ cmd' = "zero" /\ \E known \in {lastPos, TRUE} : Until(known)
  BY DEF Unused, GateClosed, NoPath, AlreadyDone, JumpSkip, PublishZero, Usable, Drives

LEMMA TickOutcome ==
  ASSUME MotionInv, Aligned \/ Proceed
  PROVE  Usable /\ Until(TRUE) /\ Outcome
  <1>1. Usable /\ Until(TRUE)
    BY DEF Aligned, Proceed
  <1>2. CASE Aligned
    <2> DEFINE r == [R EXCEPT !.align = FALSE]
    <2>1. OnRun /\ Carried(r) /\ Waits(r) = Waits(rpp)
      BY <1>1, TickBegins
    <2>2. Track(r, NoCorner)
      BY <1>2 DEF Aligned
    <2> HIDE DEF r
    <2> QED
      BY <1>1, <2>1, <2>2, NoCornerTyped, NoCornerSeen, TrackOutcome
  <1>3. CASE Proceed
    <2>1. OnRun /\ C \in Stamps /\ Carried(R)
      BY <1>1, <1>3, TickBegins DEF Proceed
    <2>2. Waits(R) => Seen(C)
      BY AgedCursor DEF MotionInv, MotionTyped, Awaited
    <2> QED
      BY <1>1, <1>3, <2>1, <2>2, TrackOutcome DEF Proceed
  <1> QED
    BY <1>1, <1>2, <1>3

LEMMA MotionInitial == MotionInit => MotionInv
  <1> SUFFICES ASSUME MotionInit PROVE MotionInv
    OBVIOUS
  <1>1. rpp \in Cursors /\ ~Waits(rpp)
    BY DEF MotionInit, Cursors, Waits, StampAges
  <1>2. MotionTyped
    <2>1. Len(runs) = 0 /\ 0 \in 0..0
      BY DEF MotionInit
    <2>2. Dwell \in Nat /\ MaxHold \in Nat
      BY MotionAssumption
    <2>3. rpp.endpoint \in StampAges(EndpointMax)
      BY <1>1 DEF Cursors
    <2>4. MotionTypeOK
      BY <2>1, <2>2, <2>3, NoCornerTyped DEF MotionInit, MotionTypeOK, Stamps
    <2> QED
      BY <1>1, <2>4 DEF MotionInit, MotionTyped
  <1>3. Seen(C)
    <2>1. C.settle = None /\ C.entered = None
      BY NoCornerTyped, AgedTyped DEF MotionInit, C, NoCorner, StampOlder
    <2> QED
      BY <2>1 DEF Seen
  <1> QED
    BY <1>1, <1>2, <1>3 DEF MotionInit, MotionInv, Waits, Engaged, LatchHolds, RunsAreDriven

LEMMA MotionSteps ==
  ASSUME MotionInv, [MotionNext]_motionVars
  PROVE  MotionInv'
  <1>1. ASSUME NEW m \in Missions, Load(m) PROVE MotionInv'
    BY <1>1, LoadKeeps
  <1>2. CASE Unused
    BY <1>2, UnusedFacts, UnusedKeeps
  <1>3. CASE Align
    BY <1>3, TurnKeeps
  <1>4. CASE Aligned \/ Proceed
    BY <1>4, TickOutcome, OutcomeKeeps
  <1>5. CASE UNCHANGED motionVars
    <2>1. Run' = Run /\ HasNext' = HasNext /\ C' = C
      BY <1>5 DEF motionVars, control, Run, HasNext, C
    <2> QED
      BY <1>5, <2>1 DEF motionVars, control, world, historyVars, MotionInv, MotionTyped, MotionTypeOK,
           Waits, Engaged, MinTravel, LatchHolds, Awaited, Seen, RunsAreDriven
  <1> QED
    BY <1>1, <1>2, <1>3, <1>4, <1>5 DEF MotionNext, Unused

(* The strengthened invariant of the control tick.                          *)
THEOREM MotionInvariant == MotionSpec => []MotionInv
  BY MotionInitial, MotionSteps, PTL DEF MotionSpec

(* The end of a run and of a path is reached by driving it, and then the    *)
(* rover is held there.                                                     *)
THEOREM EndsAlwaysEarned == MotionSpec => []EndsAreEarned
  <1>1. MotionInv => EndsAreEarned
    BY DEF MotionInv, EndsAreEarned
  <1> QED
    BY <1>1, MotionInvariant, PTL

LEMMA StopStep ==
  ASSUME MotionInv, [MotionNext]_motionVars,
         \/ runs' = runs /\ rpp'.run = rpp.run + 1 /\ rpp'.align /\ Run.length > 0
         \/ rpp'.done /\ ~rpp.done /\ Run.length > 0
  PROVE  StopSeen
  <1>1. rpp \in Cursors
    BY DEF MotionInv, MotionTyped
  <1>2. R.run = rpp.run /\ R.done = rpp.done /\ rpp.run \in Nat
    BY <1>1, AgedCursor DEF Cursors
  <1>3. ASSUME NEW m \in Missions, Load(m) PROVE FALSE
    <2>1. rpp'.run = 1 /\ ~rpp'.done /\ runs' = m /\ m # <<>>
      BY <1>3, MotionAssumption DEF Load, Applied, Cursor
    <2>2. runs = m /\ rpp.run = 0
      BY <1>2, <2>1
    <2> QED
      BY <2>1, <2>2 DEF MotionInv, MotionTyped, MotionTypeOK
  <1>4. CASE Unused
    BY <1>2, <1>4, UnusedFacts
  <1>5. CASE Align
    <2>1. rpp' = R
      BY <1>5, TickBegins, SpinFacts DEF Align
    <2> QED
      BY <1>2, <2>1
  <1>6. CASE Aligned \/ Proceed
    <2>1. Usable /\ Outcome /\ OnRun
      BY <1>6, TickOutcome, UsableOnRun DEF Usable
    <2>2. CASE Moves
      BY <1>2, <2>2 DEF Moves, Left
    <2>3. CASE Holds
      BY <1>2, <2>3 DEF Holds, Left
    <2>4. CASE EndsAtOnce
      BY <1>2, <2>4 DEF EndsAtOnce
    <2>5. CASE Advances
      <3>1. ~rpp'.done
        BY <2>5 DEF Advances, Applied, Cursor
      <3> QED
        BY <2>5, <3>1 DEF Advances
    <2> QED
      BY <2>1, <2>2, <2>3, <2>4, <2>5 DEF Outcome
  <1>7. CASE UNCHANGED motionVars
    BY <1>2, <1>7 DEF motionVars, control
  <1> QED
    BY <1>3, <1>4, <1>5, <1>6, <1>7 DEF MotionNext, Unused

(* No turn on the spot, no next run and no DONE without a stop that was     *)
(* seen, by a velocity that is fresh or by the time the rover was held.     *)
THEOREM StopsAlwaysSeen == MotionSpec => StopsAreSeen
  <1>1. MotionInv /\ [MotionNext]_motionVars =>
          (\/ runs' = runs /\ rpp'.run = rpp.run + 1 /\ rpp'.align /\ Run.length > 0
           \/ rpp'.done /\ ~rpp.done /\ Run.length > 0
           => StopSeen)
    BY StopStep
  <1>2. MotionInv => (cmd' = "pivot" /\ Align => rested')
    BY TurnKeeps
  <1> QED
    BY <1>1, <1>2, MotionInvariant, PTL DEF MotionSpec, StopsAreSeen, StopConfirmed, AlignsFromRest
=============================================================================
