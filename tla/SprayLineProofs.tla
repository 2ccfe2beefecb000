---------------------------- MODULE SprayLineProofs ----------------------------
(***************************************************************************)
(* What the spray node keeps on every path, for any errors of the pose,    *)
(* disturbances and reports: its types, among them that a projection lies  *)
(* on the path, and the grid of the dash meter.                            *)
(*                                                                         *)
(* The stations of a path and the flips of the meter are recursive         *)
(* functions.  That they exist, and what they compute, is shown by         *)
(* induction in the form of a least counterexample (Least): a set of       *)
(* natural numbers stands for the predicate.                               *)
(***************************************************************************)
EXTENDS SprayLine, WellFoundedInduction, TLAPS

-----------------------------------------------------------------------------
(* Least and greatest elements                                             *)

Below == {ss \in Nat \X Nat : ss[1] < ss[2]}

LEMMA BelowFounded == IsWellFoundedOn(Below, Nat)
  BY NatLessThanWellFounded DEF OpToRel, Below

LEMMA Least ==
  ASSUME NEW T, T \subseteq Nat, T # {}
  PROVE  \E n \in T : \A m \in T : n <= m
  <1>1. PICK n \in T : \A m \in T : ~(<<m, n>> \in Below)
    BY BelowFounded, WFMin
  <1>2. \A m \in T : ~(m < n)
    BY <1>1 DEF Below
  <1>3. QED
    BY <1>2

LEMMA MinOfNat ==
  ASSUME NEW S, S \subseteq Nat, S # {}
  PROVE  Min(S) \in S /\ \A x \in S : Min(S) <= x
  <1>1. \E x \in S : \A y \in S : x =< y
    BY Least
  <1>2. QED
    BY <1>1 DEF Min

LEMMA MaxBelow ==
  ASSUME NEW n \in Nat, NEW S, S \subseteq 1 .. n, S # {}
  PROVE  Max(S) \in S /\ \A x \in S : x <= Max(S)
  <1> DEFINE T == {n - x : x \in S}
  <1>1. T \subseteq Nat /\ T # {}
    <2>1. \A x \in S : n - x \in Nat
      OBVIOUS
    <2>2. QED
      BY <2>1
  <1>2. PICK k \in T : \A m \in T : k <= m
    BY <1>1, Least
  <1>3. PICK x \in S : k = n - x
    BY <1>2
  <1>4. \A y \in S : k <= n - y
    BY <1>2
  <1>5. \A y \in S : x >= y
    BY <1>3, <1>4
  <1>6. QED
    BY <1>5 DEF Max

-----------------------------------------------------------------------------
(* The path model                                                          *)

LEMMA AlongNat ==
  ASSUME NEW p \in Int \X Int, NEW q \in Int \X Int
  PROVE  Along(p, q) \in Nat
  BY DEF Along, Abs

LEMMA SquareNat ==
  ASSUME NEW p \in Int \X Int, NEW q \in Int \X Int
  PROVE  Square(p, q) \in Nat
  <1>1. \A x \in Int : x * x \in Nat
    <2>1. \A x \in Nat : x * x \in Nat
      OBVIOUS
    <2>2. \A x \in Int : x \in Nat \/ -x \in Nat
      OBVIOUS
    <2>3. \A x \in Int : (-x) * (-x) = x * x
      OBVIOUS
    <2>4. QED
      BY <2>1, <2>2, <2>3
  <1>2. p[1] - q[1] \in Int /\ p[2] - q[2] \in Int
    OBVIOUS
  <1>3. (p[1] - q[1]) * (p[1] - q[1]) \in Nat /\ (p[2] - q[2]) * (p[2] - q[2]) \in Nat
    BY <1>1, <1>2
  <1>4. QED
    BY <1>3 DEF Square

(* The stations are what their recursion says.                             *)
LEMMA StationsExist ==
  ASSUME NEW points \in Seq(Int \X Int)
  PROVE  Stations(points) =
           [i \in DOMAIN points |-> IF i = 1 THEN 0 ELSE Stations(points)[i - 1] + Along(points[i - 1], points[i])]
  <1> DEFINE D == DOMAIN points
             Eq(f, i) == f[i] = IF i = 1 THEN 0 ELSE f[i - 1] + Along(points[i - 1], points[i])
             Upto(n) == \E f : f = [i \in D |-> f[i]] /\ \A i \in D : i <= n => Eq(f, i)
             T == {n \in Nat : ~Upto(n)}
  <1>1. D = 1 .. Len(points) /\ Len(points) \in Nat
    OBVIOUS
  <1>2. Upto(0)
    <2>1. \A i \in D : ~(i <= 0)
      BY <1>1
    <2>2. [i \in D |-> 0] = [i \in D |-> [j \in D |-> 0][i]]
      OBVIOUS
    <2>3. QED
      BY <2>1, <2>2
  <1>3. ASSUME NEW n \in Nat, Upto(n) PROVE Upto(n + 1)
    <2>1. PICK f : f = [i \in D |-> f[i]] /\ \A i \in D : i <= n => Eq(f, i)
      BY <1>3
    <2> DEFINE g == [i \in D |-> IF i = 1 THEN 0 ELSE f[i - 1] + Along(points[i - 1], points[i])]
    <2>2. g = [i \in D |-> g[i]]
      OBVIOUS
    <2>3. ASSUME NEW i \in D, i <= n + 1 PROVE Eq(g, i)
      <3>1. CASE i = 1
        BY <3>1
      <3>2. CASE i # 1
        <4>1. i - 1 \in D /\ i - 1 <= n
          BY <1>1, <2>3, <3>2
        <4>2. Eq(f, i - 1)
          BY <2>1, <4>1
        <4>3. g[i - 1] = f[i - 1]
          BY <4>1, <4>2
        <4>4. QED
          BY <4>3, <3>2
      <3>3. QED
        BY <3>1, <3>2
    <2>4. QED
      <3> HIDE DEF g, Eq, D
      <3> QED BY <2>2, <2>3
  <1>4. T = {}
    <2> SUFFICES ASSUME T # {} PROVE FALSE
      OBVIOUS
    <2> HIDE DEF Upto
    <2>1. PICK n \in T : \A m \in T : n <= m
      BY Least
    <2>2. n # 0 /\ n \in Nat
      BY <1>2
    <2>3. n - 1 \in Nat /\ n - 1 \notin T
      BY <2>1, <2>2
    <2>4. Upto(n - 1 + 1) /\ n - 1 + 1 = n
      BY <2>3, <1>3
    <2>5. QED
      BY <2>1, <2>4
  <1>5. PICK f : f = [i \in D |-> f[i]] /\ \A i \in D : i <= Len(points) => Eq(f, i)
    BY <1>4, <1>1
  <1>6. f = [i \in D |-> IF i = 1 THEN 0 ELSE f[i - 1] + Along(points[i - 1], points[i])]
    <2>1. \A i \in D : Eq(f, i)
      <3> HIDE DEF Eq
      <3> QED BY <1>1, <1>5
    <2>2. [i \in D |-> f[i]] = [i \in D |-> IF i = 1 THEN 0 ELSE f[i - 1] + Along(points[i - 1], points[i])]
      BY <2>1
    <2>3. QED
      BY <1>5, <2>2
  <1>7. QED
    BY <1>6 DEF Stations

(* What the lemmas below use of a path model.                              *)
Modelled(m) ==
  /\ m.points \in Seq(Int \X Int) /\ m.flags \in Seq(BOOLEAN)
  /\ Len(m.points) = Len(m.flags) /\ Len(m.points) > 1
  /\ Len(m.s) = Len(m.points)
  /\ m.s \in [1 .. Len(m.points) -> Nat]
  /\ m.s[1] = 0
  /\ \A i \in Legs(m) : m.s[i + 1] = m.s[i] + Along(m.points[i], m.points[i + 1])
  /\ \A i \in 1 .. Len(m.points) : m.s[i] <= EndOf(m)
  /\ \A b \in m.boundaries : b.s \in Nat

LEMMA PathModelled ==
  ASSUME NEW p \in Paths
  PROVE  Modelled(ModelOf(p))
  <1> DEFINE n == Len(p.points)
             s == Stations(p.points)
             m == ModelOf(p)
  <1>1. /\ p.points \in Seq(Int \X Int) /\ p.flags \in Seq(BOOLEAN)
        /\ n = Len(p.flags) /\ n > 1 /\ n \in Nat
        /\ DOMAIN p.points = 1 .. n
    <2>1. /\ p.points \in Seq(Int \X Int) /\ p.flags \in Seq(BOOLEAN)
          /\ n = Len(p.flags) /\ n > 1
      BY LineAssumption
    <2>2. n \in Nat /\ DOMAIN p.points = 1 .. n
      BY <2>1
    <2>3. QED
      BY <2>1, <2>2
  <1>2. s = [i \in 1 .. n |-> IF i = 1 THEN 0 ELSE s[i - 1] + Along(p.points[i - 1], p.points[i])]
    BY <1>1, StationsExist
  <1>3. \A i \in 1 .. n : p.points[i] \in Int \X Int
    BY <1>1
  <1> HIDE DEF n, s
  <1>4. s[1] = 0 /\ \A i \in 2 .. n : s[i] = s[i - 1] + Along(p.points[i - 1], p.points[i])
    <2>1. 1 \in 1 .. n
      BY <1>1
    <2>2. \A i \in 2 .. n : i \in 1 .. n /\ i # 1
      BY <1>1
    <2>3. QED
      BY <1>2, <2>1, <2>2
  <1>5. \A i \in 1 .. n : s[i] \in Nat
    <2> DEFINE T == {i \in Nat : i \in 1 .. n /\ s[i] \notin Nat}
    <2>1. T = {}
      <3> SUFFICES ASSUME T # {} PROVE FALSE
        OBVIOUS
      <3>1. PICK i \in T : \A j \in T : i <= j
        BY Least
      <3>2. i \in 2 .. n
        BY <1>4, <3>1, <1>1
      <3>3. i - 1 \in 1 .. n /\ i - 1 \in Nat /\ s[i - 1] \in Nat
        <4>1. i - 1 \in 1 .. n /\ i - 1 \in Nat /\ ~(i <= i - 1)
          BY <3>2, <1>1
        <4>2. i - 1 \notin T
          BY <3>1, <4>1
        <4>3. QED
          BY <4>1, <4>2
      <3>4. Along(p.points[i - 1], p.points[i]) \in Nat
        BY <1>3, <3>2, <3>3, AlongNat
      <3>5. QED
        BY <1>4, <3>1, <3>2, <3>3, <3>4
    <2>2. QED
      BY <2>1, <1>1
  <1>6. \A i \in 1 .. n : s[i] <= s[n]
    <2> DEFINE T == {k \in Nat : k < n /\ ~(s[n - k] <= s[n])}
    <2>1. T = {}
      <3> SUFFICES ASSUME T # {} PROVE FALSE
        OBVIOUS
      <3>1. PICK k \in T : \A j \in T : k <= j
        BY Least
      <3>2. n \in 1 .. n /\ s[n] \in Nat
        BY <1>1, <1>5
      <3>3. k # 0
        BY <3>1, <3>2, <1>1
      <3>4. k - 1 \in Nat /\ k - 1 < n /\ s[n - (k - 1)] <= s[n]
        <4>1. k - 1 \in Nat /\ k - 1 < n /\ ~(k <= k - 1)
          BY <3>3, <1>1
        <4>2. k - 1 \notin T
          BY <3>1, <4>1
        <4>3. QED
          BY <4>1, <4>2
      <3>5. n - (k - 1) \in 2 .. n /\ (n - (k - 1)) - 1 = n - k /\ n - k \in 1 .. n
        <4>1. k \in Nat /\ k < n
          BY <3>1
        <4> HIDE DEF T
        <4>2. QED
          BY <4>1, <3>3, <1>1
      <3>6. s[n - (k - 1)] = s[n - k] + Along(p.points[n - k], p.points[n - (k - 1)])
        BY <1>4, <3>5
      <3>7. Along(p.points[n - k], p.points[n - (k - 1)]) \in Nat
        BY <1>3, <3>5, AlongNat
      <3>8. s[n - k] \in Nat /\ s[n - (k - 1)] \in Nat
        BY <1>5, <3>5
      <3>9. QED
        BY <3>1, <3>2, <3>4, <3>6, <3>7, <3>8
    <2>2. ASSUME NEW i \in 1 .. n PROVE s[i] <= s[n]
      <3>1. n - i \in Nat /\ n - i < n /\ n - (n - i) = i
        BY <1>1
      <3>2. n - i \notin T
        BY <2>1
      <3>3. QED
        BY <3>1, <3>2
    <2>3. QED
      BY <2>2
  <1>7. s \in [1 .. n -> Nat] /\ Len(s) = n
    <2>1. s \in [1 .. n -> Nat]
      BY <1>2, <1>5
    <2>2. Len(s) = n
      BY <1>1, <1>2
    <2>3. QED
      BY <2>1, <2>2
  <1>8. /\ m.points = p.points /\ m.flags = p.flags /\ m.s = s
        /\ m.boundaries = {[s |-> s[i], kind |-> Kind(p.flags[i])] :
                              i \in {j \in 2 .. n : p.flags[j] # p.flags[j - 1]}}
                           \cup {[s |-> s[i], kind |-> "MARK_TO_TRANSIT"] : i \in {j \in {n} : p.flags[j]}}
    BY DEF ModelOf, n, s
  <1> HIDE DEF m
  <1>9. \A b \in m.boundaries : b.s \in Nat
    <2>1. \A j \in 2 .. n : j \in 1 .. n
      BY <1>1
    <2>2. n \in 1 .. n
      BY <1>1
    <2>3. QED
      BY <1>5, <1>8, <2>1, <2>2
  <1>10. \A i \in 1 .. n - 1 : s[i + 1] = s[i] + Along(p.points[i], p.points[i + 1])
    <2>1. \A i \in 1 .. n - 1 : i + 1 \in 2 .. n /\ (i + 1) - 1 = i
      BY <1>1
    <2>2. QED
      BY <1>4, <2>1
  <1>11. Modelled(m)
    BY <1>1, <1>4, <1>6, <1>7, <1>8, <1>9, <1>10 DEF Modelled, Legs, EndOf, n
  <1>12. QED
    BY <1>11 DEF m

-----------------------------------------------------------------------------
(* Projections                                                             *)

LEMMA BetweenEnds ==
  ASSUME NEW x \in Int, NEW a \in Int, NEW b \in Int
  PROVE  Between(x, a, b) \in Int /\ Abs(a - Between(x, a, b)) <= Abs(a - b)
  BY DEF Between, Abs

LEMMA LegTyped ==
  ASSUME NEW m, Modelled(m), NEW i \in Legs(m)
  PROVE  /\ i \in 1 .. Len(m.points) /\ i + 1 \in 1 .. Len(m.points)
         /\ m.points[i] \in Int \X Int /\ m.points[i + 1] \in Int \X Int
         /\ m.s[i] \in Nat /\ m.s[i + 1] \in Nat
  <1>1. m.points \in Seq(Int \X Int) /\ Len(m.points) \in Nat /\ m.s \in [1 .. Len(m.points) -> Nat]
    BY DEF Modelled
  <1>2. i \in 1 .. Len(m.points) /\ i + 1 \in 1 .. Len(m.points)
    BY <1>1 DEF Legs
  <1>3. \A k \in 1 .. Len(m.points) : m.points[k] \in Int \X Int
    BY <1>1
  <1>4. QED
    BY <1>1, <1>2, <1>3

LEMMA Sized ==
  ASSUME NEW m, Modelled(m)
  PROVE  /\ Len(m.points) \in Nat /\ Len(m.points) > 1
         /\ EndOf(m) \in Nat
         /\ m.s \in [1 .. Len(m.points) -> Nat] /\ m.s[1] = 0
  <1>1. /\ m.points \in Seq(Int \X Int) /\ Len(m.points) > 1 /\ Len(m.s) = Len(m.points)
        /\ m.s \in [1 .. Len(m.points) -> Nat] /\ m.s[1] = 0
    BY Zenon DEF Modelled
  <1>2. Len(m.points) \in Nat
    BY <1>1
  <1>3. EndOf(m) = m.s[Len(m.points)] /\ Len(m.points) \in 1 .. Len(m.points)
    BY <1>1, <1>2 DEF EndOf
  <1>4. QED
    BY <1>1, <1>2, <1>3

(* The foot of a projection on a leg has a station of the path.            *)
LEMMA OnTyped ==
  ASSUME NEW m, Modelled(m), NEW i \in Legs(m), NEW p \in Int \X Int
  PROVE  /\ On(m, i, p).s \in 0 .. EndOf(m)
         /\ On(m, i, p).error \in Nat
         /\ On(m, i, p).error = Square(p, Foot(m, i, p))
  <1> DEFINE a == m.points[i]
             b == m.points[i + 1]
             foot == Foot(m, i, p)
  <1>1. /\ i \in 1 .. Len(m.points) /\ i + 1 \in 1 .. Len(m.points)
        /\ a \in Int \X Int /\ b \in Int \X Int
    BY LegTyped
  <1>2. /\ foot \in Int \X Int
        /\ Abs(a[1] - foot[1]) <= Abs(a[1] - b[1]) /\ Abs(a[2] - foot[2]) <= Abs(a[2] - b[2])
    <2>1. a[1] \in Int /\ a[2] \in Int /\ b[1] \in Int /\ b[2] \in Int /\ p[1] \in Int /\ p[2] \in Int
      BY <1>1
    <2>2. foot = <<Between(p[1], a[1], b[1]), Between(p[2], a[2], b[2])>>
      BY DEF Foot
    <2> DEFINE x == Between(p[1], a[1], b[1])
               y == Between(p[2], a[2], b[2])
    <2>3. /\ x \in Int /\ Abs(a[1] - x) <= Abs(a[1] - b[1])
          /\ y \in Int /\ Abs(a[2] - y) <= Abs(a[2] - b[2])
      BY <2>1, BetweenEnds
    <2> HIDE DEF a, b, foot, x, y
    <2>4. foot[1] = x /\ foot[2] = y /\ foot \in Int \X Int
      BY <2>2, <2>3 DEF x, y
    <2>5. QED
      BY <2>3, <2>4
  <1> HIDE DEF foot
  <1>3. Along(a, foot) \in Nat /\ Along(a, foot) <= Along(a, b)
    <2> HIDE DEF a, b
    <2>1. a[1] \in Int /\ a[2] \in Int /\ b[1] \in Int /\ b[2] \in Int
      BY <1>1
    <2>2. foot[1] \in Int /\ foot[2] \in Int
      BY <1>2
    <2>3. \A x \in Int, y \in Int : Abs(x - y) \in Nat
      BY DEF Abs
    <2>4. /\ Abs(a[1] - foot[1]) \in Nat /\ Abs(a[2] - foot[2]) \in Nat
          /\ Abs(a[1] - b[1]) \in Nat /\ Abs(a[2] - b[2]) \in Nat
      BY ZenonT(20), <2>1, <2>2, <2>3
    <2>5. QED
      BY <1>2, <2>4 DEF Along
  <1>4. On(m, i, p).s = m.s[i] + Along(a, foot) /\ On(m, i, p).error = Square(p, foot)
    BY DEF On, foot
  <1>5. m.s[i + 1] = m.s[i] + Along(a, b) /\ m.s[i + 1] <= EndOf(m) /\ m.s[i] \in Nat /\ m.s[i + 1] \in Nat
    BY <1>1 DEF Modelled
  <1>6. EndOf(m) \in Nat
    BY Sized
  <1>7. Along(a, b) \in Nat
    BY <1>1, AlongNat
  <1>8. Square(p, foot) \in Nat
    BY <1>2, SquareNat
  <1>9. QED
    <2> HIDE DEF a, b
    <2> QED BY <1>3, <1>4, <1>5, <1>6, <1>7, <1>8 DEF foot

LEMMA ScanTyped ==
  ASSUME NEW m, Modelled(m), NEW legs, legs \subseteq Legs(m), legs # {}, NEW p \in Int \X Int
  PROVE  Scan(m, legs, p).s \in 0 .. EndOf(m) /\ Scan(m, legs, p).error \in Nat
  <1> DEFINE square == [i \in legs |-> Square(p, Foot(m, i, p))]
             S == {square[i] : i \in legs}
             near == {i \in legs : square[i] = Min(S)}
  <1>1. \A i \in legs : square[i] \in Nat
    BY OnTyped
  <1>2. S \subseteq Nat /\ S # {}
    <2> HIDE DEF square
    <2> QED BY <1>1
  <1>3. Min(S) \in S
    <2> HIDE DEF S
    <2> QED BY <1>2, MinOfNat
  <1>4. near # {} /\ near \subseteq 1 .. Len(m.points) - 1
    <2> HIDE DEF square
    <2> QED BY <1>3 DEF Legs
  <1>5. Max(near) \in near
    <2> HIDE DEF near
    <2>1. Len(m.points) - 1 \in Nat
      BY DEF Modelled
    <2>2. QED
      BY <1>4, <2>1, MaxBelow
  <1>6. Max(near) \in Legs(m) /\ Scan(m, legs, p) = On(m, Max(near), p)
    BY <1>5 DEF Scan
  <1>7. QED
    <2> HIDE DEF near
    <2> QED BY <1>6, OnTyped

LEMMA ProjectionTyped ==
  ASSUME NEW m, Modelled(m), NEW p \in Int \X Int, NEW from, NEW heading
  PROVE  /\ Projection(m, p, from, heading).s \in 0 .. EndOf(m)
         /\ Projection(m, p, from, heading).error \in Nat
  <1>1. Legs(m) # {}
    <2>1. 1 \in Legs(m)
      BY DEF Modelled, Legs
    <2>2. QED
      BY <2>1
  <1>2. \E legs : legs # {} /\ legs \subseteq Legs(m) /\ Projection(m, p, from, heading) = Scan(m, legs, p)
    <2> DEFINE along == IF setup = "directed"
                        THEN {i \in Legs(m) : \/ Heading(m, i) = <<0, 0>>
                                               \/ Heading(m, i)[1] * heading[1] + Heading(m, i)[2] * heading[2] > 0}
                        ELSE {}
               window == IF from = Nowhere THEN {}
                         ELSE {i \in Legs(m) : m.s[i + 1] >= from - WindowBack /\ m.s[i] <= from + WindowFwd}
               trusted(legs) == legs # {} /\ Scan(m, legs, p).error <= Reacquire * Reacquire
    <2>1. Projection(m, p, from, heading) =
            Scan(m, IF trusted(window \cap along) THEN window \cap along
                    ELSE IF trusted(window) THEN window
                    ELSE IF trusted(along) THEN along ELSE Legs(m), p)
      BY Zenon DEF Projection
    <2>2. along \subseteq Legs(m) /\ window \subseteq Legs(m)
      OBVIOUS
    <2> HIDE DEF along, window
    <2>3. QED
      BY <1>1, <2>1, <2>2
  <1>3. QED
    BY <1>2, ScanTyped

LEMMA DisplacedTyped ==
  ASSUME NEW m, Modelled(m), NEW s \in 0 .. EndOf(m), NEW e \in Int \X Int
  PROVE  Displaced(m, s, e) \in Int \X Int
  <1> DEFINE S == {i \in Legs(m) : m.s[i] <= s}
  <1>1. Len(m.points) \in Nat /\ Len(m.points) > 1 /\ EndOf(m) \in Nat
    BY Sized
  <1>2. S \subseteq 1 .. Len(m.points) - 1 /\ 1 \in S
    <2>1. m.s[1] = 0 /\ 1 \in Legs(m)
      BY <1>1, Sized DEF Legs
    <2>2. QED
      BY <1>1, <2>1 DEF Legs
  <1>3. Max(S) \in S
    <2> HIDE DEF S
    <2>1. Len(m.points) - 1 \in Nat
      BY <1>1
    <2>2. QED
      BY <1>2, <2>1, MaxBelow
  <1>4. LegAt(m, s) \in Legs(m)
    BY <1>3 DEF LegAt
  <1> DEFINE i == LegAt(m, s)
  <1>5. /\ i \in 1 .. Len(m.points) /\ i + 1 \in 1 .. Len(m.points)
        /\ m.points[i] \in Int \X Int /\ m.points[i + 1] \in Int \X Int /\ m.s[i] \in Nat
    BY <1>4, LegTyped
  <1>6. Heading(m, i) \in {-1, 0, 1} \X {-1, 0, 1}
    <2>1. \A x \in Int : Sign(x) \in {-1, 0, 1}
      BY DEF Sign
    <2> DEFINE x == m.points[i + 1][1] - m.points[i][1]
               y == m.points[i + 1][2] - m.points[i][2]
    <2>2. x \in Int /\ y \in Int
      BY <1>5
    <2>3. Heading(m, i) = <<Sign(x), Sign(y)>>
      BY DEF Heading
    <2> HIDE DEF x, y, i
    <2>4. Sign(x) \in {-1, 0, 1} /\ Sign(y) \in {-1, 0, 1}
      BY <2>1, <2>2
    <2>5. QED
      BY <2>3, <2>4
  <1>7. \A x \in Int, h \in {-1, 0, 1} : x * h \in Int
    OBVIOUS
  <1>8. PointAt(m, s) \in Int \X Int
    <2> DEFINE a == m.points[i]
               h == Heading(m, i)
               d == s - m.s[i]
               x == d * h[1]
               y == d * h[2]
    <2>1. PointAt(m, s) = <<a[1] + x, a[2] + y>>
      BY DEF PointAt
    <2>2. d \in Int
      BY <1>5, <1>1
    <2>3. a[1] \in Int /\ a[2] \in Int
      BY <1>5
    <2> HIDE DEF a, d, i
    <2>4. h[1] \in {-1, 0, 1} /\ h[2] \in {-1, 0, 1}
      BY <1>6
    <2> HIDE DEF h
    <2>5. x \in Int /\ y \in Int
      BY <1>7, <2>2, <2>4
    <2> HIDE DEF x, y
    <2>6. a[1] + x \in Int /\ a[2] + y \in Int
      BY <2>3, <2>5
    <2>7. QED
      BY <2>1, <2>6
  <1>9. QED
    <2> DEFINE q == PointAt(m, s)
               h == Heading(m, i)
    <2>1. Displaced(m, s, e) = <<q[1] + e[1] * h[1] - e[2] * h[2], q[2] + e[1] * h[2] + e[2] * h[1]>>
      BY DEF Displaced
    <2>2. h[1] \in {-1, 0, 1} /\ h[2] \in {-1, 0, 1} /\ q \in Int \X Int
      BY <1>6, <1>8
    <2>3. /\ e[1] * h[1] \in Int /\ e[2] * h[2] \in Int
          /\ e[1] * h[2] \in Int /\ e[2] * h[1] \in Int
      BY <1>7, <2>2
    <2> HIDE DEF q, h
    <2>4. QED
      BY <2>1, <2>2, <2>3

-----------------------------------------------------------------------------
(* The dash meter                                                          *)

Period == OnDistance + OffDistance
Meter  == [armed : BOOLEAN, on : BOOLEAN, s : Nat, toggle : Nat, ref : Int, rejects : Nat,
           anchor : Nat \cup {Nowhere}, moved : BOOLEAN]

(* The toggles lie on the grid, and the last one was not early by more than *)
(* a lead.                                                                  *)
OnGrid(d) ==
  /\ \E k \in Nat : d.toggle = d.anchor + k * Period + IF d.on THEN 0 ELSE OnDistance
  /\ d.toggle > d.anchor => d.s >= d.toggle - IF d.on THEN OnLead(1) ELSE OffLead(1)
Gridded(d) == d.moved \/ d.anchor = Nowhere \/ OnGrid(d)

MeterInv(d) ==
  /\ d \in Meter
  /\ ~d.armed => d.on /\ ~d.moved
  /\ d.armed => Gridded(d) /\ d.s < d.toggle + Target(d.on)

LEMMA Distances == /\ OnDistance \in Nat \ {0} /\ OffDistance \in Nat \ {0}
                   /\ OpenDelay \in Nat /\ CloseDelay \in Nat
                   /\ JumpFactor \in Nat \ {0} /\ AcceptAfter \in Nat \ {0}
  BY LineAssumption

LEMMA LeadTyped ==
  ASSUME NEW s \in Nat, NEW v \in 0 .. 1, NEW d \in MetersAt(s)
  PROVE  /\ Target(d.on) \in Nat \ {0}
         /\ Lead(d, v) \in Nat /\ Lead(d, v) <= Target(d.on)
         /\ Lead(d, v) <= IF d.on THEN OffLead(1) ELSE OnLead(1)
         /\ Toggled(d) \in MetersAt(s)
         /\ Toggled(d).toggle = d.toggle + Target(d.on) /\ Toggled(d).on = ~d.on
         /\ Toggled(d).anchor = d.anchor /\ Toggled(d).moved = d.moved
         /\ Owes(d, v) <=> s >= d.toggle + Target(d.on) - Lead(d, v)
  <1>1. Target(d.on) \in Nat \ {0}
    BY Distances DEF Target
  <1>2. \A x \in Nat : v * x \in Nat /\ v * x <= x /\ 1 * x = x
    <2>1. v = 0 \/ v = 1
      OBVIOUS
    <2>2. QED
      BY <2>1
  <1>3. OffLead(v) \in Nat /\ OffLead(v) <= OffLead(1) /\ OnLead(v) \in Nat /\ OnLead(v) <= OnLead(1)
        /\ OffLead(1) \in Nat /\ OnLead(1) \in Nat
    BY <1>2, Distances DEF OffLead, OnLead
  <1>4. Lead(d, v) \in Nat /\ Lead(d, v) <= Target(d.on) /\ Lead(d, v) <= IF d.on THEN OffLead(1) ELSE OnLead(1)
    BY <1>1, <1>3 DEF Lead, Smaller
  <1>5. d.on \in BOOLEAN /\ d.toggle \in Nat /\ d.s = s
    BY DEF MetersAt
  <1>6. /\ Toggled(d) \in MetersAt(s)
        /\ Toggled(d).toggle = d.toggle + Target(d.on) /\ Toggled(d).on = ~d.on
        /\ Toggled(d).anchor = d.anchor /\ Toggled(d).moved = d.moved
    <2> DEFINE t == d.toggle + Target(d.on)
    <2>1. t \in Nat /\ (~d.on) \in BOOLEAN
      BY <1>1, <1>5
    <2>2. Toggled(d) = [d EXCEPT !.on = ~d.on, !.toggle = t]
      BY DEF Toggled
    <2> HIDE DEF t
    <2>3. Toggled(d) \in MetersAt(s)
      BY <2>1, <2>2 DEF MetersAt
    <2>4. Toggled(d).toggle = t
      BY <2>2 DEF MetersAt
    <2>5. Toggled(d).on = ~d.on
      BY <2>2, Zenon DEF MetersAt
    <2>6. Toggled(d).anchor = d.anchor /\ Toggled(d).moved = d.moved
      BY <2>2 DEF MetersAt
    <2>7. QED
      BY <2>3, <2>4, <2>5, <2>6 DEF t
  <1>7. QED
    BY <1>1, <1>4, <1>5, <1>6 DEF Owes

(* The flips are what their recursion says: every flip moves the last       *)
(* toggle on, and none is owed to a meter whose toggle lies ahead.          *)
LEMMA FlipsExist ==
  ASSUME NEW s \in Nat, NEW v \in 0 .. 1
  PROVE  Flips(s, v) = [d \in MetersAt(s) |-> IF Owes(d, v) THEN Flips(s, v)[Toggled(d)] ELSE d]
  <1> DEFINE M == MetersAt(s)
             Eq(f, d) == f[d] = IF Owes(d, v) THEN f[Toggled(d)] ELSE d
             Upto(n) == \E f : f = [d \in M |-> f[d]] /\ \A d \in M : s - d.toggle < n => Eq(f, d)
             T == {n \in Nat : ~Upto(n)}
  <1>1. \A d \in M : /\ d.toggle \in Nat /\ Toggled(d) \in M
                     /\ Toggled(d).toggle > d.toggle /\ Toggled(d).toggle \in Nat
                     /\ Owes(d, v) => d.toggle <= s
    <2> TAKE d \in M
    <2>1. d.toggle \in Nat
      BY DEF MetersAt
    <2>2. QED
      BY <2>1, LeadTyped
  <1> HIDE DEF M
  <1>2. Upto(0)
    <2> DEFINE id == [d \in M |-> d]
    <2>1. id = [d \in M |-> id[d]]
      OBVIOUS
    <2>2. \A d \in M : s - d.toggle < 0 => Eq(id, d)
      BY <1>1
    <2> HIDE DEF id, Eq
    <2>3. QED
      BY <2>1, <2>2
  <1>3. ASSUME NEW n \in Nat, Upto(n) PROVE Upto(n + 1)
    <2>1. PICK f : f = [d \in M |-> f[d]] /\ \A d \in M : s - d.toggle < n => Eq(f, d)
      BY <1>3
    <2> DEFINE g == [d \in M |-> IF Owes(d, v) THEN f[Toggled(d)] ELSE d]
    <2>2. g = [d \in M |-> g[d]]
      OBVIOUS
    <2>3. ASSUME NEW d \in M, s - d.toggle < n + 1 PROVE Eq(g, d)
      <3> DEFINE e == Toggled(d)
      <3>1. e \in M /\ s - e.toggle < n
        BY <1>1, <2>3
      <3>2. Eq(f, e)
        <4> HIDE DEF Eq
        <4> QED BY <2>1, <3>1
      <3>3. g[e] = f[e]
        <4> HIDE DEF e
        <4> QED BY <3>1, <3>2
      <3>4. QED
        BY <3>3
    <2>4. QED
      <3> HIDE DEF g, Eq
      <3> QED BY <2>2, <2>3
  <1>4. T = {}
    <2> SUFFICES ASSUME T # {} PROVE FALSE
      OBVIOUS
    <2> HIDE DEF Upto
    <2>1. PICK n \in T : \A m \in T : n <= m
      BY Least
    <2>2. n # 0 /\ n \in Nat
      BY <1>2
    <2>3. n - 1 \in Nat /\ n - 1 \notin T
      BY <2>1, <2>2
    <2>4. Upto(n - 1 + 1) /\ n - 1 + 1 = n
      BY <2>3, <1>3
    <2>5. QED
      BY <2>1, <2>4
  <1>5. PICK f : f = [d \in M |-> f[d]] /\ \A d \in M : s - d.toggle < s + 1 => Eq(f, d)
    <2> HIDE DEF Upto
    <2>1. Upto(s + 1)
      BY <1>4
    <2>2. QED
      BY <2>1 DEF Upto
  <1>6. f = [d \in M |-> IF Owes(d, v) THEN f[Toggled(d)] ELSE d]
    <2>1. \A d \in M : Eq(f, d)
      <3> HIDE DEF Eq
      <3> QED BY <1>1, <1>5
    <2>2. [d \in M |-> f[d]] = [d \in M |-> IF Owes(d, v) THEN f[Toggled(d)] ELSE d]
      BY <2>1
    <2>3. QED
      BY <1>5, <2>2
  <1>7. QED
    BY <1>6 DEF Flips, M

(* One flip keeps to the grid.                                             *)
LEMMA ToggleOnGrid ==
  ASSUME NEW s \in Nat, NEW v \in 0 .. 1, NEW d \in MetersAt(s), d.anchor \in Nat,
         Owes(d, v), OnGrid(d)
  PROVE  OnGrid(Toggled(d))
  <1> DEFINE e == Toggled(d)
  <1>1. d.on \in BOOLEAN /\ d.toggle \in Nat /\ d.s = s /\ e.s = s
    BY LeadTyped DEF MetersAt
  <1>2. /\ e.toggle = d.toggle + Target(d.on) /\ e.on = ~d.on /\ e.anchor = d.anchor
        /\ Lead(d, v) \in Nat /\ Lead(d, v) <= IF d.on THEN OffLead(1) ELSE OnLead(1)
        /\ s >= d.toggle + Target(d.on) - Lead(d, v)
        /\ Target(d.on) \in Nat
    BY LeadTyped
  <1>3. PICK k \in Nat : d.toggle = d.anchor + k * Period + IF d.on THEN 0 ELSE OnDistance
    BY DEF OnGrid
  <1>4. Period \in Nat /\ Period = OnDistance + OffDistance /\ OnDistance \in Nat /\ OffDistance \in Nat
    BY Distances DEF Period
  <1>5. k * Period \in Nat /\ (k + 1) * Period = k * Period + Period
    BY <1>4
  <1>6. \E j \in Nat : e.toggle = e.anchor + j * Period + IF e.on THEN 0 ELSE OnDistance
    <2>1. CASE d.on
      <3>1. Target(d.on) = OnDistance /\ d.toggle = d.anchor + k * Period + 0 /\ ~e.on
        BY <1>2, <1>3, <2>1 DEF Target
      <3>2. e.toggle = e.anchor + k * Period + OnDistance
        <4> HIDE DEF e
        <4> QED BY <1>2, <1>4, <1>5, <3>1
      <3>3. QED
        BY <3>1, <3>2
    <2>2. CASE ~d.on
      <3>1. Target(d.on) = OffDistance /\ d.toggle = d.anchor + k * Period + OnDistance /\ e.on
        BY <1>2, <1>3, <2>2 DEF Target
      <3>2. e.toggle = e.anchor + (k + 1) * Period + 0
        <4> HIDE DEF e
        <4> QED BY <1>2, <1>4, <1>5, <3>1
      <3>3. k + 1 \in Nat
        OBVIOUS
      <3>4. QED
        BY <3>1, <3>2, <3>3
    <2>3. QED
      BY <2>1, <2>2
  <1>7. OffLead(1) \in Nat /\ OnLead(1) \in Nat
    BY Distances DEF OffLead, OnLead
  <1>8. e.s >= e.toggle - IF e.on THEN OnLead(1) ELSE OffLead(1)
    <2>1. Lead(d, v) <= IF e.on THEN OnLead(1) ELSE OffLead(1)
      BY <1>1, <1>2
    <2> HIDE DEF e
    <2>2. e.s = s /\ e.toggle = d.toggle + Target(d.on)
      BY <1>1, <1>2
    <2>3. QED
      BY <1>1, <1>2, <1>7, <2>1, <2>2
  <1>9. QED
    BY <1>6, <1>8 DEF OnGrid

(* However many flips a tick owes, they leave the meter on the grid with    *)
(* its next toggle ahead.                                                   *)
LEMMA FlippedOnGrid ==
  ASSUME NEW s \in Nat, NEW v \in 0 .. 1, NEW a \in MetersAt(s),
         a.anchor \in Nat \cup {Nowhere}, Gridded(a)
  PROVE  /\ Flipped(a, v) \in MetersAt(s)
         /\ Flipped(a, v).anchor = a.anchor /\ Flipped(a, v).moved = a.moved
         /\ Gridded(Flipped(a, v))
         /\ s < Flipped(a, v).toggle + Target(Flipped(a, v).on)
  <1> DEFINE F == Flips(s, v)
             Good(d) == /\ F[d] \in MetersAt(s)
                        /\ F[d].anchor = d.anchor /\ F[d].moved = d.moved
                        /\ Gridded(F[d])
                        /\ s < F[d].toggle + Target(F[d].on)
             T == {n \in Nat : \E d \in MetersAt(s) :
                                 /\ d.anchor \in Nat \cup {Nowhere} /\ Gridded(d)
                                 /\ s + 1 - d.toggle <= n /\ ~Good(d)}
  <1>1. \A d \in MetersAt(s) : F[d] = IF Owes(d, v) THEN F[Toggled(d)] ELSE d
    <2>1. F = [d \in MetersAt(s) |-> IF Owes(d, v) THEN F[Toggled(d)] ELSE d]
      BY FlipsExist
    <2> HIDE DEF F
    <2>2. QED
      BY <2>1
  <1> HIDE DEF F
  <1>2. T = {}
    <2> SUFFICES ASSUME T # {} PROVE FALSE
      OBVIOUS
    <2>1. PICK n \in T : \A m \in T : n <= m
      <3> HIDE DEF T
      <3>1. T \subseteq Nat
        BY DEF T
      <3>2. QED
        BY <3>1, Least
    <2>2. PICK d \in MetersAt(s) : /\ d.anchor \in Nat \cup {Nowhere} /\ Gridded(d)
                                   /\ s + 1 - d.toggle <= n /\ ~Good(d)
      BY <2>1
    <2>3. d.toggle \in Nat /\ d.on \in BOOLEAN /\ n \in Nat
      BY <2>1 DEF MetersAt
    <2> DEFINE e == Toggled(d)
    <2>4. /\ Target(d.on) \in Nat \ {0} /\ Lead(d, v) \in Nat /\ Lead(d, v) <= Target(d.on)
          /\ e \in MetersAt(s) /\ e.toggle = d.toggle + Target(d.on)
          /\ e.anchor = d.anchor /\ e.moved = d.moved
          /\ Owes(d, v) <=> s >= d.toggle + Target(d.on) - Lead(d, v)
      BY LeadTyped
    <2>5. Owes(d, v)
      <3> SUFFICES ASSUME ~Owes(d, v) PROVE FALSE
        OBVIOUS
      <3>1. F[d] = d
        BY <1>1
      <3>2. s < d.toggle + Target(d.on)
        BY <2>3, <2>4
      <3>3. QED
        BY <2>2, <3>1, <3>2
    <2>6. F[d] = F[e]
      BY <1>1, <2>5
    <2>7. Gridded(e)
      BY <2>2, <2>4, <2>5, ToggleOnGrid DEF Gridded, Nowhere
    <2>8. ~Good(e)
      BY <2>2, <2>4, <2>6
    <2>9. n - 1 \in Nat /\ s + 1 - e.toggle <= n - 1
      <3> HIDE DEF e, Good
      <3> QED BY <2>2, <2>3, <2>4, <2>5
    <2>10. n - 1 \in T
      <3> HIDE DEF e, Good
      <3> QED BY <2>2, <2>4, <2>7, <2>8, <2>9
    <2>11. QED
      <3> HIDE DEF T
      <3> QED BY <2>1, <2>3, <2>10
  <1>3. Good(a)
    <2> SUFFICES ASSUME ~Good(a) PROVE FALSE
      OBVIOUS
    <2>1. a.toggle \in Nat
      BY DEF MetersAt
    <2>2. PICK n \in Nat : s + 1 - a.toggle <= n
      <3>1. s + 1 \in Nat /\ s + 1 - a.toggle <= s + 1
        BY <2>1
      <3>2. QED
        BY <3>1
    <2>3. n \in T
      <3> HIDE DEF Good
      <3> QED BY <2>2
    <2>4. QED
      BY <1>2, <2>3
  <1>4. Flipped(a, v) = F[a]
    BY DEF Flipped, F, MetersAt
  <1>5. QED
    BY <1>3, <1>4

LEMMA ArmedMeter ==
  ASSUME NEW s \in Nat, NEW on \in BOOLEAN, NEW toggle \in Nat, NEW ref \in Int, NEW rejects \in Nat,
         NEW anchor \in Nat \cup {Nowhere}, NEW moved \in BOOLEAN
  PROVE  [armed |-> TRUE, on |-> on, s |-> s, toggle |-> toggle, ref |-> ref, rejects |-> rejects,
          anchor |-> anchor, moved |-> moved] \in MetersAt(s)
  BY DEF MetersAt, Nowhere

(* DashMeter.update, from an invariant of the meter to it again.           *)
LEMMA MeteredKeeps ==
  ASSUME NEW d, MeterInv(d), NEW s \in Nat, NEW v \in 0 .. 1, NEW error \in Nat
  PROVE  MeterInv(Metered(d, s, v, error))
  <1> DEFINE step == v * JumpFactor
             armed == [d EXCEPT !.armed = TRUE, !.s = s, !.ref = Nowhere, !.rejects = 0,
                                !.toggle = IF d.anchor # Nowhere THEN d.anchor ELSE s]
             driven == [d EXCEPT !.s = s, !.ref = Nowhere, !.rejects = 0]
  <1>1. /\ d \in Meter /\ d.armed \in BOOLEAN /\ d.on \in BOOLEAN /\ d.s \in Nat /\ d.toggle \in Nat
        /\ d.ref \in Int /\ d.rejects \in Nat /\ d.anchor \in Nat \cup {Nowhere} /\ d.moved \in BOOLEAN
    BY DEF MeterInv, Meter
  <1>2. step \in Nat /\ Nowhere \in Int /\ Nowhere \notin Nat
    BY Distances DEF Nowhere
  <1>3. ASSUME NEW e, e \in MetersAt(e.s), e.s \in Nat, e.anchor \in Nat \cup {Nowhere}, Gridded(e)
        PROVE  MeterInv(Flipped(e, v))
    <2>1. /\ Flipped(e, v) \in MetersAt(e.s) /\ Flipped(e, v).anchor = e.anchor
          /\ Gridded(Flipped(e, v))
          /\ e.s < Flipped(e, v).toggle + Target(Flipped(e, v).on)
      BY <1>3, FlippedOnGrid
    <2> DEFINE r == Flipped(e, v)
    <2> HIDE DEF r
    <2>2. r \in Meter /\ r.armed /\ r.s = e.s
      BY <2>1, <1>3 DEF MetersAt, Meter, r
    <2>3. QED
      BY <2>1, <2>2 DEF MeterInv, r
  <1>4. CASE ~d.armed /\ error > Clear * Clear
    BY <1>4 DEF Metered
  <1>5. CASE ~d.armed /\ ~(error > Clear * Clear)
    <2>1. armed.s = s /\ armed.anchor = d.anchor /\ armed \in MetersAt(armed.s)
      <3> DEFINE t == IF d.anchor # Nowhere THEN d.anchor ELSE s
      <3>1. t \in Nat
        BY <1>1
      <3>2. armed = [d EXCEPT !.armed = TRUE, !.s = s, !.ref = Nowhere, !.rejects = 0, !.toggle = t]
        OBVIOUS
      <3> HIDE DEF t, armed
      <3>3. armed.s = s /\ armed.anchor = d.anchor
        BY <1>1, <3>2 DEF Meter
      <3>4. armed \in MetersAt(s)
        <4>1. armed = [armed |-> TRUE, on |-> d.on, s |-> s, toggle |-> t, ref |-> Nowhere, rejects |-> 0,
                       anchor |-> d.anchor, moved |-> d.moved]
          BY <1>1, <3>2 DEF Meter
        <4>2. QED
          BY <1>1, <1>2, <3>1, <4>1, ArmedMeter
      <3>5. QED
        BY <3>3, <3>4
    <2>2. Gridded(armed)
      <3>1. armed.on /\ (d.anchor # Nowhere => armed.toggle = d.anchor)
        BY <1>1, <1>5 DEF Meter, MeterInv
      <3>2. d.anchor # Nowhere => armed.toggle = armed.anchor + 0 * Period + 0
        BY <1>1, <2>1, <3>1, Distances DEF Period
      <3>3. d.anchor # Nowhere => OnGrid(armed)
        <4> HIDE DEF armed
        <4> QED BY <1>1, <2>1, <3>1, <3>2 DEF OnGrid
      <3>4. QED
        BY <2>1, <3>3 DEF Gridded
    <2>3. Metered(d, s, v, error) = Flipped(armed, v)
      BY <1>5 DEF Metered
    <2>4. QED
      BY <1>1, <1>3, <2>1, <2>2, <2>3
  <1>6. CASE d.armed /\ s - d.s \in 0 .. step
    <2>1. driven.s = s /\ driven.anchor = d.anchor /\ driven \in MetersAt(driven.s)
      <3>1. driven = [d EXCEPT !.s = s, !.ref = Nowhere, !.rejects = 0] /\ d.armed = TRUE
        BY <1>1, <1>6
      <3> HIDE DEF driven, step
      <3>2. driven.s = s /\ driven.anchor = d.anchor
        BY <1>1, <3>1 DEF Meter
      <3>3. driven = [armed |-> TRUE, on |-> d.on, s |-> s, toggle |-> d.toggle, ref |-> Nowhere, rejects |-> 0,
                      anchor |-> d.anchor, moved |-> d.moved]
        BY <1>1, <3>1 DEF Meter
      <3>4. driven \in MetersAt(s)
        BY <1>1, <1>2, <3>3, ArmedMeter
      <3>5. QED
        BY <3>2, <3>4
    <2>2. Gridded(driven)
      <3>1. /\ driven.on = d.on /\ driven.toggle = d.toggle /\ driven.moved = d.moved
            /\ driven.s >= d.s
        BY <1>1, <1>2, <1>6, <2>1 DEF Meter
      <3>2. Gridded(d)
        BY <1>6 DEF MeterInv
      <3>3. OnLead(1) \in Nat /\ OffLead(1) \in Nat
        BY Distances DEF OnLead, OffLead
      <3>4. QED
        <4> HIDE DEF driven
        <4> QED BY <1>1, <2>1, <3>1, <3>2, <3>3 DEF Gridded, OnGrid
    <2>3. Metered(d, s, v, error) = Flipped(driven, v)
      BY <1>6 DEF Metered
    <2>4. QED
      BY <1>1, <1>3, <2>1, <2>2, <2>3
  <1>7. CASE d.armed /\ s - d.s \notin 0 .. step
    <2> DEFINE e == Rejected(d, s, step)
    <2>1. e.anchor = d.anchor /\ e.s \in Nat /\ e \in MetersAt(e.s) /\ Gridded(e)
      <3>1. PICK count \in Nat, ref \in Int :
              \/ e = [d EXCEPT !.s = s, !.toggle = s, !.ref = Nowhere, !.rejects = 0, !.moved = TRUE]
              \/ e = [d EXCEPT !.ref = ref, !.rejects = count]
        <4> DEFINE again == d.ref # Nowhere /\ Abs(s - d.ref) <= step
                   n == IF again THEN d.rejects + 1 ELSE 1
                   x == IF again THEN d.ref ELSE s
        <4>1. n \in Nat /\ x \in Int
          BY <1>1
        <4>2. e = IF n >= AcceptAfter
                  THEN [d EXCEPT !.s = s, !.toggle = s, !.ref = Nowhere, !.rejects = 0, !.moved = TRUE]
                  ELSE [d EXCEPT !.ref = x, !.rejects = n]
          BY Zenon DEF Rejected
        <4> HIDE DEF n, x, e
        <4>3. QED
          BY <4>1, <4>2
      <3>2. Gridded(d)
        BY <1>7 DEF MeterInv
      <3> HIDE DEF e
      <3>3. CASE e = [d EXCEPT !.s = s, !.toggle = s, !.ref = Nowhere, !.rejects = 0, !.moved = TRUE]
        <4>1. e.anchor = d.anchor /\ e.s = s /\ e \in MetersAt(s) /\ e.moved = TRUE
          <5>1. e.anchor = d.anchor /\ e.s = s /\ e.moved = TRUE
            BY <1>1, <3>3 DEF Meter
          <5>2. d.armed = TRUE
            BY <1>1, <1>7
          <5>3. e \in MetersAt(s)
            <6>1. e = [armed |-> TRUE, on |-> d.on, s |-> s, toggle |-> s, ref |-> Nowhere, rejects |-> 0,
                       anchor |-> d.anchor, moved |-> TRUE]
              BY <1>1, <3>3, <5>2 DEF Meter
            <6>2. QED
              BY <1>1, <1>2, <6>1, ArmedMeter
          <5>4. QED
            BY <5>1, <5>3
        <4>2. QED
          BY <4>1 DEF Gridded
      <3>4. CASE e = [d EXCEPT !.ref = ref, !.rejects = count]
        <4>1. /\ e.anchor = d.anchor /\ e.s = d.s /\ e \in MetersAt(d.s) /\ e.moved = d.moved
              /\ e.toggle = d.toggle /\ e.on = d.on
          <5>1. e.anchor = d.anchor /\ e.s = d.s /\ e.moved = d.moved /\ e.toggle = d.toggle /\ e.on = d.on
            BY <1>1, <3>4 DEF Meter
          <5>2. d.armed = TRUE
            BY <1>1, <1>7
          <5>3. e \in MetersAt(d.s)
            <6>1. e = [armed |-> TRUE, on |-> d.on, s |-> d.s, toggle |-> d.toggle, ref |-> ref, rejects |-> count,
                       anchor |-> d.anchor, moved |-> d.moved]
              BY <1>1, <3>4, <5>2 DEF Meter
            <6>2. QED
              BY <1>1, <6>1, ArmedMeter
          <5>4. QED
            BY <5>1, <5>3
        <4>2. QED
          BY <1>1, <3>2, <4>1 DEF Gridded, OnGrid
      <3>5. QED
        BY <3>1, <3>3, <3>4
    <2>2. Metered(d, s, v, error) = Flipped(e, v)
      BY <1>7 DEF Metered
    <2>3. QED
      BY <1>1, <1>3, <2>1, <2>2
  <1>8. QED
    <2> HIDE DEF armed, driven, step
    <2> QED BY <1>4, <1>5, <1>6, <1>7

-----------------------------------------------------------------------------
(* The invariant                                                           *)

LineInv == (\E p \in Paths : model = ModelOf(p)) /\ LineTypeOK /\ MeterInv(dash)

LEMMA Limits == /\ Hold \in Nat /\ MinOff \in Nat /\ ProgressTimeout \in Nat
                /\ Settled \in Nat \ {0} /\ Never = -1 /\ Nowhere = -1
  <1>1. Hold \in Nat /\ MinOff \in Nat /\ ProgressTimeout \in Nat
    BY LineAssumption
  <1>2. QED
    BY <1>1 DEF Settled, Never, Nowhere

LEMMA OlderTyped ==
  ASSUME NEW n \in Int, n >= -1, NEW age \in {Never} \cup 0 .. n + 1
  PROVE  Older(age, n) \in {Never} \cup 0 .. n + 1 /\ (age # Never => Older(age, n) # Never)
  BY DEF Older, Never

LEMMA NewMeterKeeps ==
  ASSUME NEW m, Modelled(m)
  PROVE  MeterInv(NewMeter(m))
  <1> DEFINE starts == {b.s : b \in {x \in m.boundaries : x.kind = "TRANSIT_TO_MARK"}}
  <1>1. starts \subseteq Nat
    BY DEF Modelled
  <1>2. starts # {} => Min(starts) \in Nat
    <2> HIDE DEF starts
    <2> QED BY <1>1, MinOfNat
  <1>3. FirstMark(m) \in Nat \cup {Nowhere}
    BY <1>2 DEF FirstMark
  <1>4. NewMeter(m) \in Meter
    BY <1>3, Limits DEF NewMeter, Meter
  <1>5. QED
    BY <1>4 DEF NewMeter, MeterInv

LEMMA EndTyped ==
  ASSUME NEW m, Modelled(m)
  PROVE  EndOf(m) \in Nat
  <1> DEFINE n == Len(m.points)
  <1>1. n \in Nat /\ n > 1 /\ Len(m.s) = n /\ m.s \in [1 .. n -> Nat]
    BY DEF Modelled
  <1> HIDE DEF n
  <1>2. n \in 1 .. n
    BY <1>1
  <1>3. m.s[n] \in Nat
    BY <1>1, <1>2
  <1>4. QED
    BY <1>1, <1>3 DEF EndOf

LEMMA LineStarts == LineInit => LineInv
  <1> SUFFICES ASSUME LineInit PROVE LineInv
    OBVIOUS
  <1>1. PICK p \in Paths : model = ModelOf(p) /\ dash = NewMeter(model)
    BY DEF LineInit
  <1>2. Modelled(model) /\ MeterInv(dash)
    BY <1>1, PathModelled, NewMeterKeeps
  <1>3. EndOf(model) \in Nat
    BY <1>2, EndTyped
  <1>4. /\ setup \in {"own", "reported", "directed", "dash"} /\ block = "none"
        /\ fix = TRUE /\ tracked = FALSE /\ tripped = FALSE /\ wants = FALSE /\ stray = FALSE
        /\ at = 0 /\ speed = 0 /\ prev = Nowhere /\ held = Never /\ tripAge = MinOff
        /\ reportAge = ProgressTimeout + 1 /\ calm = 0
    BY DEF LineInit
  <1>5. {fix, tracked, tripped, wants, stray} \subseteq BOOLEAN
    BY <1>4
  <1>6. at \in 0 .. EndOf(model) /\ tripAge \in 0 .. MinOff \cup {1}
        /\ reportAge \in 0 .. ProgressTimeout + 1 /\ calm \in 0 .. Settled
    BY <1>3, <1>4, Limits
  <1>7. LineTypeOK
    BY <1>4, <1>5, <1>6 DEF LineTypeOK, Blocks
  <1>8. QED
    BY <1>1, <1>2, <1>7 DEF LineInv

LEMMA PathCbKeeps ==
  ASSUME LineInv, NEW path \in Paths, PathCb(path)
  PROVE  LineInv'
  <1>1. model' = ModelOf(path) /\ dash' = NewMeter(ModelOf(path))
    BY DEF PathCb, Loaded
  <1>2. Modelled(ModelOf(path)) /\ MeterInv(dash')
    BY <1>1, PathModelled, NewMeterKeeps
  <1>3. EndOf(model') \in Nat
    BY <1>1, <1>2, EndTyped
  <1>4. /\ at' = 0 /\ speed' = 0 /\ prev' = Nowhere /\ calm' = 0
        /\ tracked' = FALSE /\ wants' = FALSE /\ stray' = FALSE
        /\ UNCHANGED <<setup, block, fix, held, tripped, tripAge, reportAge>>
    BY DEF PathCb, Loaded
  <1>5. EndOf(model)' = EndOf(model')
    BY DEF EndOf
  <1>6. LineTypeOK
    BY DEF LineInv
  <1>7. at' \in 0 .. EndOf(model)' /\ calm' \in 0 .. Settled
    BY <1>3, <1>4, <1>5, Limits
  <1>8. {fix', tracked', tripped', wants', stray'} \subseteq BOOLEAN
    BY <1>4, <1>6 DEF LineTypeOK
  <1>9. speed' \in 0 .. 1 /\ prev' \in {Nowhere}
    BY <1>4
  <1>10. LineTypeOK'
    BY <1>4, <1>6, <1>7, <1>8, <1>9 DEF LineTypeOK
  <1>11. QED
    BY <1>1, <1>2, <1>10 DEF LineInv

LEMMA FeedsKeep ==
  ASSUME LineInv,
         \/ \E b \in Blocks : Disturb(b)
         \/ GpsCb \/ SegmentDebugCb \/ RppProgressCb
         \/ UNCHANGED lineVars
  PROVE  LineInv'
  <1>1. /\ UNCHANGED <<model, dash, setup, at, speed, tripped, tripAge, prev, held, wants, stray>>
        /\ block' \in Blocks \cup {block} /\ fix' \in {fix, ~fix} /\ tracked' \in {tracked, TRUE}
        /\ calm' \in {0, calm} /\ reportAge' \in {0, reportAge}
    BY DEF Disturb, GpsCb, SegmentDebugCb, RppProgressCb, lineVars, roverVars, gateVars, feedVars
  <1>2. LineTypeOK
    BY DEF LineInv
  <1>3. fix' \in BOOLEAN /\ tracked' \in BOOLEAN
    BY <1>1, <1>2 DEF LineTypeOK
  <1>4. calm' \in 0 .. Settled /\ reportAge' \in 0 .. ProgressTimeout + 1
    BY <1>1, <1>2, Limits DEF LineTypeOK
  <1>5. block' \in Blocks /\ EndOf(model)' = EndOf(model)
    BY <1>1, <1>2 DEF LineTypeOK, EndOf
  <1>6. LineTypeOK'
    BY <1>1, <1>2, <1>3, <1>4, <1>5 DEF LineTypeOK
  <1>7. QED
    BY <1>1, <1>6 DEF LineInv

LEMMA TickKeeps ==
  ASSUME LineInv, NEW v \in 0 .. 1, NEW e \in Errors, NEW leg \in Legs(model), Tick(v, e, leg)
  PROVE  LineInv'
  <1> DEFINE s0 == at + v
             p == Displaced(model, s0, e)
             hit == Projection(model, p, prev, Heading(model, leg))
  <1>1. Modelled(model) /\ LineTypeOK /\ MeterInv(dash)
    BY PathModelled DEF LineInv
  <1>2. EndOf(model) \in Nat /\ s0 \in 0 .. EndOf(model) /\ at' = s0 /\ speed' = v /\ model' = model
    <2>1. s0 <= EndOf(model) /\ at' = s0 /\ speed' = v /\ model' = model
      BY DEF Tick
    <2>2. EndOf(model) \in Nat
      BY <1>1, EndTyped
    <2>3. at \in 0 .. EndOf(model)
      BY <1>1 DEF LineTypeOK
    <2>4. QED
      BY <2>1, <2>2, <2>3
  <1>3. e \in Int \X Int
    BY LineAssumption
  <1>4. p \in Int \X Int
    BY <1>1, <1>2, <1>3, DisplacedTyped
  <1> HIDE DEF s0, p
  <1>5. hit.s \in 0 .. EndOf(model) /\ hit.error \in Nat
    BY <1>1, <1>4, ProjectionTyped
  <1>6. /\ prev' \in {hit.s, prev}
        /\ \/ dash' = dash \/ dash' = Metered(dash, hit.s, v, hit.error)
        /\ tripped' = FALSE \/ tripped' = Trips(hit.error)
        /\ tripAge' = IF tripped' /\ ~tripped THEN 1 ELSE IF tripAge < MinOff THEN tripAge + 1 ELSE tripAge
        /\ GpsGate(block \in {"none", "refused"})
        /\ reportAge' = Older(reportAge, ProgressTimeout)
        /\ calm' = 0 \/ calm' = Older(calm, Settled - 1)
        /\ wants' \in BOOLEAN /\ stray' \in BOOLEAN
        /\ UNCHANGED <<setup, block, fix, tracked>>
    BY DEF Tick, hit, p, s0
  <1> HIDE DEF hit
  <1>7. MeterInv(dash')
    <2>1. hit.s \in Nat
      BY <1>2, <1>5
    <2>2. CASE dash' = dash
      BY <1>1, <2>2
    <2>3. CASE dash' = Metered(dash, hit.s, v, hit.error)
      BY <1>1, <1>5, <2>1, <2>3, MeteredKeeps
    <2>4. QED
      BY <1>6, <2>2, <2>3
  <1>8. tripped' \in BOOLEAN
    <2>1. /\ (hit.error > Clear * Clear) \in BOOLEAN
          /\ (tripAge < MinOff) \in BOOLEAN
          /\ (hit.error > Trip * Trip) \in BOOLEAN
      OBVIOUS
    <2>2. (hit.error > Clear * Clear \/ tripAge < MinOff) \in BOOLEAN
      OBVIOUS
    <2>3. tripped \in BOOLEAN
      BY <1>1 DEF LineTypeOK
    <2>4. CASE tripped
      BY <1>6, <2>2, <2>4 DEF Trips
    <2>5. CASE ~tripped
      BY <1>6, <2>1, <2>5 DEF Trips
    <2>6. QED
      BY <2>4, <2>5
  <1>9. held' \in {Never} \cup 0 .. Hold
    <2>1. Older(held, Hold - 1) \in {Never} \cup 0 .. Hold
      BY <1>1, Limits, OlderTyped DEF LineTypeOK
    <2>2. QED
      BY <1>6, <2>1, Limits DEF GpsGate
  <1>10. reportAge' \in 0 .. ProgressTimeout + 1 /\ calm' \in 0 .. Settled
    BY <1>1, <1>6, Limits DEF LineTypeOK, Older
  <1>11. tripAge' \in 0 .. MinOff \cup {1}
    BY <1>1, <1>6, Limits DEF LineTypeOK
  <1>12. LineTypeOK'
    <2>1. EndOf(model)' = EndOf(model)
      BY <1>2 DEF EndOf
    <2>2. at' \in 0 .. EndOf(model)' /\ prev' \in {Nowhere} \cup 0 .. EndOf(model)'
      BY <1>1, <1>2, <1>5, <1>6, <2>1 DEF LineTypeOK
    <2>3. {fix', tracked', tripped', wants', stray'} \subseteq BOOLEAN
      BY <1>1, <1>6, <1>8 DEF LineTypeOK
    <2>4. setup' \in {"own", "reported", "directed", "dash"} /\ block' \in Blocks
      BY <1>1, <1>6 DEF LineTypeOK
    <2>5. QED
      BY <1>2, <1>9, <1>10, <1>11, <2>2, <2>3, <2>4 DEF LineTypeOK
  <1>13. QED
    BY <1>2, <1>7, <1>12 DEF LineInv

LEMMA LineKeeps == LineInv /\ [LineNext]_lineVars => LineInv'
  <1> SUFFICES ASSUME LineInv, [LineNext]_lineVars PROVE LineInv'
    OBVIOUS
  <1>1. ASSUME NEW path \in Paths, PathCb(path) PROVE LineInv'
    BY <1>1, PathCbKeeps
  <1>2. CASE \/ \E b \in Blocks : Disturb(b)
             \/ GpsCb \/ SegmentDebugCb \/ RppProgressCb
             \/ UNCHANGED lineVars
    BY <1>2, FeedsKeep
  <1>3. ASSUME NEW v \in 0 .. 1, NEW e \in Errors, NEW leg \in Legs(model), Tick(v, e, leg) PROVE LineInv'
    BY <1>3, TickKeeps
  <1>4. QED
    BY <1>1, <1>2, <1>3 DEF LineNext

-----------------------------------------------------------------------------
LEMMA Remainder ==
  ASSUME NEW n \in Nat \ {0}, NEW k \in Nat, NEW r \in 0 .. n - 1
  PROVE  (k * n + r) % n = r
  <1> DEFINE x == k * n + r
             q == x \div n
             m == x % n
  <1>1. x \in Nat
    OBVIOUS
  <1> HIDE DEF x
  <1>2. q \in Int /\ m \in 0 .. n - 1 /\ x = n * q + m
    BY <1>1
  <1> HIDE DEF q, m
  <1>3. (k - q) * n = m - r
    BY <1>2 DEF x
  <1>4. k - q \in Int /\ -n < m - r /\ m - r < n
    BY <1>2
  <1>5. ~(k - q >= 1)
    <2>1. \A j \in Int : j >= 1 => j * n >= n
      OBVIOUS
    <2>2. QED
      BY <1>3, <1>4, <2>1
  <1>6. ~(k - q <= -1)
    <2>1. \A j \in Int : j <= -1 => j * n <= -n
      OBVIOUS
    <2>2. QED
      BY <1>3, <1>4, <2>1
  <1>7. k = q
    BY <1>2, <1>5, <1>6
  <1>8. QED
    BY <1>2, <1>3, <1>7 DEF m, x

(* The types of the node on any path, among them that every projection is  *)
(* on the path (_project_onto_path); and, for any distances, leads, jump   *)
(* limits, glitches of the projection and speeds, the grid of the dash     *)
(* meter (DashMeter.update).                                               *)
THEOREM DashKeepsItsGrid == LineSpec => [](LineTypeOK /\ DashOnGrid)
  <1>1. LineInv => LineTypeOK /\ DashOnGrid
    <2> SUFFICES ASSUME LineInv, dash.armed, ~dash.moved, dash.anchor # Nowhere
                 PROVE  LET past == dash.toggle - dash.anchor
                        IN /\ past >= 0
                           /\ past % (OnDistance + OffDistance) = IF dash.on THEN 0 ELSE OnDistance
                           /\ past > 0 => dash.s >= dash.toggle - IF dash.on THEN OnLead(1) ELSE OffLead(1)
                           /\ dash.s < dash.toggle + Target(dash.on)
      BY DEF LineInv, DashOnGrid
    <2>1. dash \in Meter /\ OnGrid(dash) /\ dash.s < dash.toggle + Target(dash.on)
      BY DEF LineInv, MeterInv, Gridded
    <2>2. dash.anchor \in Nat /\ dash.toggle \in Nat /\ dash.on \in BOOLEAN
      BY <2>1 DEF Meter
    <2> DEFINE r == IF dash.on THEN 0 ELSE OnDistance
    <2>3. PICK k \in Nat : dash.toggle = dash.anchor + k * Period + r
      BY <2>1 DEF OnGrid
    <2>4. Period \in Nat \ {0} /\ r \in 0 .. Period - 1 /\ Period = OnDistance + OffDistance
      BY Distances DEF Period
    <2> DEFINE past == dash.toggle - dash.anchor
    <2>5. k * Period \in Nat
      BY <2>4
    <2>6. past = k * Period + r /\ past >= 0
      <3> HIDE DEF r
      <3> QED BY <2>2, <2>3, <2>4, <2>5
    <2>7. past % Period = r
      <3> HIDE DEF r, past
      <3> QED BY <2>4, <2>6, Remainder
    <2>8. past > 0 => dash.toggle > dash.anchor
      BY <2>2
    <2>9. QED
      <3> HIDE DEF r
      <3> QED BY <2>1, <2>4, <2>6, <2>7, <2>8 DEF OnGrid, r
  <1>2. QED
    BY <1>1, LineStarts, LineKeeps, PTL DEF LineSpec
================================================================================
