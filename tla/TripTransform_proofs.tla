------------------------ MODULE TripTransform_proofs ------------------------
(***************************************************************************)
(* Theorems about TripTransform, for every grid, every cap and every set of*)
(* reports. What is used of the observations is that their ids tell them   *)
(* apart (IInv); the rest is arithmetic on the boundaries of a pair, which *)
(* lie from the second of its first point to before that of its last       *)
(* (BoundaryRange), so that those of two pairs cannot meet (PairsApart).   *)
(***************************************************************************)
EXTENDS TripTransform, FiniteSetTheorems, WellFoundedInduction, TLAPS

-----------------------------------------------------------------------------
(* Arithmetic. *)

(* Division with remainder. *)
LEMMA DivFacts ==
  ASSUME NEW a \in Int, NEW n \in Nat \ {0}
  PROVE  /\ a \div n \in Int
         /\ (a \div n) * n <= a
         /\ a < (a \div n) * n + n
  OBVIOUS

(* Division preserves order. *)
LEMMA DivMonotone ==
  ASSUME NEW a \in Int, NEW b \in Int, NEW n \in Nat \ {0}, a <= b
  PROVE  a \div n <= b \div n
  OBVIOUS

(* Multiplication preserves order, *)
LEMMA MulMonotone ==
  ASSUME NEW j \in Int, NEW k \in Int, NEW n \in Nat \ {0}, j <= k
  PROVE  j * n <= k * n
  OBVIOUS

(* and reflects it. *)
LEMMA MulReflects ==
  ASSUME NEW j \in Int, NEW k \in Int, NEW n \in Nat \ {0}, j * n < k * n
  PROVE  j < k
  <1>1. CASE k <= j
    BY <1>1, MulMonotone
  <1> QED
    BY <1>1

(* Multiples are what leaves no remainder. *)
LEMMA Multiples ==
  ASSUME NEW m \in Int, NEW n \in Nat \ {0}
  PROVE  /\ (m * n) % n = 0
         /\ m % n = 0 => m = (m \div n) * n
  OBVIOUS

(* CeilDiv(a, b) is the least number of steps of b that reach a. *)
LEMMA CeilDivFacts ==
  ASSUME NEW a \in Int, NEW b \in Nat \ {0}
  PROVE  /\ CeilDiv(a, b) \in Int
         /\ a <= CeilDiv(a, b) * b
         /\ (CeilDiv(a, b) - 1) * b < a
  <1> DEFINE d == (-a) \div b
  <1>1. d \in Int /\ d * b <= -a /\ -a < d * b + b
    BY DivFacts, -a \in Int
  <1>2. CeilDiv(a, b) = -d
    BY DEF CeilDiv
  <1> HIDE DEF d
  <1>3. (-d) * b = -(d * b) /\ ((-d) - 1) * b = -(d * b) - b
    BY <1>1
  <1> QED
    BY <1>1, <1>2, <1>3

-----------------------------------------------------------------------------
(* The boundaries of a pair of points. *)

IsPair(pair) ==
    /\ pair[1].time \in Nat
    /\ pair[2].time \in Nat

(* The first boundary is the least multiple of the resolution that is not   *)
(* before the second of the first point.                                    *)
LEMMA FirstBoundaryFacts ==
  ASSUME NEW pair, IsPair(pair)
  PROVE  /\ Epoch(pair[1]) \in Int
         /\ \E f \in Int : /\ FirstBoundary(pair) = f * Resolution
                           /\ Epoch(pair[1]) <= f * Resolution
                           /\ (f - 1) * Resolution < Epoch(pair[1])
  <1> DEFINE e == Epoch(pair[1])
             f == e \div Resolution
  <1>1. Resolution \in Nat \ {0} /\ PerSecond \in Nat \ {0}
    BY SettingsAssumption
  <1>2. e \in Int
    BY <1>1, DivFacts DEF Epoch, IsPair
  <1>3. f \in Int /\ f * Resolution <= e /\ e < f * Resolution + Resolution
    BY <1>1, <1>2, DivFacts
  <1>4. FirstBoundary(pair) = IF f * Resolution < e THEN f * Resolution + Resolution
                                                    ELSE f * Resolution
    BY DEF FirstBoundary
  <1> HIDE DEF f
  <1>5. /\ (f + 1) * Resolution = f * Resolution + Resolution
        /\ (f - 1) * Resolution = f * Resolution - Resolution
        /\ (f + 1) - 1 = f
    BY <1>1, <1>3
  <1>6. CASE f * Resolution < e
    <2>1. /\ f + 1 \in Int
          /\ FirstBoundary(pair) = (f + 1) * Resolution
          /\ e <= (f + 1) * Resolution
          /\ ((f + 1) - 1) * Resolution < e
      BY <1>1, <1>2, <1>3, <1>4, <1>5, <1>6
    <2> QED
      BY <1>2, <2>1
  <1>7. CASE ~(f * Resolution < e)
    <2>1. /\ FirstBoundary(pair) = f * Resolution
          /\ e <= f * Resolution
          /\ (f - 1) * Resolution < e
      BY <1>1, <1>2, <1>3, <1>4, <1>5, <1>7
    <2> QED
      BY <1>2, <1>3, <2>1
  <1> QED
    BY <1>6, <1>7

(* Without a gap above the cap the boundaries are exactly the multiples of  *)
(* the resolution in the half-open range of seconds; with one, there are    *)
(* none.                                                                    *)
Bridged(pair) == MaxGap = 0 \/ pair[2].time - pair[1].time <= MaxGap * PerSecond

(* The boundaries of a pair that is bridged are the multiples of the        *)
(* resolution from the second of its first report to before that of its     *)
(* last.                                                                    *)
LEMMA BoundaryRange ==
  ASSUME NEW pair, IsPair(pair)
  PROVE  Boundaries(pair) =
            IF Bridged(pair)
            THEN {c \in Epoch(pair[1])..(Epoch(pair[2]) - 1) : c % Resolution = 0}
            ELSE {}
  <1> DEFINE e == Epoch(pair[2])
             n == CeilDiv(e - FirstBoundary(pair), Resolution)
  <1>1. /\ Resolution \in Nat \ {0} /\ PerSecond \in Nat \ {0} /\ MaxGap \in Nat
        /\ pair[1].time \in Nat /\ pair[2].time \in Nat
    BY SettingsAssumption DEF IsPair
  <1>2. e \in Int
    BY <1>1, DivFacts DEF Epoch
  <1>3. PICK f \in Int : /\ FirstBoundary(pair) = f * Resolution
                         /\ Epoch(pair[1]) <= f * Resolution
                         /\ (f - 1) * Resolution < Epoch(pair[1])
    BY FirstBoundaryFacts
  <1>4. Epoch(pair[1]) \in Int
    BY FirstBoundaryFacts
  <1>5. CASE ~Bridged(pair)
    <2>1. Count(pair) = 0
      BY <1>1, <1>5 DEF Bridged, Count
    <2> QED
      BY <1>5, <2>1 DEF Boundaries
  <1>6. CASE Bridged(pair)
    <2>1. Count(pair) = n
      BY <1>1, <1>6 DEF Bridged, Count
    <2>2. f * Resolution \in Int /\ e - f * Resolution \in Int
      BY <1>1, <1>2
    <2>3. /\ n \in Int
          /\ e - f * Resolution <= n * Resolution
          /\ (n - 1) * Resolution < e - f * Resolution
      BY <1>1, <1>3, <2>2, CeilDivFacts
    <2> HIDE DEF n
    <2>4. ASSUME NEW k \in 0..(n - 1)
          PROVE  /\ f * Resolution + k * Resolution \in Epoch(pair[1])..(e - 1)
                 /\ (f * Resolution + k * Resolution) % Resolution = 0
      <3>1. k \in Int /\ k <= n - 1 /\ 0 <= k
        BY <2>3
      <3>2. k * Resolution <= (n - 1) * Resolution /\ 0 * Resolution <= k * Resolution
        BY <1>1, <2>3, <3>1, MulMonotone
      <3>3. k * Resolution \in Int /\ (n - 1) * Resolution \in Int
        BY <1>1, <2>3, <3>1
      <3>4. (f + k) * Resolution = f * Resolution + k * Resolution
        BY <1>1, <3>1
      <3>5. ((f + k) * Resolution) % Resolution = 0
        BY <1>1, <3>1, Multiples
      <3>6. f * Resolution + k * Resolution \in Epoch(pair[1])..(e - 1)
        <4>1. 0 <= k * Resolution
          BY <1>1, <3>2
        <4>2. Epoch(pair[1]) <= f * Resolution + k * Resolution
          BY <1>3, <1>4, <2>2, <3>3, <4>1
        <4>3. f * Resolution + k * Resolution < e
          BY <1>2, <2>2, <2>3, <3>2, <3>3
        <4> QED
          BY <1>2, <1>4, <2>2, <3>3, <4>2, <4>3
      <3> QED
        BY <3>4, <3>5, <3>6
    <2>5. ASSUME NEW c \in Epoch(pair[1])..(e - 1), c % Resolution = 0
          PROVE  \E k \in 0..(n - 1) : c = f * Resolution + k * Resolution
      <3> DEFINE m == c \div Resolution
      <3>1. c \in Int /\ Epoch(pair[1]) <= c /\ c < e
        BY <1>2, <1>4
      <3>2. m \in Int /\ c = m * Resolution
        BY <1>1, <2>5, <3>1, DivFacts, Multiples
      <3> HIDE DEF m
      <3>3. f - 1 < m
        BY <1>1, <1>3, <1>4, <3>1, <3>2, MulReflects
      <3>4. (m - f) * Resolution = m * Resolution - f * Resolution
        BY <1>1, <3>2
      <3>5. (m - f) * Resolution < n * Resolution
        BY <1>1, <1>2, <2>2, <2>3, <3>1, <3>2, <3>4
      <3>6. m - f < n
        BY <1>1, <2>3, <3>2, <3>5, MulReflects
      <3>7. m - f \in 0..(n - 1) /\ c = f * Resolution + (m - f) * Resolution
        BY <1>1, <2>2, <2>3, <3>2, <3>3, <3>4, <3>6
      <3> QED
        BY <3>7
    <2>6. Boundaries(pair) = {f * Resolution + k * Resolution : k \in 0..(n - 1)}
      BY <1>3, <2>1 DEF Boundaries
    <2>7. \A c \in Boundaries(pair) : c \in Epoch(pair[1])..(e - 1) /\ c % Resolution = 0
      BY <2>4, <2>6
    <2>8. \A c \in Epoch(pair[1])..(e - 1) : c % Resolution = 0 => c \in Boundaries(pair)
      BY <2>5, <2>6
    <2> QED
      BY <1>6, <2>7, <2>8
  <1> QED
    BY <1>5, <1>6

-----------------------------------------------------------------------------
(* The invariant: ids tell the reports apart, so that Extract leaves one    *)
(* report per instant.                                                      *)

Reported ==
    /\ IsFiniteSet(observed)
    /\ \A p \in observed : /\ p.id \in 1..Cardinality(observed)
                           /\ p.time \in Nat
                           /\ p.travel \in Nat
    /\ \A p, q \in observed : p.id = q.id => p = q

(* The points of a derivation are reports, one per instant. *)
LEMMA UsableReports ==
  ASSUME Reported
  PROVE  /\ Usable(observed) \subseteq OnRoute(Extract(observed))
         /\ Usable(observed) \subseteq observed
         /\ \A p, q \in Usable(observed) : p.time = q.time => p = q
  <1>1. Usable(observed) \subseteq OnRoute(Extract(observed))
    BY DEF Usable, Keep
  <1>2. OnRoute(Extract(observed)) \subseteq Extract(observed)
    BY DEF OnRoute
  <1>3. Extract(observed) \subseteq observed
    BY DEF Extract
  <1>4. \A p, q \in Extract(observed) : p.time = q.time => p = q
    <2> SUFFICES ASSUME NEW p \in Extract(observed), NEW q \in Extract(observed),
                        p.time = q.time
                 PROVE  p = q
      OBVIOUS
    <2>1. p.id <= q.id /\ q.id <= p.id
      BY DEF Extract
    <2>2. p.id \in Int /\ q.id \in Int
      BY <1>3, FS_CardinalityType DEF Reported
    <2> QED
      BY <1>3, <2>1, <2>2 DEF Reported
  <1> QED
    BY <1>1, <1>2, <1>3, <1>4

(* Pairs are pairs of such points, *)
LEMMA PairsOfReports ==
  ASSUME Reported, NEW pair \in Pairs(Usable(observed))
  PROVE  /\ pair[1] \in Usable(observed)
         /\ pair[2] \in Usable(observed)
         /\ pair = <<pair[1], pair[2]>>
         /\ IsPair(pair)
         /\ pair[1].time < pair[2].time
  BY UsableReports DEF Pairs, IsPair, Reported

(* and one of two different pairs ends before the other begins.             *)
LEMMA PairsOrdered ==
  ASSUME Reported,
         NEW p \in Pairs(Usable(observed)), NEW q \in Pairs(Usable(observed)), p # q
  PROVE  p[2].time <= q[1].time \/ q[2].time <= p[1].time
  <1>1. /\ p[1].time \in Nat /\ p[2].time \in Nat
        /\ q[1].time \in Nat /\ q[2].time \in Nat
        /\ p[1].time < p[2].time /\ q[1].time < q[2].time
    BY PairsOfReports DEF IsPair
  <1>2. /\ q[1].time <= p[1].time \/ q[1].time >= p[2].time
        /\ q[2].time <= p[1].time \/ q[2].time >= p[2].time
        /\ p[1].time <= q[1].time \/ p[1].time >= q[2].time
        /\ p[2].time <= q[1].time \/ p[2].time >= q[2].time
    BY PairsOfReports DEF Pairs
  <1>3. p[1].time # q[1].time \/ p[2].time # q[2].time
    BY PairsOfReports, UsableReports
  <1> QED
    BY <1>1, <1>2, <1>3

(* The boundaries of two pairs do not meet. *)
LEMMA PairsApart ==
  ASSUME Reported
  PROVE  OneRowPerInstant
  <1> SUFFICES ASSUME NEW p \in Pairs(Usable(observed)), NEW q \in Pairs(Usable(observed)),
                      p # q,
                      NEW c \in Boundaries(p), c \in Boundaries(q)
               PROVE  FALSE
    BY DEF OneRowPerInstant
  <1>1. IsPair(p) /\ IsPair(q)
    BY PairsOfReports
  <1>2. PerSecond \in Nat \ {0}
    BY SettingsAssumption
  <1>3. /\ Epoch(p[1]) \in Int /\ Epoch(p[2]) \in Int
        /\ Epoch(q[1]) \in Int /\ Epoch(q[2]) \in Int
    BY <1>1, <1>2, DivFacts DEF Epoch, IsPair
  <1>4. /\ c \in Epoch(p[1])..(Epoch(p[2]) - 1)
        /\ c \in Epoch(q[1])..(Epoch(q[2]) - 1)
    BY <1>1, BoundaryRange
  <1>5. Epoch(p[2]) <= Epoch(q[1]) \/ Epoch(q[2]) <= Epoch(p[1])
    BY <1>1, <1>2, PairsOrdered, DivMonotone DEF Epoch, IsPair
  <1> QED
    BY <1>3, <1>4, <1>5

(* The boundaries of a bridged pair are those of the legacy loop. *)
LEMMA CountMatches ==
  ASSUME Reported
  PROVE  MatchesLegacyLoop
  <1> SUFFICES ASSUME NEW pair \in Pairs(Usable(observed)), Bridged(pair)
               PROVE  Boundaries(pair) =
                         {c \in Epoch(pair[1])..(Epoch(pair[2]) - 1) : c % Resolution = 0}
    BY DEF MatchesLegacyLoop, Bridged
  <1> QED
    BY PairsOfReports, BoundaryRange

(* A row stands between two usable reports no further apart than the cap.   *)
LEMMA RowsBetweenReports ==
  ASSUME Reported
  PROVE  OutagesNotBridged
  <1> SUFFICES ASSUME NEW row \in Derive(observed)
               PROVE  \E p, q \in Extract(observed) :
                         /\ MaxGap = 0 \/ q.time - p.time <= MaxGap * PerSecond
                         /\ p.time < (row.at + 1) * PerSecond
                         /\ row.at * PerSecond < q.time
                         /\ p.off <= MaxOff /\ q.off <= MaxOff
    BY DEF OutagesNotBridged
  <1>0. PICK pair \in Pairs(Usable(observed)) : row \in {RowAt(pair, c) : c \in Boundaries(pair)}
    BY DEF Derive, Upsample
  <1>1. PICK at \in Boundaries(pair) : row = RowAt(pair, at)
    BY <1>0
  <1> DEFINE p == pair[1]
             q == pair[2]
  <1>2. /\ IsPair(pair)
        /\ p \in OnRoute(Extract(observed)) /\ q \in OnRoute(Extract(observed))
    BY PairsOfReports, UsableReports
  <1>3. /\ p \in Extract(observed) /\ p.off <= MaxOff
        /\ q \in Extract(observed) /\ q.off <= MaxOff
    BY <1>2 DEF OnRoute
  <1>4. row.at = at
    BY <1>1 DEF RowAt
  <1>5. PerSecond \in Nat \ {0} /\ p.time \in Nat /\ q.time \in Nat
    BY <1>2, SettingsAssumption DEF IsPair
  <1>6. /\ Epoch(p) \in Int /\ p.time < Epoch(p) * PerSecond + PerSecond
        /\ Epoch(q) \in Int /\ Epoch(q) * PerSecond <= q.time
    <2>1. /\ p.time \div PerSecond \in Int
          /\ p.time < (p.time \div PerSecond) * PerSecond + PerSecond
      BY <1>5, p.time \in Int, q.time \in Int, DivFacts
    <2>2. /\ q.time \div PerSecond \in Int
          /\ (q.time \div PerSecond) * PerSecond <= q.time
      BY <1>5, p.time \in Int, q.time \in Int, DivFacts
    <2> QED
      BY <2>1, <2>2 DEF Epoch
  <1>7. Bridged(pair) /\ at \in Epoch(p)..(Epoch(q) - 1)
    BY <1>2, BoundaryRange
  <1> HIDE DEF p, q
  <1>8. at \in Int /\ Epoch(p) <= at /\ at + 1 <= Epoch(q)
    BY <1>6, <1>7
  <1>9. /\ Epoch(p) * PerSecond <= at * PerSecond
        /\ (at + 1) * PerSecond <= Epoch(q) * PerSecond
    BY <1>5, <1>6, <1>8, MulMonotone
  <1>10. (at + 1) * PerSecond = at * PerSecond + PerSecond /\ at * PerSecond \in Int
    BY <1>5, <1>8
  <1>11. Epoch(p) * PerSecond \in Int /\ Epoch(q) * PerSecond \in Int
    BY <1>5, <1>6
  <1>12. p.time < (at + 1) * PerSecond
    BY <1>5, <1>6, <1>9, <1>10, <1>11
  <1>13. at * PerSecond < q.time
    BY <1>5, <1>6, <1>9, <1>10, <1>11
  <1>14. MaxGap = 0 \/ q.time - p.time <= MaxGap * PerSecond
    BY <1>7 DEF Bridged, p, q
  <1> QED
    BY <1>3, <1>4, <1>12, <1>13, <1>14

(* What a row is made of. *)
RowsTyped(R) ==
    \A row \in R : /\ row.at \in Nat
                   /\ row.at % Resolution = 0
                   /\ row.distance.den > 0
                   /\ row.source \in 1..Cardinality(observed)

(* Every derived row is on the grid and comes from a report.                *)
LEMMA DerivedRows ==
  ASSUME Reported
  PROVE  RowsTyped(Derive(observed))
  <1> SUFFICES ASSUME NEW row \in Derive(observed)
               PROVE  /\ row.at \in Nat
                      /\ row.at % Resolution = 0
                      /\ row.distance.den > 0
                      /\ row.source \in 1..Cardinality(observed)
    BY DEF RowsTyped
  <1>0. PICK pair \in Pairs(Usable(observed)) : row \in {RowAt(pair, c) : c \in Boundaries(pair)}
    BY DEF Derive, Upsample
  <1>1. PICK at \in Boundaries(pair) : row = RowAt(pair, at)
    BY <1>0
  <1>2. /\ IsPair(pair) /\ pair[1].time < pair[2].time
        /\ pair[1].id \in 1..Cardinality(observed)
        /\ pair[2].id \in 1..Cardinality(observed)
    BY PairsOfReports, UsableReports DEF Reported
  <1>3. at \in Epoch(pair[1])..(Epoch(pair[2]) - 1) /\ at % Resolution = 0
    BY <1>2, BoundaryRange
  <1>4. Epoch(pair[1]) \in Nat
    <2>1. 0 \div PerSecond = 0 /\ PerSecond \in Nat \ {0}
      BY SettingsAssumption
    <2>2. 0 \div PerSecond <= pair[1].time \div PerSecond
      BY <1>2, <2>1, DivMonotone DEF IsPair
    <2>3. pair[1].time \div PerSecond \in Int
      BY <1>2, <2>1, DivFacts DEF IsPair
    <2> QED
      BY <2>1, <2>2, <2>3 DEF Epoch
  <1>5. Epoch(pair[2]) \in Int
    BY <1>2, DivFacts, SettingsAssumption DEF Epoch, IsPair
  <1>6. at \in Nat
    BY <1>3, <1>4, <1>5
  <1>7. row.at = at /\ row.distance.den = pair[2].time - pair[1].time
    BY <1>1 DEF RowAt
  <1>8. row.source \in {pair[1].id, pair[2].id}
    BY <1>1 DEF RowAt
  <1>9. row.distance.den > 0
    BY <1>2, <1>7 DEF IsPair
  <1> QED
    BY <1>2, <1>3, <1>6, <1>7, <1>8, <1>9

-----------------------------------------------------------------------------
(* The theorems. *)

IInv == Reported /\ RowsTyped(rows)

(* Initially nothing is reported. *)
LEMMA InitIInv ==
  Init => IInv
  BY FS_EmptySet DEF Init, IInv, Reported, RowsTyped

(* A report gets an id of its own. *)
LEMMA ObserveIInv ==
  ASSUME IInv, Observe
  PROVE  IInv'
  <1> DEFINE n == Cardinality(observed)
  <1>1. PICK s \in Samples :
           observed' = observed \cup
              {[id |-> n + 1, time |-> s.time, fix |-> s.fix,
                travel |-> s.travel, off |-> s.off, route |-> s.route]}
    BY DEF Observe
  <1> DEFINE new == [id |-> n + 1, time |-> s.time, fix |-> s.fix,
                     travel |-> s.travel, off |-> s.off, route |-> s.route]
  <1>2. n \in Nat
    BY FS_CardinalityType DEF IInv, Reported
  <1>3. new.id = n + 1 /\ new.time \in Nat /\ new.travel \in Nat
    BY SettingsAssumption
  <1>4. \A p \in observed : p.id \in 1..n
    BY DEF IInv, Reported
  <1> HIDE DEF n, new
  <1>5. new \notin observed
    BY <1>2, <1>3, <1>4
  <1>6. observed' = observed \cup {new}
    BY <1>1 DEF n, new
  <1>7. IsFiniteSet(observed') /\ Cardinality(observed') = n + 1
    BY <1>5, <1>6, FS_AddElement DEF IInv, Reported, n
  <1>8. Reported'
    <2>1. \A p \in observed' : p.id \in 1..(n + 1) /\ p.time \in Nat /\ p.travel \in Nat
      BY <1>2, <1>3, <1>4, <1>6 DEF IInv, Reported
    <2>2. \A p, q \in observed' : p.id = q.id => p = q
      BY <1>2, <1>3, <1>4, <1>6 DEF IInv, Reported
    <2> QED
      BY <1>7, <2>1, <2>2 DEF Reported
  <1>9. RowsTyped(rows)'
    <2>1. rows' = rows
      BY DEF Observe
    <2> QED
      BY <1>2, <1>7, <2>1 DEF IInv, RowsTyped, n
  <1> QED
    BY <1>8, <1>9 DEF IInv

(* A refresh writes derived rows or none. *)
LEMMA RefreshIInv ==
  ASSUME IInv, Refresh
  PROVE  IInv'
  <1>1. observed' = observed /\ (rows' = rows \/ rows' = Derive(observed))
    BY DEF Refresh
  <1>2. Reported'
    BY <1>1 DEF IInv, Reported
  <1>3. RowsTyped(rows)'
    BY <1>1, DerivedRows DEF IInv, RowsTyped
  <1> QED
    BY <1>2, <1>3 DEF IInv

(* The invariant of every behaviour. *)
THEOREM Invariance == Spec => []IInv
<1>1. IInv /\ [Next]_vars => IInv'
  <2> SUFFICES ASSUME IInv, [Next]_vars
               PROVE  IInv'
    OBVIOUS
  <2>1. CASE UNCHANGED vars
    BY <2>1 DEF vars, IInv, Reported, RowsTyped
  <2> QED
    BY <2>1, ObserveIInv, RefreshIInv DEF Next
<1> QED
  BY InitIInv, <1>1, PTL DEF Spec

(* Reports and rows are well typed: rows stand on the grid and name a       *)
(* report of the instance as their source.                                  *)
THEOREM TypeCorrect == Spec => []TypeOK
<1>1. IInv => TypeOK
  BY DEF IInv, Reported, RowsTyped, TypeOK
<1> QED
  BY Invariance, <1>1, PTL

(* No instant gets two rows, whatever the reports and settings are: what    *)
(* run_for_date inserts for an instance never meets itself in the unique    *)
(* index.                                                                   *)
THEOREM RowsApart == Spec => []OneRowPerInstant
<1>1. IInv => OneRowPerInstant
  BY PairsApart DEF IInv
<1> QED
  BY Invariance, <1>1, PTL

(* The vectorised count of boundaries is the legacy loop's, at every        *)
(* resolution.                                                              *)
THEOREM Parity == Spec => []MatchesLegacyLoop
<1>1. IInv => MatchesLegacyLoop
  BY CountMatches DEF IInv
<1> QED
  BY Invariance, <1>1, PTL

(* No row is fabricated across an outage longer than the cap. *)
THEOREM OutagesKept == Spec => []OutagesNotBridged
<1>1. IInv => OutagesNotBridged
  BY RowsBetweenReports DEF IInv
<1> QED
  BY Invariance, <1>1, PTL

-----------------------------------------------------------------------------
(* The teleport filter. What it keeps is told by a recursive function over *)
(* the points; that there is one, and only one, is shown over their times. *)

(* A set of natural numbers that is not empty has a least member.          *)
LEMMA LeastMember ==
  ASSUME NEW T, T \subseteq Nat, T # {}
  PROVE  \E m \in T : \A k \in T : m <= k
  <1> DEFINE R == {ss \in Nat \X Nat : ss[1] < ss[2]}
  <1>1. IsWellFoundedOn(R, Nat)
    BY NatLessThanWellFounded DEF OpToRel
  <1>2. \A x, y \in Nat : <<x, y>> \in R <=> x < y
    OBVIOUS
  <1> HIDE DEF R
  <1>3. PICK m \in T : \A k \in T : ~(<<k, m>> \in R)
    BY <1>1, WFMin
  <1>4. \A k \in T : ~(k < m)
    BY <1>2, <1>3
  <1> QED BY <1>4

(* The points of K before p, and what is kept after them.                  *)
Before(K, p) == {q \in K : q.time < p.time}

Accepted(K, p) == Before(K, p) = {} \/ Plausible(Latest(Before(K, p)), p)

KeptOf(K, S) == K \subseteq S /\ \A p \in S : p \in K <=> Accepted(K, p)

Timed(S) == \A p \in S : p.time \in Nat

(* Whether a point is kept hangs on those before it alone.                 *)
LEMMA SameBefore ==
  ASSUME NEW K, NEW L, NEW p, Before(K, p) = Before(L, p)
  PROVE  Accepted(K, p) <=> Accepted(L, p)
  BY DEF Accepted

(* Up to every instant there is a set of points that the filter keeps.     *)
LEMMA KeptUpTo ==
  ASSUME NEW S, Timed(S), NEW t \in Nat
  PROVE  \E K : KeptOf(K, {p \in S : p.time <= t})
  <1> DEFINE Upto(u) == {p \in S : p.time <= u}
             Bad == {u \in Nat : ~\E K : KeptOf(K, Upto(u))}
  <1>1. ASSUME NEW u \in Nat, NEW K, K \subseteq S,
               \A q \in K : q.time < u,
               \A p \in S : p.time < u => (p \in K <=> Accepted(K, p))
        PROVE  \E L : KeptOf(L, Upto(u))
    <2> DEFINE L == K \cup {p \in S : p.time = u /\ Accepted(K, p)}
    <2>1. \A p \in S : p.time <= u => Before(L, p) = Before(K, p)
      <3> SUFFICES ASSUME NEW p \in S, p.time <= u PROVE Before(L, p) = Before(K, p)
        OBVIOUS
      <3>1. \A q \in L : q.time < p.time => q \in K
        BY DEF Timed
      <3>2. K \subseteq L
        OBVIOUS
      <3> HIDE DEF L
      <3> QED BY <3>1, <3>2 DEF Before
    <2>2. \A p \in S : p.time <= u => (Accepted(L, p) <=> Accepted(K, p))
      BY <2>1, SameBefore
    <2>3. L \subseteq Upto(u)
      BY <1>1 DEF Timed
    <2>4. \A p \in Upto(u) : p \in L <=> Accepted(K, p)
      <3> SUFFICES ASSUME NEW p \in Upto(u) PROVE p \in L <=> Accepted(K, p)
        OBVIOUS
      <3>1. CASE p.time = u
        <4>1. p \notin K
          BY <1>1, <3>1
        <4> QED BY <3>1, <4>1
      <3>2. CASE p.time # u
        <4>1. p.time < u
          BY <3>2 DEF Timed
        <4> QED BY <1>1, <3>2, <4>1
      <3> QED BY <3>1, <3>2
    <2> HIDE DEF L
    <2>5. \A p \in Upto(u) : p \in L <=> Accepted(L, p)
      BY <2>2, <2>4
    <2> QED BY <2>3, <2>5 DEF KeptOf
  <1>2. ASSUME Bad # {} PROVE FALSE
    <2>1. PICK u \in Bad : \A v \in Bad : u <= v
      <3>1. Bad \subseteq Nat
        OBVIOUS
      <3> HIDE DEF Bad
      <3> QED BY <1>2, <3>1, LeastMember
    <2>2. u \in Nat /\ ~\E K : KeptOf(K, Upto(u))
      OBVIOUS
    <2>3. CASE u = 0
      <3>1. \A p \in S : ~(p.time < u)
        BY <2>3 DEF Timed
      <3>2. PICK none : none = {}
        OBVIOUS
      <3>3. /\ none \subseteq S /\ \A q \in none : q.time < u
            /\ \A p \in S : p.time < u => (p \in none <=> Accepted(none, p))
        BY <3>1, <3>2
      <3> HIDE DEF Upto
      <3> QED BY <1>1, <2>2, <3>3
    <2>4. CASE u # 0
      <3>1. u - 1 \in Nat
        BY <2>2, <2>4
      <3>2. u - 1 \notin Bad
        <4> HIDE DEF Bad
        <4> QED BY <2>1, <2>2, <3>1
      <3>3. PICK K : KeptOf(K, Upto(u - 1))
        BY <3>1, <3>2
      <3>4. \A p \in S : p.time < u <=> p \in Upto(u - 1)
        BY <2>2 DEF Timed
      <3>5. K \subseteq S /\ \A q \in K : q.time < u
        BY <3>3, <3>4 DEF KeptOf
      <3>6. \A p \in S : p.time < u => (p \in K <=> Accepted(K, p))
        BY <3>3, <3>4 DEF KeptOf
      <3> HIDE DEF Upto
      <3> QED BY <1>1, <2>2, <3>5, <3>6
    <2> QED BY <2>3, <2>4
  <1> QED BY <1>2

(* The reports have a last instant.                                        *)
Ends(S) == \E t \in Nat : \A p \in S : p.time <= t

(* _implied_speed_keep_mask keeps the first point and then each that is    *)
(* plausible after the last one kept.                                      *)
LEMMA KeepIsKept ==
  ASSUME NEW S, Timed(S), Ends(S), MaxSpeed # 0
  PROVE  KeptOf(Keep(S), S)
  <1> DEFINE rule(f, p) == LET earlier == {q \in S : q.time < p.time /\ f[q]}
                           IN  earlier = {} \/ Plausible(Latest(earlier), p)
             kept == CHOOSE f : f = [p \in S |-> rule(f, p)]
  <1>1. Keep(S) = {p \in S : kept[p]}
    BY DEF Keep
  <1>2. \E f : f = [p \in S |-> rule(f, p)]
    <2>1. PICK t \in Nat : \A p \in S : p.time <= t
      BY DEF Ends
    <2>2. {p \in S : p.time <= t} = S
      BY <2>1
    <2>3. PICK K : KeptOf(K, S)
      BY <2>2, KeptUpTo
    <2> DEFINE f == [p \in S |-> p \in K]
    <2>4. \A p \in S : {q \in S : q.time < p.time /\ f[q]} = Before(K, p)
      BY <2>3 DEF KeptOf, Before
    <2>5. \A p \in S : rule(f, p) <=> p \in K
      BY <2>3, <2>4 DEF KeptOf, Accepted
    <2>6. f = [p \in S |-> rule(f, p)]
      BY <2>5
    <2> QED BY <2>6
  <1>3. kept = [p \in S |-> rule(kept, p)]
    BY <1>2
  <1> HIDE DEF kept
  <1>4. \A p \in S : kept[p] <=> rule(kept, p)
    BY <1>3
  <1>5. \A p \in S : {q \in S : q.time < p.time /\ kept[q]} = Before(Keep(S), p)
    BY <1>1 DEF Before
  <1>6. \A p \in S : p \in Keep(S) <=> Accepted(Keep(S), p)
    BY <1>1, <1>4, <1>5 DEF Accepted
  <1> QED BY <1>1, <1>6 DEF KeptOf

(* The points that may reach the filter: as reported, one at an instant.   *)
LEMMA FilteredReports ==
  ASSUME Reported
  PROVE  /\ Timed(OnRoute(Extract(observed)))
         /\ OnRoute(Extract(observed)) \subseteq observed
         /\ \A p, q \in OnRoute(Extract(observed)) : p.time = q.time => p = q
  <1>1. OnRoute(Extract(observed)) \subseteq Extract(observed)
    BY DEF OnRoute
  <1>2. Extract(observed) \subseteq observed
    BY DEF Extract
  <1>3. \A p, q \in Extract(observed) : p.time = q.time => p = q
    <2> SUFFICES ASSUME NEW p \in Extract(observed), NEW q \in Extract(observed),
                        p.time = q.time
                 PROVE  p = q
      OBVIOUS
    <2>1. p.id <= q.id /\ q.id <= p.id
      BY DEF Extract
    <2>2. p.id \in Int /\ q.id \in Int
      BY <1>2, FS_CardinalityType DEF Reported
    <2> QED
      BY <1>2, <2>1, <2>2 DEF Reported
  <1> QED BY <1>1, <1>2, <1>3 DEF Timed, Reported

(* What the filter keeps of two neighbours is plausible.                   *)
LEMMA NeighboursPlausible ==
  ASSUME Reported, Ends(observed), MaxSpeed # 0, NEW pair \in Pairs(Usable(observed))
  PROVE  Plausible(pair[1], pair[2])
  <1> DEFINE S == OnRoute(Extract(observed))
             K == Usable(observed)
             p == pair[1]
             q == pair[2]
  <1>1. Timed(S) /\ S \subseteq observed /\ \A x, y \in S : x.time = y.time => x = y
    BY FilteredReports
  <1>2. Ends(S)
    BY <1>1 DEF Ends
  <1>3. KeptOf(K, S)
    BY <1>1, <1>2, KeepIsKept DEF Usable
  <1>4. /\ p \in K /\ q \in K /\ p.time < q.time
        /\ \A r \in K : r.time <= p.time \/ r.time >= q.time
    BY PairsOfReports DEF Pairs
  <1> HIDE DEF S, K, p, q
  <1>5. \A r \in K : r \in S /\ r.time \in Nat
    BY <1>1, <1>3 DEF KeptOf, Timed
  <1>6. Accepted(K, q) /\ p \in Before(K, q)
    BY <1>3, <1>4, <1>5 DEF KeptOf, Before
  <1>7. \A r \in Before(K, q) : r.time <= p.time
    BY <1>4, <1>5 DEF Before
  <1>8. \A r \in Before(K, q) : (\A s \in Before(K, q) : s.time <= r.time) => r = p
    <2> SUFFICES ASSUME NEW r \in Before(K, q), \A s \in Before(K, q) : s.time <= r.time
                 PROVE  r = p
      OBVIOUS
    <2>1. r \in K /\ r.time <= p.time /\ p.time <= r.time
      BY <1>6, <1>7 DEF Before
    <2>2. r.time = p.time
      BY <1>4, <1>5, <2>1
    <2> QED BY <1>1, <1>4, <1>5, <2>1, <2>2
  <1>9. Latest(Before(K, q)) = p
    BY <1>6, <1>7, <1>8 DEF Latest
  <1>10. Plausible(p, q)
    BY <1>6, <1>9 DEF Accepted
  <1> QED BY <1>10 DEF p, q

(* So no row is faster than the filter allows.                             *)
LEMMA RowsArePlausible ==
  ASSUME Reported, Ends(observed)
  PROVE  SpeedsPlausible
  <1> SUFFICES ASSUME MaxSpeed # 0, NEW row \in Derive(observed)
               PROVE  Abs(row.speed.num) <= MaxSpeed * row.speed.den
    BY DEF SpeedsPlausible
  <1>1. PICK pair \in Pairs(Usable(observed)) : row \in {RowAt(pair, c) : c \in Boundaries(pair)}
    BY DEF Derive, Upsample
  <1> DEFINE n == pair[2].travel - pair[1].travel
  <1>2. /\ row.speed.num = n * PerSecond
        /\ row.speed.den = pair[2].time - pair[1].time
    BY <1>1 DEF RowAt, Speed
  <1>3. Abs(n) * PerSecond <= MaxSpeed * (pair[2].time - pair[1].time)
    BY NeighboursPlausible DEF Plausible
  <1>4. n \in Int /\ PerSecond \in Nat \ {0}
    <2>1. pair[1] \in observed /\ pair[2] \in observed
      BY PairsOfReports, UsableReports
    <2>2. pair[1].travel \in Nat /\ pair[2].travel \in Nat
      BY <2>1 DEF Reported
    <2> QED BY <2>2, SettingsAssumption
  <1> HIDE DEF n
  <1>5. Abs(n * PerSecond) = Abs(n) * PerSecond
    <2>1. CASE n < 0
      <3>1. n * PerSecond < 0 /\ -(n * PerSecond) = (-n) * PerSecond
        BY <1>4, <2>1
      <3> QED BY <2>1, <3>1 DEF Abs
    <2>2. CASE ~(n < 0)
      <3>1. ~(n * PerSecond < 0)
        BY <1>4, <2>2
      <3> QED BY <2>2, <3>1 DEF Abs
    <2> QED BY <2>1, <2>2
  <1> QED BY <1>2, <1>3, <1>5

-----------------------------------------------------------------------------
(* Reports have ends, since a report is added at a time.                   *)
LEMMA EndsInitHolds ==
  Init => Ends(observed)
  BY DEF Init, Ends

LEMMA EndsStepHolds ==
  ASSUME IInv, Ends(observed), [Next]_vars
  PROVE  Ends(observed)'
  <1>1. CASE Observe
    <2>1. PICK s \in Samples :
             observed' = observed \cup
                {[id |-> Cardinality(observed) + 1, time |-> s.time, fix |-> s.fix,
                  travel |-> s.travel, off |-> s.off, route |-> s.route]}
      BY <1>1 DEF Observe
    <2>2. PICK t \in Nat : \A p \in observed : p.time <= t
      BY DEF Ends
    <2> DEFINE u == IF s.time <= t THEN t ELSE s.time
    <2>3. s.time \in Nat
      BY SettingsAssumption
    <2>4. u \in Nat /\ s.time <= u /\ t <= u
      BY <2>3
    <2> HIDE DEF u
    <2>5. \A p \in observed' : p.time <= u
      <3>1. \A p \in observed' : p \in observed \/ p.time = s.time
        BY <2>1
      <3>2. \A p \in observed : p.time <= u
        <4> SUFFICES ASSUME NEW p \in observed PROVE p.time <= u
          OBVIOUS
        <4>1. p.time \in Nat
          BY DEF IInv, Reported
        <4> QED BY <2>2, <2>4, <4>1
      <3> QED BY <2>4, <3>1, <3>2
    <2> QED BY <2>4, <2>5 DEF Ends
  <1>2. CASE UNCHANGED observed
    BY <1>2 DEF Ends
  <1> QED BY <1>1, <1>2 DEF Next, Refresh, vars

THEOREM ReportsEnd == Spec => []Ends(observed)
<1>1. IInv /\ Ends(observed) /\ [Next]_vars => Ends(observed)'
  BY EndsStepHolds
<1> QED
  BY EndsInitHolds, Invariance, <1>1, PTL DEF Spec

(* No row moves faster than the teleport filter allows, whatever the       *)
(* reports, their order and the limit (_implied_speed_keep_mask): the      *)
(* speed on a row is that of two points of which the second was accepted   *)
(* after the first.                                                        *)
THEOREM SpeedsKept == Spec => []SpeedsPlausible
<1>1. IInv /\ Ends(observed) => SpeedsPlausible
  BY RowsArePlausible DEF IInv
<1> QED
  BY Invariance, ReportsEnd, <1>1, PTL

-----------------------------------------------------------------------------
(* Reports in the order of their times: one more leaves what was derived   *)
(* before in place.                                                        *)

(* The points that reach the filter gain the report, or nothing.           *)
LEMMA PointsGrow ==
  ASSUME NEW S, Timed(S), NEW x, x.time \in Nat, \A p \in S : p.time < x.time
  PROVE  /\ OnRoute(Extract(S)) \subseteq OnRoute(Extract(S \cup {x}))
         /\ OnRoute(Extract(S \cup {x})) \subseteq OnRoute(Extract(S)) \cup {x}
  <1>1. \A p \in S : p.time # x.time
    BY DEF Timed
  <1>2. \A p \in S : p \in Extract(S) <=> p \in Extract(S \cup {x})
    BY <1>1 DEF Extract
  <1>3. Extract(S) \subseteq S /\ Extract(S \cup {x}) \subseteq S \cup {x}
    BY DEF Extract
  <1> QED BY <1>2, <1>3 DEF OnRoute

(* The filter keeps of earlier points what it kept without the later ones. *)
LEMMA KeepGrows ==
  ASSUME NEW L, Timed(L), Ends(L), NEW S, S \subseteq L,
         \A p \in S, q \in L \ S : p.time < q.time
  PROVE  Keep(S) = Keep(L) \cap S
  <1>1. CASE MaxSpeed = 0
    BY <1>1 DEF Keep
  <1>2. CASE MaxSpeed # 0
    <2> DEFINE K == Keep(S)
               M == Keep(L)
               differ == {t \in Nat : \E p \in S : p.time = t /\ ~(p \in K <=> p \in M)}
    <2>1. Timed(S) /\ Ends(S)
      BY DEF Timed, Ends
    <2>2. KeptOf(K, S) /\ KeptOf(M, L)
      BY <1>2, <2>1, KeepIsKept
    <2> HIDE DEF K, M
    <2>3. ASSUME differ # {} PROVE FALSE
      <3>1. PICK t \in differ : \A u \in differ : t <= u
        <4>1. differ \subseteq Nat
          OBVIOUS
        <4> HIDE DEF differ
        <4> QED BY <2>3, <4>1, LeastMember
      <3>2. PICK p \in S : p.time = t /\ ~(p \in K <=> p \in M)
        OBVIOUS
      <3>3. \A q \in S : q.time < t => (q \in K <=> q \in M)
        <4> SUFFICES ASSUME NEW q \in S, q.time < t, ~(q \in K <=> q \in M) PROVE FALSE
          OBVIOUS
        <4>1. q.time \in Nat /\ t \in Nat
          BY <2>1 DEF Timed
        <4>2. q.time \in differ
          BY <4>1
        <4>3. t <= q.time
          BY <3>1, <4>2
        <4> QED BY <4>1, <4>3
      <3>4. \A q \in L : q.time < p.time => q \in S
        <4> SUFFICES ASSUME NEW q \in L, q.time < p.time, q \notin S PROVE FALSE
          OBVIOUS
        <4>1. p.time < q.time
          OBVIOUS
        <4>2. p.time \in Nat /\ q.time \in Nat
          BY DEF Timed
        <4> QED BY <4>1, <4>2
      <3>5. K \subseteq S /\ M \subseteq L
        BY <2>2 DEF KeptOf
      <3>6. Before(K, p) = Before(M, p)
        <4> HIDE DEF differ
        <4> QED BY <3>2, <3>3, <3>4, <3>5 DEF Before
      <3>7. Accepted(K, p) <=> Accepted(M, p)
        BY <3>6, SameBefore
      <3> QED BY <2>2, <3>2, <3>7 DEF KeptOf
    <2>4. \A p \in S : p \in K <=> p \in M
      BY <2>1, <2>3 DEF Timed
    <2>5. K \subseteq S
      BY <2>2 DEF KeptOf
    <2>6. K = M \cap S
      BY <2>4, <2>5
    <2> QED BY <2>6 DEF K, M
  <1> QED BY <1>1, <1>2

(* Neighbours stay neighbours when only later points are added.            *)
LEMMA PairsGrow ==
  ASSUME NEW K, NEW M, K \subseteq M, Timed(M), \A p \in K, q \in M \ K : p.time < q.time
  PROVE  Upsample(K) \subseteq Upsample(M)
  <1>1. Pairs(K) \subseteq Pairs(M)
    <2> SUFFICES ASSUME NEW pair \in Pairs(K) PROVE pair \in Pairs(M)
      OBVIOUS
    <2>1. /\ pair \in K \X K /\ pair[1].time < pair[2].time
          /\ \A q \in K : q.time <= pair[1].time \/ q.time >= pair[2].time
      BY DEF Pairs
    <2>2. pair[2] \in K /\ pair \in M \X M
      BY <2>1
    <2>3. \A q \in M : q.time <= pair[1].time \/ q.time >= pair[2].time
      <3> SUFFICES ASSUME NEW q \in M
                   PROVE  q.time <= pair[1].time \/ q.time >= pair[2].time
        OBVIOUS
      <3>1. CASE q \in K
        BY <2>1, <3>1
      <3>2. CASE q \notin K
        <4>1. pair[2].time < q.time /\ pair[2].time \in Nat /\ q.time \in Nat
          BY <2>2, <3>2 DEF Timed
        <4> QED BY <4>1
      <3> QED BY <3>1, <3>2
    <2> QED BY <2>1, <2>2, <2>3 DEF Pairs
  <1> QED BY <1>1 DEF Upsample

(* One more report, later than all the others.                             *)
LEMMA UpsampleGrows ==
  ASSUME NEW S, Timed(S), Ends(S), NEW x, x.time \in Nat, \A p \in S : p.time < x.time
  PROVE  Upsample(Usable(S)) \subseteq Upsample(Usable(S \cup {x}))
  <1> DEFINE P == OnRoute(Extract(S))
             Q == OnRoute(Extract(S \cup {x}))
  <1>1. P \subseteq Q /\ Q \subseteq P \cup {x} /\ P \subseteq S /\ Q \subseteq S \cup {x}
    <2>1. P \subseteq S /\ Q \subseteq S \cup {x}
      BY DEF OnRoute, Extract
    <2> QED BY <2>1, PointsGrow
  <1> HIDE DEF P, Q
  <1>2. Timed(Q) /\ \A p \in P, q \in Q \ P : p.time < q.time
    BY <1>1 DEF Timed
  <1>3. Ends(Q)
    <2>1. \A p \in Q : p.time <= x.time
      BY <1>1 DEF Timed
    <2> QED BY <2>1 DEF Ends
  <1>4. Keep(P) = Keep(Q) \cap P
    BY <1>1, <1>2, <1>3, KeepGrows
  <1>5. Keep(Q) \subseteq Q
    BY DEF Keep
  <1>6. \A p \in Keep(P), q \in Keep(Q) \ Keep(P) : p.time < q.time
    BY <1>2, <1>4, <1>5
  <1>7. Timed(Keep(Q))
    BY <1>2, <1>5 DEF Timed
  <1>8. Keep(P) \subseteq Keep(Q)
    BY <1>4
  <1> QED BY <1>6, <1>7, <1>8, PairsGrow DEF Usable, P, Q

(* What an instance's rows are while its reports come in order.            *)
RowsKept == InOrder => rows \subseteq Upsample(Usable(observed))

LEMMA DerivedOrNothing ==
  Derive(observed) = {} \/ Derive(observed) = Upsample(Usable(observed))
  BY DEF Derive

LEMMA RowsKeptHolds ==
  ASSUME IInv, Ends(observed), RowsKept, [Next]_vars
  PROVE  RowsKept'
  <1>1. CASE Observe
    <2> SUFFICES ASSUME InOrder' PROVE rows' \subseteq Upsample(Usable(observed'))
      BY DEF RowsKept
    <2>1. PICK s \in Samples :
             observed' = observed \cup
                {[id |-> Cardinality(observed) + 1, time |-> s.time, fix |-> s.fix,
                  travel |-> s.travel, off |-> s.off, route |-> s.route]}
      BY <1>1 DEF Observe
    <2> DEFINE n == Cardinality(observed)
               x == [id |-> n + 1, time |-> s.time, fix |-> s.fix,
                     travel |-> s.travel, off |-> s.off, route |-> s.route]
    <2>2. observed' = observed \cup {x} /\ x.id = n + 1 /\ x.time \in Nat
      BY <2>1, SettingsAssumption
    <2>3. n \in Nat /\ \A p \in observed : p.id \in 1..n
      BY FS_CardinalityType DEF IInv, Reported
    <2> HIDE DEF n, x
    <2>4. \A p \in observed : p.id < x.id
      BY <2>2, <2>3
    <2>5. \A p, q \in observed \cup {x} : p.id < q.id => p.time < q.time
      BY <2>2 DEF InOrder
    <2>6. \A p \in observed : p.time < x.time
      BY <2>4, <2>5
    <2>7. InOrder
      BY <2>5 DEF InOrder
    <2>8. Timed(observed)
      BY DEF IInv, Reported, Timed
    <2>9. Upsample(Usable(observed)) \subseteq Upsample(Usable(observed \cup {x}))
      BY <2>2, <2>6, <2>8, UpsampleGrows
    <2>10. rows' = rows
      BY <1>1 DEF Observe
    <2> QED BY <2>2, <2>7, <2>9, <2>10 DEF RowsKept
  <1>2. CASE Refresh
    <2>1. observed' = observed /\ (rows' = rows \/ rows' = Derive(observed))
      BY <1>2 DEF Refresh
    <2>2. Usable(observed)' = Usable(observed) /\ InOrder' = InOrder
      BY <2>1 DEF InOrder
    <2> QED BY <2>1, <2>2, DerivedOrNothing DEF RowsKept
  <1>3. CASE UNCHANGED vars
    BY <1>3 DEF vars, RowsKept, InOrder
  <1> QED BY <1>1, <1>2, <1>3 DEF Next

(* "partial trajectories from earlier in the day get upgraded as more raw  *)
(* data lands" (run_for_date): while reports come in the order of their    *)
(* times, no refresh takes a row away, whatever the filter and the cap.    *)
THEOREM UpgradesKept == Spec => UpgradesOnly
<1>1. Init => RowsKept
  BY DEF Init, RowsKept
<1>2. IInv /\ Ends(observed) /\ RowsKept /\ [Next]_vars => RowsKept'
  BY RowsKeptHolds
<1>3. RowsKept /\ [Next]_vars => [InOrder => rows \subseteq rows']_vars
  <2> SUFFICES ASSUME RowsKept, Next, InOrder PROVE rows \subseteq rows'
    OBVIOUS
  <2>1. CASE Observe
    BY <2>1 DEF Observe
  <2>2. CASE Refresh
    BY <2>2, DerivedOrNothing DEF Refresh, RowsKept
  <2> QED BY <2>1, <2>2 DEF Next
<1> QED
  BY Invariance, ReportsEnd, <1>1, <1>2, <1>3, PTL DEF Spec, UpgradesOnly
=============================================================================
