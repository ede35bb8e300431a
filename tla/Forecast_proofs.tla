-------------------------- MODULE Forecast_proofs --------------------------
(***************************************************************************)
(* The forecasts of a solve, for lists of any length and order, slots and  *)
(* horizons of any size and any now: a call is well typed, its prices run  *)
(* from the one in force, its horizon ends with the curve and its          *)
(* generation is the latest point's.                                       *)
(*                                                                         *)
(* Order of the argument: extremes and induction up to a bound, the sort,  *)
(* the cut at now, the horizon, the scan of the generation series, and the *)
(* invariants of the specification.                                        *)
(***************************************************************************)
EXTENDS Forecast, FiniteSetTheorems, SequenceTheorems, WellFoundedInduction, TLAPS

\* The points of a list; a list in order, and one without two equal items.
Points(f)    == {f[i] : i \in DOMAIN f}
Ascending(f) == \A i, j \in DOMAIN f : i < j => f[i] <= f[j]
Distinct(f)  == \A i, j \in DOMAIN f : f[i] = f[j] => i = j

-----------------------------------------------------------------------------
(***************************************************************************)
(* Extremes, whole slots and induction                                     *)
(***************************************************************************)

\* The smaller of two numbers.
LEMMA MinOfTwo ==
    ASSUME NEW a \in Int, NEW b \in Int
    PROVE  Min({a, b}) = IF a <= b THEN a ELSE b
<1>1. \E x \in {a, b} : \A y \in {a, b} : x <= y
  OBVIOUS
<1>2. Min({a, b}) \in {a, b} /\ \A y \in {a, b} : Min({a, b}) <= y
  BY <1>1 DEF Min
<1> QED
  BY <1>2

\* The larger of two numbers.
LEMMA MaxOfTwo ==
    ASSUME NEW a \in Int, NEW b \in Int
    PROVE  Max({a, b}) = IF a >= b THEN a ELSE b
<1>1. \E x \in {a, b} : \A y \in {a, b} : x >= y
  OBVIOUS
<1>2. Max({a, b}) \in {a, b} /\ \A y \in {a, b} : Max({a, b}) >= y
  BY <1>1 DEF Max
<1> QED
  BY <1>2

\* Whole slots are the most that fit.
LEMMA WholeSlots ==
    ASSUME NEW n \in Int, NEW d \in Nat \ {0}
    PROVE  /\ n \div d \in Int
           /\ (n \div d) * d <= n
           /\ n < (n \div d + 1) * d
OBVIOUS

\* Of numbers there is a first one.
LEMMA FirstOf ==
    ASSUME NEW S \in SUBSET Nat, S # {}
    PROVE  Min(S) \in S /\ \A i \in S : Min(S) <= i
<1>1. \E x \in S : \A y \in S : ~(<<y, x>> \in OpToRel(<, Nat))
  BY WFMin, NatLessThanWellFounded
<1>2. \A x, y \in Nat : <<y, x>> \in OpToRel(<, Nat) <=> y < x
  BY DEF OpToRel
<1>3. PICK x \in S : \A y \in S : ~(y < x)
  BY <1>1, <1>2
<1>4. \A y \in S : x <= y
  BY <1>3
<1> QED
  BY <1>4 DEF Min

\* A member no other one exceeds is the maximum, one that exceeds no other the
\* minimum.
LEMMA MaxIs ==
    ASSUME NEW S \in SUBSET Int, NEW m \in S, \A x \in S : x <= m
    PROVE  Max(S) = m
<1>1. Max(S) \in S /\ \A x \in S : Max(S) >= x
  BY DEF Max
<1>2. Max(S) \in Int /\ m \in Int /\ Max(S) >= m /\ Max(S) <= m
  BY <1>1
<1> HIDE DEF Max
<1> QED
  BY <1>2
LEMMA MinIs ==
    ASSUME NEW S \in SUBSET Int, NEW m \in S, \A x \in S : m <= x
    PROVE  Min(S) = m
<1>1. Min(S) \in S /\ \A x \in S : Min(S) <= x
  BY DEF Min
<1>2. Min(S) \in Int /\ m \in Int /\ Min(S) <= m /\ Min(S) >= m
  BY <1>1
<1> HIDE DEF Min
<1> QED
  BY <1>2

\* Induction up to a bound: a set with 0 and with the successor of each of its
\* members below n has all numbers up to n.
LEMMA UpTo ==
    ASSUME NEW n \in Nat, NEW S, 0 \in S,
           \A m \in 0..n : m < n /\ m \in S => m + 1 \in S
    PROVE  0..n \subseteq S
<1> DEFINE T == {m \in 0..n : m \notin S}
<1> SUFFICES ASSUME T # {} PROVE FALSE
  OBVIOUS
<1>1. Min(T) \in T /\ \A i \in T : Min(T) <= i
  <2>1. T \in SUBSET Nat
    OBVIOUS
  <2> HIDE DEF T
  <2> QED
    BY <2>1, FirstOf
<1>2. PICK m \in T : \A i \in T : m <= i
  BY <1>1
<1>3. m # 0 /\ m \in 0..n
  OBVIOUS
<1>4. m - 1 \in 0..n /\ m - 1 < n
  BY <1>3
<1>5. m - 1 \in S
  BY <1>2, <1>3, <1>4
<1>6. (m - 1) + 1 \in S
  BY <1>4, <1>5
<1> QED
  BY <1>3, <1>6

\* Of positions in a list there is a last one.
LEMMA LastOf ==
    ASSUME NEW n \in Nat, NEW S \in SUBSET (1..n), S # {}
    PROVE  Max(S) \in S /\ \A i \in S : i <= Max(S)
<1> DEFINE T == {n - i : i \in S}
<1>1. T \subseteq Nat /\ T # {}
  <2>1. \A i \in S : n - i \in Nat
    OBVIOUS
  <2> QED
    BY <2>1
<1>2. \E x \in T : \A y \in T : ~(<<y, x>> \in OpToRel(<, Nat))
  BY <1>1, WFMin, NatLessThanWellFounded
<1>3. \A x, y \in Nat : <<y, x>> \in OpToRel(<, Nat) <=> y < x
  BY DEF OpToRel
<1>4. PICK x \in T : \A y \in T : ~(y < x)
  BY <1>1, <1>2, <1>3
<1>5. PICK m \in S : x = n - m
  OBVIOUS
<1>6. \A i \in S : i <= m
  <2> SUFFICES ASSUME NEW i \in S PROVE i <= m
    OBVIOUS
  <2>1. n - i \in T /\ i \in Int /\ m \in Int
    OBVIOUS
  <2> QED
    BY <1>4, <1>5, <2>1
<1> QED
  BY <1>6 DEF Max

-----------------------------------------------------------------------------
(***************************************************************************)
(* The sort                                                                *)
(***************************************************************************)

\* le is a total order of S.
TotalOrder(S, le) ==
    /\ \A i \in S : <<i, i>> \in le
    /\ \A i, j \in S : <<i, j>> \in le \/ <<j, i>> \in le
    /\ \A i, j \in S : <<i, j>> \in le /\ <<j, i>> \in le => i = j
    /\ \A i, j, k \in S : <<i, j>> \in le /\ <<j, k>> \in le => <<i, k>> \in le

\* How far back le puts i, and the members of S in that order.
Rank(S, le, i) == Cardinality({j \in S : <<j, i>> \in le})
Listed(S, le) == [k \in 1..Cardinality(S) |-> CHOOSE i \in S : Rank(S, le, i) = k]

\* A later position has a greater rank.
LEMMA RankOrder ==
    ASSUME NEW S, IsFiniteSet(S), NEW le, TotalOrder(S, le)
    PROVE  /\ \A i \in S : Rank(S, le, i) \in 1..Cardinality(S)
           /\ \A i, j \in S : <<i, j>> \in le /\ i # j => Rank(S, le, i) < Rank(S, le, j)
<1> DEFINE below(i) == {j \in S : <<j, i>> \in le}
<1>1. \A i \in S : IsFiniteSet(below(i)) /\ Cardinality(below(i)) <= Cardinality(S)
                   /\ Cardinality(below(i)) \in Nat
  <2> SUFFICES ASSUME NEW i \in S
               PROVE  /\ IsFiniteSet(below(i)) /\ Cardinality(below(i)) <= Cardinality(S)
                      /\ Cardinality(below(i)) \in Nat
    OBVIOUS
  <2>1. below(i) \in SUBSET S
    OBVIOUS
  <2> HIDE DEF below
  <2> QED
    BY <2>1, FS_Subset, FS_CardinalityType
<1>2. Cardinality(S) \in Nat
  BY FS_CardinalityType
<1>3. ASSUME NEW i \in S PROVE Cardinality(below(i)) \in 1..Cardinality(S)
  <2>1. i \in below(i)
    BY DEF TotalOrder
  <2> HIDE DEF below
  <2>2. Cardinality(below(i)) # 0
    BY <1>1, <2>1, FS_EmptySet
  <2> QED
    BY <1>1, <1>2, <2>2
<1>4. ASSUME NEW i \in S, NEW j \in S, <<i, j>> \in le, i # j
      PROVE  Cardinality(below(i)) < Cardinality(below(j))
  <2>1. below(i) \in SUBSET below(j)
    BY <1>4 DEF TotalOrder
  <2>2. j \in below(j) /\ j \notin below(i)
    BY <1>4 DEF TotalOrder
  <2> HIDE DEF below
  <2>3. Cardinality(below(i)) <= Cardinality(below(j)) /\ Cardinality(below(i)) # Cardinality(below(j))
    BY <1>1, <2>1, <2>2, FS_Subset
  <2> QED
    BY <1>1, <2>3
<1> QED
  BY <1>3, <1>4 DEF Rank

\* Every rank is taken, and only once.
LEMMA RankOnto ==
    ASSUME NEW S, IsFiniteSet(S), NEW le, TotalOrder(S, le)
    PROVE  /\ \A k \in 1..Cardinality(S) : \E i \in S : Rank(S, le, i) = k
           /\ \A i, j \in S : Rank(S, le, i) = Rank(S, le, j) => i = j
<1> DEFINE n == Cardinality(S)
           r == [i \in S |-> Rank(S, le, i)]
<1>1. n \in Nat /\ IsFiniteSet(1..n) /\ Cardinality(1..n) = n
  BY FS_CardinalityType, FS_Interval
<1>2. \A i, j \in S : Rank(S, le, i) = Rank(S, le, j) => i = j
  <2> SUFFICES ASSUME NEW i \in S, NEW j \in S, i # j PROVE Rank(S, le, i) # Rank(S, le, j)
    OBVIOUS
  <2>1. <<i, j>> \in le \/ <<j, i>> \in le
    BY DEF TotalOrder
  <2>2. Rank(S, le, i) \in 1..n /\ Rank(S, le, j) \in 1..n
    BY RankOrder
  <2>3. Rank(S, le, i) < Rank(S, le, j) \/ Rank(S, le, j) < Rank(S, le, i)
    BY <2>1, RankOrder
  <2> QED
    BY <1>1, <2>2, <2>3
<1>3. r \in [S -> 1..n]
  BY RankOrder
<1>4. r \in Injection(S, 1..n)
  BY <1>2, <1>3 DEF Injection, IsInjective
<1> HIDE DEF n
<1>5. r \in Surjection(S, 1..n)
  BY <1>1, <1>4, FS_Injection DEF n
<1> QED
  BY <1>2, <1>5 DEF Surjection, n

\* Ranks list each position once, in order.
LEMMA ListedOrder ==
    ASSUME NEW S, IsFiniteSet(S), NEW le, TotalOrder(S, le)
    PROVE  /\ Cardinality(S) \in Nat
           /\ Listed(S, le) \in [1..Cardinality(S) -> S]
           /\ \A i \in S : \E k \in 1..Cardinality(S) : Listed(S, le)[k] = i
           /\ \A k, l \in 1..Cardinality(S) :
                  k < l => /\ <<Listed(S, le)[k], Listed(S, le)[l]>> \in le
                           /\ Listed(S, le)[k] # Listed(S, le)[l]
<1> DEFINE n == Cardinality(S)
           o == Listed(S, le)
<1>1. n \in Nat
  BY FS_CardinalityType
<1>2. ASSUME NEW k \in 1..n PROVE o[k] \in S /\ Rank(S, le, o[k]) = k
  BY RankOnto DEF Listed
<1>3. o = [k \in 1..n |-> o[k]]
  BY DEF Listed
<1> HIDE DEF n, o
<1>4. o \in [1..n -> S]
  BY <1>2, <1>3
<1>5. ASSUME NEW i \in S PROVE \E k \in 1..n : o[k] = i
  <2>1. Rank(S, le, i) \in 1..n
    BY RankOrder DEF n
  <2> QED
    BY <1>2, <2>1, RankOnto
<1>6. ASSUME NEW k \in 1..n, NEW l \in 1..n, k < l
      PROVE  <<o[k], o[l]>> \in le /\ o[k] # o[l]
  <2>1. o[k] \in S /\ o[l] \in S /\ Rank(S, le, o[k]) = k /\ Rank(S, le, o[l]) = l
    BY <1>2
  <2>2. o[k] # o[l]
    BY <1>1, <1>6, <2>1
  <2>3. <<o[k], o[l]>> \in le \/ <<o[l], o[k]>> \in le
    BY <2>1 DEF TotalOrder
  <2>4. <<o[l], o[k]>> \in le => l < k
    BY <2>1, <2>2, RankOrder
  <2> QED
    BY <1>1, <1>6, <2>2, <2>3, <2>4
<1> QED
  BY <1>1, <1>4, <1>5, <1>6 DEF n, o

\* A sorted list has the items at the positions, in the order of the ranks.
LEMMA SortedList ==
    ASSUME NEW items, NEW S, IsFiniteSet(S), NEW le, TotalOrder(S, le),
           NEW T, \A i \in S : items[i] \in T
    PROVE  /\ Sorted(items, S, le) \in Seq(T)
           /\ DOMAIN Sorted(items, S, le) = 1..Cardinality(S)
           /\ \A k \in 1..Cardinality(S) : Sorted(items, S, le)[k] = items[Listed(S, le)[k]]
<1> DEFINE n == Cardinality(S)
           o == Listed(S, le)
           f == [k \in 1..n |-> items[o[k]]]
<1>1. n \in Nat /\ \A k \in 1..n : o[k] \in S
  BY ListedOrder
<1>2. \A k \in 1..n : o[k] = CHOOSE i \in S : Cardinality({j \in S : <<j, i>> \in le}) = k
  BY DEF Listed, Rank
<1>3. \A k \in 1..n :
         items[o[k]] = items[CHOOSE i \in S : Cardinality({j \in S : <<j, i>> \in le}) = k]
  BY <1>2, Zenon
<1>4. Sorted(items, S, le) = f
  BY <1>3, Zenon DEF Sorted
<1> HIDE DEF n, o
<1>5. f \in Seq(T) /\ DOMAIN f = 1..n /\ \A k \in 1..n : f[k] = items[o[k]]
  BY <1>1
<1> HIDE DEF f
<1> QED
  BY <1>4, <1>5 DEF n, o

\* The local times of instants are in the order of the instants: the clocks are
\* not put back.
ClockKeepsOrder == \A p, q \in Times : p < q => TextBefore(p, q)

\* Of two instants one comes first in text, and only one.
LEMMA TextOrder ==
    ASSUME NEW p \in Times, NEW q \in Times
    PROVE  /\ p = q \/ TextBefore(p, q) \/ TextBefore(q, p)
           /\ ~(TextBefore(p, q) /\ TextBefore(q, p))
           /\ TextBefore(p, q) => p # q
           /\ \A r \in Times : TextBefore(p, q) /\ TextBefore(q, r) => TextBefore(p, r)
           /\ ClockKeepsOrder /\ TextBefore(p, q) => p < q
<1>1. \A r \in Times : r \in Int /\ Offset[r] \in Int
  BY OffsetAssumption DEF Times
<1>2. p = q \/ TextBefore(p, q) \/ TextBefore(q, p)
  BY <1>1 DEF TextBefore
<1>3. ~(TextBefore(p, q) /\ TextBefore(q, p))
  BY <1>1 DEF TextBefore
<1>4. TextBefore(p, q) => p # q
  BY <1>1 DEF TextBefore
<1>5. ASSUME NEW r \in Times, TextBefore(p, q), TextBefore(q, r) PROVE TextBefore(p, r)
  BY <1>1, <1>5 DEF TextBefore
<1>6. ASSUME ClockKeepsOrder, TextBefore(p, q) PROVE p < q
  <2>1. q < p => TextBefore(q, p)
    BY <1>6 DEF ClockKeepsOrder
  <2> QED
    BY <1>1, <1>3, <1>4, <1>6, <2>1
<1> QED
  BY <1>2, <1>3, <1>4, <1>5, <1>6

\* Reading a list loses nothing that can be parsed and adds nothing.  The result is
\* in time order when the clocks are not put back, and without a point twice when
\* the list is.
LEMMA ParsedList ==
    ASSUME NEW items \in Seq(Times \cup {Bad})
    PROVE  /\ Parse(items) \in Seq(Int)
           /\ Points(Parse(items)) = Points(items) \ {Bad}
           /\ ClockKeepsOrder => Ascending(Parse(items))
           /\ (\A i, j \in DOMAIN items : items[i] = items[j] => i = j \/ items[i] = Bad)
                 => Distinct(Parse(items))
<1> DEFINE S  == {i \in DOMAIN items : items[i] # Bad}
           le == {p \in S \X S :
                    \/ TextBefore(items[p[1]], items[p[2]])
                    \/ items[p[1]] = items[p[2]] /\ p[1] <= p[2]}
           n  == Cardinality(S)
           o  == Listed(S, le)
           f  == Parse(items)
           early(i, j) == \/ TextBefore(items[i], items[j])
                          \/ items[i] = items[j] /\ i <= j
<1>1. /\ Len(items) \in Nat /\ DOMAIN items = 1..Len(items)
      /\ \A i \in DOMAIN items : items[i] \in Times \cup {Bad}
  OBVIOUS
<1>2. \A i \in S : i \in DOMAIN items /\ i \in Int /\ items[i] \in Times
  BY <1>1
<1>3. IsFiniteSet(S)
  <2>1. S \in SUBSET (1..Len(items))
    BY <1>1
  <2>2. IsFiniteSet(1..Len(items))
    BY <1>1, FS_Interval
  <2> HIDE DEF S
  <2> QED
    BY <2>1, <2>2, FS_Subset
<1>4. \A i, j \in S : <<i, j>> \in le <=> early(i, j)
  <2> HIDE DEF S
  <2> SUFFICES ASSUME NEW i \in S, NEW j \in S PROVE <<i, j>> \in le <=> early(i, j)
    OBVIOUS
  <2>1. <<i, j>> \in S \X S /\ <<i, j>>[1] = i /\ <<i, j>>[2] = j
    OBVIOUS
  <2> QED
    BY <2>1, Zenon
<1>5. f = Sorted(items, S, le)
  BY DEF Parse
<1> HIDE DEF S, le
<1>6. TotalOrder(S, le)
  <2>1. \A i \in S : <<i, i>> \in le
    BY <1>2, <1>4
  <2>2. ASSUME NEW i \in S, NEW j \in S
        PROVE  /\ <<i, j>> \in le \/ <<j, i>> \in le
               /\ <<i, j>> \in le /\ <<j, i>> \in le => i = j
    <3>1. /\ items[i] = items[j] \/ TextBefore(items[i], items[j])
                                \/ TextBefore(items[j], items[i])
          /\ ~(TextBefore(items[i], items[j]) /\ TextBefore(items[j], items[i]))
          /\ TextBefore(items[i], items[j]) => items[i] # items[j]
          /\ TextBefore(items[j], items[i]) => items[i] # items[j]
      BY <1>2, TextOrder
    <3>2. i <= j \/ j <= i
      BY <1>2
    <3>3. i <= j /\ j <= i => i = j
      BY <1>2
    <3>4. (<<i, j>> \in le <=> early(i, j)) /\ (<<j, i>> \in le <=> early(j, i))
      BY <1>4
    <3> QED
      BY <3>1, <3>2, <3>3, <3>4, Zenon
  <2>4. \A i, j, k \in S : <<i, j>> \in le /\ <<j, k>> \in le => <<i, k>> \in le
    <3> SUFFICES ASSUME NEW i \in S, NEW j \in S, NEW k \in S,
                        <<i, j>> \in le, <<j, k>> \in le
                 PROVE  <<i, k>> \in le
      OBVIOUS
    <3>1. TextBefore(items[i], items[j]) /\ TextBefore(items[j], items[k])
            => TextBefore(items[i], items[k])
      BY <1>2, TextOrder
    <3> QED
      BY <1>2, <1>4, <3>1
  <2> QED
    BY <2>1, <2>2, <2>4 DEF TotalOrder
<1>7. /\ n \in Nat /\ o \in [1..n -> S]
      /\ \A i \in S : \E k \in 1..n : o[k] = i
      /\ \A k, l \in 1..n : k < l => <<o[k], o[l]>> \in le /\ o[k] # o[l]
  BY <1>3, <1>6, ListedOrder
<1>8. f \in Seq(Int) /\ DOMAIN f = 1..n /\ \A k \in 1..n : f[k] = items[o[k]]
  <2>1. \A i \in S : items[i] \in Int
    BY <1>2 DEF Times
  <2> QED
    BY <1>3, <1>5, <1>6, <2>1, SortedList
<1> HIDE DEF n, o, f
<1>9. \A k \in 1..n : f[k] = items[o[k]] /\ o[k] \in S
  BY <1>7, <1>8
<1>11. Points(f) = Points(items) \ {Bad}
  <2>1. ASSUME NEW p \in Points(f) PROVE p \in Points(items) \ {Bad}
    <3>1. PICK k \in 1..n : p = items[o[k]] /\ o[k] \in S
      BY <1>8, <1>9 DEF Points
    <3> QED
      BY <3>1 DEF Points, S
  <2>2. ASSUME NEW p \in Points(items) \ {Bad} PROVE p \in Points(f)
    <3>1. PICK i \in S : p = items[i]
      BY DEF Points, S
    <3>2. PICK k \in 1..n : o[k] = i
      BY <1>7
    <3> QED
      BY <1>8, <1>9, <3>1, <3>2 DEF Points
  <2> QED
    BY <2>1, <2>2
<1>12. ASSUME ClockKeepsOrder PROVE Ascending(f)
  <2> SUFFICES ASSUME NEW k \in 1..n, NEW l \in 1..n, k < l PROVE f[k] <= f[l]
    BY <1>8 DEF Ascending
  <2>1. \/ TextBefore(items[o[k]], items[o[l]])
        \/ items[o[k]] = items[o[l]]
    BY <1>4, <1>7, <1>9
  <2>2. items[o[k]] \in Times /\ items[o[l]] \in Times
    BY <1>2, <1>9
  <2>3. items[o[k]] < items[o[l]] \/ items[o[k]] = items[o[l]]
    BY <1>12, <2>1, <2>2, TextOrder
  <2> QED
    BY <1>9, <2>2, <2>3 DEF Times
<1>13. ASSUME \A i, j \in DOMAIN items : items[i] = items[j] => i = j \/ items[i] = Bad
       PROVE  Distinct(f)
  <2> SUFFICES ASSUME NEW k \in 1..n, NEW l \in 1..n, f[k] = f[l] PROVE k = l
    BY <1>8 DEF Distinct
  <2>1. o[k] = o[l]
    <3>1. items[o[k]] = items[o[l]] /\ o[k] \in S /\ o[l] \in S
      BY <1>9
    <3> QED
      BY <1>13, <3>1 DEF S
  <2>2. ~(k < l) /\ ~(l < k)
    BY <1>7, <2>1
  <2> QED
    BY <1>7, <2>2
<1> QED
  BY <1>8, <1>11, <1>12, <1>13 DEF f

-----------------------------------------------------------------------------
(***************************************************************************)
(* The cut                                                                 *)
(***************************************************************************)

\* The positions up to which all points have elapsed or are in force.
Elapsed(f) == {i \in DOMAIN f : \A j \in 1..i : f[j] <= now}

\* They are those of the points up to now, and the points after the last are to
\* come.
LEMMA LastElapsed ==
    ASSUME NEW f \in Seq(Int), Ascending(f), now \in Int, Elapsed(f) # {}
    PROVE  /\ Max(Elapsed(f)) \in DOMAIN f
           /\ f[Max(Elapsed(f))] <= now
           /\ \A j \in DOMAIN f : j > Max(Elapsed(f)) => f[j] > now
<1> DEFINE m == Max(Elapsed(f))
<1>1. Len(f) \in Nat /\ DOMAIN f = 1..Len(f) /\ \A i \in DOMAIN f : f[i] \in Int
  OBVIOUS
<1>2. m \in Elapsed(f) /\ \A i \in Elapsed(f) : i <= m
  <2>1. Elapsed(f) \in SUBSET (1..Len(f))
    BY <1>1 DEF Elapsed
  <2> QED
    BY <1>1, <2>1, LastOf
<1> HIDE DEF m
<1>3. m \in DOMAIN f /\ f[m] <= now
  BY <1>1, <1>2 DEF Elapsed
<1>4. ASSUME NEW j \in DOMAIN f, j > m, f[j] <= now PROVE FALSE
  <2>1. \A i \in 1..j : f[i] <= now
    <3> SUFFICES ASSUME NEW i \in 1..j PROVE f[i] <= now
      OBVIOUS
    <3>1. i \in DOMAIN f
      BY <1>1
    <3>2. i = j \/ f[i] <= f[j]
      BY <3>1, <1>1 DEF Ascending
    <3> QED
      BY <1>1, <1>4, <3>1, <3>2
  <2>2. j \in Elapsed(f)
    BY <2>1 DEF Elapsed
  <2> QED
    BY <1>1, <1>2, <1>3, <1>4, <2>2
<1>5. \A j \in DOMAIN f : j > m => f[j] > now
  BY <1>1, <1>4
<1> QED
  BY <1>3, <1>5 DEF m

\* The end of a list from position k on.
LEMMA Suffix ==
    ASSUME NEW f \in Seq(Int), NEW k \in 1..Len(f)
    PROVE  /\ SubSeq(f, k, Len(f)) \in Seq(Int)
           /\ Len(SubSeq(f, k, Len(f))) = Len(f) - k + 1
           /\ \A i \in 1..Len(f) - k + 1 : SubSeq(f, k, Len(f))[i] = f[k + i - 1]
<1>1. Len(f) \in Nat /\ \A i \in 1..Len(f) : f[i] \in Int
  OBVIOUS
<1>2. \A i \in 1..Len(f) - k + 1 : k + i - 1 \in 1..Len(f)
  BY <1>1
<1> QED
  BY <1>1, <1>2

\* The cut of a sorted curve keeps its order and exactly the points from its first
\* one on.  That is the last point up to now, the one in force; when all of the
\* curve is to come, it is cut nowhere.
THEOREM CutKeepsRest ==
    ASSUME NEW f \in Seq(Int), f # <<>>, Ascending(f), now \in Int
    PROVE  LET s == SliceFromNow(f)
           IN  /\ s \in Seq(Int) /\ s # <<>> /\ Ascending(s)
               /\ \A p \in Points(f) : p >= s[1] <=> p \in Points(s)
               /\ Points(s) \subseteq Points(f) /\ (Distinct(f) => Distinct(s))
               /\ s[1] <= now => \A p \in Points(f) : p > s[1] => p > now
               /\ s[1] > now => s = f
<1> DEFINE k == IF Elapsed(f) = {} THEN 1 ELSE Max(Elapsed(f))
           n == Len(f) - k + 1
           s == SubSeq(f, k, Len(f))
<1>1. SliceFromNow(f) = s
  BY DEF SliceFromNow, Elapsed
<1>2. Len(f) \in Nat /\ DOMAIN f = 1..Len(f) /\ \A i \in DOMAIN f : f[i] \in Int
  OBVIOUS
<1>3. 1 \in DOMAIN f
  BY <1>2
<1>4. /\ k \in DOMAIN f
      /\ \A j \in DOMAIN f : j > k => f[j] > now
      /\ f[k] <= now \/ k = 1
  <2>1. CASE Elapsed(f) = {}
    <3>1. f[1] > now
      <4>1. 1 \notin Elapsed(f)
        BY <2>1
      <4>2. \A j \in 1..1 : j = 1
        OBVIOUS
      <4> QED
        BY <1>2, <1>3, <4>1, <4>2 DEF Elapsed
    <3>2. ASSUME NEW j \in DOMAIN f, j > 1 PROVE f[j] > now
      <4>1. f[1] <= f[j]
        BY <1>2, <1>3, <3>2 DEF Ascending
      <4> QED
        BY <1>2, <1>3, <3>1, <4>1
    <3> QED
      BY <1>3, <2>1, <3>2
  <2>2. CASE Elapsed(f) # {}
    BY <2>2, LastElapsed
  <2> QED
    BY <2>1, <2>2
<1> HIDE DEF k
<1>5. /\ s \in Seq(Int) /\ Len(s) = n /\ n >= 1
      /\ \A i \in 1..n : k + i - 1 \in DOMAIN f /\ s[i] = f[k + i - 1]
  <2>1. k \in 1..Len(f)
    BY <1>2, <1>4
  <2>2. s \in Seq(Int) /\ Len(s) = n /\ \A i \in 1..n : s[i] = f[k + i - 1]
    BY <2>1, Suffix
  <2> HIDE DEF s
  <2>3. n >= 1 /\ \A i \in 1..n : k + i - 1 \in DOMAIN f
    BY <1>2, <2>1
  <2> QED
    BY <2>2, <2>3
<1> HIDE DEF s
<1>6. s # <<>> /\ DOMAIN s = 1..n /\ s[1] = f[k]
  BY <1>2, <1>4, <1>5
<1>7. Ascending(s)
  BY <1>2, <1>4, <1>5, <1>6 DEF Ascending
<1>8. Points(s) \subseteq Points(f)
  BY <1>5, <1>6 DEF Points
<1>12. Distinct(f) => Distinct(s)
  BY <1>2, <1>4, <1>5, <1>6 DEF Distinct
<1>9. ASSUME NEW p \in Points(f) PROVE p >= s[1] <=> p \in Points(s)
  <2>1. PICK i \in DOMAIN f : p = f[i]
    BY DEF Points
  <2>2. CASE i >= k
    <3>1. i - k + 1 \in 1..n /\ k + (i - k + 1) - 1 = i
      BY <1>2, <1>4, <2>1, <2>2
    <3>2. s[i - k + 1] = p
      BY <1>5, <2>1, <3>1
    <3>3. p \in Points(s)
      BY <1>6, <3>1, <3>2 DEF Points
    <3>4. i = k \/ f[k] <= f[i]
      BY <1>2, <1>4, <2>1, <2>2 DEF Ascending
    <3> QED
      BY <1>2, <1>4, <1>6, <2>1, <3>3, <3>4
  <2>3. CASE i < k
    <3>1. f[i] <= f[k]
      BY <1>2, <1>4, <2>1, <2>3 DEF Ascending
    <3>2. p >= s[1] => p = s[1]
      BY <1>2, <1>4, <1>6, <2>1, <3>1
    <3>3. s[1] \in Points(s)
      <4>1. 1 \in DOMAIN s
        BY <1>2, <1>4, <1>5, <1>6
      <4> QED
        BY <4>1 DEF Points
    <3>4. p \in Points(s) => p >= s[1]
      <4> SUFFICES ASSUME p \in Points(s) PROVE p >= s[1]
        OBVIOUS
      <4>1. PICK j \in 1..n : p = s[j]
        BY <1>6 DEF Points
      <4>2. k + j - 1 \in DOMAIN f /\ p = f[k + j - 1]
        BY <1>5, <4>1
      <4>3. k + j - 1 = k \/ f[k] <= f[k + j - 1]
        BY <1>2, <1>4, <4>2 DEF Ascending
      <4> QED
        BY <1>2, <1>4, <1>6, <4>2, <4>3
    <3> QED
      BY <3>2, <3>3, <3>4
  <2> QED
    BY <1>2, <1>4, <2>1, <2>2, <2>3
<1>10. ASSUME NEW p \in Points(f), p > s[1] PROVE p > now
  <2>1. PICK i \in DOMAIN f : p = f[i]
    BY DEF Points
  <2>2. i > k
    <3>1. i = k \/ (i < k => f[i] <= f[k])
      BY <1>4, <2>1 DEF Ascending
    <3> QED
      BY <1>2, <1>4, <1>6, <1>10, <2>1, <3>1
  <2> QED
    BY <1>4, <2>1, <2>2
<1>11. s[1] > now => s = f
  <2> SUFFICES ASSUME s[1] > now PROVE s = f
    OBVIOUS
  <2>1. k = 1
    BY <1>2, <1>4, <1>6
  <2> QED
    BY <1>2, <1>5, <1>6, <2>1
<1> QED
  BY <1>1, <1>5, <1>6, <1>7, <1>8, <1>9, <1>10, <1>11, <1>12

-----------------------------------------------------------------------------
(***************************************************************************)
(* The horizon                                                             *)
(***************************************************************************)

\* Where a curve ends: its last point covers a step.
End(s) == s[Len(s)] + Step(s)

\* The horizon is at least one slot and at most horizon_hours; a horizon of several
\* slots does not reach beyond the curve; and it is as long as both allow.
THEOREM HorizonWithinCurve ==
    ASSUME NEW s \in Seq(Int), s # <<>>
    PROVE  /\ HorizonSlots(s) \in 1..(MaxHorizon \div Slot)
           /\ HorizonSlots(s) > 1 => s[1] + HorizonSlots(s) * Slot <= End(s)
           /\ \/ s[1] + (HorizonSlots(s) + 1) * Slot > End(s)
              \/ HorizonSlots(s) = MaxHorizon \div Slot
<1> DEFINE covered == s[Len(s)] + Step(s) - s[1]
           cap     == MaxHorizon \div Slot
           whole   == covered \div Slot
           m       == IF cap <= whole THEN cap ELSE whole
           n       == HorizonSlots(s)
<1>1. /\ Len(s) \in Nat /\ Len(s) >= 1 /\ DOMAIN s = 1..Len(s)
      /\ \A i \in DOMAIN s : s[i] \in Int
  OBVIOUS
<1>2. Slot \in Nat \ {0} /\ MaxHorizon \in Nat /\ MaxHorizon >= Slot
  BY SlotAssumption, HorizonAssumption
<1>3. Step(s) \in Int /\ covered \in Int
  BY <1>1, <1>2 DEF Step
<1>4. cap \in Int /\ cap >= 1
  <2>1. cap \in Int /\ MaxHorizon < (cap + 1) * Slot
    BY <1>2, WholeSlots
  <2> HIDE DEF cap
  <2>2. cap < 1 => (cap + 1) * Slot <= Slot
    BY <1>2, <2>1
  <2> QED
    BY <1>2, <2>1, <2>2
<1>5. whole \in Int /\ whole * Slot <= covered /\ covered < (whole + 1) * Slot
  BY <1>2, <1>3, WholeSlots
<1>6. n = IF m >= 1 THEN m ELSE 1
  <2>1. Min({cap, whole}) = m
    BY <1>4, <1>5, MinOfTwo
  <2>2. n = Max({1, Min({cap, whole})})
    BY DEF HorizonSlots
  <2>3. m \in Int
    BY <1>4, <1>5
  <2> HIDE DEF m
  <2>4. Max({1, m}) = IF 1 >= m THEN 1 ELSE m
    BY <2>3, MaxOfTwo
  <2>5. n = Max({1, m})
    BY <2>1, <2>2, Zenon
  <2> QED
    BY <2>3, <2>4, <2>5
<1>7. End(s) = s[1] + covered /\ s[1] \in Int
  BY <1>1, <1>3 DEF End
<1> HIDE DEF covered, cap, whole, n
<1>8. n \in 1..cap
  BY <1>4, <1>5, <1>6
<1>9. n > 1 => s[1] + n * Slot <= End(s)
  <2> SUFFICES ASSUME n > 1 PROVE n * Slot <= covered
    BY <1>2, <1>3, <1>7, <1>8
  <2>1. n <= whole
    BY <1>4, <1>5, <1>6
  <2>2. n * Slot <= whole * Slot
    BY <1>2, <1>5, <1>8, <2>1
  <2> QED
    BY <1>2, <1>3, <1>5, <1>8, <2>2
<1>10. n = cap \/ s[1] + (n + 1) * Slot > End(s)
  <2> SUFFICES ASSUME n # cap PROVE (n + 1) * Slot > covered
    BY <1>2, <1>3, <1>7, <1>8
  <2>1. whole <= n
    BY <1>4, <1>5, <1>6
  <2>2. (whole + 1) * Slot <= (n + 1) * Slot
    BY <1>2, <1>5, <1>8, <2>1
  <2> QED
    BY <1>2, <1>3, <1>5, <1>8, <2>2
<1> QED
  BY <1>8, <1>9, <1>10 DEF n, cap

-----------------------------------------------------------------------------
(***************************************************************************)
(* What is on offer                                                        *)
(***************************************************************************)

\* No list of an entity has two prices for one instant.
SinglePoints ==
    \A gs \in Curves : \A g \in DOMAIN gs : \A i, j \in DOMAIN gs[g] :
        gs[g][i] = gs[g][j] => i = j \/ gs[g][i] = Bad

\* What is read of an entity is what its first group with a usable point has.
LEMMA ExtractedOffer ==
    ASSUME groups \in Curves, Extract(groups) # <<>>
    PROVE  LET usable == {g \in DOMAIN groups : Points(groups[g]) \ {Bad} # {}}
           IN  /\ Extract(groups) \in Seq(Int)
               /\ Points(Extract(groups)) = Points(groups[Min(usable)]) \ {Bad}
               /\ ClockKeepsOrder => Ascending(Extract(groups))
               /\ SinglePoints => Distinct(Extract(groups))
<1> DEFINE usable == {g \in DOMAIN groups : Points(groups[g]) \ {Bad} # {}}
           parsed == {g \in DOMAIN groups : Parse(groups[g]) # <<>>}
<1>1. /\ groups \in Seq(Seq(Times \cup {Bad})) /\ Len(groups) \in Nat
      /\ DOMAIN groups = 1..Len(groups)
      /\ \A g \in DOMAIN groups : groups[g] \in Seq(Times \cup {Bad})
  BY CurvesAssumption
<1>2. ASSUME NEW g \in DOMAIN groups
      PROVE  Points(groups[g]) \ {Bad} # {} <=> Parse(groups[g]) # <<>>
  <2>1. Parse(groups[g]) \in Seq(Int) /\ Points(Parse(groups[g])) = Points(groups[g]) \ {Bad}
    BY <1>1, ParsedList
  <2>2. ASSUME NEW f \in Seq(Int) PROVE Points(f) # {} <=> f # <<>>
    <3>1. f # <<>> => 1 \in DOMAIN f
      OBVIOUS
    <3>2. f = <<>> => DOMAIN f = {}
      OBVIOUS
    <3> QED
      BY <3>1, <3>2 DEF Points
  <2> QED
    BY <2>1, <2>2
<1>3. usable = parsed
  BY <1>2
<1>4. Extract(groups) = Parse(groups[Min(parsed)]) /\ parsed # {}
  BY DEF Extract
<1>5. Min(parsed) \in DOMAIN groups
  <2>1. parsed \in SUBSET Nat
    BY <1>1
  <2> HIDE DEF parsed
  <2>2. Min(parsed) \in parsed
    BY <1>4, <2>1, FirstOf
  <2> QED
    BY <2>2 DEF parsed
<1> HIDE DEF usable, parsed
<1>6. groups[Min(parsed)] \in Seq(Times \cup {Bad})
  BY <1>1, <1>5
<1>7. SinglePoints => \A i, j \in DOMAIN groups[Min(parsed)] :
                        groups[Min(parsed)][i] = groups[Min(parsed)][j]
                          => i = j \/ groups[Min(parsed)][i] = Bad
  BY <1>5 DEF SinglePoints
<1>8. /\ Extract(groups) \in Seq(Int)
      /\ Points(Extract(groups)) = Points(groups[Min(parsed)]) \ {Bad}
      /\ ClockKeepsOrder => Ascending(Extract(groups))
      /\ SinglePoints => Distinct(Extract(groups))
  BY <1>4, <1>6, <1>7, ParsedList
<1> QED
  BY <1>3, <1>8 DEF usable

\* A forecast has all that is on offer and nothing else.
LEMMA ForecastOffer ==
    ASSUME groups \in Curves, manual \in [len : Nat, res : Nat \ {0}], now \in Int,
           PriceForecast # <<>>
    PROVE  /\ PriceForecast \in Seq(Int)
           /\ Points(PriceForecast) = Offered
           /\ ClockKeepsOrder => Ascending(PriceForecast)
           /\ SinglePoints => Distinct(PriceForecast)
<1>1. CASE manual.len > 0
  <2> DEFINE n == manual.len
             r == manual.res
             f == [i \in 1..n |-> now + (i - 1) * r]
  <2>1. PriceForecast = f /\ n \in Nat /\ r \in Nat \ {0}
    BY <1>1 DEF PriceForecast
  <2>2. Offered = {now + i * r : i \in 0..n - 1}
    BY <1>1 DEF Offered
  <2> HIDE DEF n, r
  <2>3. f \in Seq(Int)
    BY <2>1
  <2>4. Points(f) = {now + i * r : i \in 0..n - 1}
    <3>1. ASSUME NEW p \in Points(f) PROVE p \in {now + i * r : i \in 0..n - 1}
      <4>1. PICK i \in 1..n : p = now + (i - 1) * r
        BY DEF Points
      <4>2. i - 1 \in 0..n - 1
        BY <2>1
      <4> QED
        BY <4>1, <4>2
    <3>2. ASSUME NEW i \in 0..n - 1 PROVE now + i * r \in Points(f)
      <4>1. i + 1 \in 1..n /\ (i + 1) - 1 = i
        BY <2>1
      <4>2. f[i + 1] = now + i * r
        BY <4>1
      <4> QED
        BY <4>1, <4>2 DEF Points
    <3> QED
      BY <3>1, <3>2
  <2>5. ASSUME NEW i \in 1..n, NEW j \in 1..n, i < j PROVE f[i] < f[j]
    <3>1. (i - 1) * r < (j - 1) * r
      <4>1. \A a, b \in Int : a < b => a * r < b * r
        BY <2>1
      <4> QED
        BY <2>1, <2>5, <4>1
    <3> QED
      BY <2>1, <3>1
  <2>6. DOMAIN f = 1..n /\ \A i \in 1..n : f[i] \in Int
    BY <2>1
  <2> HIDE DEF f
  <2>7. Ascending(f)
    BY <2>5, <2>6 DEF Ascending
  <2>8. Distinct(f)
    <3> SUFFICES ASSUME NEW i \in 1..n, NEW j \in 1..n, f[i] = f[j] PROVE i = j
      BY <2>6 DEF Distinct
    <3>1. ~(i < j) /\ ~(j < i)
      BY <2>5, <2>6
    <3> QED
      BY <2>1, <3>1
  <2> QED
    BY <2>1, <2>2, <2>3, <2>4, <2>7, <2>8
<1>2. CASE ~(manual.len > 0)
  <2>1. PriceForecast = Extract(groups) /\ Extract(groups) # <<>>
    BY <1>2 DEF PriceForecast, ReadPriceSeries
  <2>2. Offered = Points(groups[Min({g \in DOMAIN groups : Points(groups[g]) \ {Bad} # {}})])
                    \ {Bad}
    BY <1>2 DEF Offered, Points
  <2> QED
    BY <2>1, <2>2, ExtractedOffer
<1> QED
  BY <1>1, <1>2

-----------------------------------------------------------------------------
(***************************************************************************)
(* The generation series                                                   *)
(***************************************************************************)

PVPoint == [at : Times, kw : Int]

\* Instants are integers.
LEMMA PointTimes ==
    ASSUME NEW p \in PVPoint
    PROVE  p.at \in Int /\ p.kw \in Int
BY DEF PVPoint, Times

\* A series in the order of its instants.
ByInstant(s) == \A i, j \in DOMAIN s : i < j => s[i].at <= s[j].at

\* The series has the points of both entities, by instant.
LEMMA SeriesList ==
    ASSUME pv \in PVs \X PVs
    PROVE  /\ Series \in Seq(PVPoint)
           /\ Points(Series) = Points(pv[1]) \cup Points(pv[2])
           /\ ByInstant(Series)
<1> DEFINE c == pv[1] \o pv[2]
           S == DOMAIN c
           early(i, j) == \/ c[i].at < c[j].at
                          \/ c[i].at = c[j].at /\ i <= j
           le == {p \in S \X S :
                    \/ c[p[1]].at < c[p[2]].at
                    \/ c[p[1]].at = c[p[2]].at /\ p[1] <= p[2]}
           n == Cardinality(S)
           o == Listed(S, le)
           f == Series
<1>1. pv[1] \in Seq(PVPoint) /\ pv[2] \in Seq(PVPoint)
  BY PVsAssumption DEF PVPoint
<1>2. /\ c \in Seq(PVPoint) /\ Len(c) = Len(pv[1]) + Len(pv[2])
      /\ \A i \in 1..Len(pv[1]) + Len(pv[2]) :
            c[i] = IF i <= Len(pv[1]) THEN pv[1][i] ELSE pv[2][i - Len(pv[1])]
  BY <1>1, ConcatProperties
<1>3. Points(c) = Points(pv[1]) \cup Points(pv[2])
  <2>1. /\ Len(pv[1]) \in Nat /\ DOMAIN pv[1] = 1..Len(pv[1])
        /\ Len(pv[2]) \in Nat /\ DOMAIN pv[2] = 1..Len(pv[2])
    BY <1>1
  <2>2. DOMAIN c = 1..Len(pv[1]) + Len(pv[2])
    BY <1>2, <2>1
  <2> HIDE DEF c
  <2>3. ASSUME NEW p \in Points(c) PROVE p \in Points(pv[1]) \cup Points(pv[2])
    <3>1. PICK i \in 1..Len(pv[1]) + Len(pv[2]) : p = c[i]
      BY <2>2 DEF Points
    <3>2. i <= Len(pv[1]) => i \in DOMAIN pv[1] /\ p = pv[1][i]
      BY <1>2, <2>1, <3>1
    <3>3. i > Len(pv[1]) => i - Len(pv[1]) \in DOMAIN pv[2] /\ p = pv[2][i - Len(pv[1])]
      BY <1>2, <2>1, <3>1
    <3>4. i <= Len(pv[1]) \/ i > Len(pv[1])
      BY <2>1, <3>1
    <3> QED
      BY <3>2, <3>3, <3>4 DEF Points
  <2>4. ASSUME NEW p \in Points(pv[1]) PROVE p \in Points(c)
    <3>1. PICK i \in DOMAIN pv[1] : p = pv[1][i]
      BY DEF Points
    <3>2. i \in 1..Len(pv[1]) + Len(pv[2]) /\ c[i] = p
      BY <1>2, <2>1, <3>1
    <3> QED
      BY <2>2, <3>2 DEF Points
  <2>5. ASSUME NEW p \in Points(pv[2]) PROVE p \in Points(c)
    <3>1. PICK i \in DOMAIN pv[2] : p = pv[2][i]
      BY DEF Points
    <3>2. i + Len(pv[1]) \in 1..Len(pv[1]) + Len(pv[2]) /\ ~(i + Len(pv[1]) <= Len(pv[1]))
          /\ (i + Len(pv[1])) - Len(pv[1]) = i
      BY <2>1, <3>1
    <3>3. c[i + Len(pv[1])] = p
      BY <1>2, <3>1, <3>2
    <3> QED
      BY <2>2, <3>2, <3>3 DEF Points
  <2> QED
    BY <2>3, <2>4, <2>5
<1>4. f = Sorted(c, S, le)
  BY DEF Series
<1> HIDE DEF c, f
<1>5. Len(c) \in Nat /\ S = 1..Len(c) /\ \A i \in S : c[i] \in PVPoint /\ c[i].at \in Int
  <2>1. Len(c) \in Nat /\ S = 1..Len(c) /\ \A i \in S : c[i] \in PVPoint
    BY <1>2
  <2> QED
    BY <2>1, PointTimes
<1>6. IsFiniteSet(S)
  BY <1>5, FS_Interval
<1> HIDE DEF S
<1>7. \A i, j \in S : <<i, j>> \in le <=> early(i, j)
  <2> SUFFICES ASSUME NEW i \in S, NEW j \in S PROVE <<i, j>> \in le <=> early(i, j)
    OBVIOUS
  <2>1. <<i, j>> \in S \X S /\ <<i, j>>[1] = i /\ <<i, j>>[2] = j
    OBVIOUS
  <2> QED
    BY <2>1, Zenon
<1> HIDE DEF le
<1>8. TotalOrder(S, le)
  <2>1. \A i \in S : i \in Int /\ c[i].at \in Int
    BY <1>5
  <2>2. ASSUME NEW i \in S, NEW j \in S
        PROVE  /\ early(i, i)
               /\ early(i, j) \/ early(j, i)
               /\ early(i, j) /\ early(j, i) => i = j
               /\ \A k \in S : early(i, j) /\ early(j, k) => early(i, k)
    BY <2>1
  <2> HIDE DEF early
  <2> QED
    BY <1>7, <2>2 DEF TotalOrder
<1>9. /\ n \in Nat /\ o \in [1..n -> S]
      /\ \A i \in S : \E k \in 1..n : o[k] = i
      /\ \A k, l \in 1..n : k < l => <<o[k], o[l]>> \in le /\ o[k] # o[l]
  BY <1>6, <1>8, ListedOrder
<1>10. f \in Seq(PVPoint) /\ DOMAIN f = 1..n /\ \A k \in 1..n : f[k] = c[o[k]]
  <2>1. \A i \in S : c[i] \in PVPoint
    BY <1>5
  <2> QED
    BY <1>4, <1>6, <1>8, <2>1, SortedList
<1> HIDE DEF n, o
<1>11. \A k \in 1..n : f[k] = c[o[k]] /\ o[k] \in S
  BY <1>9, <1>10
<1>13. Points(f) = Points(c)
  <2>1. ASSUME NEW p \in Points(f) PROVE p \in Points(c)
    BY <1>10, <1>11 DEF Points, S
  <2>2. ASSUME NEW p \in Points(c) PROVE p \in Points(f)
    <3>1. PICK i \in S : p = c[i]
      BY DEF Points, S
    <3>2. PICK k \in 1..n : o[k] = i
      BY <1>9
    <3> QED
      BY <1>10, <1>11, <3>1, <3>2 DEF Points
  <2> QED
    BY <2>1, <2>2
<1>14. ByInstant(f)
  <2> SUFFICES ASSUME NEW k \in 1..n, NEW l \in 1..n, k < l PROVE f[k].at <= f[l].at
    BY <1>10 DEF ByInstant
  <2>1. early(o[k], o[l])
    BY <1>7, <1>9, <1>11
  <2>2. c[o[k]].at \in Int /\ c[o[l]].at \in Int
    BY <1>5, <1>11
  <2> QED
    BY <1>11, <2>1, <2>2
<1> QED
  BY <1>3, <1>10, <1>13, <1>14 DEF f

\* The scan goes no further than the points of a slot's start, and leaves none.
Reaches(s, t, k) == /\ k \in DOMAIN s
                    /\ k = 1 \/ s[k].at <= t
                    /\ \A l \in DOMAIN s : l > k => s[l].at > t

\* One advance of the scan, from a point the instant has reached.
LEMMA HeldReaches ==
    ASSUME NEW s \in Seq(PVPoint), ByInstant(s), NEW t \in Int,
           NEW j \in DOMAIN s, j = 1 \/ s[j].at <= t
    PROVE  Reaches(s, t, Held(s, j, t))
<1> DEFINE K == {k \in j..Len(s) : \A i \in j + 1..k : s[i].at <= t}
           m == Held(s, j, t)
<1>1. /\ Len(s) \in Nat /\ DOMAIN s = 1..Len(s)
      /\ \A i \in DOMAIN s : s[i].at \in Int
  <2>1. /\ Len(s) \in Nat /\ DOMAIN s = 1..Len(s)
        /\ \A i \in DOMAIN s : s[i] \in PVPoint
    OBVIOUS
  <2> QED
    BY <2>1, PointTimes
<1>2. j \in K
  BY <1>1
<1>3. m \in K /\ \A k \in K : k <= m
  <2>1. K \in SUBSET (1..Len(s)) /\ K # {}
    BY <1>1, <1>2
  <2>2. m = Max(K)
    BY DEF Held
  <2> HIDE DEF K
  <2> QED
    BY <1>1, <2>1, <2>2, LastOf
<1> HIDE DEF m
<1>4. m \in DOMAIN s
  BY <1>1, <1>3
<1>5. m = 1 \/ s[m].at <= t
  <2>1. CASE m = j
    BY <2>1
  <2>2. CASE m # j
    <3>1. m \in j + 1..m
      BY <1>1, <1>3, <2>2
    <3> QED
      BY <1>3, <3>1
  <2> QED
    BY <2>1, <2>2
<1>6. ASSUME NEW l \in DOMAIN s, l > m, s[l].at <= t PROVE FALSE
  <2>1. ASSUME NEW i \in j + 1..l PROVE s[i].at <= t
    <3>1. i \in DOMAIN s /\ (i = l \/ i < l)
      BY <1>1
    <3>2. s[i].at <= s[l].at
      BY <1>1, <3>1 DEF ByInstant
    <3> QED
      BY <1>1, <1>6, <3>1, <3>2
  <2>2. l \in K
    BY <1>1, <1>3, <1>6, <2>1
  <2> QED
    BY <1>1, <1>3, <1>4, <1>6, <2>2
<1> QED
  BY <1>1, <1>4, <1>5, <1>6 DEF Reaches, m

\* g is the scan of the first m slots.
Scans(s, t0, m, g) ==
    g = [i \in 0..m |-> IF i = 0 THEN 1 ELSE Held(s, g[i - 1], SlotStart(t0, i))]

\* There is such a scan, slot by slot.
LEMMA ScanExists ==
    ASSUME NEW s, NEW t0, NEW n \in Nat
    PROVE  Scans(s, t0, n, Scan(s, t0, n))
<1> DEFINE E == {m \in 0..n : \E g : Scans(s, t0, m, g)}
<1>1. 0 \in E
  <2> DEFINE g == [i \in 0..0 |-> 1]
  <2>1. Scans(s, t0, 0, g)
    <3>1. g = [i \in 0..0 |-> IF i = 0 THEN 1 ELSE Held(s, g[i - 1], SlotStart(t0, i))]
      <4>1. \A i \in 0..0 : i = 0
        OBVIOUS
      <4> QED
        BY <4>1
    <3> QED
      BY <3>1 DEF Scans
  <2> QED
    BY <2>1
<1>2. ASSUME NEW m \in 0..n, m < n, m \in E PROVE m + 1 \in E
  <2>1. PICK g : Scans(s, t0, m, g)
    BY <1>2
  <2> DEFINE h == [i \in 0..m + 1 |->
                     IF i = m + 1 THEN Held(s, g[m], SlotStart(t0, m + 1)) ELSE g[i]]
             next(i) == IF i = 0 THEN 1 ELSE Held(s, h[i - 1], SlotStart(t0, i))
  <2>2. ASSUME NEW i \in 0..m + 1 PROVE h[i] = next(i)
    <3>1. CASE i = m + 1
      <4>1. i # 0 /\ i - 1 = m /\ m \in 0..m + 1 /\ m # m + 1
        BY <3>1
      <4>2. h[i - 1] = g[m]
        BY <4>1
      <4>3. h[i] = Held(s, g[m], SlotStart(t0, m + 1))
        BY <3>1
      <4> HIDE DEF h
      <4> QED
        BY <3>1, <4>1, <4>2, <4>3
    <3>2. CASE i # m + 1
      <4>1. i \in 0..m /\ h[i] = g[i]
        BY <3>2
      <4>2. g[i] = IF i = 0 THEN 1 ELSE Held(s, g[i - 1], SlotStart(t0, i))
        BY <2>1, <4>1 DEF Scans
      <4>3. i # 0 => i - 1 \in 0..m + 1 /\ i - 1 # m + 1 /\ h[i - 1] = g[i - 1]
        BY <4>1
      <4> HIDE DEF h
      <4> QED
        BY <4>1, <4>2, <4>3
    <3> QED
      BY <3>1, <3>2
  <2>3. h = [i \in 0..m + 1 |-> h[i]]
    OBVIOUS
  <2> HIDE DEF h
  <2>4. [i \in 0..m + 1 |-> h[i]]
           = [i \in 0..m + 1 |-> IF i = 0 THEN 1 ELSE Held(s, h[i - 1], SlotStart(t0, i))]
    BY <2>2, Zenon
  <2>5. Scans(s, t0, m + 1, h)
    BY <2>3, <2>4, Zenon DEF Scans
  <2>6. m + 1 \in 0..n
    BY <1>2
  <2> QED
    BY <2>5, <2>6
<1>3. n \in 0..n
  OBVIOUS
<1> HIDE DEF E
<1>4. n \in E
  BY <1>1, <1>2, <1>3, UpTo
<1>5. \E g : Scans(s, t0, n, g)
  BY <1>4 DEF E
<1>6. Scan(s, t0, n) = CHOOSE g : Scans(s, t0, n, g)
  BY DEF Scan, Scans
<1> QED
  BY <1>5, <1>6

\* At each slot the scan has reached the last point at its start.
LEMMA ScanReaches ==
    ASSUME NEW s \in Seq(PVPoint), s # <<>>, ByInstant(s), NEW t0 \in Int, NEW n \in Nat,
           NEW i \in 1..n
    PROVE  Reaches(s, SlotStart(t0, i), Scan(s, t0, n)[i])
<1> DEFINE g == Scan(s, t0, n)
           R == {m \in 0..n : IF m = 0 THEN g[m] = 1
                              ELSE Reaches(s, SlotStart(t0, m), g[m])}
<1>1. /\ Len(s) \in Nat /\ DOMAIN s = 1..Len(s) /\ 1 \in DOMAIN s
      /\ \A l \in DOMAIN s : s[l].at \in Int
  <2>1. /\ Len(s) \in Nat /\ DOMAIN s = 1..Len(s) /\ 1 \in DOMAIN s
        /\ \A l \in DOMAIN s : s[l] \in PVPoint
    OBVIOUS
  <2> QED
    BY <2>1, PointTimes
<1>2. \A m \in 0..n : g[m] = IF m = 0 THEN 1 ELSE Held(s, g[m - 1], SlotStart(t0, m))
  BY ScanExists DEF Scans
<1>3. ASSUME NEW m \in 0..n
      PROVE  /\ SlotStart(t0, m) \in Int /\ SlotStart(t0, m + 1) \in Int
             /\ SlotStart(t0, m) <= SlotStart(t0, m + 1)
  <2>1. m \in Int /\ Slot \in Int /\ Slot > 0
    BY SlotAssumption
  <2>2. (m - 1) * Slot \in Int /\ (m + 1 - 1) * Slot = (m - 1) * Slot + Slot
    BY <2>1
  <2> QED
    BY <2>1, <2>2 DEF SlotStart
<1> HIDE DEF g
<1>4. 0 \in R
  BY <1>2
<1>5. ASSUME NEW m \in 0..n, m < n, m \in R PROVE m + 1 \in R
  <2> DEFINE t == SlotStart(t0, m + 1)
  <2>1. g[m] \in DOMAIN s /\ (g[m] = 1 \/ s[g[m]].at <= t)
    <3> HIDE DEF t
    <3>0. IF m = 0 THEN g[m] = 1 ELSE Reaches(s, SlotStart(t0, m), g[m])
      BY <1>5, Zenon
    <3>1. CASE m = 0
      BY <1>1, <3>0, <3>1
    <3>2. CASE m # 0
      <4>1. g[m] \in DOMAIN s /\ (g[m] = 1 \/ s[g[m]].at <= SlotStart(t0, m))
        BY <3>0, <3>2 DEF Reaches
      <4> QED
        BY <1>1, <1>3, <4>1 DEF t
    <3> QED
      BY <3>1, <3>2
  <2>2. t \in Int
    BY <1>3
  <2>3. Reaches(s, t, Held(s, g[m], t))
    BY <2>1, <2>2, HeldReaches
  <2>4. m + 1 \in 0..n /\ m + 1 # 0 /\ (m + 1) - 1 = m
    BY <1>5
  <2>5. g[m + 1] = Held(s, g[m], t)
    BY <1>2, <2>4
  <2> QED
    BY <2>3, <2>4, <2>5
<1>6. i \in 0..n /\ i > 0
  OBVIOUS
<1> HIDE DEF R
<1>7. i \in R
  BY <1>4, <1>5, <1>6, UpTo
<1> QED
  BY <1>6, <1>7 DEF R, g

\* v is the production of the latest of the points at t, zero before the first.
Latest(points, t, v) ==
    LET past == {p \in points : p.at <= t}
    IN  IF past = {} THEN v = 0
        ELSE \E p \in past : (\A q \in past : q.at <= p.at) /\ v = Max({0, p.kw})

\* A resampled slot has the latest point at its start.
LEMMA ResampledSlot ==
    ASSUME NEW s \in Seq(PVPoint), s # <<>>, ByInstant(s), NEW t0 \in Int, NEW n \in Nat,
           NEW i \in 1..n
    PROVE  /\ Resample(s, t0, n)[i] \in Nat
           /\ Latest(Points(s), SlotStart(t0, i), Resample(s, t0, n)[i])
<1> DEFINE t == SlotStart(t0, i)
           past == {p \in Points(s) : p.at <= t}
           k == Scan(s, t0, n)[i]
           v == Resample(s, t0, n)[i]
<1>1. /\ Len(s) \in Nat /\ DOMAIN s = 1..Len(s) /\ 1 \in DOMAIN s
      /\ \A l \in DOMAIN s : s[l].at \in Int /\ s[l].kw \in Int
  <2>1. /\ Len(s) \in Nat /\ DOMAIN s = 1..Len(s) /\ 1 \in DOMAIN s
        /\ \A l \in DOMAIN s : s[l] \in PVPoint
    OBVIOUS
  <2> QED
    BY <2>1, PointTimes
<1>2. t \in Int
  BY SlotAssumption DEF SlotStart
<1>3. Reaches(s, t, k)
  BY ScanReaches
<1>4. v = IF t < s[1].at THEN 0 ELSE Max({0, s[k].kw})
  BY DEF Resample
<1> HIDE DEF t, k, v
<1>5. CASE t < s[1].at
  <2>1. past = {}
    <3> SUFFICES ASSUME NEW l \in DOMAIN s, s[l].at <= t PROVE FALSE
      BY DEF Points
    <3>1. l = 1 \/ s[1].at <= s[l].at
      BY <1>1 DEF ByInstant
    <3> QED
      BY <1>1, <1>2, <1>5, <3>1
  <2> QED
    BY <1>4, <1>5, <2>1 DEF Latest, t, v
<1>6. CASE ~(t < s[1].at)
  <2>1. k \in DOMAIN s /\ s[k].at <= t
    BY <1>1, <1>2, <1>3, <1>6 DEF Reaches
  <2>2. s[k] \in past
    BY <2>1 DEF Points
  <2>3. ASSUME NEW q \in past PROVE q.at <= s[k].at
    <3>1. PICK l \in DOMAIN s : q = s[l] /\ s[l].at <= t
      BY DEF Points
    <3>2. ~(l > k)
      BY <1>1, <1>2, <1>3, <3>1 DEF Reaches
    <3>3. l = k \/ l < k
      BY <1>1, <2>1, <3>2
    <3> QED
      BY <1>1, <2>1, <3>1, <3>3 DEF ByInstant
  <2>4. v = Max({0, s[k].kw}) /\ v \in Nat
    <3>1. v = Max({0, s[k].kw})
      BY <1>4, <1>6
    <3>2. s[k].kw \in Int
      BY <1>1, <2>1
    <3>3. Max({0, s[k].kw}) = IF 0 >= s[k].kw THEN 0 ELSE s[k].kw
      BY <3>2, MaxOfTwo
    <3> QED
      BY <3>1, <3>2, <3>3
  <2> HIDE DEF past
  <2>5. past # {} /\ \E p \in past : (\A q \in past : q.at <= p.at) /\ v = Max({0, p.kw})
    BY <2>2, <2>3, <2>4
  <2>6. Latest(Points(s), t, v)
    BY <2>5 DEF Latest, past
  <2> QED
    BY <2>4, <2>6 DEF t, v
<1> QED
  BY <1>5, <1>6

-----------------------------------------------------------------------------
(***************************************************************************)
(* A call                                                                  *)
(***************************************************************************)

\* A cut curve starts at the offered price in force, or at the first one.
LEMMA CutStartsNow ==
    ASSUME NEW f \in Seq(Int), f # <<>>, Ascending(f), now \in Int
    PROVE  LET s    == SliceFromNow(f)
               past == {p \in Points(f) : p <= now}
           IN  /\ s[1] = IF past = {} THEN Min(Points(f)) ELSE Max(past)
               /\ Points(s) = {p \in Points(f) : p >= s[1]}
<1> DEFINE s    == SliceFromNow(f)
           past == {p \in Points(f) : p <= now}
<1>1. /\ s \in Seq(Int) /\ s # <<>>
      /\ \A p \in Points(f) : p >= s[1] <=> p \in Points(s)
      /\ Points(s) \subseteq Points(f)
      /\ s[1] <= now => \A p \in Points(f) : p > s[1] => p > now
      /\ s[1] > now => s = f
  BY CutKeepsRest
<1> HIDE DEF s
<1>2. 1 \in DOMAIN s /\ s[1] \in Int
  BY <1>1
<1>3. s[1] \in Points(f)
  BY <1>1, <1>2 DEF Points
<1>4. \A p \in Points(f) : p \in Int
  BY DEF Points
<1>5. Points(s) = {p \in Points(f) : p >= s[1]}
  BY <1>1
<1>6. CASE s[1] <= now
  <2>1. s[1] \in past
    BY <1>3, <1>6
  <2>2. \A p \in past : p <= s[1]
    BY <1>1, <1>2, <1>4, <1>6
  <2>3. past \in SUBSET Int
    BY <1>4
  <2> HIDE DEF past
  <2>4. Max(past) = s[1]
    BY <2>1, <2>2, <2>3, MaxIs
  <2> QED
    BY <1>5, <2>1, <2>4 DEF past, s
<1>7. CASE s[1] > now
  <2>1. s = f
    BY <1>1, <1>7
  <2>2. ASSUME NEW p \in Points(f) PROVE s[1] <= p
    <3>1. PICK i \in DOMAIN f : p = f[i]
      BY DEF Points
    <3>2. i = 1 \/ f[1] <= f[i]
      BY DEF Ascending
    <3> QED
      BY <1>2, <2>1, <3>1, <3>2
  <2>3. past = {}
    BY <1>2, <1>4, <1>7, <2>2
  <2>4. Points(f) \in SUBSET Int
    BY <1>4
  <2>5. Min(Points(f)) = s[1]
    BY <1>3, <2>2, <2>4, MinIs
  <2> HIDE DEF past
  <2> QED
    BY <1>5, <2>3, <2>5 DEF past, s
<1> QED
  BY <1>2, <1>6, <1>7

\* Where a cut curve ends is where the offer does: a step after its last point.
LEMMA CutEndsWithOffer ==
    ASSUME NEW s \in Seq(Int), s # <<>>, Ascending(s), Distinct(s),
           NEW P \in SUBSET Int, Points(s) = {p \in P : p >= s[1]}
    PROVE  LET last == Max(P)
               rest == {p \in P : s[1] <= p /\ p < last}
           IN  End(s) = last + (IF rest = {} THEN Slot ELSE last - Max(rest))
<1> DEFINE last == Max(P)
           rest == {p \in P : s[1] <= p /\ p < last}
           m == Len(s)
<1>1. m \in Nat /\ m >= 1 /\ DOMAIN s = 1..m /\ \A i \in 1..m : s[i] \in Int
  OBVIOUS
<1>2. \A i \in 1..m : s[i] \in Points(s)
  BY <1>1 DEF Points
<1>3. \A i, j \in 1..m : i < j => s[i] < s[j]
  <2> SUFFICES ASSUME NEW i \in 1..m, NEW j \in 1..m, i < j PROVE s[i] < s[j]
    OBVIOUS
  <2>1. s[i] <= s[j] /\ s[i] # s[j]
    BY <1>1 DEF Ascending, Distinct
  <2> QED
    BY <1>1, <2>1
<1>4. m \in 1..m /\ 1 \in 1..m
  BY <1>1
<1> HIDE DEF m
<1>5. last = s[m]
  <2>1. s[m] \in P
    BY <1>2, <1>4
  <2>2. ASSUME NEW p \in P PROVE p <= s[m]
    <3>1. CASE p >= s[1]
      <4>1. PICK i \in 1..m : p = s[i]
        BY <1>1, <3>1 DEF Points
      <4>2. i = m \/ i < m
        BY <1>1
      <4> QED
        BY <1>1, <1>3, <1>4, <4>1, <4>2
    <3>2. CASE ~(p >= s[1])
      <4>1. m = 1 \/ s[1] < s[m]
        BY <1>1, <1>3, <1>4
      <4> QED
        BY <1>1, <1>4, <3>2, <4>1
    <3> QED
      BY <3>1, <3>2
  <2> QED
    BY <2>1, <2>2, MaxIs
<1> HIDE DEF last
<1>6. \A p \in rest : \E i \in 1..m : p = s[i] /\ i < m
  <2> SUFFICES ASSUME NEW p \in rest PROVE \E i \in 1..m : p = s[i] /\ i < m
    OBVIOUS
  <2>1. p \in P /\ p \in Int /\ p >= s[1] /\ p < s[m]
    BY <1>1, <1>4, <1>5
  <2>2. PICK i \in 1..m : p = s[i]
    BY <1>1, <2>1 DEF Points
  <2>3. i # m
    BY <1>1, <1>4, <2>1, <2>2
  <2>4. i < m
    BY <1>1, <2>3
  <2> QED
    BY <2>2, <2>4
<1>7. CASE m = 1
  <2>1. rest = {}
    <3> SUFFICES ASSUME NEW p \in rest PROVE FALSE
      OBVIOUS
    <3>1. \E i \in 1..m : p = s[i] /\ i < m
      BY <1>6
    <3> QED
      BY <1>7, <3>1
  <2>2. Step(s) = Slot
    BY <1>7 DEF Step, m
  <2> HIDE DEF rest
  <2>3. End(s) = last + Slot
    BY <1>5, <2>2 DEF End, m
  <2> QED
    BY <2>1, <2>3 DEF rest, last
<1>8. CASE m > 1
  <2>1. m - 1 \in 1..m /\ m - 1 < m
    BY <1>1, <1>8
  <2>2. s[m - 1] \in rest
    <3>1. s[m - 1] \in P /\ s[m - 1] >= s[1]
      BY <1>2, <2>1
    <3>2. s[m - 1] < s[m]
      BY <1>3, <1>4, <2>1
    <3> QED
      BY <1>1, <1>4, <1>5, <2>1, <3>1, <3>2
  <2>3. ASSUME NEW p \in rest PROVE p <= s[m - 1]
    <3>1. PICK i \in 1..m : p = s[i] /\ i < m
      BY <1>6
    <3>2. i = m - 1 \/ i < m - 1
      BY <1>1, <3>1
    <3> QED
      BY <1>1, <1>3, <2>1, <3>1, <3>2
  <2>4. rest \in SUBSET Int
    OBVIOUS
  <2>5. Max(rest) = s[m - 1]
    <3> HIDE DEF rest
    <3> QED
      BY <2>2, <2>3, <2>4, MaxIs
  <2>6. Step(s) = s[m] - s[m - 1]
    <3>1. s[m] > s[m - 1] /\ m >= 2
      BY <1>1, <1>3, <1>4, <1>8, <2>1
    <3> QED
      BY <3>1 DEF Step, m
  <2>7. End(s) = last + (last - Max(rest))
    BY <1>5, <2>5, <2>6 DEF End, m
  <2> HIDE DEF rest
  <2> QED
    BY <2>2, <2>7 DEF rest, last
<1>9. m = 1 \/ m > 1
  BY <1>1
<1> QED
  BY <1>7, <1>8, <1>9

\* A cut is never empty, in whatever order the curve is.
LEMMA CutNotEmpty ==
    ASSUME NEW f \in Seq(Int), f # <<>>
    PROVE  SliceFromNow(f) \in Seq(Int) /\ SliceFromNow(f) # <<>>
<1> DEFINE k == IF Elapsed(f) = {} THEN 1 ELSE Max(Elapsed(f))
<1>1. Len(f) \in Nat /\ Len(f) >= 1 /\ DOMAIN f = 1..Len(f)
  OBVIOUS
<1>2. k \in 1..Len(f)
  <2>1. CASE Elapsed(f) = {}
    BY <1>1, <2>1
  <2>2. CASE Elapsed(f) # {}
    <3>1. Elapsed(f) \in SUBSET (1..Len(f))
      BY <1>1 DEF Elapsed
    <3>2. Max(Elapsed(f)) \in Elapsed(f)
      BY <1>1, <2>2, <3>1, LastOf
    <3> QED
      BY <2>2, <3>1, <3>2
  <2> QED
    BY <2>1, <2>2
<1>3. SliceFromNow(f) = SubSeq(f, k, Len(f))
  BY DEF SliceFromNow, Elapsed
<1> HIDE DEF k
<1> DEFINE s == SubSeq(f, k, Len(f))
<1>4. s \in Seq(Int) /\ Len(s) = Len(f) - k + 1
  BY <1>2, Suffix
<1> HIDE DEF s
<1>5. s # <<>>
  BY <1>1, <1>2, <1>4
<1> QED
  BY <1>3, <1>4, <1>5 DEF s

\* Every slot of the generation is a number, none negative, and that of the latest
\* point of either entity.
LEMMA GenerationSlots ==
    ASSUME pv \in PVs \X PVs, NEW t0 \in Int, NEW n \in Nat
    PROVE  LET g == GenerationForecast(t0, n)
           IN  /\ g \in Seq(Nat)
               /\ \A i \in DOMAIN g :
                      Latest(Points(pv[1]) \cup Points(pv[2]), SlotStart(t0, i), g[i])
<1> DEFINE g == GenerationForecast(t0, n)
           r == Resample(Series, t0, n)
<1>1. Series \in Seq(PVPoint) /\ ByInstant(Series)
      /\ Points(Series) = Points(pv[1]) \cup Points(pv[2])
  BY SeriesList
<1>2. CASE g = <<>>
  <2>1. DOMAIN g = {} /\ g \in Seq(Nat)
    BY <1>2
  <2> QED
    BY <2>1
<1>3. CASE g # <<>>
  <2>1. g = r /\ Series # <<>>
    BY <1>3 DEF GenerationForecast
  <2>2. DOMAIN r = 1..n /\ r = [i \in 1..n |-> r[i]]
    BY DEF Resample
  <2> HIDE DEF g, r
  <2>3. ASSUME NEW i \in 1..n
        PROVE  r[i] \in Nat /\ Latest(Points(Series), SlotStart(t0, i), r[i])
    BY <1>1, <2>1, ResampledSlot DEF r
  <2>4. r \in Seq(Nat)
    BY <2>2, <2>3
  <2> QED
    BY <1>1, <2>1, <2>2, <2>3, <2>4 DEF g
<1> QED
  BY <1>2, <1>3

\* What a solve hands over.
LEMMA SolveHandsOver ==
    ASSUME TypeOK, Solve
    PROVE  LET f == PriceForecast
               s == SliceFromNow(f)
           IN  /\ f \in Seq(Int) /\ f # <<>> /\ s \in Seq(Int) /\ s # <<>> /\ s[1] \in Int
               /\ now \in Int
               /\ call' = [prices |-> s, slots |-> HorizonSlots(s),
                           generation |-> GenerationForecast(s[1], HorizonSlots(s))]
               /\ call'.prices = s /\ call'.slots = HorizonSlots(s)
               /\ call'.generation = GenerationForecast(s[1], HorizonSlots(s))
               /\ UNCHANGED <<configured, readable, groups, manual, pv, now>>
<1>1. PriceForecast # <<>>
  BY DEF Solve
<1>2. now \in Int /\ groups \in Curves /\ manual \in [len : Nat, res : Nat \ {0}]
  BY DEF TypeOK, Times
<1>3. PriceForecast \in Seq(Int)
  BY <1>1, <1>2, ForecastOffer
<1> DEFINE s == SliceFromNow(PriceForecast)
<1>4. s \in Seq(Int) /\ s # <<>>
  BY <1>1, <1>3, CutNotEmpty
<1>5. s[1] \in Int
  <2> HIDE DEF s
  <2> QED
    BY <1>4
<1>6. call' = [prices |-> s, slots |-> HorizonSlots(s),
               generation |-> GenerationForecast(s[1], HorizonSlots(s))]
  BY DEF Solve
<1>7. UNCHANGED <<configured, readable, groups, manual, pv, now>>
  BY DEF Solve
<1> HIDE DEF s
<1>8. /\ call'.prices = s /\ call'.slots = HorizonSlots(s)
      /\ call'.generation = GenerationForecast(s[1], HorizonSlots(s))
  BY <1>6
<1> QED
  BY <1>1, <1>2, <1>3, <1>4, <1>5, <1>6, <1>7, <1>8 DEF s

\* A call changes with a solve, and ends; nothing else changes while it lasts.
LEMMA OtherSteps ==
    ASSUME [Next]_vars, ~Solve
    PROVE  call' = NoCall \/ UNCHANGED vars
BY DEF Next, vars, SolveReturns, Elapse, TariffUpdates, SetPriceCurve, ForecastUpdates

\* Every variable has its type in every state, and a call has prices, whole slots
\* within horizon_hours and a generation that is never negative.
THEOREM TypeCorrect == Spec => []TypeOK
<1>1. Init => TypeOK
  BY TimeAssumption DEF Init, TypeOK, Times, NoCall
<1>2. TypeOK /\ [Next]_vars => TypeOK'
  <2> SUFFICES ASSUME TypeOK, [Next]_vars PROVE TypeOK'
    OBVIOUS
  <2>1. CASE Solve
    <3> DEFINE s == SliceFromNow(PriceForecast)
    <3>1. /\ s \in Seq(Int) /\ s # <<>> /\ s[1] \in Int
          /\ call'.prices = s /\ call'.slots = HorizonSlots(s)
          /\ call'.generation = GenerationForecast(s[1], HorizonSlots(s))
          /\ UNCHANGED <<configured, readable, groups, manual, pv, now>>
      BY <2>1, SolveHandsOver
    <3> HIDE DEF s
    <3>2. call'.slots \in 1..(MaxHorizon \div Slot) /\ HorizonSlots(s) \in Nat
      <4>1. HorizonSlots(s) \in 1..(MaxHorizon \div Slot)
        BY <3>1, HorizonWithinCurve
      <4> QED
        BY <3>1, <4>1
    <3>3. pv \in PVs \X PVs
      BY DEF TypeOK
    <3>4. call'.generation \in Seq(Nat)
      BY <3>1, <3>2, <3>3, GenerationSlots
    <3> QED
      BY <3>1, <3>2, <3>4 DEF TypeOK
  <2>2. CASE SolveReturns
    BY <2>2 DEF TypeOK, SolveReturns
  <2>3. CASE Elapse
    <3>1. now' \in Times
      BY <2>3, TimeAssumption DEF TypeOK, Elapse, Times
    <3> QED
      BY <2>3, <3>1 DEF TypeOK, Elapse
  <2>4. CASE TariffUpdates
    BY <2>4 DEF TypeOK, TariffUpdates
  <2>5. CASE SetPriceCurve
    BY <2>5, ManualsAssumption DEF TypeOK, SetPriceCurve
  <2>6. CASE ForecastUpdates
    BY <2>6 DEF TypeOK, ForecastUpdates
  <2>7. CASE UNCHANGED vars
    BY <2>7 DEF TypeOK, vars
  <2> QED
    BY <2>1, <2>2, <2>3, <2>4, <2>5, <2>6, <2>7 DEF Next
<1> QED
  BY <1>1, <1>2, PTL DEF Spec

\* Where the clocks are not put back, every call starts with the offered price in
\* force and has every later one.
THEOREM StartsWithPriceInForce ==
    ASSUME ClockKeepsOrder
    PROVE  Spec => []PricesFromNow
<1>1. Init => PricesFromNow
  BY DEF Init, PricesFromNow
<1>2. TypeOK /\ PricesFromNow /\ [Next]_vars => PricesFromNow'
  <2> SUFFICES ASSUME TypeOK, PricesFromNow, [Next]_vars PROVE PricesFromNow'
    OBVIOUS
  <2>1. CASE Solve
    <3> DEFINE f == PriceForecast
               s == SliceFromNow(f)
               past == {p \in Offered : p <= now}
    <3>1. /\ f \in Seq(Int) /\ f # <<>> /\ now \in Int
          /\ call'.prices = s /\ UNCHANGED <<groups, manual, now>>
      BY <2>1, SolveHandsOver
    <3>2. Ascending(f) /\ Points(f) = Offered
      <4>1. groups \in Curves /\ manual \in [len : Nat, res : Nat \ {0}]
        BY DEF TypeOK
      <4> QED
        BY <3>1, <4>1, ForecastOffer
    <3> HIDE DEF f
    <3>3. /\ s[1] = IF past = {} THEN Min(Offered) ELSE Max(past)
          /\ Points(s) = {p \in Offered : p >= s[1]}
      BY <3>1, <3>2, CutStartsNow
    <3>4. Offered' = Offered
      BY <3>1 DEF Offered
    <3> HIDE DEF s
    <3>5. PricesFromNow' <=>
            (call' # NoCall =>
               /\ s[1] = IF past = {} THEN Min(Offered) ELSE Max(past)
               /\ Points(s) = {p \in Offered : p >= IF past = {} THEN Min(Offered) ELSE Max(past)})
      BY <3>1, <3>4 DEF PricesFromNow, Points, NoCall
    <3> HIDE DEF past
    <3> QED
      BY <3>3, <3>5
  <2>2. CASE ~Solve
    <3>1. CASE call' = NoCall
      BY <3>1 DEF PricesFromNow, NoCall
    <3>2. CASE UNCHANGED vars
      <4>1. call' = call /\ now' = now /\ groups' = groups /\ manual' = manual
        BY <3>2 DEF vars
      <4>2. Offered' = Offered
        BY <4>1 DEF Offered
      <4> QED
        BY <4>1, <4>2 DEF PricesFromNow, NoCall
    <3> QED
      BY <2>2, <3>1, <3>2, OtherSteps
  <2> QED
    BY <2>1, <2>2
<1> QED
  BY <1>1, <1>2, TypeCorrect, PTL DEF Spec

\* Where the clocks are not put back and no instant has two prices, every horizon
\* ends where the price curve ends or at horizon_hours.
THEOREM HorizonIsTheCurve ==
    ASSUME ClockKeepsOrder, SinglePoints
    PROVE  Spec => []HorizonFollowsCurve
<1>1. Init => HorizonFollowsCurve
  BY DEF Init, HorizonFollowsCurve
<1>2. TypeOK /\ HorizonFollowsCurve /\ [Next]_vars => HorizonFollowsCurve'
  <2> SUFFICES ASSUME TypeOK, HorizonFollowsCurve, [Next]_vars PROVE HorizonFollowsCurve'
    OBVIOUS
  <2>1. CASE Solve
    <3> DEFINE f == PriceForecast
               s == SliceFromNow(f)
               n == HorizonSlots(s)
               last == Max(Offered)
               rest == {p \in Offered : s[1] <= p /\ p < last}
               end  == last + (IF rest = {} THEN Slot ELSE last - Max(rest))
    <3>1. /\ f \in Seq(Int) /\ f # <<>> /\ now \in Int
          /\ call'.prices = s /\ call'.slots = n /\ UNCHANGED <<groups, manual, now>>
      BY <2>1, SolveHandsOver
    <3>2. Ascending(f) /\ Distinct(f) /\ Points(f) = Offered
      <4>1. groups \in Curves /\ manual \in [len : Nat, res : Nat \ {0}]
        BY DEF TypeOK
      <4> QED
        BY <3>1, <4>1, ForecastOffer
    <3> HIDE DEF f
    <3>3. /\ s \in Seq(Int) /\ s # <<>> /\ Ascending(s) /\ Distinct(s)
          /\ Points(s) = {p \in Offered : p >= s[1]}
      BY <3>1, <3>2, CutKeepsRest, CutStartsNow
    <3>4. Offered \in SUBSET Int
      BY <3>1, <3>2 DEF Points
    <3>5. Offered' = Offered
      BY <3>1 DEF Offered
    <3> HIDE DEF s
    <3>6. End(s) = end
      BY <3>3, <3>4, CutEndsWithOffer
    <3>7. /\ n > 1 => s[1] + n * Slot <= End(s)
          /\ s[1] + (n + 1) * Slot > End(s) \/ n = MaxHorizon \div Slot
      BY <3>3, HorizonWithinCurve
    <3> HIDE DEF n
    <3>8. HorizonFollowsCurve' <=>
            (call' # NoCall => /\ n > 1 => s[1] + n * Slot <= end
                               /\ s[1] + (n + 1) * Slot > end \/ n = MaxHorizon \div Slot)
      BY <3>1, <3>5 DEF HorizonFollowsCurve, NoCall
    <3> HIDE DEF end
    <3> QED
      BY <3>6, <3>7, <3>8
  <2>2. CASE ~Solve
    <3>1. CASE call' = NoCall
      BY <3>1 DEF HorizonFollowsCurve, NoCall
    <3>2. CASE UNCHANGED vars
      <4>1. call' = call /\ now' = now /\ groups' = groups /\ manual' = manual
        BY <3>2 DEF vars
      <4>2. Offered' = Offered
        BY <4>1 DEF Offered
      <4> QED
        BY <4>1, <4>2 DEF HorizonFollowsCurve, NoCall
    <3> QED
      BY <2>2, <3>1, <3>2, OtherSteps
  <2> QED
    BY <2>1, <2>2
<1> QED
  BY <1>1, <1>2, TypeCorrect, PTL DEF Spec

\* GenerationHeld says that of a call.
LEMMA GenerationSaysLatest ==
    GenerationHeld <=> \A i \in DOMAIN call.generation :
                           Latest(Points(pv[1]) \cup Points(pv[2]),
                                  SlotStart(call.prices[1], i), call.generation[i])
BY Zenon DEF GenerationHeld, Latest, Points, SlotStart

\* The generation of every slot of every call is that of the latest point of either
\* entity at its start, never negative, and zero before the first.
THEOREM GenerationIsLatest == Spec => []GenerationHeld
<1> DEFINE held == \A i \in DOMAIN call.generation :
                     Latest(Points(pv[1]) \cup Points(pv[2]),
                            SlotStart(call.prices[1], i), call.generation[i])
<1>0. GenerationHeld <=> held
  BY GenerationSaysLatest
<1>3. GenerationHeld' <=> held'
  BY GenerationSaysLatest, PTL
<1>1. Init => GenerationHeld
  <2> SUFFICES ASSUME call = NoCall PROVE GenerationHeld
    BY DEF Init
  <2>1. DOMAIN call.generation = {}
    BY DEF NoCall
  <2> QED
    BY <2>1 DEF GenerationHeld
<1>2. TypeOK /\ GenerationHeld /\ [Next]_vars => GenerationHeld'
  <2> SUFFICES ASSUME TypeOK, GenerationHeld, [Next]_vars PROVE GenerationHeld'
    OBVIOUS
  <2>1. CASE Solve
    <3> DEFINE s == SliceFromNow(PriceForecast)
               g == GenerationForecast(s[1], HorizonSlots(s))
    <3>1. /\ s \in Seq(Int) /\ s # <<>> /\ s[1] \in Int
          /\ call'.prices = s /\ call'.generation = g /\ pv' = pv
      BY <2>1, SolveHandsOver
    <3> HIDE DEF s
    <3>2. HorizonSlots(s) \in Nat
      BY <3>1, HorizonWithinCurve
    <3>3. \A i \in DOMAIN g :
             Latest(Points(pv[1]) \cup Points(pv[2]), SlotStart(s[1], i), g[i])
      BY <3>1, <3>2, GenerationSlots DEF TypeOK
    <3> HIDE DEF g
    <3> QED
      BY <1>3, <3>1, <3>3
  <2>2. CASE ~Solve
    <3>1. CASE call' = NoCall
      <4>1. DOMAIN call'.generation = {}
        BY <3>1 DEF NoCall
      <4> QED
        BY <4>1 DEF GenerationHeld
    <3>2. CASE UNCHANGED vars
      <4>1. call' = call /\ pv' = pv
        BY <3>2 DEF vars
      <4> QED
        BY <4>1, <1>0, <1>3
    <3> QED
      BY <2>2, <3>1, <3>2, OtherSteps
  <2> QED
    BY <2>1, <2>2
<1> QED
  BY <1>1, <1>2, TypeCorrect, PTL DEF Spec

=============================================================================
