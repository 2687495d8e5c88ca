----------------------------- MODULE Usage_proofs -----------------------------
(***************************************************************************)
(* What the usage component promises, proved for any number of profiles,    *)
(* metrics, versions and evaluators, any intervals and limits, and any      *)
(* length of time: the turns of the profiles, the schedule of one of them,  *)
(* the recommendation, the alerts, and the history.                         *)
(*                                                                         *)
(* The provers know of no induction over the natural numbers.  Where one is *)
(* needed it is the principle that a set of numbers has a least, stated in  *)
(* HasLeast for those that follow from it.                                  *)
(***************************************************************************)
EXTENDS CollectionTurns, CollectionSchedule, UsageEvidence, Alerts, UsageHistory, TLAPS,
        FiniteSetTheorems, FunctionTheorems, SequenceTheorems, WellFoundedInduction

(* A set of numbers has an element that none of the others precedes.         *)
LEMMA AvoidsRelation ==
  ASSUME NEW R, IsWellFoundedOn(R, Nat), NEW S \in SUBSET Nat, S # {}
  PROVE  \E x \in S : \A y \in S : ~ (<<y, x>> \in R)
<1>1. S \subseteq Nat OBVIOUS
<1>. QED BY <1>1, WFMin, Zenon

(* A set of natural numbers has a least.                                     *)
LEMMA HasLeast ==
  ASSUME NEW S \in SUBSET Nat, S # {}
  PROVE  \E m \in S : \A k \in S : m <= k
<1>1. IsWellFoundedOn(OpToRel(<, Nat), Nat) BY NatLessThanWellFounded
<1>3. \A x, y \in Nat : x < y => <<x, y>> \in OpToRel(<, Nat) BY DEF OpToRel
<1>2. PICK m \in S : \A y \in S : ~ (<<y, m>> \in OpToRel(<, Nat))
  BY <1>1, AvoidsRelation, Zenon
<1>4. \A k \in S : ~ (k < m) 
  <2>1. TAKE k \in S
  <2>2. k \in Nat /\ m \in Nat OBVIOUS
  <2>. QED BY <2>2, <1>2, <1>3, Zenon
<1>5. \A k \in S : m <= k BY <1>4, SMT
<1>. QED BY <1>5

(* A set of numbers that are not above a limit has a greatest.               *)
LEMMA HasGreatest ==
  ASSUME NEW n \in Nat, NEW S \in SUBSET (1..n), S # {}
  PROVE  \E m \in S : \A k \in S : k <= m
<1> DEFINE T == {n - k : k \in S}
<1>1. T \in SUBSET Nat /\ T # {}
  <2>1. \A k \in S : n - k \in Nat BY SMT
  <2>2. PICK k \in S : TRUE OBVIOUS
  <2>. QED BY <2>1, <2>2, Zenon
<1> HIDE DEF T
<1>2. PICK t \in T : \A u \in T : t <= u BY <1>1, HasLeast
<1>3. PICK m \in S : t = n - m BY DEF T
<1>4. \A k \in S : n - k \in T BY DEF T
<1>. QED BY <1>2, <1>3, <1>4, SMT

-----------------------------------------------------------------------------
(* The turns of the profiles.                                               *)

(* Quotient and remainder of a division are unique.                          *)
LEMMA QuotientUnique ==
  ASSUME NEW n \in Nat, n > 0, NEW q \in Int, NEW r \in 0..(n-1), NEW p \in Int,
         NEW s \in 0..(n-1), n * q + r = n * p + s
  PROVE  q = p /\ r = s
<1>1. ASSUME q < p PROVE FALSE
  <2>1. n * p >= n * (q + 1) BY <1>1
  <2>2. n * (q+1) = n * q + n OBVIOUS
  <2>. QED BY <2>1, <2>2
<1>2. ASSUME p < q PROVE FALSE
  <2>1. n * q >= n * (p + 1) BY <1>2
  <2>2. n * (p+1) = n * p + n OBVIOUS
  <2>. QED BY <2>1, <2>2
<1>. QED BY <1>1, <1>2

(* A number is what its quotient and its remainder make.                     *)
LEMMA Divided ==
  ASSUME NEW x \in Nat, NEW n \in Nat, n > 0
  PROVE  \E q \in Int, r \in 0..(n - 1) : x = n * q + r /\ r = x % n
<1>1. x \div n \in Int OBVIOUS
<1>2. x % n \in 0..(n - 1) OBVIOUS
<1>3. x = n * (x \div n) + (x % n) OBVIOUS
<1>. QED BY <1>1, <1>2, <1>3, Zenon

(* The remainder of what a quotient and a remainder make.                    *)
LEMMA Remainder ==
  ASSUME NEW n \in Nat, n > 0, NEW q \in Int, NEW r \in 0..(n - 1), n * q + r \in Nat
  PROVE  (n * q + r) % n = r
<1> DEFINE x == n * q + r
<1>1. PICK p \in Int, s \in 0..(n - 1) : x = n * p + s /\ s = x % n BY Divided
<1>2. n * q + r = n * p + s BY <1>1
<1>3. r = s BY <1>2, QuotientUnique
<1>. QED BY <1>1, <1>3

(* A cursor that wraps at a common multiple keeps its remainders.            *)
LEMMA RemainderOfWrapped ==
  ASSUME NEW n \in Nat, n > 0, NEW w \in Nat, w > 0, w % n = 0, NEW c \in Nat
  PROVE  (c % w) % n = c % n
<1>1. PICK m \in Int : w = n * m
  <2>1. PICK m \in Int, r \in 0..(n - 1) : w = n * m + r /\ r = w % n BY Divided
  <2>. QED BY <2>1
<1>2. PICK q \in Int, r \in 0..(w-1) : c = w * q + r /\ r = c % w BY Divided
<1>3. PICK p \in Int, s \in 0..(n-1) : r = n * p + s /\ s = r % n BY Divided
<1>4. c = n * (m * q + p) + s
  <2>1. c = (n * m) * q + (n * p + s) BY <1>1, <1>2, <1>3
  <2>2. (n * m) * q = n * (m * q) OBVIOUS
  <2>3. n * (m * q) + n * p = n * (m * q + p) OBVIOUS
  <2>4. m * q \in Int /\ n * (m * q) \in Int /\ n * p \in Int OBVIOUS
  <2>. QED BY <2>1, <2>2, <2>3, <2>4
<1>5. m * q + p \in Int OBVIOUS
<1>6. c % n = s
  <2>1. n * (m * q + p) + s \in Nat BY <1>4
  <2>. QED BY <2>1, <1>4, <1>5, Remainder
<1>. QED BY <1>2, <1>3, <1>6

(* The remainder after going on by less than the divisor.                    *)
LEMMA RemainderOfSum ==
  ASSUME NEW n \in Nat, n > 0, NEW c \in Nat, NEW k \in 0..n
  PROVE  (c + k) % n = IF (c % n) + k < n THEN (c % n) + k ELSE (c % n) + k - n
<1>1. PICK q \in Int, r \in 0..(n-1) : c = n * q + r /\ r = c % n BY Divided
<1>2. CASE r + k < n
  <2>1. n * q + (r + k) \in Nat /\ c + k = n * q + (r + k) /\ r + k \in 0..(n-1) BY <1>1,
       <1>2
  <2>2. (c + k) % n = r + k BY <2>1, Remainder
  <2>. QED BY <1>1, <1>2, <2>2
<1>3. CASE ~(r + k < n)
  <2>1. PICK p \in Int : p = q + 1 OBVIOUS
  <2>2. n * p = n * q + n BY <2>1
  <2>3. /\ n * p + (r + k - n) \in Nat /\ c + k = n * p + (r + k - n)
        /\ r + k - n \in 0..(n - 1)
    BY <1>1, <1>3, <2>2
  <2>4. (c + k) % n = r + k - n BY <2>3, Remainder
  <2>. QED BY <1>1, <1>3, <2>4
<1>. QED BY <1>2, <1>3

(* A finite set of numbers can be put in order.                              *)
LEMMA RankedInOrder ==
  ASSUME NEW S \in SUBSET Nat, IsFiniteSet(S)
  PROVE  \E s \in [1..Cardinality(S) -> S] : \A i, j \in DOMAIN s : i < j => s[i] < s[j]
<1> DEFINE n == Cardinality(S)
           Upto(x) == {y \in S : y <= x}
           rank == [x \in S |-> Cardinality(Upto(x))]
<1>1. n \in Nat /\ IsFiniteSet(1..n) /\ Cardinality(1..n) = n
  <2>1. n \in Nat BY FS_CardinalityType
  <2> HIDE DEF n
  <2>. QED BY <2>1, FS_Interval, SMT
<1>2. ASSUME NEW x \in S
      PROVE  IsFiniteSet(Upto(x)) /\ Cardinality(Upto(x)) \in 1..n
  <2>1. Upto(x) \in SUBSET S /\ x \in Upto(x) BY SMT
  <2>2. IsFiniteSet(Upto(x)) /\ Cardinality(Upto(x)) <= n BY <2>1, FS_Subset
  <2>3. Cardinality(Upto(x)) \in Nat BY <2>2, FS_CardinalityType
  <2>4. Cardinality(Upto(x)) # 0 BY <2>1, <2>2, FS_EmptySet
  <2>. QED BY <1>1, <2>2, <2>3, <2>4, SMT
<1>3. ASSUME NEW x \in S, NEW y \in S, x < y
      PROVE  Cardinality(Upto(x)) < Cardinality(Upto(y))
  <2>6. x \in Nat /\ y \in Nat OBVIOUS
  <2>7. y <= y /\ ~(y <= x) /\ \A z \in S : z <= x => z <= y BY <1>3, <2>6, SMT
  <2>1. Upto(x) \in SUBSET Upto(y) /\ y \in Upto(y) /\ y \notin Upto(x) BY <2>7, Zenon
  <2>2. Upto(y) # Upto(x) BY <2>1
  <2>3. IsFiniteSet(Upto(y)) BY <1>2
  <2>4. Cardinality(Upto(x)) <= Cardinality(Upto(y)) /\ Cardinality(Upto(x)) # Cardinality(Upto(y))
    BY <2>1, <2>2, <2>3, FS_Subset
  <2>5. Cardinality(Upto(x)) \in Nat /\ Cardinality(Upto(y)) \in Nat BY <1>2, SMT
  <2>. QED BY <2>4, <2>5, SMT
<1> HIDE DEF Upto, n
<1>4. rank \in [S -> 1..n] BY <1>2
<1>5. \A x, y \in S : rank[x] = rank[y] => x = y
  <2> SUFFICES ASSUME NEW x \in S, NEW y \in S, rank[x] = rank[y] PROVE x = y OBVIOUS
  <2>1. ~(x < y) /\ ~(y < x)
    <3>1. Cardinality(Upto(x)) \in Nat BY <1>2, SMT
    <3>2. Cardinality(Upto(x)) = Cardinality(Upto(y)) OBVIOUS
    <3>. QED BY <1>3, <3>1, <3>2, SMT
  <2>. QED BY <2>1, SMT
<1>6. rank \in Surjection(S, 1..n)
  <2> HIDE DEF rank
  <2>1. rank \in Injection(S, 1..n) BY <1>4, <1>5, Fun_IsInj
  <2>. QED BY <1>1, <2>1, FS_Injection DEF n
<1>7. \A i \in 1..n : \E x \in S : rank[x] = i
  <2> HIDE DEF rank
  <2>. QED BY <1>6, Fun_SurjectionProperties, Zenon
<1> DEFINE s == [i \in 1..n |-> CHOOSE x \in S : rank[x] = i]
<1>8. \A i \in 1..n : s[i] \in S /\ rank[s[i]] = i
  <2> HIDE DEF rank
  <2>. QED BY <1>7
<1>9. s \in [1..n -> S] BY <1>8
<1>10. ASSUME NEW i \in 1..n, NEW j \in 1..n, i < j PROVE s[i] < s[j]
  <2> HIDE DEF s
  <2>1. s[i] \in S /\ s[j] \in S /\ rank[s[i]] = i /\ rank[s[j]] = j BY <1>8
  <2>2. Cardinality(Upto(s[i])) = i /\ Cardinality(Upto(s[j])) = j BY <2>1
  <2>3. s[i] # s[j] BY <1>1, <1>10, <2>1, SMT
  <2>4. ~(s[j] < s[i])
    <3> SUFFICES ASSUME s[j] < s[i] PROVE FALSE OBVIOUS
    <3>1. Cardinality(Upto(s[j])) < Cardinality(Upto(s[i])) BY <1>3, <2>1
    <3>2. j < i BY <2>2, <3>1, Zenon
    <3>. QED BY <1>1, <1>10, <3>2, SMT
  <2>5. s[i] \in Nat /\ s[j] \in Nat BY <2>1
  <2>. QED BY <2>3, <2>4, <2>5, SMT
<1>11. DOMAIN s = 1..n OBVIOUS
<1> HIDE DEF s
<1>. QED BY <1>9, <1>10, <1>11 DEF n

(* The order has every element, and no more of them.                         *)
LEMMA OrderedSet ==
  ASSUME NEW S \in SUBSET Nat, IsFiniteSet(S)
  PROVE  /\ InOrder(S) \in Seq(S) /\ Len(InOrder(S)) = Cardinality(S)
         /\ \A p \in S : \E i \in 1..Cardinality(S) : InOrder(S)[i] = p
<1> DEFINE n == Cardinality(S)
           s == InOrder(S)
<1>1. n \in Nat /\ IsFiniteSet(1..n) /\ Cardinality(1..n) = n
  <2>1. n \in Nat BY FS_CardinalityType
  <2> HIDE DEF n
  <2>. QED BY <2>1, FS_Interval, SMT
<1>2. s \in [1..n -> S] /\ \A i, j \in DOMAIN s : i < j => s[i] < s[j]
  BY RankedInOrder, Zenon DEF InOrder
<1> HIDE DEF s
<1>3. \A i, j \in 1..n : s[i] = s[j] => i = j
  <2> SUFFICES ASSUME NEW i \in 1..n, NEW j \in 1..n, s[i] = s[j] PROVE i = j OBVIOUS
  <2>1. s[i] \in Nat /\ s[j] \in Nat /\ DOMAIN s = 1..n BY <1>2
  <2>2. ~(i < j) /\ ~(j < i)
    <3> HIDE DEF n
    <3>. QED BY <1>2, <2>1, SMT
  <2> HIDE DEF n
  <2>. QED BY <1>1, <2>2, SMT
<1>4. s \in Surjection(1..n, S)
  <2>1. s \in Injection(1..n, S) BY <1>2, <1>3, Fun_IsInj
  <2>2. Cardinality(1..n) = Cardinality(S) BY <1>1
  <2> HIDE DEF n
  <2>. QED BY <2>1, <2>2, FS_Injection
<1>5. \A p \in S : \E i \in 1..n : s[i] = p
  <2> HIDE DEF n
  <2>. QED BY <1>4, Zenon DEF Surjection
<1>6. s \in Seq(S) /\ Len(s) = n
  <2> HIDE DEF n
  <2>. QED BY <1>1, <1>2, SMT
<1>. QED BY <1>5, <1>6 DEF s

(* The targets of a tick are the profiles, each in some place.               *)
LEMMA TargetsAre ==
  ASSUME NEW S \in SUBSET Nat, IsFiniteSet(S), NEW inUse
  PROVE  /\ Targets(S, inUse) \in Seq(S) /\ Len(Targets(S, inUse)) = Cardinality(S)
         /\ \A p \in S : \E i \in 1..Cardinality(S) : Targets(S, inUse)[i] = p
<1> DEFINE A == S \cap inUse
           B == S \ inUse
           s == InOrder(A)
           t == InOrder(B)
<1>1. A \in SUBSET S /\ B \in SUBSET S OBVIOUS
<1>2. /\ IsFiniteSet(A) /\ Cardinality(A) \in Nat
      /\ IsFiniteSet(B) /\ Cardinality(B) \in Nat
      /\ Cardinality(S) \in Nat
  <2> HIDE DEF A, B
  <2>1. IsFiniteSet(A) /\ IsFiniteSet(B) BY <1>1, FS_Subset
  <2>. QED BY <2>1, FS_CardinalityType
<1>3. Cardinality(S) = Cardinality(A) + Cardinality(B)
  <2>1. A = S \ B OBVIOUS
  <2>2. Cardinality(S \ B) = Cardinality(S) - Cardinality(S \cap B) /\ S \cap B = B
    BY FS_Difference
  <2> HIDE DEF A, B
  <2>3. Cardinality(A) = Cardinality(S) - Cardinality(B) BY <2>1, <2>2, Zenon
  <2>. QED BY <1>2, <2>3, SMT
<1>4. /\ s \in Seq(A) /\ Len(s) = Cardinality(A) /\ \A p \in A : \E i \in 1..Cardinality(A) : s[i] = p
      /\ t \in Seq(B) /\ Len(t) = Cardinality(B) /\ \A p \in B : \E i \in 1..Cardinality(B) : t[i] = p
  <2>1. A \in SUBSET Nat /\ B \in SUBSET Nat BY <1>1
  <2> HIDE DEF A, B
  <2>. QED BY <1>2, <2>1, OrderedSet
<1>5. Targets(S, inUse) = s \o t BY Zenon DEF Targets
<1>6. \A p \in S : p \in A \/ p \in B OBVIOUS
<1> HIDE DEF A, B, s, t
<1>7. s \in Seq(S) /\ t \in Seq(S) BY <1>1, <1>4, SeqMonotonic
<1>8. s \o t \in Seq(S) /\ Len(s \o t) = Cardinality(S)
  <2>1. s \o t \in Seq(S) BY <1>7, Zenon, ConcatProperties
  <2>2. Len(s \o t) = Len(s) + Len(t) BY <1>7, Zenon, ConcatProperties
  <2>. QED BY <1>2, <1>3, <1>4, <2>1, <2>2, SMT
<1>9. ASSUME NEW p \in S PROVE \E i \in 1..Cardinality(S) : (s \o t)[i] = p
  <2>1. CASE p \in A
    <3>1. PICK i \in 1..Cardinality(A) : s[i] = p BY <1>4, <2>1
    <3>2. (s \o t)[i] = p /\ i \in 1..Cardinality(S) BY <1>2, <1>3, <1>4, <1>7, <3>1, SMT
    <3>. QED BY <3>2
  <2>2. CASE p \in B
    <3>1. PICK i \in 1..Cardinality(B) : t[i] = p BY <1>4, <2>2
    <3>2. (s \o t)[Cardinality(A) + i] = p /\ Cardinality(A) + i \in 1..Cardinality(S)
      BY <1>2, <1>3, <1>4, <1>7, <3>1, SMT
    <3>. QED BY <3>2
  <2>. QED BY <1>6, <2>1, <2>2
<1>. QED BY <1>5, <1>8, <1>9

(* How far the target at index i is from the one a tick starts at, when      *)
(* there are n targets.                                                      *)
Distance(n, start, i) == IF i >= start THEN i - start ELSE i - start + n

(* The round that runs started at the cursor.                                *)
RoundIsRecord ==
    round = [on |-> round.on, targets |-> round.targets, start |-> round.start,
             inspected |-> round.inspected, collected |-> round.collected]

(* What a round has done.                                                    *)
RoundTyped ==
    /\ round.on \in BOOLEAN
    /\ round.inspected \in Nat /\ round.collected \in Nat /\ Len(round.targets) \in Nat
    /\ round.inspected <= Len(round.targets) /\ round.collected <= round.inspected
    /\ round.collected <= MaxCollectionsPerTick

StartsAtCursor ==
    /\ round.on => /\ round.targets # <<>> /\ round.targets \in Seq(TurnProfiles)
                   /\ Len(round.targets) \in 1..Cardinality(TurnProfiles)
                   /\ round.start = cursor % Len(round.targets)

(* Profiles, the cursor and the counts.                                      *)
CountsTyped ==
    /\ eligible \subseteq TurnProfiles /\ active \subseteq TurnProfiles
    /\ cursor \in 0..(Wrap - 1) /\ passed \in [TurnProfiles -> Nat]

(* A profile that is far from the cursor has not been left out often.        *)
NearIfPassed ==
    LET targets == Targets(eligible, active)
        n == Len(targets)
    IN  \A i \in 0..(n - 1) : passed[targets[i + 1]] + Distance(n, cursor % n, i) <= n - 1

(* The invariant of the turns.                                               *)
TurnsInv == CountsTyped /\ RoundIsRecord /\ RoundTyped /\ StartsAtCursor /\ NearIfPassed

(* The targets of a tick are the eligible profiles.                          *)
LEMMA TargetsTyped ==
  ASSUME TurnAssumption, eligible \subseteq TurnProfiles
  PROVE  /\ Targets(eligible, active) \in Seq(eligible)
         /\ Len(Targets(eligible, active)) = Cardinality(eligible)
         /\ \A p \in eligible : \E i \in 1..Cardinality(eligible) : Targets(eligible, active)[i] = p
         /\ Cardinality(eligible) \in Nat /\ Cardinality(eligible) <= Cardinality(TurnProfiles)
         /\ Cardinality(TurnProfiles) \in Nat
         /\ Cardinality(eligible) = 0 => eligible = {}
<1>1. eligible \in SUBSET Nat /\ eligible \in SUBSET TurnProfiles /\ IsFiniteSet(TurnProfiles)
  BY DEF TurnAssumption
<1>2. IsFiniteSet(eligible) /\ Cardinality(eligible) <= Cardinality(TurnProfiles)
  BY <1>1, FS_Subset
<1>. QED BY <1>1, <1>2, TargetsAre, FS_CardinalityType, FS_EmptySet

(* Nobody is farther away than there are others.                             *)
LEMMA DistanceBounded ==
  ASSUME NEW n \in Nat, NEW s \in 0..(n - 1), NEW i \in 0..(n - 1)
  PROVE  Distance(n, s, i) \in 0..(n - 1)
BY SMT DEF Distance

(* With nobody left out the invariant holds.                                 *)
LEMMA FairAtRest ==
  ASSUME TurnAssumption, CountsTyped, \A p \in TurnProfiles : passed[p] = 0
  PROVE  NearIfPassed
<1> DEFINE targets == Targets(eligible, active)
           n == Len(targets)
<1>1. /\ targets \in Seq(eligible) /\ n = Cardinality(eligible) /\ Cardinality(eligible) \in Nat
      /\ eligible \subseteq TurnProfiles
  BY TargetsTyped DEF CountsTyped
<1>2. n \in Nat BY <1>1
<1> HIDE DEF targets
<1>3. ASSUME NEW i \in 0..(n - 1)
      PROVE  passed[targets[i + 1]] + Distance(n, cursor % n, i) <= n - 1
  <2>1. targets[i + 1] \in eligible BY <1>1, <1>2, SMT
  <2>2. passed[targets[i + 1]] = 0 BY <1>1, <2>1
  <2>3. cursor % n \in 0..(n - 1)
    <3>1. cursor \in Nat /\ n > 0 BY <1>2, <1>3, SMT DEF CountsTyped, TurnAssumption
    <3> HIDE DEF n
    <3>. QED BY <1>2, <3>1
  <2> HIDE DEF n
  <2>4. Distance(n, cursor % n, i) \in 0..(n - 1) BY <1>2, <1>3, <2>3, DistanceBounded
  <2>. QED BY <1>2, <2>2, <2>4, SMT
<1>. QED BY <1>3 DEF NearIfPassed, targets

(* The same of the next state.                                               *)
LEMMA FairAtRestNext ==
  ASSUME TurnAssumption, CountsTyped', \A p \in TurnProfiles : passed'[p] = 0
  PROVE  NearIfPassed'
<1> DEFINE targets == Targets(eligible', active')
           n == Len(targets)
<1>1. /\ targets \in Seq(eligible') /\ n = Cardinality(eligible') /\ n \in Nat
      /\ eligible' \subseteq TurnProfiles
  <2>1. eligible' \in SUBSET Nat /\ eligible' \in SUBSET TurnProfiles /\ IsFiniteSet(TurnProfiles)
    BY DEF TurnAssumption, CountsTyped
  <2>2. IsFiniteSet(eligible') BY <2>1, FS_Subset
  <2>. QED BY <2>1, <2>2, TargetsAre, FS_CardinalityType
<1> HIDE DEF targets
<1>2. ASSUME NEW i \in 0..(n - 1)
      PROVE  passed'[targets[i + 1]] + Distance(n, cursor' % n, i) <= n - 1
  <2>1. targets[i + 1] \in eligible' BY <1>1, SMT
  <2>2. passed'[targets[i + 1]] = 0 BY <1>1, <2>1
  <2>3. cursor' % n \in 0..(n - 1)
    <3>1. cursor' \in Nat /\ n > 0 BY <1>1, <1>2, SMT DEF CountsTyped, TurnAssumption
    <3> HIDE DEF n
    <3>. QED BY <1>1, <3>1
  <2> HIDE DEF n
  <2>4. Distance(n, cursor' % n, i) \in 0..(n - 1) BY <1>1, <1>2, <2>3, DistanceBounded
  <2>. QED BY <1>1, <2>2, <2>4, SMT
<1>. QED BY <1>2 DEF NearIfPassed, targets

(* The next round starts as much nearer to a target as this one inspected.   *)
LEMMA NearerByOneRound ==
  ASSUME NEW m \in Nat, NEW c \in Nat, NEW by \in 1..m, NEW i \in 0..(m - 1),
         NEW w \in Nat, w > 0, w % m = 0,
         Distance(m, c % m, i) >= by
  PROVE  Distance(m, ((c + by) % w) % m, i) = Distance(m, c % m, i) - by
<1>1. m > 0 /\ c + by \in Nat BY SMT
<1>2. ((c + by) % w) % m = (c + by) % m BY <1>1, RemainderOfWrapped
<1>3. (c + by) % m = IF (c % m) + by < m THEN (c % m) + by ELSE (c % m) + by - m
  <2>1. by \in 0..m BY SMT
  <2>. QED BY <1>1, <2>1, RemainderOfSum
<1>4. c % m \in 0..(m - 1) BY <1>1
<1>5. PICK s \in 0..(m - 1) : s = c % m BY <1>4
<1>6. ((c + by) % w) % m = IF s + by < m THEN s + by ELSE s + by - m BY <1>2, <1>3, <1>5
<1>. QED BY <1>5, <1>6, SMT DEF Distance

(* The same for every number of targets.                                     *)
LEMMA NearerByEveryRound ==
  \A m \in Nat : \A c \in Nat : \A by \in 1..m : \A i \in 0..(m - 1) : \A w \in Nat :
     w > 0 /\ w % m = 0 /\ Distance(m, c % m, i) >= by
        => Distance(m, ((c + by) % w) % m, i) = Distance(m, c % m, i) - by
BY NearerByOneRound, ZenonT(60)

(* A target that is nearer than what was inspected was seen.                 *)
LEMMA SeenIfNear ==
  ASSUME NEW s \in Nat, NEW n \in Nat, NEW i \in 0..(n - 1), s < n,
         Distance(n, s, i) < round.inspected, round.inspected \in Nat,
         round.start = s, Len(round.targets) = n
  PROVE  round.targets[i + 1] \in Seen(round)
<1> DEFINE d == Distance(n, s, i)
<1>1. d \in 0..(round.inspected - 1) /\ d \in 0..(n - 1) BY SMT DEF Distance
<1>2. (s + d) % n = i
  <2>1. n > 0 /\ s % n = s
    <3>1. n > 0 BY SMT
    <3>2. s = n * 0 + s /\ s \in 0..(n - 1) /\ 0 \in Int BY SMT
    <3>. QED BY <3>1, <3>2, Remainder
  <2>2. (s + d) % n = IF (s % n) + d < n THEN (s % n) + d ELSE (s % n) + d - n
    <3>1. d \in 0..n BY <1>1, SMT
    <3> HIDE DEF d
    <3>. QED BY <2>1, <3>1, RemainderOfSum
  <2>. QED BY <2>1, <2>2, SMT DEF Distance
<1>3. Position(round, d) = i + 1 BY <1>2, Zenon DEF Position
<1> HIDE DEF d
<1>. QED BY <1>1, <1>3, Zenon DEF Seen

(* No round is a round.                                                      *)
LEMMA RestIsRecord ==
  /\ round = NoRound => RoundIsRecord
  /\ round' = NoRound => RoundIsRecord'
<1>1. NoRound = [on |-> NoRound.on, targets |-> NoRound.targets, start |-> NoRound.start,
                 inspected |-> NoRound.inspected, collected |-> NoRound.collected]
  BY Zenon DEF NoRound
<1>. QED BY <1>1, Zenon DEF RoundIsRecord

(* The invariant holds of the first states.                                  *)
LEMMA TurnsHolds ==
  ASSUME TurnsInit, TurnAssumption PROVE TurnsInv
<1>1. CountsTyped BY SMT DEF TurnsInit, TurnAssumption, CountsTyped
<1>2. RoundTyped /\ StartsAtCursor
  BY SMT DEF TurnsInit, TurnAssumption, NoRound, RoundTyped, StartsAtCursor
<1>4. RoundIsRecord
  <2>1. round = NoRound BY DEF TurnsInit
  <2>. QED BY <2>1, RestIsRecord
<1>3. NearIfPassed
  <2>1. \A p \in TurnProfiles : passed[p] = 0 BY DEF TurnsInit
  <2>. QED BY <1>1, <2>1, FairAtRest
<1>. QED BY <1>1, <1>2, <1>3, <1>4 DEF TurnsInv

(* A round that ends leaves out only those that the next starts nearer to.   *)
LEMMA FairAfterRound ==
  ASSUME TurnsInv, TurnAssumption, RoundEnds PROVE NearIfPassed'
<1> USE DEF TurnsInv
<1> DEFINE targets == Targets(eligible, active)
           n == Len(targets)
           k == round.inspected
<1>1. /\ targets \in Seq(eligible) /\ n \in Nat /\ n <= Cardinality(TurnProfiles)
      /\ eligible \subseteq TurnProfiles /\ Cardinality(TurnProfiles) \in Nat
  BY TargetsTyped, Zenon DEF CountsTyped
<1>2. targets' = targets /\ eligible' = eligible /\ active' = active BY Zenon
     DEF RoundEnds
<1>3. cursor \in Nat /\ Wrap \in Nat /\ Wrap > 0 /\ cursor' = (cursor + k) % Wrap /\ k \in Nat /\ k > 0
  BY SMT DEF RoundEnds, Advance, CountsTyped, TurnAssumption, RoundTyped
<1>4. \A p \in TurnProfiles : passed'[p] = IF round.targets = targets THEN Pass(p) ELSE 0
  BY Zenon DEF RoundEnds
<1> HIDE DEF targets
<1>5. ASSUME NEW i \in 0..(n - 1)
      PROVE  passed'[targets[i + 1]] + Distance(n, cursor' % n, i) <= n - 1
  <2>1. targets[i + 1] \in eligible /\ targets[i + 1] \in TurnProfiles
    <3>1. i + 1 \in 1..Len(targets) BY <1>1, SMT
    <3>. QED BY <1>1, <3>1, ElementOfSeq
  <2>2. n > 0 /\ cursor % n \in 0..(n - 1) /\ cursor' % n \in 0..(n - 1)
    <3>1. n > 0 BY <1>1, <1>5, SMT
    <3>2. cursor' \in Nat
      <4>1. cursor + k \in Nat BY <1>3, SMT
      <4>2. (cursor + k) % Wrap \in Nat BY <1>3, <4>1
      <4>. QED BY <1>3, <4>2
    <3> HIDE DEF n
    <3>. QED BY <1>1, <1>3, <3>1, <3>2
  <2>3. Distance(n, cursor' % n, i) \in 0..(n - 1)
    <3> HIDE DEF n
    <3>. QED BY <1>1, <1>5, <2>2, DistanceBounded
  <2>4. CASE passed'[targets[i + 1]] = 0
    <3> HIDE DEF n
    <3>. QED BY <1>1, <2>3, <2>4, SMT
  <2>5. CASE passed'[targets[i + 1]] # 0
    <3>1. /\ round.targets = targets /\ targets[i + 1] \notin Seen(round)
          /\ passed'[targets[i + 1]] = passed[targets[i + 1]] + 1
      BY <1>4, <2>1, <2>5, Zenon DEF Pass
    <3>2. round.on /\ round.start = cursor % n /\ k <= n
      BY <3>1, Zenon DEF RoundEnds, StartsAtCursor, RoundTyped
    <3>3. Distance(n, cursor % n, i) >= k
      <4>1. ~(Distance(n, cursor % n, i) < k)
        <5> SUFFICES ASSUME Distance(n, cursor % n, i) < k PROVE FALSE OBVIOUS
        <5>1. cursor % n \in Nat /\ cursor % n < n
          <6> HIDE DEF n
          <6>. QED BY <1>1, <2>2, SMT
        <5>2. Len(round.targets) = n BY <3>1
        <5> HIDE DEF n
        <5>3. round.targets[i + 1] \in Seen(round)
          BY <1>1, <1>3, <1>5, <3>2, <5>1, <5>2, SeenIfNear
        <5>. QED BY <3>1, <5>3
      <4>2. Distance(n, cursor % n, i) \in 0..(n - 1)
        <5> HIDE DEF n
        <5>. QED BY <1>1, <1>5, <2>2, DistanceBounded
      <4> HIDE DEF n
      <4>. QED BY <1>1, <1>3, <4>1, <4>2, SMT
    <3>4. Wrap % n = 0
      <4>1. n \in 1..Cardinality(TurnProfiles) BY <1>1, <2>2, SMT
      <4> HIDE DEF n
      <4>. QED BY <4>1, Zenon DEF TurnAssumption
    <3>5. Distance(n, cursor' % n, i) = Distance(n, cursor % n, i) - k
      <4>1. k \in 1..n
        <5> HIDE DEF n, k
        <5>. QED BY <1>1, <1>3, <3>2, SMT
      <4> HIDE DEF n, k
      <4>2. Distance(n, ((cursor + k) % Wrap) % n, i) = Distance(n, cursor % n, i) - k
        <5>1. cursor \in Nat /\ Wrap \in Nat /\ Wrap > 0 /\ n \in Nat /\ i \in 0..(n - 1)
          BY <1>1, <1>3, <1>5
        <5>2. Wrap > 0 /\ Wrap % n = 0 /\ Distance(n, cursor % n, i) >= k BY <3>3, <3>4,
             <5>1
        <5>3. \A by \in 1..n : \A j \in 0..(n - 1) : \A w \in Nat :
                 w > 0 /\ w % n = 0 /\ Distance(n, cursor % n, j) >= by
                    => Distance(n, ((cursor + by) % w) % n, j) = Distance(n, cursor % n, j) - by
          BY <5>1, NearerByEveryRound, Zenon
        <5>4. \A j \in 0..(n - 1) : \A w \in Nat :
                 w > 0 /\ w % n = 0 /\ Distance(n, cursor % n, j) >= k
                    => Distance(n, ((cursor + k) % w) % n, j) = Distance(n, cursor % n, j) - k
          BY <4>1, <5>3, Zenon
        <5>. QED BY <5>1, <5>2, <5>4, Zenon
      <4>. QED BY <1>3, <4>2
    <3>6. passed[targets[i + 1]] + Distance(n, cursor % n, i) <= n - 1
      BY <1>5, Zenon DEF NearIfPassed, targets
    <3>7. passed[targets[i + 1]] \in Nat /\ Distance(n, cursor % n, i) \in 0..(n - 1)
      <4>1. passed[targets[i + 1]] \in Nat BY <2>1 DEF CountsTyped
      <4> HIDE DEF n
      <4>. QED BY <1>1, <1>5, <2>2, <4>1, DistanceBounded
    <3> HIDE DEF n, k
    <3>. QED BY <1>1, <1>3, <3>1, <3>5, <3>6, <3>7, SMT
  <2>. QED BY <2>4, <2>5
<1>6. NearIfPassed' <=> \A i \in 0..(n - 1) : passed'[targets[i + 1]] + Distance(n, cursor' % n, i) <= n - 1
  BY <1>2, Zenon DEF NearIfPassed, targets, Distance
<1>. QED BY <1>5, <1>6

(* What does not touch the targets, the cursor and the counts keeps it.      *)
LEMMA NearWhileSame ==
  ASSUME NearIfPassed, UNCHANGED <<eligible, active, cursor, passed>>
  PROVE  NearIfPassed'
<1> DEFINE targets == Targets(eligible, active)
           n == Len(targets)
<1>1. eligible' = eligible /\ active' = active /\ cursor' = cursor /\ passed' = passed OBVIOUS
<1>2. \A i \in 0..(n - 1) : passed[targets[i + 1]] + Distance(n, cursor % n, i) <= n - 1
  BY Zenon DEF NearIfPassed
<1>3. targets' = targets /\ n' = n BY <1>1, Zenon DEF Targets, InOrder
<1>4. NearIfPassed' <=> \A i \in 0..(n' - 1) :
          passed'[targets'[i + 1]] + Distance(n', cursor' % n', i) <= n' - 1
  BY Zenon DEF NearIfPassed, Distance
<1> HIDE DEF targets, n
<1>. QED BY <1>1, <1>2, <1>3, <1>4, Zenon

(* Every step of a round and of what happens meanwhile keeps the invariant.  *)
LEMMA TurnsStepKeeps ==
  ASSUME TurnsInv, TurnAssumption, [TurnsNext]_turnVars PROVE TurnsInv'
<1> USE DEF TurnsInv
<1>1. CASE RoundBegins
  <2> DEFINE targets == Targets(eligible, active)
  <2>1. UNCHANGED <<eligible, active, cursor, passed>> BY <1>1, Zenon DEF RoundBegins
  <2>2. /\ targets \in Seq(eligible) /\ Len(targets) = Cardinality(eligible)
        /\ Cardinality(eligible) \in Nat /\ Cardinality(eligible) <= Cardinality(TurnProfiles)
        /\ Cardinality(TurnProfiles) \in Nat /\ Cardinality(eligible) # 0
    BY <1>1, TargetsTyped, Zenon DEF RoundBegins, CountsTyped
  <2>3. Len(targets) \in 1..Cardinality(TurnProfiles)
    <3> HIDE DEF targets
    <3>. QED BY <2>2, SMT
  <2>4. /\ round' = [on |-> TRUE, targets |-> targets, start |-> cursor % Len(targets),
                     inspected |-> 0, collected |-> 0]
    BY <1>1, Zenon DEF RoundBegins
  <2>5. targets \in Seq(TurnProfiles) /\ targets # <<>>
    <3>1. eligible \subseteq TurnProfiles BY DEF CountsTyped
    <3> HIDE DEF targets
    <3>2. targets \in Seq(TurnProfiles) BY <2>2, <3>1, SeqMonotonic
    <3>. QED BY <2>3, <3>2, SMT
  <2> HIDE DEF targets
  <2>6. /\ round'.targets = targets /\ round'.start = cursor % Len(targets)
        /\ round'.inspected = 0 /\ round'.collected = 0 /\ round'.on = TRUE
    BY <2>4, Zenon
  <2>7. CountsTyped' BY <2>1, Zenon DEF CountsTyped
  <2>8. RoundTyped'
    <3>1. /\ round'.inspected \in Nat /\ round'.collected \in Nat /\ Len(round'.targets) \in Nat
          /\ round'.inspected <= Len(round'.targets) /\ round'.collected <= round'.inspected
          /\ round'.collected <= MaxCollectionsPerTick
      BY <2>2, <2>6, SMT DEF TurnAssumption
    <3>2. round'.on \in BOOLEAN BY <2>6, Zenon
    <3>. QED BY <3>1, <3>2, Zenon DEF RoundTyped
  <2>9. StartsAtCursor' BY <2>1, <2>3, <2>5, <2>6, Zenon DEF StartsAtCursor
  <2>10. NearIfPassed' BY <2>1, NearWhileSame
  <2>11. RoundIsRecord' BY <2>4, <2>6, Zenon DEF RoundIsRecord
  <2>. QED BY <2>7, <2>8, <2>9, <2>10, <2>11
<1>2. ASSUME NEW collects \in BOOLEAN, Inspect(collects) PROVE TurnsInv'
  <2>1. UNCHANGED <<eligible, active, cursor, passed>> BY <1>2, Zenon DEF Inspect
  <2>2. PICK more \in {0, 1} : more = IF collects THEN 1 ELSE 0 OBVIOUS
  <2>3. /\ round' = [round EXCEPT !.inspected = @ + 1, !.collected = @ + more]
        /\ round.inspected < Limit(round) /\ round.collected < MaxCollectionsPerTick
    BY <1>2, <2>2, Zenon DEF Inspect
  <2>4. /\ round'.targets = round.targets /\ round'.start = round.start /\ round'.on = round.on
        /\ round'.inspected = round.inspected + 1 /\ round'.collected = round.collected + more
        /\ RoundIsRecord'
    <3>1. round = [on |-> round.on, targets |-> round.targets, start |-> round.start,
                   inspected |-> round.inspected, collected |-> round.collected]
      BY Zenon DEF RoundIsRecord
    <3> DEFINE a == round.on
               b == round.targets
               c == round.start
               d == round.inspected
               e == round.collected
    <3>2. round' = [on |-> a, targets |-> b, start |-> c, inspected |-> d + 1, collected |-> e + more]
      <4>1. round = [on |-> a, targets |-> b, start |-> c, inspected |-> d,
           collected |-> e] BY <3>1
      <4>2. round' = [round EXCEPT !.inspected = d + 1, !.collected = e + more] BY <2>3
      <4> HIDE DEF a, b, c, d, e
      <4>. QED BY <4>1, <4>2
    <3> HIDE DEF a, b, c, d, e
    <3>3. /\ round'.targets = b /\ round'.start = c /\ round'.on = a
          /\ round'.inspected = d + 1 /\ round'.collected = e + more
      BY <3>2, Zenon
    <3>4. RoundIsRecord' BY <3>2, <3>3, Zenon DEF RoundIsRecord
    <3>. QED BY <3>3, <3>4 DEF a, b, c, d, e
  <2>5. CountsTyped' BY <2>1, Zenon DEF CountsTyped
  <2>6. RoundTyped' BY <2>2, <2>3, <2>4, SMT DEF RoundTyped, TurnAssumption, Limit
  <2>7. StartsAtCursor' BY <2>1, <2>4, Zenon DEF StartsAtCursor
  <2>8. NearIfPassed' BY <2>1, NearWhileSame
  <2>. QED BY <2>4, <2>5, <2>6, <2>7, <2>8
<1>3. CASE RoundEnds
  <2>1. UNCHANGED <<eligible, active>> /\ round' = NoRound /\ cursor' = Advance(round) % Wrap
    BY <1>3, Zenon DEF RoundEnds
  <2>2. cursor' \in 0..(Wrap - 1)
    <3>1. Advance(round) \in Nat /\ Wrap \in Nat \ {0}
      BY SMT DEF Advance, CountsTyped, RoundTyped, TurnAssumption
    <3>. QED BY <2>1, <3>1
  <2>3. passed' \in [TurnProfiles -> Nat]
    <3>1. \A p \in TurnProfiles : passed[p] \in Nat /\ passed[p] + 1 \in Nat
      BY DEF CountsTyped
    <3>2. \A p \in TurnProfiles : Pass(p) \in Nat BY <3>1 DEF Pass
    <3>. QED BY <1>3, <3>2 DEF RoundEnds
  <2>4. CountsTyped' BY <2>1, <2>2, <2>3, Zenon DEF CountsTyped
  <2>5. RoundTyped' /\ StartsAtCursor'
    BY <2>1, SMT DEF NoRound, RoundTyped, StartsAtCursor, TurnAssumption
  <2>6. NearIfPassed' BY <1>3, FairAfterRound
  <2>. QED BY <2>1, <2>4, <2>5, <2>6, RestIsRecord
<1>4. CASE TargetsChange
  <2>1. UNCHANGED <<cursor, round>> BY <1>4, Zenon DEF TargetsChange
  <2>2. passed' = [p \in TurnProfiles |-> 0] BY <1>4, Zenon DEF TargetsChange
  <2>3. eligible' \subseteq TurnProfiles /\ active' \subseteq TurnProfiles
    BY <1>4 DEF TargetsChange, CountsTyped
  <2>4. passed' \in [TurnProfiles -> Nat] /\ \A p \in TurnProfiles : passed'[p] = 0 BY <2>2
  <2>5. CountsTyped' BY <2>1, <2>3, <2>4, Zenon DEF CountsTyped
  <2>6. RoundTyped' /\ StartsAtCursor' /\ RoundIsRecord'
    BY <2>1, Zenon DEF RoundTyped, StartsAtCursor, RoundIsRecord
  <2>7. NearIfPassed' BY <2>4, <2>5, FairAtRestNext
  <2>. QED BY <2>5, <2>6, <2>7
<1>5. CASE TurnsRestart
  <2>1. UNCHANGED <<eligible, active>> /\ round' = NoRound /\ cursor' = 0
    BY <1>5, Zenon DEF TurnsRestart
  <2>2. passed' = [p \in TurnProfiles |-> 0] BY <1>5, Zenon DEF TurnsRestart
  <2>3. passed' \in [TurnProfiles -> Nat] /\ \A p \in TurnProfiles : passed'[p] = 0 BY <2>2
  <2>4. cursor' \in 0..(Wrap - 1) BY <2>1, SMT DEF TurnAssumption
  <2>5. CountsTyped' BY <2>1, <2>3, <2>4, Zenon DEF CountsTyped
  <2>6. RoundTyped' /\ StartsAtCursor'
    BY <2>1, SMT DEF NoRound, RoundTyped, StartsAtCursor, TurnAssumption
  <2>7. NearIfPassed' BY <2>3, <2>5, FairAtRestNext
  <2>. QED BY <2>1, <2>5, <2>6, <2>7, RestIsRecord
<1>6. CASE UNCHANGED turnVars
  <2>1. UNCHANGED <<eligible, active, cursor, round, passed>> BY <1>6, Zenon DEF turnVars
  <2>2. CountsTyped' /\ RoundIsRecord' /\ RoundTyped' /\ StartsAtCursor'
    BY <2>1, Zenon DEF CountsTyped, RoundIsRecord, RoundTyped, StartsAtCursor
  <2>. QED BY <2>1, <2>2, NearWhileSame
<1>. QED BY <1>1, <1>2, <1>3, <1>4, <1>5, <1>6 DEF TurnsNext

(* The inductive invariant has what the runs check.                          *)
LEMMA TurnsInvImplies ==
  ASSUME TurnsInv, TurnAssumption PROVE TurnsAreFair
<1> USE DEF TurnsInv
<1> DEFINE targets == Targets(eligible, active)
           n == Len(targets)
<1>1. /\ n = Cardinality(eligible) /\ n \in Nat /\ eligible \subseteq TurnProfiles
      /\ \A p \in eligible : \E j \in 1..n : targets[j] = p
  <2>1. eligible \subseteq TurnProfiles BY Zenon DEF CountsTyped
  <2>2. /\ n = Cardinality(eligible) /\ Cardinality(eligible) \in Nat
        /\ \A p \in eligible : \E j \in 1..Cardinality(eligible) : targets[j] = p
    BY <2>1, TargetsTyped, Zenon
  <2>. QED BY <2>1, <2>2, Zenon
<1>2. \A i \in 0..(n - 1) : passed[targets[i + 1]] + Distance(n, cursor % n, i) <= n - 1
  BY Zenon DEF NearIfPassed, TurnsInv
<1> HIDE DEF targets
<1>3. ASSUME NEW p \in eligible PROVE passed[p] < n
  <2>1. PICK j \in 1..n : targets[j] = p BY <1>1
  <2>2. PICK i \in 0..(n - 1) : j = i + 1
    <3> HIDE DEF n
    <3>1. j - 1 \in 0..(n - 1) /\ j = (j - 1) + 1 BY <1>1
    <3>. QED BY <3>1
  <2>3. passed[p] + Distance(n, cursor % n, i) <= n - 1 BY <1>2, <2>1, <2>2, Zenon
  <2>4. passed[p] \in Nat BY <1>1 DEF CountsTyped
  <2>5. cursor % n \in 0..(n - 1)
    <3>1. cursor \in Nat /\ n > 0 BY <1>1, <2>1, SMT DEF CountsTyped, TurnAssumption
    <3> HIDE DEF n
    <3>. QED BY <1>1, <3>1
  <2> HIDE DEF n
  <2>6. Distance(n, cursor % n, i) \in 0..(n - 1) BY <1>1, <2>5, DistanceBounded
  <2>. QED BY <1>1, <2>3, <2>4, <2>6, SMT
<1>4. TurnComes BY <1>1, <1>3, Zenon DEF TurnComes
<1>5. round.inspected \in 0..Len(round.targets) BY SMT DEF RoundTyped
<1>6. TurnsTypeOK BY <1>5, Zenon DEF TurnsTypeOK, CountsTyped, RoundTyped, StartsAtCursor
<1>. QED BY <1>4, <1>6 DEF TurnsAreFair

(* No profile is left out of more ticks in a row than there are others: for  *)
(* any profiles, any share of a tick and any number of targets.              *)
(* scheduler.go:134.                                                         *)
THEOREM NobodyIsLeftOut == TurnsSpec => []TurnsAreFair
<1>1. TurnsInit => TurnsInv BY TurnsHolds, TurnAssumption
<1>2. TurnsInv /\ [TurnsNext]_turnVars => TurnsInv' BY TurnsStepKeeps, TurnAssumption
<1>3. TurnsInv => TurnsAreFair BY TurnsInvImplies, TurnAssumption
<1>. QED BY <1>1, <1>2, <1>3, PTL DEF TurnsSpec

-----------------------------------------------------------------------------
(* The schedule of one profile.                                              *)

(* The least of two numbers.                                                 *)
LEMMA LeastOfTwo ==
  ASSUME NEW a \in Int, NEW b \in Int
  PROVE  Least({a, b}) = IF a <= b THEN a ELSE b
<1> DEFINE m == IF a <= b THEN a ELSE b
<1>1. m \in {a, b} /\ (\A y \in {a, b} : m <= y) BY SMT
<1>2. \A x \in {a, b} : (\A y \in {a, b} : x <= y) => x = m BY SMT
<1>3. Least({a, b}) \in {a, b} /\ (\A y \in {a, b} : Least({a, b}) <= y)
  <2> HIDE DEF m
  <2>. QED BY <1>1, Zenon DEF Least
<1>. QED BY <1>2, <1>3, Zenon

(* The greatest of two numbers.                                              *)
LEMMA GreatestOfTwo ==
  ASSUME NEW a \in Int, NEW b \in Int
  PROVE  Greatest({a, b}) = IF a <= b THEN b ELSE a
<1> DEFINE m == IF a <= b THEN b ELSE a
<1>1. m \in {a, b} /\ (\A y \in {a, b} : y <= m) BY SMT
<1>2. \A x \in {a, b} : (\A y \in {a, b} : y <= x) => x = m BY SMT
<1>3. Greatest({a, b}) \in {a, b} /\ (\A y \in {a, b} : y <= Greatest({a, b}))
  <2> HIDE DEF m
  <2>. QED BY <1>1, Zenon DEF Greatest
<1>. QED BY <1>2, <1>3, Zenon

(* One more failure.  *)
Longer(backoff) == Least({2 * backoff, MaxBackoff})

(* A longer back-off keeps its bounds.                                       *)
LEMMA LongerTyped ==
  ASSUME ScheduleAssumption, NEW b \in Minimum..MaxBackoff
  PROVE  Longer(b) \in Minimum..MaxBackoff
<1>1. 2 * b \in Int /\ MaxBackoff \in Int /\ Minimum \in Nat /\ b \in Nat /\ Minimum <= b /\ b <= MaxBackoff
  BY SMT DEF ScheduleAssumption
<1>2. Longer(b) = IF 2 * b <= MaxBackoff THEN 2 * b ELSE MaxBackoff
  BY <1>1, LeastOfTwo DEF Longer
<1>. QED BY <1>1, <1>2, SMT

(* A table of the back-offs after up to k failures.  *)
Tabulates(g, k) ==
    /\ g \in [0..k -> Minimum..MaxBackoff]
    /\ \A n \in 0..k : g[n] = IF n <= 1 THEN Minimum ELSE Longer(g[n - 1])

(* There is such a table for every number of failures.                       *)
LEMMA TableExists ==
  ASSUME ScheduleAssumption
  PROVE  \A k \in Nat : \E g : Tabulates(g, k)
<1> DEFINE Without == {k \in Nat : ~\E g : Tabulates(g, k)}
<1>1. SUFFICES ASSUME Without # {} PROVE FALSE OBVIOUS
<1>2. PICK k \in Without : \A l \in Without : k <= l
  <2>1. Without \in SUBSET Nat OBVIOUS
  <2> HIDE DEF Without
  <2>. QED BY <1>1, <2>1, HasLeast
<1>3. k \in Nat /\ ~\E g : Tabulates(g, k) BY Zenon
<1>4. Minimum \in Minimum..MaxBackoff BY SMT DEF ScheduleAssumption
<1>5. CASE k = 0
  <2> DEFINE g == [n \in 0..k |-> Minimum]
  <2>1. g \in [0..k -> Minimum..MaxBackoff] BY <1>4
  <2>2. \A n \in 0..k : n <= 1 /\ g[n] = Minimum BY <1>5, SMT
  <2>3. Tabulates(g, k) BY <2>1, <2>2, Zenon DEF Tabulates
  <2>. QED BY <1>3, <2>3
<1>6. CASE k > 0
  <2>1. PICK l \in Nat : k = l + 1
    <3>1. k - 1 \in Nat /\ k = (k - 1) + 1 BY <1>3, <1>6
    <3>. QED BY <3>1
  <2>2. PICK h : Tabulates(h, l)
    <3>1. l \notin Without BY <1>2, <1>3, <2>1, SMT
    <3>. QED BY <3>1
  <2> DEFINE top == IF k <= 1 THEN Minimum ELSE Longer(h[l])
             g == [n \in 0..k |-> IF n = k THEN top ELSE h[n]]
  <2> HIDE DEF Without
  <2>3. \A n \in 0..k : n = k \/ n \in 0..l BY <2>1, SMT
  <2>4. l \in 0..l /\ l \in 0..k /\ l # k /\ k \in 0..k /\ k - 1 = l BY <2>1, SMT
  <2>5. \A n \in 0..l : h[n] \in Minimum..MaxBackoff BY <2>2 DEF Tabulates
  <2>6. top \in Minimum..MaxBackoff BY <1>4, <2>4, <2>5, LongerTyped
  <2>7. g \in [0..k -> Minimum..MaxBackoff]
    <3> HIDE DEF top
    <3>. QED BY <2>3, <2>5, <2>6, Zenon
  <2>8. ASSUME NEW n \in 0..k PROVE g[n] = IF n <= 1 THEN Minimum ELSE Longer(g[n - 1])
    <3>1. CASE n = k
      <4>1. g[n] = top /\ g[n - 1] = h[l] /\ n - 1 = l
        <5>1. n - 1 = l /\ l \in 0..k BY <2>4, <3>1
        <5> HIDE DEF top
        <5>. QED BY <2>4, <3>1, <5>1, Zenon
      <4>. QED BY <3>1, <4>1, Zenon
    <3>2. CASE n # k
      <4>1. n \in 0..l /\ g[n] = h[n] BY <2>3, <3>2, Zenon
      <4>2. h[n] = IF n <= 1 THEN Minimum ELSE Longer(h[n - 1]) BY <2>2, <4>1, Zenon
           DEF Tabulates
      <4>3. CASE n <= 1 BY <4>1, <4>2, <4>3, Zenon
      <4>4. CASE ~(n <= 1)
        <5>1. n - 1 \in 0..k /\ n - 1 # k BY <2>1, <4>1, <4>4, SMT
        <5>2. g[n - 1] = h[n - 1] BY <5>1, Zenon
        <5>. QED BY <4>1, <4>2, <4>4, <5>2, Zenon
      <4>. QED BY <4>3, <4>4
    <3>. QED BY <3>1, <3>2
  <2>9. Tabulates(g, k)
    <3> HIDE DEF g
    <3>. QED BY <2>7, <2>8, Zenon DEF Tabulates
  <2>. QED BY <1>3, <2>9
<1>. QED BY <1>3, <1>5, <1>6, SMT

(* Two tables agree where both have entries.                                 *)
LEMMA TablesAgree ==
  ASSUME NEW k \in Nat, NEW l \in Nat, k <= l, NEW g, NEW h, Tabulates(g, k), Tabulates(h, l)
  PROVE  \A n \in 0..k : g[n] = h[n]
<1> DEFINE Differ == {n \in 0..k : g[n] # h[n]}
<1>1. SUFFICES ASSUME Differ # {} PROVE FALSE OBVIOUS
<1>2. PICK n \in Differ : \A m \in Differ : n <= m
  <2>1. Differ \in SUBSET Nat OBVIOUS
  <2> HIDE DEF Differ
  <2>. QED BY <1>1, <2>1, HasLeast
<1>3. n \in 0..k /\ n \in 0..l /\ g[n] # h[n] BY SMT
<1>4. /\ g[n] = IF n <= 1 THEN Minimum ELSE Longer(g[n - 1])
      /\ h[n] = IF n <= 1 THEN Minimum ELSE Longer(h[n - 1])
  BY <1>3, Zenon DEF Tabulates
<1>5. ~(n <= 1) /\ g[n - 1] # h[n - 1] BY <1>3, <1>4, Zenon
<1>6. n - 1 \in 0..k BY <1>3, <1>5, SMT
<1>7. n - 1 \in Differ BY <1>5, <1>6
<1> HIDE DEF Differ
<1>. QED BY <1>2, <1>3, <1>7, SMT

(* The back-off is what the loop of the code computes, and in its bounds.  *)
LEMMA BackoffIs ==
  ASSUME ScheduleAssumption
  PROVE  /\ Backoff \in [Nat -> Minimum..MaxBackoff]
         /\ \A n \in Nat : Backoff[n] = IF n <= 1 THEN Minimum ELSE Longer(Backoff[n - 1])
<1> DEFINE table == [k \in Nat |-> CHOOSE g : Tabulates(g, k)]
           f == [n \in Nat |-> table[n][n]]
<1>1. \A k \in Nat : Tabulates(table[k], k) BY TableExists
<1> HIDE DEF table
<1>2. \A n \in Nat : n \in 0..n OBVIOUS
<1>3. \A n \in Nat : f[n] \in Minimum..MaxBackoff BY <1>1, <1>2 DEF Tabulates
<1>4. ASSUME NEW n \in Nat PROVE f[n] = IF n <= 1 THEN Minimum ELSE Longer(f[n - 1])
  <2>1. f[n] = table[n][n] OBVIOUS
  <2>2. table[n][n] = IF n <= 1 THEN Minimum ELSE Longer(table[n][n - 1])
    BY <1>1, <1>2, Zenon DEF Tabulates
  <2>3. CASE n <= 1 BY <2>1, <2>2, <2>3, Zenon
  <2>4. CASE ~(n <= 1)
    <3>1. PICK m \in Nat : m = n - 1 /\ m <= n /\ m \in 0..m BY <2>4
    <3>2. table[m][m] = table[n][m]
      <4>1. Tabulates(table[m], m) /\ Tabulates(table[n], n) BY <1>1
      <4>2. \A i \in 0..m : table[m][i] = table[n][i] BY <3>1, <4>1, TablesAgree
      <4>. QED BY <3>1, <4>2
    <3>3. f[n - 1] = table[n][n - 1] BY <3>1, <3>2, Zenon
    <3>. QED BY <2>1, <2>2, <2>4, <3>3, Zenon
  <2>. QED BY <2>3, <2>4
<1>5. f = [n \in Nat |-> IF n <= 1 THEN Minimum ELSE Longer(f[n - 1])]
  <2>1. f = [n \in Nat |-> f[n]] OBVIOUS
  <2> HIDE DEF f
  <2>. QED BY <1>4, <2>1, Zenon
<1> HIDE DEF f
<1>6. Backoff = [n \in Nat |-> IF n <= 1 THEN Minimum ELSE Longer(Backoff[n - 1])]
  BY <1>5, Zenon DEF Backoff, Longer
<1>7. \A n \in Nat : Backoff[n] = IF n <= 1 THEN Minimum ELSE Longer(Backoff[n - 1])
  BY <1>6, Zenon
<1>8. \A n \in Nat : Backoff[n] \in Minimum..MaxBackoff
  <2> DEFINE Outside == {n \in Nat : Backoff[n] \notin Minimum..MaxBackoff}
  <2>1. SUFFICES ASSUME Outside # {} PROVE FALSE OBVIOUS
  <2>2. PICK n \in Outside : \A m \in Outside : n <= m
    <3>1. Outside \in SUBSET Nat OBVIOUS
    <3> HIDE DEF Outside
    <3>. QED BY <2>1, <3>1, HasLeast
  <2>3. n \in Nat /\ Backoff[n] \notin Minimum..MaxBackoff BY Zenon
  <2>4. CASE n <= 1
    <3>1. Backoff[n] = Minimum BY <1>7, <2>3, <2>4, Zenon
    <3>. QED BY <2>3, <3>1, SMT DEF ScheduleAssumption
  <2>5. CASE ~(n <= 1)
    <3>1. PICK m \in Nat : m = n - 1 /\ ~(n <= m) BY <2>3, <2>5
    <3> HIDE DEF Outside
    <3>2. m \notin Outside BY <2>2, <3>1, Zenon
    <3>3. Backoff[m] \in Minimum..MaxBackoff BY <3>2, Zenon DEF Outside
    <3>4. Longer(Backoff[m]) \in Minimum..MaxBackoff BY <3>3, LongerTyped
    <3>. QED BY <1>7, <2>3, <2>5, <3>1, <3>4, Zenon
  <2>. QED BY <2>4, <2>5
<1>. QED BY <1>6, <1>7, <1>8, Zenon

(* A stored or read state: a failed attempt has its back-off behind it.      *)
StateTyped(s) ==
    /\ s \in States
    /\ s.outcome = "failed" <=> s.failures > 0

(* A failed attempt is followed by its back-off.                             *)
BacksOff(s) ==
    s.outcome = "failed" =>
        /\ s.last # Never /\ s.next # Never
        /\ s.next >= s.last + Backoff[s.failures]
        /\ s.next <= s.last + MaxBackoff + MaxJitter

(* A snapshot.                                                               *)
SnapshotTyped(snapshot) == snapshot \in Snapshots

(* A state and a snapshot that keep the next attempt from coming too early:  *)
(* the state is a failed one that says so, since the time the last call is   *)
(* counted from, or the snapshot is not older than the call.                 *)
HoldsFloor(s, snapshot, since, asked) ==
    since # Never =>
        \/ s.outcome = "failed" /\ s.next # Never /\ s.next >= since + Minimum
        \/ /\ s.outcome # "failed" /\ snapshot.captured # Never /\ snapshot.captured >= asked
           /\ s.next # Never => s.next >= asked + Minimum

(* A state that did not fail heads for a time within some interval of its    *)
(* evidence.                                                                 *)
HeadsAhead(s, snapshot) ==
    s.outcome # "failed" /\ s.next # Never =>
        /\ snapshot.captured # Never
        /\ \E i \in Intervals : s.next <= snapshot.captured + i + MaxJitter

(* A snapshot that is not older than another.                                *)
NotOlder(snapshot, old) ==
    old.captured # Never => snapshot.captured # Never /\ snapshot.captured >= old.captured

(* The times there are.                                                      *)
TimesTyped ==
    /\ clock \in 0..MaxTime /\ manual \in Times /\ called \in Times /\ counted \in Times
    /\ interval \in Intervals

(* The tick, and how far it is.                                              *)
TickTyped ==
    /\ tick = [pc |-> tick.pc, now |-> tick.now, interval |-> tick.interval,
               latest |-> tick.latest, state |-> tick.state]
    /\ tick.pc \in {"idle", "inspect", "collect", "joined", "record"}
    /\ tick.now \in Nat /\ tick.now <= clock
    /\ tick.pc # "idle" => tick.interval \in Intervals /\ clock <= tick.now + MaxSlow

(* The state that is stored, and the one of the tick.                        *)
StatesTyped == StateTyped(schedule) /\ StateTyped(tick.state)

(* The snapshot that is stored, and the one of the tick.                     *)
SnapshotsTyped == SnapshotTyped(latest) /\ SnapshotTyped(tick.latest)

(* Both keep to the back-off.                                                *)
StatesBackOff == BacksOff(schedule) /\ BacksOff(tick.state)

(* An attempt has been recorded or not, and counts from the start of its     *)
(* tick or from its call.                                                    *)
RecordedTyped ==
    /\ unrecorded \in BOOLEAN
    /\ called = Never <=> counted = Never
    /\ called # Never => counted <= called /\ called <= counted + MaxSlow

(* What the scheduler and the user asked for, in the order of time.          *)
AskedInOrder ==
    /\ called # Never => called <= clock
    /\ latest.captured # Never => latest.captured <= clock
    /\ manual # Never =>
          /\ manual <= clock
          /\ called # Never => called <= manual
          /\ latest.captured # Never => latest.captured <= manual
    /\ tick.pc \in {"inspect", "collect", "joined"} /\ called # Never => called <= tick.now
    /\ tick.pc = "collect" => manual = Never

(* What is stored keeps to the minimum, if the last attempt was recorded,    *)
(* and does not put the next one off.                                        *)
StoredFloor ==
    /\ HeadsAhead(schedule, latest)
    /\ ~unrecorded => HoldsFloor(schedule, latest, counted, called)

(* So does what a tick has read, even when the snapshot changes under it.    *)
ReadFloor ==
    tick.pc \in {"inspect", "collect", "joined"} =>
        /\ HeadsAhead(tick.state, latest) /\ HeadsAhead(tick.state, tick.latest)
        /\ NotOlder(latest, tick.latest)
        /\ ~unrecorded => /\ HoldsFloor(tick.state, latest, counted, called)
                          /\ HoldsFloor(tick.state, tick.latest, counted, called)

(* So does what a tick is about to store.                                    *)
MadeFloor ==
    tick.pc = "record" =>
        /\ HeadsAhead(tick.state, latest)
        /\ HoldsFloor(tick.state, latest, counted, called)

(* The invariant of the schedule.                                            *)
ScheduleInv ==
    /\ TimesTyped /\ TickTyped /\ StatesTyped /\ SnapshotsTyped /\ StatesBackOff
    /\ RecordedTyped /\ AskedInOrder /\ StoredFloor /\ ReadFloor /\ MadeFloor
    /\ SpacingKept /\ BackoffKept

(* A time that is not never is a number.                                     *)
LEMMA TimesAre ==
  ASSUME ScheduleAssumption PROVE \A x \in Times : x # Never => x \in Nat
BY DEF Times

(* The fields of a snapshot.                                                 *)
LEMMA SnapshotFields ==
  ASSUME NEW snapshot, SnapshotTyped(snapshot)
  PROVE  snapshot.captured \in Times /\ snapshot.window \in Times
BY Zenon DEF SnapshotTyped, Snapshots

(* A snapshot from its fields.                                               *)
LEMMA SnapshotMade ==
  ASSUME NEW c \in Times, NEW w \in Times
  PROVE  SnapshotTyped([captured |-> c, window |-> w])
BY DEF SnapshotTyped, Snapshots

(* A failure dates a snapshot anew.                                          *)
LEMMA SnapshotFailed ==
  ASSUME NEW snapshot, SnapshotTyped(snapshot), NEW c \in Times
  PROVE  /\ SnapshotTyped([snapshot EXCEPT !.captured = c])
         /\ [snapshot EXCEPT !.captured = c].captured = c
BY DEF SnapshotTyped, Snapshots

(* The fields of a state.                                                    *)
LEMMA StateFields ==
  ASSUME NEW s, StateTyped(s)
  PROVE  /\ s.last \in Times /\ s.next \in Times /\ s.failures \in Nat
         /\ s.outcome \in {"none", "succeeded", "failed"}
         /\ s.outcome = "failed" <=> s.failures > 0
BY DEF StateTyped, States

(* A state from its fields.                                                  *)
LEMMA StateMade ==
  ASSUME NEW l \in Times, NEW f \in Nat, NEW o \in {"none", "succeeded", "failed"}, NEW n \in Times,
         NEW s, s = [last |-> l, failures |-> f, outcome |-> o, next |-> n]
  PROVE  s \in States /\ s.last = l /\ s.failures = f /\ s.outcome = o /\ s.next = n
BY DEF States

(* Storing the next attempt leaves the rest of a state.                      *)
LEMMA StatePutOff ==
  ASSUME NEW s, StateTyped(s), NEW d \in Times
  PROVE  /\ StateTyped([s EXCEPT !.next = d])
         /\ [s EXCEPT !.next = d].next = d /\ [s EXCEPT !.next = d].last = s.last
         /\ [s EXCEPT !.next = d].failures = s.failures
         /\ [s EXCEPT !.next = d].outcome = s.outcome
BY DEF StateTyped, States

(* What the evidence gives is a time, not before the minimum, and the        *)
(* periodic one when that is past.                                           *)
LEMMA EvidenceDue ==
  ASSUME ScheduleAssumption, NEW t, SnapshotTyped(t.latest), t.now \in Nat, t.interval \in Intervals
  PROVE  /\ DueByEvidence(t) \in Nat
         /\ t.latest.captured # Never =>
               /\ DueByEvidence(t) >= t.latest.captured + Minimum
               /\ DueByEvidence(t) <= t.latest.captured + t.interval
         /\ t.latest.captured # Never /\ t.now > t.latest.captured + t.interval
               => IsPeriodic(t) /\ DueByEvidence(t) = t.latest.captured + t.interval
<1>1. CASE t.latest.captured = Never BY <1>1, Zenon DEF DueByEvidence
<1>2. CASE t.latest.captured # Never
  <2> DEFINE c == t.latest.captured
             w == t.latest.window
             i == t.interval
             heads == w # Never /\ Boundary(t) > t.now /\ Boundary(t) < c + i
             wanted == IF heads THEN Boundary(t) ELSE c + i
  <2>1. c \in Nat /\ i \in Nat /\ Minimum \in Nat /\ Minimum <= i /\ (w # Never => w \in Nat)
        /\ Lead \in Nat /\ t.now \in Nat
    BY <1>2, SnapshotFields, TimesAre, Zenon DEF ScheduleAssumption
  <2>2. w # Never => Boundary(t) \in Int
    <3>1. w # Never => w - Lead \in Int /\ w \in Int BY <2>1, SMT
    <3> HIDE DEF c, i
    <3>. QED BY <3>1, Zenon DEF Boundary, w
  <2>3. DueByEvidence(t) = Greatest({wanted, c + Minimum}) BY <1>2, Zenon
       DEF DueByEvidence
  <2>4. /\ heads => wanted = Boundary(t) /\ wanted \in Int /\ t.now < wanted /\ wanted < c + i
        /\ ~heads => wanted = c + i
    BY <2>2
  <2>5. IsPeriodic(t) <=> w = Never \/ Boundary(t) <= t.now \/ Boundary(t) >= c + i
    BY Zenon DEF IsPeriodic
  <2> HIDE DEF c, i, w
  <2>6. w # Never => (~heads <=> Boundary(t) <= t.now \/ Boundary(t) >= c + i)
    BY <2>1, <2>2, SMT
  <2>7. ~heads => IsPeriodic(t) BY <2>5, <2>6, Zenon
  <2> HIDE DEF heads, wanted
  <2>8. wanted \in Int /\ c + Minimum \in Int BY <2>1, <2>4, SMT
  <2>9. DueByEvidence(t) = IF wanted <= c + Minimum THEN c + Minimum ELSE wanted
    BY <2>3, <2>8, GreatestOfTwo, Zenon
  <2>10. DueByEvidence(t) \in Nat /\ DueByEvidence(t) >= c + Minimum /\ DueByEvidence(t) <= c + i
    BY <2>1, <2>4, <2>8, <2>9, SMT
  <2>11. ASSUME t.now > c + i PROVE IsPeriodic(t) /\ DueByEvidence(t) = c + i
    <3>1. ~heads BY <2>1, <2>4, <2>8, <2>11, SMT
    <3>2. wanted = c + i BY <2>4, <3>1
    <3>. QED BY <2>1, <2>7, <2>9, <3>1, <3>2, SMT
  <2>. QED BY <2>10, <2>11 DEF c, i
<1>. QED BY <1>1, <1>2

(* A target is due by its stored attempt or by the evidence, and by the      *)
(* former when it failed.                                                    *)
LEMMA DueIs ==
  ASSUME ScheduleAssumption, NEW t, SnapshotTyped(t.latest), t.now \in Nat, t.interval \in Intervals,
         StateTyped(t.state), BacksOff(t.state)
  PROVE  /\ Due(t) \in Nat
         /\ \/ Due(t) = t.state.next /\ t.state.next # Never
            \/ Due(t) = DueByEvidence(t)
         /\ t.state.outcome = "failed" => Due(t) = t.state.next /\ t.state.next # Never
         /\ t.latest.captured = Never /\ t.state.next # Never => Due(t) = t.state.next
<1>1. DueByEvidence(t) \in Nat BY EvidenceDue
<1>2. t.state.next # Never => t.state.next \in Nat BY StateFields, TimesAre, Zenon
<1>3. t.state.outcome = "failed" => t.state.next # Never BY Zenon DEF BacksOff
<1>. QED BY <1>1, <1>2, <1>3, Zenon DEF Due

(* What a state and a snapshot allow comes at least the minimum after the    *)
(* time the last call counts from, and after the call if it does not back    *)
(* off.                                                                      *)
LEMMA DueAfterFloor ==
  ASSUME ScheduleAssumption, NEW t, SnapshotTyped(t.latest), t.now \in Nat, t.interval \in Intervals,
         StateTyped(t.state), BacksOff(t.state), HoldsFloor(t.state, t.latest, counted, called),
         called \in Times, called # Never, counted \in Times, counted # Never, counted <= called
  PROVE  /\ Due(t) \in Nat /\ Due(t) >= counted + Minimum
         /\ t.state.outcome # "failed" => Due(t) >= called + Minimum
<1>1. Due(t) \in Nat BY DueIs
<1>2. called \in Nat /\ counted \in Nat /\ Minimum \in Nat BY TimesAre, Zenon
     DEF ScheduleAssumption
<1>3. CASE t.state.outcome = "failed"
  BY <1>1, <1>3, DueIs, Zenon DEF HoldsFloor
<1>4. CASE t.state.outcome # "failed"
  <2>1. /\ t.latest.captured # Never /\ t.latest.captured >= called
        /\ t.state.next # Never => t.state.next >= called + Minimum
    BY <1>4, Zenon DEF HoldsFloor
  <2>2. Due(t) >= called + Minimum
    <3>1. CASE Due(t) = t.state.next /\ t.state.next # Never BY <1>1, <2>1, <3>1, Zenon
    <3>2. CASE Due(t) = DueByEvidence(t)
      <4>1. t.latest.captured \in Nat BY <2>1, SnapshotFields, TimesAre, Zenon
      <4>2. DueByEvidence(t) >= t.latest.captured + Minimum BY <2>1, EvidenceDue, Zenon
      <4>. QED BY <1>1, <1>2, <2>1, <3>2, <4>1, <4>2, SMT
    <3>. QED BY <3>1, <3>2, DueIs, Zenon
  <2>. QED BY <1>1, <1>2, <2>2, SMT
<1>. QED BY <1>3, <1>4

(* A state goes on to head for some interval of its evidence when that is    *)
(* renewed.                                                                  *)
LEMMA AheadStays ==
  ASSUME ScheduleAssumption, NEW s, StateTyped(s), NEW old, SnapshotTyped(old),
         NEW snapshot, SnapshotTyped(snapshot), HeadsAhead(s, old), NotOlder(snapshot, old)
  PROVE  HeadsAhead(s, snapshot)
<1>1. SUFFICES ASSUME s.outcome # "failed", s.next # Never
               PROVE  /\ snapshot.captured # Never
                      /\ \E i \in Intervals : s.next <= snapshot.captured + i + MaxJitter
  BY Zenon DEF HeadsAhead
<1>2. /\ old.captured # Never
      /\ \E i \in Intervals : s.next <= old.captured + i + MaxJitter
  BY <1>1, Zenon DEF HeadsAhead
<1>3. PICK i \in Intervals : s.next <= old.captured + i + MaxJitter BY <1>2
<1>4. snapshot.captured # Never /\ snapshot.captured >= old.captured
  BY <1>2, Zenon DEF NotOlder
<1>5. /\ snapshot.captured \in Nat /\ old.captured \in Nat /\ s.next \in Nat
      /\ i \in Nat /\ MaxJitter \in Nat
  BY <1>1, <1>2, <1>4, SnapshotFields, StateFields, TimesAre, SMT DEF ScheduleAssumption
<1>6. s.next <= snapshot.captured + i + MaxJitter BY <1>3, <1>4, <1>5, SMT
<1>. QED BY <1>4, <1>6

(* A snapshot is not older than one that is not older than a third.          *)
LEMMA NotOlderThan ==
  ASSUME ScheduleAssumption, NEW a, SnapshotTyped(a), NEW b, SnapshotTyped(b),
         NEW c, SnapshotTyped(c), NotOlder(a, b), NotOlder(b, c)
  PROVE  NotOlder(a, c)
<1>1. SUFFICES ASSUME c.captured # Never
               PROVE  a.captured # Never /\ a.captured >= c.captured
  BY Zenon DEF NotOlder
<1>2. /\ b.captured # Never /\ b.captured >= c.captured
      /\ a.captured # Never /\ a.captured >= b.captured
  BY <1>1, Zenon DEF NotOlder
<1>3. a.captured \in Nat /\ b.captured \in Nat /\ c.captured \in Nat
  BY <1>1, <1>2, SnapshotFields, TimesAre, Zenon
<1>. QED BY <1>2, <1>3, SMT

(* A snapshot is not older than itself.                                      *)
LEMMA NotOlderSelf ==
  ASSUME ScheduleAssumption, NEW snapshot, SnapshotTyped(snapshot)
  PROVE  NotOlder(snapshot, snapshot)
<1>1. snapshot.captured # Never => snapshot.captured \in Nat
  BY SnapshotFields, TimesAre, Zenon
<1>2. snapshot.captured # Never => snapshot.captured >= snapshot.captured BY <1>1, SMT
<1>. QED BY <1>2, Zenon DEF NotOlder

(* A target that is overdue is due.                                          *)
LEMMA OverdueIsDue ==
  ASSUME ScheduleAssumption, NEW t, SnapshotTyped(t.latest), t.now \in Nat, t.interval \in Intervals,
         StateTyped(t.state), BacksOff(t.state), HeadsAhead(t.state, t.latest), Overdue(t)
  PROVE  t.now >= Due(t)
<1>1. CASE t.state.outcome = "failed"
  <2>1. Due(t) = t.state.next /\ t.state.next # Never BY <1>1, DueIs, Zenon
  <2>2. t.state.last # Never /\ t.state.next <= t.state.last + MaxBackoff + MaxJitter
    BY <1>1, Zenon DEF BacksOff
  <2>3. t.now >= t.state.last + MaxBackoff + MaxJitter BY <1>1, Zenon DEF Overdue
  <2>4. /\ t.state.next \in Nat /\ t.state.last \in Nat /\ MaxBackoff \in Nat /\ MaxJitter \in Nat
    BY <2>1, <2>2, StateFields, TimesAre, Zenon DEF ScheduleAssumption
  <2>. QED BY <2>1, <2>2, <2>3, <2>4, SMT
<1>2. CASE t.state.outcome # "failed" /\ t.latest.captured = Never
  <2>1. t.state.next = Never BY <1>2, Zenon DEF HeadsAhead
  <2>2. Due(t) = t.now BY <1>2, <2>1, Zenon DEF Due, DueByEvidence
  <2>. QED BY <2>2, SMT
<1>3. CASE t.state.outcome # "failed" /\ t.latest.captured # Never
  <2>1. \A i \in OverdueAfter(t) : t.now > t.latest.captured + i + MaxJitter
    BY <1>3, Zenon DEF Overdue
  <2>2. t.latest.captured \in Nat /\ MaxJitter \in Nat
    BY <1>3, SnapshotFields, TimesAre, Zenon DEF ScheduleAssumption
  <2>3. CASE HeadsForReset(t)
    <3>1. t.latest.window # Never
          /\ (t.state.next = t.latest.window \/ t.state.next = t.latest.window - Lead)
      BY <2>3, Zenon DEF HeadsForReset
    <3>2. t.latest.window \in Nat /\ Lead \in Nat
      BY <3>1, SnapshotFields, TimesAre, Zenon DEF ScheduleAssumption
    <3>3. t.latest.window - Lead \in Int BY <3>2, SMT
    <3>4. t.state.next # Never BY <3>1, <3>3, SMT DEF ScheduleAssumption
    <3>5. Due(t) = t.state.next BY <2>3, <3>4, Zenon DEF Due
    <3>6. \E i \in Intervals : t.state.next <= t.latest.captured + i + MaxJitter
      BY <1>3, <3>4, Zenon DEF HeadsAhead
    <3>7. PICK i \in Intervals : t.state.next <= t.latest.captured + i + MaxJitter BY <3>6
    <3>8. t.now > t.latest.captured + i + MaxJitter BY <2>1, <2>3 DEF OverdueAfter
    <3>9. t.state.next \in Nat /\ i \in Nat
      BY <3>4, StateFields, TimesAre, SMT DEF ScheduleAssumption
    <3>. QED BY <2>2, <3>5, <3>7, <3>8, <3>9, SMT
  <2>4. CASE ~HeadsForReset(t)
    <3>1. t.now > t.latest.captured + t.interval + MaxJitter
      BY <2>1, <2>4 DEF OverdueAfter
    <3>2. t.interval \in Nat BY Zenon DEF ScheduleAssumption
    <3>3. t.now > t.latest.captured + t.interval BY <2>2, <3>1, <3>2, SMT
    <3>4. IsPeriodic(t) /\ DueByEvidence(t) = t.latest.captured + t.interval
      BY <1>3, <3>3, EvidenceDue, Zenon
    <3>5. \/ Due(t) = DueByEvidence(t)
          \/ /\ Due(t) = t.state.next
             /\ t.state.next \in DueByEvidence(t)..(DueByEvidence(t) + MaxJitter)
      BY <1>3, <2>4, Zenon DEF Due
    <3>6. CASE Due(t) = DueByEvidence(t) BY <2>2, <3>2, <3>3, <3>4, <3>6, SMT
    <3>7. CASE Due(t) = t.state.next
               /\ t.state.next \in DueByEvidence(t)..(DueByEvidence(t) + MaxJitter)
      <4>1. t.state.next <= t.latest.captured + t.interval + MaxJitter
        BY <2>2, <3>2, <3>4, <3>7, SMT
      <4>. QED BY <2>2, <3>1, <3>2, <3>7, <4>1, SMT
    <3>. QED BY <3>5, <3>6, <3>7
  <2>. QED BY <2>3, <2>4
<1>. QED BY <1>1, <1>2, <1>3

(* What a failed attempt records.                                            *)
LEMMA FailureMakes ==
  ASSUME ScheduleAssumption, NEW t, t.now \in Nat, StateTyped(t.state), NEW j \in Jitters
  PROVE  /\ StateTyped(AfterFailure(t, j)) /\ BacksOff(AfterFailure(t, j))
         /\ AfterFailure(t, j).outcome = "failed" /\ AfterFailure(t, j).next \in Nat
         /\ AfterFailure(t, j).next >= t.now + Minimum
<1> DEFINE n == t.state.failures + 1
           b == Backoff[n]
           s == AfterFailure(t, j)
<1>1. n \in Nat /\ n > 0 BY StateFields
<1>2. b \in Nat /\ b >= Minimum /\ Minimum \in Nat /\ b <= MaxBackoff /\ MaxBackoff \in Nat
  <2>1. b \in Minimum..MaxBackoff BY <1>1, BackoffIs
  <2> HIDE DEF b
  <2>. QED BY <2>1, SMT DEF ScheduleAssumption
<1>3. s = [last |-> t.now, failures |-> n, outcome |-> "failed", next |-> t.now + b + j]
  BY Zenon DEF AfterFailure
<1>5. j \in Nat /\ j <= MaxJitter /\ MaxJitter \in Nat BY DEF Jitters, ScheduleAssumption
<1>6. BacksOff(s) <=> (s.outcome = "failed" =>
        /\ s.last # Never /\ s.next # Never /\ s.next >= s.last + Backoff[s.failures]
        /\ s.next <= s.last + MaxBackoff + MaxJitter)
  BY Zenon DEF BacksOff
<1> HIDE DEF n, b
<1>7. /\ t.now + b + j \in Nat /\ t.now + b + j >= t.now + b /\ t.now + b + j >= t.now + Minimum
      /\ t.now + b + j <= t.now + MaxBackoff + MaxJitter
  BY <1>2, <1>5
<1>8. \A x \in Nat : x # Never /\ x \in Times BY DEF ScheduleAssumption, Times
<1> HIDE DEF s
<1>9. /\ s \in States /\ s.last = t.now /\ s.failures = n /\ s.outcome = "failed"
      /\ s.next = t.now + b + j
  BY <1>1, <1>3, <1>7, <1>8, StateMade
<1>10. BacksOff(s) BY <1>6, <1>7, <1>8, <1>9, Zenon DEF b
<1>11. StateTyped(s) BY <1>1, <1>9, SMT DEF StateTyped
<1>. QED BY <1>7, <1>9, <1>10, <1>11, Zenon DEF s

(* What a successful attempt records.                                        *)
LEMMA SuccessMakes ==
  ASSUME ScheduleAssumption, NEW t, t.now \in Nat, t.interval \in Intervals,
         t = [pc |-> t.pc, now |-> t.now, interval |-> t.interval, latest |-> t.latest,
              state |-> t.state],
         NEW snapshot, SnapshotTyped(snapshot), snapshot.captured # Never, NEW j \in Jitters
  PROVE  /\ StateTyped(AfterSuccess(t, snapshot, j)) /\ BacksOff(AfterSuccess(t, snapshot, j))
         /\ AfterSuccess(t, snapshot, j).outcome = "succeeded"
         /\ AfterSuccess(t, snapshot, j).next \in Nat
         /\ AfterSuccess(t, snapshot, j).next >= snapshot.captured + Minimum
         /\ HeadsAhead(AfterSuccess(t, snapshot, j), snapshot)
<1> DEFINE u == [t EXCEPT !.latest = snapshot]
           due == DueByEvidence(u)
           next == IF due = snapshot.captured + t.interval THEN due + j ELSE due
           s == AfterSuccess(t, snapshot, j)
<1>1. u.now = t.now /\ u.interval = t.interval /\ u.latest = snapshot
  <2> DEFINE a == t.pc
             b == t.now
             c == t.interval
             d == t.latest
             e == t.state
  <2>1. t = [pc |-> a, now |-> b, interval |-> c, latest |-> d, state |-> e] OBVIOUS
  <2>2. u = [pc |-> a, now |-> b, interval |-> c, latest |-> snapshot, state |-> e]
    <3> HIDE DEF a, b, c, d, e
    <3>. QED BY <2>1
  <2> HIDE DEF u
  <2>. QED BY <2>2, Zenon
<1>2. /\ due \in Nat /\ due >= snapshot.captured + Minimum
      /\ due <= snapshot.captured + t.interval
  <2> HIDE DEF u
  <2>. QED BY <1>1, EvidenceDue, Zenon
<1>3. /\ snapshot.captured \in Nat /\ Minimum \in Nat /\ j \in Nat /\ t.interval \in Nat
      /\ MaxJitter \in Nat /\ j <= MaxJitter
  BY SnapshotFields, TimesAre, SMT DEF ScheduleAssumption, Jitters
<1>4. s = [last |-> t.now, failures |-> 0, outcome |-> "succeeded", next |-> next]
  BY Zenon DEF AfterSuccess
<1> HIDE DEF due
<1>6. /\ next \in Nat /\ next >= snapshot.captured + Minimum
      /\ next <= snapshot.captured + t.interval + MaxJitter
  BY <1>2, <1>3, SMT
<1> HIDE DEF next
<1>7. t.now \in Times /\ next \in Times BY <1>6, Zenon DEF Times
<1> HIDE DEF s
<1>8. s \in States /\ s.outcome = "succeeded" /\ s.next = next /\ s.failures = 0
  BY <1>4, <1>6, <1>7, StateMade
<1>9. StateTyped(s) BY <1>8, SMT DEF StateTyped
<1>10. BacksOff(s) BY <1>8, Zenon DEF BacksOff
<1>11. HeadsAhead(s, snapshot) BY <1>6, <1>8, Zenon DEF HeadsAhead
<1>. QED BY <1>6, <1>8, <1>9, <1>10, <1>11, Zenon DEF s

(* A tick goes on with a new state.                                          *)
LEMMA TickGoesOn ==
  ASSUME TickTyped, NEW pc, NEW s, tick' = [tick EXCEPT !.pc = pc, !.state = s]
  PROVE  /\ tick'.pc = pc /\ tick'.state = s /\ tick'.now = tick.now
         /\ tick'.interval = tick.interval /\ tick'.latest = tick.latest
         /\ tick' = [pc |-> tick'.pc, now |-> tick'.now, interval |-> tick'.interval,
                     latest |-> tick'.latest, state |-> tick'.state]
<1> DEFINE a == tick.pc
           b == tick.now
           c == tick.interval
           d == tick.latest
           e == tick.state
<1>1. tick = [pc |-> a, now |-> b, interval |-> c, latest |-> d, state |-> e] BY Zenon
     DEF TickTyped
<1>2. tick' = [pc |-> pc, now |-> b, interval |-> c, latest |-> d, state |-> s]
  <2> HIDE DEF a, b, c, d, e
  <2>. QED BY <1>1
<1>. QED BY <1>2, Zenon

(* A tick goes on with the state it has.                                     *)
LEMMA TickGoes ==
  ASSUME TickTyped, NEW pc, tick' = [tick EXCEPT !.pc = pc]
  PROVE  /\ tick'.pc = pc /\ tick'.state = tick.state /\ tick'.now = tick.now
         /\ tick'.interval = tick.interval /\ tick'.latest = tick.latest
         /\ tick' = [pc |-> tick'.pc, now |-> tick'.now, interval |-> tick'.interval,
                     latest |-> tick'.latest, state |-> tick'.state]
<1> DEFINE a == tick.pc
           b == tick.now
           c == tick.interval
           d == tick.latest
           e == tick.state
<1>1. tick = [pc |-> a, now |-> b, interval |-> c, latest |-> d, state |-> e] BY Zenon
     DEF TickTyped
<1>2. tick' = [pc |-> pc, now |-> b, interval |-> c, latest |-> d, state |-> e]
  <2> HIDE DEF a, b, c, d, e
  <2>. QED BY <1>1
<1>. QED BY <1>2, Zenon

(* What there is when no tick runs.                                          *)
LEMMA NoTickIs ==
  ASSUME ScheduleAssumption
  PROVE  /\ NoTick.pc = "idle" /\ NoTick.now = 0
         /\ NoTick = [pc |-> NoTick.pc, now |-> NoTick.now, interval |-> NoTick.interval,
                      latest |-> NoTick.latest, state |-> NoTick.state]
         /\ NoTick.latest.captured = Never /\ NoTick.state.outcome = "none"
         /\ SnapshotTyped(NoTick.latest) /\ StateTyped(NoTick.state) /\ BacksOff(NoTick.state)
<1>1. /\ NoTick.pc = "idle" /\ NoTick.now = 0
      /\ NoTick = [pc |-> NoTick.pc, now |-> NoTick.now, interval |-> NoTick.interval,
                   latest |-> NoTick.latest, state |-> NoTick.state]
      /\ NoTick.latest = [captured |-> Never, window |-> Never]
      /\ NoTick.state = [last |-> Never, next |-> Never, failures |-> 0, outcome |-> "none"]
  BY Zenon DEF NoTick
<1>2. Never \in Times BY DEF Times
<1>3. SnapshotTyped(NoTick.latest) /\ NoTick.latest.captured = Never
  <2> DEFINE l == NoTick.latest
  <2>1. l = [captured |-> Never, window |-> Never] BY <1>1
  <2> HIDE DEF l
  <2>2. SnapshotTyped(l) BY <1>2, <2>1, SnapshotMade, Zenon
  <2>3. l.captured = Never BY <2>1, Zenon
  <2>. QED BY <2>2, <2>3 DEF l
<1> DEFINE s == NoTick.state
<1>4. s = [last |-> Never, failures |-> 0, outcome |-> "none", next |-> Never]
  <2>1. s = [last |-> Never, next |-> Never, failures |-> 0, outcome |-> "none"] BY <1>1
  <2> HIDE DEF s
  <2>. QED BY <2>1
<1> HIDE DEF s
<1>5. s \in States /\ s.outcome = "none" /\ s.failures = 0 BY <1>2, <1>4, StateMade
<1>6. StateTyped(s) BY <1>5, SMT DEF StateTyped
<1>7. BacksOff(s) BY <1>5, Zenon DEF BacksOff
<1>. QED BY <1>1, <1>3, <1>5, <1>6, <1>7, Zenon DEF s

(* A window a provider reports ends at a time or never.                      *)
LEMMA WindowsTyped ==
  ASSUME ScheduleAssumption, NEW t \in Nat, NEW w \in WindowsAt(t) PROVE w \in Times
BY DEF ScheduleAssumption, WindowsAt, Times

(* The end of a tick leaves nothing of it.                                   *)
LEMMA TickOver ==
  ASSUME ScheduleAssumption, tick' = NoTick, clock' \in 0..MaxTime
  PROVE  /\ TickTyped' /\ StateTyped(tick.state)' /\ SnapshotTyped(tick.latest)'
         /\ BacksOff(tick.state)' /\ tick'.pc = "idle"
         /\ ReadFloor' /\ MadeFloor' /\ SpacingKept' /\ BackoffKept'
<1>1. /\ tick'.pc = "idle" /\ tick'.now = 0
      /\ tick' = [pc |-> tick'.pc, now |-> tick'.now, interval |-> tick'.interval,
                  latest |-> tick'.latest, state |-> tick'.state]
      /\ SnapshotTyped(tick'.latest) /\ StateTyped(tick'.state) /\ BacksOff(tick'.state)
  BY NoTickIs, Zenon
<1>2. tick'.now \in Nat /\ tick'.now <= clock' BY <1>1, SMT DEF ScheduleAssumption
<1>3. TickTyped' BY <1>1, <1>2, Zenon DEF TickTyped
<1>4. StateTyped(tick.state)' /\ SnapshotTyped(tick.latest)'
  BY <1>1, Zenon DEF StateTyped, SnapshotTyped
<1>5. BacksOff(tick.state)' BY <1>1, Zenon DEF BacksOff
<1>6. tick'.pc \notin {"inspect", "collect", "joined", "record"} BY <1>1, SMT
<1>7. ReadFloor' /\ MadeFloor' /\ SpacingKept' /\ BackoffKept'
  BY <1>1, <1>6, SMT DEF ReadFloor, MadeFloor, SpacingKept, BackoffKept
<1>. QED BY <1>1, <1>3, <1>4, <1>5, <1>7

(* Before a tick has asked anyone, it respects what it has read.             *)
LEMMA NextDue ==
  ASSUME ScheduleAssumption, ScheduleInv, tick.pc = "inspect"
  PROVE  /\ Due(tick) \in Nat /\ Due(tick) \in Times /\ Due(tick) # Never
         /\ ~unrecorded /\ called # Never =>
               /\ Due(tick) >= counted + Minimum
               /\ tick.state.outcome # "failed" => Due(tick) >= called + Minimum
         /\ tick.state.outcome = "failed" =>
               /\ Due(tick) = tick.state.next /\ tick.state.last # Never
               /\ Due(tick) >= tick.state.last + Backoff[tick.state.failures]
               /\ Due(tick) <= tick.state.last + MaxBackoff + MaxJitter
<1>1. /\ SnapshotTyped(tick.latest) /\ StateTyped(tick.state) /\ BacksOff(tick.state)
      /\ called \in Times /\ counted \in Times /\ tick.now \in Nat
      /\ tick.interval \in Intervals
  <2>1. tick.pc # "idle" BY SMT
  <2>. QED BY <2>1, Zenon DEF ScheduleInv, SnapshotsTyped, StatesTyped, StatesBackOff,
       TimesTyped, TickTyped
<1>2. Due(tick) \in Nat /\ (tick.state.outcome = "failed" => Due(tick) = tick.state.next)
  BY <1>1, DueIs, Zenon
<1>3. Due(tick) \in Times /\ Due(tick) # Never BY <1>2, SMT DEF Times, ScheduleAssumption
<1>4. ~unrecorded => HoldsFloor(tick.state, tick.latest, counted, called) BY SMT DEF ScheduleInv,
     ReadFloor
<1>5. ~unrecorded /\ called # Never =>
         /\ Due(tick) >= counted + Minimum
         /\ tick.state.outcome # "failed" => Due(tick) >= called + Minimum
  <2>1. called # Never => counted # Never /\ counted <= called
    BY Zenon DEF ScheduleInv, RecordedTyped
  <2>. QED BY <1>1, <1>4, <2>1, DueAfterFloor, Zenon
<1>. QED BY <1>1, <1>2, <1>3, <1>5, Zenon DEF BacksOff

(* A target that a tick puts off heads for an interval of its evidence.      *)
LEMMA PutOffAhead ==
  ASSUME ScheduleAssumption, ScheduleInv, tick.pc = "inspect", Due(tick) # tick.now,
         NEW s, s.outcome = tick.state.outcome, s.next = Due(tick)
  PROVE  HeadsAhead(s, tick.latest)
<1>1. /\ SnapshotTyped(tick.latest) /\ StateTyped(tick.state) /\ BacksOff(tick.state)
      /\ tick.now \in Nat /\ tick.interval \in Intervals
  <2>1. tick.pc # "idle" BY SMT
  <2>. QED BY <2>1, Zenon DEF ScheduleInv, SnapshotsTyped, StatesTyped, StatesBackOff,
       TimesTyped, TickTyped
<1>2. HeadsAhead(tick.state, tick.latest) BY SMT DEF ScheduleInv, ReadFloor
<1>3. SUFFICES ASSUME tick.state.outcome # "failed"
               PROVE  /\ tick.latest.captured # Never
                      /\ \E i \in Intervals : Due(tick) <= tick.latest.captured + i + MaxJitter
  BY Zenon DEF HeadsAhead
<1>4. CASE Due(tick) = tick.state.next /\ tick.state.next # Never
  BY <1>2, <1>3, <1>4, Zenon DEF HeadsAhead
<1>5. CASE Due(tick) = DueByEvidence(tick)
  <2>1. tick.latest.captured # Never BY <1>5, Zenon DEF DueByEvidence
  <2>2. Due(tick) <= tick.latest.captured + tick.interval /\ Due(tick) \in Nat
    BY <1>1, <1>5, <2>1, EvidenceDue, Zenon
  <2>3. tick.latest.captured \in Nat /\ tick.interval \in Nat /\ MaxJitter \in Nat
    BY <1>1, <2>1, SnapshotFields, TimesAre, Zenon DEF ScheduleAssumption
  <2>4. Due(tick) <= tick.latest.captured + tick.interval + MaxJitter BY <2>2, <2>3, SMT
  <2>. QED BY <1>1, <2>1, <2>4
<1>. QED BY <1>1, <1>4, <1>5, DueIs, Zenon

(* The invariant holds of the first states.                                  *)
LEMMA ScheduleHolds ==
  ASSUME ScheduleAssumption, ScheduleInit PROVE ScheduleInv
<1>1. /\ clock = 0 /\ interval \in Intervals /\ latest = NoTick.latest /\ schedule = NoTick.state
      /\ manual = Never /\ called = Never /\ counted = Never /\ unrecorded = FALSE /\ tick = NoTick
  BY Zenon DEF ScheduleInit
<1>2. Never \in Times BY DEF Times
<1>3. clock \in 0..MaxTime BY <1>1, SMT DEF ScheduleAssumption
<1>4. TimesTyped BY <1>1, <1>2, <1>3, Zenon DEF TimesTyped
<1>5. /\ tick.pc = "idle" /\ tick.now = 0
      /\ tick = [pc |-> tick.pc, now |-> tick.now, interval |-> tick.interval,
                 latest |-> tick.latest, state |-> tick.state]
      /\ SnapshotTyped(tick.latest) /\ StateTyped(tick.state) /\ BacksOff(tick.state)
  BY <1>1, NoTickIs, Zenon
<1>6. tick.now \in Nat /\ tick.now <= clock BY <1>1, <1>5, SMT
<1>7. TickTyped BY <1>5, <1>6, Zenon DEF TickTyped
<1>8. StatesTyped /\ SnapshotsTyped /\ StatesBackOff
  BY <1>1, <1>5, Zenon DEF StatesTyped, SnapshotsTyped, StatesBackOff
<1>9. RecordedTyped BY <1>1, Zenon DEF RecordedTyped
<1>10. AskedInOrder BY <1>1, <1>5, NoTickIs, SMT DEF AskedInOrder
<1>11. StoredFloor /\ ReadFloor /\ MadeFloor /\ SpacingKept
  <2>1. schedule.next = Never BY <1>1, Zenon DEF NoTick
  <2>2. StoredFloor BY <1>1, <2>1, Zenon DEF StoredFloor, HeadsAhead, HoldsFloor
  <2>3. ReadFloor /\ MadeFloor /\ SpacingKept BY <1>5, SMT DEF ReadFloor, MadeFloor, SpacingKept
  <2>. QED BY <2>2, <2>3
<1>12. BackoffKept BY <1>5, SMT DEF BackoffKept
<1>. QED BY <1>4, <1>7, <1>8, <1>9, <1>10, <1>11, <1>12 DEF ScheduleInv

(* Every step of a tick, of a manual refresh and of what happens meanwhile   *)
(* keeps the invariant.                                                      *)
LEMMA ScheduleStepKeeps ==
  ASSUME ScheduleAssumption, ScheduleInv, [ScheduleNext]_scheduleVars PROVE ScheduleInv'
<1> USE DEF ScheduleInv
<1>0. \A x \in Nat : x # Never /\ x \in Times BY SMT DEF ScheduleAssumption, Times
<1>1. CASE TickBegins
  <2>1. /\ tick.pc = "idle"
        /\ tick' = [pc |-> "inspect", now |-> clock, interval |-> interval,
                    latest |-> latest, state |-> schedule]
        /\ UNCHANGED <<clock, interval, latest, schedule, manual, called, counted, unrecorded>>
    BY <1>1, Zenon DEF TickBegins
  <2>2. /\ tick'.pc = "inspect" /\ tick'.now = clock /\ tick'.interval = interval
        /\ tick'.latest = latest /\ tick'.state = schedule
    BY <2>1, Zenon
  <2>3. tick'.pc # "idle" /\ tick'.pc # "collect" /\ tick'.pc # "record" /\ tick'.pc # "joined"
    BY <2>2, SMT
  <2>4. clock \in Nat /\ clock <= clock /\ clock <= clock + MaxSlow
    BY SMT DEF TimesTyped, ScheduleAssumption
  <2>5. TimesTyped' /\ RecordedTyped' BY <2>1, Zenon DEF TimesTyped, RecordedTyped
  <2>6. TickTyped' BY <2>1, <2>2, <2>4, Zenon DEF TickTyped, TimesTyped
  <2>7. StatesTyped' BY <2>1, <2>2, Zenon DEF StatesTyped, StateTyped
  <2>8. SnapshotsTyped' BY <2>1, <2>2, Zenon DEF SnapshotsTyped, SnapshotTyped
  <2>9. StatesBackOff' BY <2>1, <2>2, Zenon DEF StatesBackOff, BacksOff
  <2>10. AskedInOrder' BY <2>1, <2>2, <2>3, SMT DEF AskedInOrder
  <2>11. StoredFloor' BY <2>1, Zenon DEF StoredFloor, HeadsAhead, HoldsFloor
  <2>12. ReadFloor'
    <3>1. NotOlder(latest, latest) BY NotOlderSelf, Zenon DEF SnapshotsTyped
    <3>. QED BY <2>1, <2>2, <3>1, Zenon
         DEF StoredFloor, ReadFloor, HeadsAhead, NotOlder, HoldsFloor
  <2>13. MadeFloor' /\ SpacingKept' /\ BackoffKept'
    BY <2>3, SMT DEF MadeFloor, SpacingKept, BackoffKept
  <2>. QED BY <2>5, <2>6, <2>7, <2>8, <2>9, <2>10, <2>11, <2>12, <2>13
<1>2. CASE NotInspected
  <2>1. tick' = NoTick /\ UNCHANGED <<clock, interval, latest, schedule, manual, called, counted, unrecorded>>
    BY <1>2, Zenon DEF NotInspected
  <2>2. clock' \in 0..MaxTime BY <2>1, Zenon DEF TimesTyped
  <2>3. TimesTyped' /\ RecordedTyped' BY <2>1, Zenon DEF TimesTyped, RecordedTyped
  <2>4. StatesTyped' /\ SnapshotsTyped' /\ StatesBackOff'
    <3>1. StateTyped(schedule)' /\ SnapshotTyped(latest)' /\ BacksOff(schedule)'
      BY <2>1, Zenon DEF StatesTyped, SnapshotsTyped, StatesBackOff, StateTyped,
         SnapshotTyped, BacksOff
    <3>. QED BY <2>1, <2>2, <3>1, TickOver DEF StatesTyped, SnapshotsTyped, StatesBackOff
  <2>5. AskedInOrder'
    <3>1. tick'.pc = "idle" BY <2>1, <2>2, TickOver
    <3>. QED BY <2>1, <3>1, SMT DEF AskedInOrder
  <2>6. StoredFloor' BY <2>1, Zenon DEF StoredFloor, HeadsAhead, HoldsFloor
  <2>. QED BY <2>1, <2>2, <2>3, <2>4, <2>5, <2>6, TickOver
<1>3. CASE NotDue
  <2>1. /\ tick' = NoTick /\ UNCHANGED <<clock, interval, latest, manual, called, counted, unrecorded>>
        /\ tick.pc = "inspect"
        /\ schedule' = schedule \/ schedule' = [tick.state EXCEPT !.next = Due(tick)]
    BY <1>3, Zenon DEF NotDue
  <2>2. clock' \in 0..MaxTime BY <2>1, Zenon DEF TimesTyped
  <2>3. TimesTyped' /\ RecordedTyped' BY <2>1, Zenon DEF TimesTyped, RecordedTyped
  <2>4. StateTyped(schedule') /\ BacksOff(schedule') /\ StoredFloor'
    <3>1. CASE schedule' = schedule
      BY <2>1, <3>1, Zenon DEF StatesTyped, StatesBackOff, StoredFloor, HoldsFloor
    <3>2. CASE schedule' = [tick.state EXCEPT !.next = Due(tick)]
      <4>1. /\ StateTyped(schedule') /\ schedule'.next = Due(tick)
            /\ schedule'.last = tick.state.last /\ schedule'.failures = tick.state.failures
            /\ schedule'.outcome = tick.state.outcome
        BY <2>1, <3>2, NextDue, StatePutOff, Zenon DEF StatesTyped
      <4>2. BacksOff(schedule') BY <2>1, <4>1, NextDue, Zenon DEF BacksOff
      <4>3. ~unrecorded => HoldsFloor(tick.state, latest, counted, called)
        BY <2>1, SMT DEF ReadFloor
      <4>4. ~unrecorded => HoldsFloor(schedule', latest, counted, called)
        <5>1. called = Never <=> counted = Never BY Zenon DEF RecordedTyped
        <5>. QED BY <2>1, <4>1, <4>3, <5>1, NextDue, Zenon DEF HoldsFloor
      <4>5. HeadsAhead(schedule', latest)
        <5>1. Due(tick) # tick.now BY <1>3, NextDue, SMT DEF NotDue
        <5>2. HeadsAhead(schedule', tick.latest) BY <2>1, <4>1, <5>1, PutOffAhead
        <5>3. NotOlder(latest, tick.latest) BY <2>1, SMT DEF ReadFloor
        <5>. QED BY <4>1, <5>2, <5>3, AheadStays, Zenon DEF SnapshotsTyped
      <4>6. StoredFloor' BY <2>1, <4>4, <4>5, Zenon DEF StoredFloor, HeadsAhead, HoldsFloor
      <4>. QED BY <4>1, <4>2, <4>6
    <3>. QED BY <2>1, <3>1, <3>2
  <2>5. StatesTyped' /\ SnapshotsTyped' /\ StatesBackOff'
    <3>1. StateTyped(schedule)' /\ SnapshotTyped(latest)' /\ BacksOff(schedule)'
      BY <2>1, <2>4, Zenon DEF SnapshotsTyped, StateTyped, SnapshotTyped, BacksOff
    <3>. QED BY <2>1, <2>2, <3>1, TickOver DEF StatesTyped, SnapshotsTyped, StatesBackOff
  <2>6. AskedInOrder'
    <3>1. tick'.pc = "idle" BY <2>1, <2>2, TickOver
    <3>. QED BY <2>1, <3>1, SMT DEF AskedInOrder
  <2>. QED BY <2>1, <2>2, <2>3, <2>4, <2>5, <2>6, TickOver
<1>4. CASE Attempt
  <2>1. /\ tick.pc = "inspect" /\ tick.now >= Due(tick)
        /\ tick' = [tick EXCEPT !.pc = IF manual = Never THEN "collect" ELSE "joined"]
        /\ UNCHANGED <<clock, interval, latest, schedule, manual, called, counted, unrecorded>>
    BY <1>4, Zenon DEF Attempt, Goto
  <2>2. /\ tick'.pc = IF manual = Never THEN "collect" ELSE "joined"
        /\ tick'.state = tick.state /\ tick'.now = tick.now
        /\ tick'.interval = tick.interval /\ tick'.latest = tick.latest
        /\ tick' = [pc |-> tick'.pc, now |-> tick'.now, interval |-> tick'.interval,
                    latest |-> tick'.latest, state |-> tick'.state]
    BY <2>1, TickGoes, Zenon
  <2>3. /\ tick.pc # "idle" /\ tick'.pc # "record"
        /\ tick'.pc \in {"idle", "inspect", "collect", "joined", "record"}
    BY <2>1, <2>2, SMT
  <2>5. TimesTyped' /\ RecordedTyped' BY <2>1, Zenon DEF TimesTyped, RecordedTyped
  <2>6. TickTyped' BY <2>1, <2>2, <2>3, Zenon DEF TickTyped
  <2>7. StatesTyped' BY <2>1, <2>2, Zenon DEF StatesTyped, StateTyped
  <2>8. SnapshotsTyped' BY <2>1, <2>2, Zenon DEF SnapshotsTyped, SnapshotTyped
  <2>9. StatesBackOff' BY <2>1, <2>2, Zenon DEF StatesBackOff, BacksOff
  <2>10. AskedInOrder' BY <2>1, <2>2, SMT DEF AskedInOrder
  <2>11. StoredFloor' BY <2>1, Zenon DEF StoredFloor, HeadsAhead, HoldsFloor
  <2>12. ReadFloor'
    <3>1. /\ HeadsAhead(tick.state, latest) /\ HeadsAhead(tick.state, tick.latest)
          /\ NotOlder(latest, tick.latest)
          /\ ~unrecorded => /\ HoldsFloor(tick.state, latest, counted, called)
                            /\ HoldsFloor(tick.state, tick.latest, counted, called)
      BY <2>1, SMT DEF ReadFloor
    <3>. QED BY <2>1, <2>2, <3>1, Zenon DEF ReadFloor, HeadsAhead, NotOlder, HoldsFloor
  <2>13. MadeFloor' BY <2>3, Zenon DEF MadeFloor
  <2>14. SpacingKept'
    <3>1. SUFFICES ASSUME ~unrecorded, called # Never
                   PROVE  /\ tick.now >= counted + Minimum
                          /\ tick.state.outcome # "failed" => tick.now >= called + Minimum
                          /\ clock + MaxSlow >= called + Minimum
      BY <2>1, <2>2, Zenon DEF SpacingKept
    <3>2. /\ Due(tick) \in Nat /\ Due(tick) >= counted + Minimum
          /\ tick.state.outcome # "failed" => Due(tick) >= called + Minimum
      BY <2>1, <3>1, NextDue, Zenon
    <3>3. /\ counted # Never /\ counted <= called /\ called <= counted + MaxSlow
          /\ tick.now <= clock /\ tick.now \in Nat
      BY <3>1, Zenon DEF RecordedTyped, TickTyped
    <3>4. called \in Nat /\ counted \in Nat /\ clock \in Nat /\ Minimum \in Nat /\ MaxSlow \in Nat
      <4>1. called \in Nat /\ counted \in Nat BY <3>1, <3>3, TimesAre, Zenon DEF TimesTyped
      <4>2. clock \in Nat /\ Minimum \in Nat /\ MaxSlow \in Nat BY SMT DEF TimesTyped,
           ScheduleAssumption
      <4>. QED BY <4>1, <4>2
    <3>5. tick.now >= counted + Minimum /\ clock + MaxSlow >= called + Minimum
      BY <2>1, <3>2, <3>3, <3>4, SMT
    <3>6. tick.state.outcome # "failed" => tick.now >= called + Minimum
      BY <2>1, <3>2, <3>3, <3>4, SMT
    <3>. QED BY <3>5, <3>6
  <2>15. BackoffKept'
    <3>1. tick.state.outcome = "failed" => tick.now >= tick.state.last + Backoff[tick.state.failures]
      <4>1. SUFFICES ASSUME tick.state.outcome = "failed"
                     PROVE  tick.now >= tick.state.last + Backoff[tick.state.failures]
        OBVIOUS
      <4>2. /\ Due(tick) \in Nat /\ tick.state.last # Never
            /\ Due(tick) >= tick.state.last + Backoff[tick.state.failures]
        BY <2>1, <4>1, NextDue, Zenon
      <4>3. tick.state.last \in Nat /\ tick.state.failures \in Nat /\ tick.now \in Nat
        BY <4>2, StateFields, TimesAre, Zenon DEF StatesTyped, TickTyped
      <4>4. Backoff[tick.state.failures] \in Int BY <4>3, BackoffIs
      <4>. QED BY <2>1, <4>2, <4>3, <4>4, SMT
    <3>. QED BY <2>2, <3>1, Zenon DEF BackoffKept
  <2>. QED BY <2>5, <2>6, <2>7, <2>8, <2>9, <2>10, <2>11, <2>12, <2>13, <2>14, <2>15
<1>5. ASSUME NEW ok \in BOOLEAN, Collect(ok) PROVE ScheduleInv'
  <2>1. /\ tick.pc = "collect" /\ unrecorded' = TRUE /\ called' = clock
        /\ UNCHANGED <<clock, interval, schedule, manual>>
    BY <1>5, Zenon DEF Collect
  <2>2. \E j \in Jitters :
          \/ \E w \in WindowsAt(clock) :
                LET snapshot == [captured |-> clock, window |-> w]
                IN  /\ latest' = snapshot
                    /\ tick' = [tick EXCEPT !.pc = "record", !.state = AfterSuccess(tick, snapshot, j)]
                    /\ counted' = clock
          \/ /\ latest' = latest \/ latest' = [latest EXCEPT !.captured = clock]
             /\ tick' = [tick EXCEPT !.pc = "record", !.state = AfterFailure(tick, j)]
             /\ counted' = tick.now
    BY <1>5, Zenon DEF Collect
  <2>3. /\ clock \in Nat /\ clock \in Times /\ clock # Never /\ clock <= clock
        /\ tick.now \in Nat /\ tick.now \in Times /\ tick.now # Never /\ tick.now <= clock
        /\ tick.interval \in Intervals /\ clock <= tick.now + MaxSlow /\ clock <= clock + MaxSlow
    <3>1. clock \in Nat /\ tick.now \in Nat /\ tick.now <= clock /\ tick.pc # "idle"
      BY <2>1, SMT DEF TimesTyped, TickTyped, ScheduleAssumption
    <3>2. clock <= clock /\ clock <= clock + MaxSlow BY <3>1, SMT DEF ScheduleAssumption
    <3>. QED BY <1>0, <3>1, <3>2, Zenon DEF TickTyped
  <2>4. PICK s : /\ tick' = [tick EXCEPT !.pc = "record", !.state = s]
                 /\ StateTyped(s) /\ BacksOff(s) /\ SnapshotTyped(latest')
                 /\ HoldsFloor(s, latest', counted', called') /\ HeadsAhead(s, latest')
                 /\ counted' \in Nat /\ counted' <= clock /\ clock <= counted' + MaxSlow
                 /\ latest' = latest \/ latest'.captured = clock
    <3>1. PICK j \in Jitters :
          \/ \E w \in WindowsAt(clock) :
                LET snapshot == [captured |-> clock, window |-> w]
                IN  /\ latest' = snapshot
                    /\ tick' = [tick EXCEPT !.pc = "record", !.state = AfterSuccess(tick, snapshot, j)]
                    /\ counted' = clock
          \/ /\ latest' = latest \/ latest' = [latest EXCEPT !.captured = clock]
             /\ tick' = [tick EXCEPT !.pc = "record", !.state = AfterFailure(tick, j)]
             /\ counted' = tick.now
      BY <2>2
    <3>2. CASE \E w \in WindowsAt(clock) :
                LET snapshot == [captured |-> clock, window |-> w]
                IN  /\ latest' = snapshot
                    /\ tick' = [tick EXCEPT !.pc = "record", !.state = AfterSuccess(tick, snapshot, j)]
                    /\ counted' = clock
      <4>1. PICK w \in WindowsAt(clock) :
               /\ latest' = [captured |-> clock, window |-> w]
               /\ tick' = [tick EXCEPT !.pc = "record", !.state = AfterSuccess(tick, latest', j)]
               /\ counted' = clock
        BY <3>2, Zenon
      <4>2. SnapshotTyped(latest') /\ latest'.captured = clock
        <5>1. w \in Times BY <2>3, WindowsTyped
        <5>. QED BY <2>3, <4>1, <5>1, SnapshotMade, Zenon
      <4> DEFINE s == AfterSuccess(tick, latest', j)
      <4>3. /\ StateTyped(s) /\ BacksOff(s) /\ s.outcome = "succeeded" /\ s.next \in Nat
            /\ s.next >= clock + Minimum /\ HeadsAhead(s, latest')
        <5>1. tick = [pc |-> tick.pc, now |-> tick.now, interval |-> tick.interval,
                      latest |-> tick.latest, state |-> tick.state]
          BY Zenon DEF TickTyped
        <5>. QED BY <2>3, <4>2, <5>1, SuccessMakes, Zenon
      <4> HIDE DEF s
      <4>4. s.outcome # "failed" /\ clock >= clock BY <2>3, <4>3, SMT
      <4>6. /\ latest'.captured # Never /\ latest'.captured >= called'
            /\ s.next >= called' + Minimum
        <5>1. latest'.captured # Never BY <2>3, <4>2, Zenon
        <5>2. called' = clock BY <2>1
        <5>. QED BY <4>2, <4>3, <4>4, <5>1, <5>2, Zenon
      <4>7. HoldsFloor(s, latest', counted', called') BY <4>4, <4>6, Zenon DEF HoldsFloor, s
      <4>8. counted' \in Nat /\ counted' <= clock /\ clock <= counted' + MaxSlow
        BY <2>3, <4>1, Zenon
      <4>. QED BY <4>1, <4>2, <4>3, <4>7, <4>8, Zenon DEF s
    <3>3. CASE /\ latest' = latest \/ latest' = [latest EXCEPT !.captured = clock]
               /\ tick' = [tick EXCEPT !.pc = "record", !.state = AfterFailure(tick, j)]
               /\ counted' = tick.now
      <4> DEFINE s == AfterFailure(tick, j)
      <4>1. SnapshotTyped(latest') /\ (latest' = latest \/ latest'.captured = clock)
        <5>1. SnapshotTyped(latest) BY Zenon DEF SnapshotsTyped
        <5>2. /\ SnapshotTyped([latest EXCEPT !.captured = clock])
              /\ [latest EXCEPT !.captured = clock].captured = clock
          BY <2>3, <5>1, SnapshotFailed
        <5>. QED BY <3>3, <5>1, <5>2, Zenon
      <4>2. /\ StateTyped(s) /\ BacksOff(s) /\ s.outcome = "failed" /\ s.next \in Nat
            /\ s.next >= tick.now + Minimum
        BY <2>3, FailureMakes, Zenon DEF StatesTyped
      <4> HIDE DEF s
      <4>3. s.next # Never BY <1>0, <4>2, Zenon
      <4>4. HoldsFloor(s, latest', counted', called') BY <3>3, <4>2, <4>3, Zenon DEF HoldsFloor, s
      <4>5. HeadsAhead(s, latest') BY <4>2, Zenon DEF HeadsAhead
      <4>6. counted' \in Nat /\ counted' <= clock /\ clock <= counted' + MaxSlow
        BY <2>3, <3>3, Zenon
      <4>. QED BY <3>3, <4>1, <4>2, <4>4, <4>5, <4>6, Zenon DEF s
    <3>. QED BY <3>1, <3>2, <3>3
  <2>5. /\ tick'.pc = "record" /\ tick'.state = s /\ tick'.now = tick.now
        /\ tick'.interval = tick.interval /\ tick'.latest = tick.latest
        /\ tick' = [pc |-> tick'.pc, now |-> tick'.now, interval |-> tick'.interval,
                    latest |-> tick'.latest, state |-> tick'.state]
    BY <2>4, TickGoesOn, Zenon
  <2>17. NotOlder(latest', latest)
    <3>1. CASE latest' = latest BY <3>1, NotOlderSelf, Zenon DEF SnapshotsTyped
    <3>2. CASE latest'.captured = clock
      <4>1. latest.captured # Never => latest.captured \in Nat /\ latest.captured <= clock
        BY SnapshotFields, TimesAre, Zenon DEF SnapshotsTyped, AskedInOrder
      <4>2. latest.captured # Never => clock >= latest.captured BY <2>3, <4>1, SMT
      <4>. QED BY <2>3, <3>2, <4>2, Zenon DEF NotOlder
    <3>. QED BY <2>4, <3>1, <3>2
  <2>6. tick'.pc # "collect" /\ tick'.pc # "inspect" /\ tick'.pc # "joined" BY <2>5, SMT
  <2>7. manual = Never BY <2>1, SMT DEF AskedInOrder
  <2>8. TimesTyped' /\ RecordedTyped'
    <3>1. called' \in Times /\ called' # Never /\ counted' \in Times /\ counted' # Never
      BY <1>0, <2>1, <2>3, <2>4, Zenon
    <3>. QED BY <2>1, <2>4, <3>1, Zenon DEF TimesTyped, RecordedTyped
  <2>9. TickTyped' BY <2>1, <2>3, <2>5, Zenon DEF TickTyped
  <2>10. StatesTyped' BY <2>1, <2>4, <2>5, Zenon DEF StatesTyped, StateTyped
  <2>11. SnapshotsTyped' BY <2>4, <2>5, Zenon DEF SnapshotsTyped, SnapshotTyped
  <2>12. StatesBackOff' BY <2>1, <2>4, <2>5, Zenon DEF StatesBackOff, BacksOff
  <2>13. AskedInOrder'
    <3>1. called' <= clock' BY <2>1, <2>3, Zenon
    <3>2. latest'.captured # Never => latest'.captured <= clock'
      BY <2>1, <2>3, <2>4, Zenon DEF AskedInOrder
    <3>. QED BY <2>1, <2>6, <2>7, <3>1, <3>2, SMT DEF AskedInOrder
  <2>14. StoredFloor' /\ ReadFloor'
    <3>1. HeadsAhead(schedule, latest')
      BY <2>4, <2>17, AheadStays, Zenon DEF StoredFloor, StatesTyped, SnapshotsTyped
    <3>2. StoredFloor' BY <2>1, <3>1, Zenon DEF StoredFloor, HeadsAhead
    <3>. QED BY <2>6, <3>2, SMT DEF ReadFloor
  <2>15. MadeFloor' BY <2>4, <2>5, Zenon DEF MadeFloor, HeadsAhead, HoldsFloor
  <2>16. SpacingKept' /\ BackoffKept' BY <2>6, SMT DEF SpacingKept, BackoffKept
  <2>. QED BY <2>8, <2>9, <2>10, <2>11, <2>12, <2>13, <2>14, <2>15, <2>16
<1>6. CASE RecordAttempt
  <2>1. /\ tick.pc = "record" /\ tick' = NoTick
        /\ UNCHANGED <<clock, interval, latest, manual, called, counted>>
        /\ \/ schedule' = tick.state /\ unrecorded' = FALSE
           \/ schedule' = schedule /\ unrecorded' = unrecorded
    BY <1>6, Zenon DEF RecordAttempt
  <2>2. clock' \in 0..MaxTime BY <2>1, Zenon DEF TimesTyped
  <2>3. TimesTyped' /\ RecordedTyped' BY <2>1, Zenon DEF TimesTyped, RecordedTyped
  <2>4. StateTyped(schedule') /\ BacksOff(schedule')
    <3>1. schedule' = tick.state \/ schedule' = schedule BY <2>1, Zenon
    <3>2. /\ StateTyped(schedule) /\ StateTyped(tick.state)
          /\ BacksOff(schedule) /\ BacksOff(tick.state)
      BY Zenon DEF StatesTyped, StatesBackOff
    <3>3. CASE schedule' = tick.state BY <3>2, <3>3
    <3>4. CASE schedule' = schedule BY <3>2, <3>4
    <3>. QED BY <3>1, <3>3, <3>4
  <2>5. StoredFloor'
    <3>1. HoldsFloor(tick.state, latest, counted, called) /\ HeadsAhead(tick.state, latest)
      BY <2>1, Zenon DEF MadeFloor
    <3>2. latest' = latest /\ called' = called /\ counted' = counted BY <2>1
    <3>3. CASE schedule' = tick.state
      <4>1. HoldsFloor(schedule, latest, counted, called)' /\ HeadsAhead(schedule, latest)'
        BY <3>1, <3>2, <3>3, Zenon DEF HoldsFloor, HeadsAhead
      <4>. QED BY <4>1, Zenon DEF StoredFloor
    <3>4. CASE schedule' = schedule /\ unrecorded' = unrecorded
      BY <3>2, <3>4, Zenon DEF StoredFloor, HeadsAhead, HoldsFloor
    <3>. QED BY <2>1, <3>3, <3>4, Zenon
  <2>6. StatesTyped' /\ SnapshotsTyped' /\ StatesBackOff'
    <3>1. StateTyped(schedule)' /\ SnapshotTyped(latest)' /\ BacksOff(schedule)'
      BY <2>1, <2>4, Zenon DEF SnapshotsTyped, StateTyped, SnapshotTyped, BacksOff
    <3>. QED BY <2>1, <2>2, <3>1, TickOver DEF StatesTyped, SnapshotsTyped, StatesBackOff
  <2>7. AskedInOrder'
    <3>1. tick'.pc = "idle" BY <2>1, <2>2, TickOver
    <3>. QED BY <2>1, <3>1, SMT DEF AskedInOrder
  <2>. QED BY <2>1, <2>2, <2>3, <2>5, <2>6, <2>7, TickOver
<1>7. CASE ManualBegins
  <2>1. /\ tick.pc # "collect" /\ manual = Never /\ manual' = clock
        /\ UNCHANGED <<clock, interval, latest, schedule, tick, called, counted, unrecorded>>
    BY <1>7, Zenon DEF ManualBegins
  <2>2. clock \in Nat /\ clock \in Times /\ clock <= clock
    <3>1. clock \in Nat /\ clock <= clock BY SMT DEF TimesTyped, ScheduleAssumption
    <3>. QED BY <1>0, <3>1, Zenon
  <2>3. TimesTyped' /\ RecordedTyped' BY <2>1, <2>2, Zenon DEF TimesTyped, RecordedTyped
  <2>4. AskedInOrder' BY <2>1, <2>2, Zenon DEF AskedInOrder
  <2>5. TickTyped' /\ StatesTyped' /\ SnapshotsTyped' /\ StatesBackOff'
    BY <2>1, Zenon DEF TickTyped, StatesTyped, SnapshotsTyped, StatesBackOff, StateTyped,
      SnapshotTyped, BacksOff
  <2>6. StoredFloor' /\ ReadFloor' /\ MadeFloor'
    BY <2>1, Zenon DEF StoredFloor, ReadFloor, MadeFloor, HeadsAhead, NotOlder, HoldsFloor
  <2>7. SpacingKept' /\ BackoffKept' BY <2>1, Zenon DEF SpacingKept, BackoffKept
  <2>. QED BY <2>3, <2>4, <2>5, <2>6, <2>7
<1>8. CASE ManualEnds
  <2>1. manual # Never /\ manual' = Never /\ UNCHANGED <<clock, interval, schedule, called, counted, unrecorded>>
    BY <1>8, Zenon DEF ManualEnds
  <2>2. /\ manual \in Nat /\ manual \in Times /\ (called # Never => called <= manual)
        /\ manual >= manual
    <3>1. manual \in Nat BY <2>1, TimesAre, Zenon DEF TimesTyped
    <3>2. manual >= manual BY <3>1, SMT
    <3>. QED BY <2>1, <3>1, <3>2, Zenon DEF TimesTyped, AskedInOrder
  <2>3. called # Never => called \in Nat /\ manual >= called
    <3>1. called # Never => called \in Nat BY TimesAre, Zenon DEF TimesTyped
    <3>. QED BY <2>2, <3>1, SMT
  <2>4. PICK j \in Jitters :
          \/ \E w \in WindowsAt(manual) :
                LET snapshot == [captured |-> manual, window |-> w]
                IN  /\ latest' = snapshot
                    /\ IF tick.pc = "joined"
                       THEN tick' = [tick EXCEPT !.pc = "record",
                                                 !.state = AfterSuccess(tick, snapshot, j)]
                       ELSE UNCHANGED tick
          \/ /\ latest' \in {latest, [latest EXCEPT !.captured = manual]}
             /\ IF tick.pc = "joined"
                THEN tick' = [tick EXCEPT !.pc = "record", !.state = AfterFailure(tick, j)]
                ELSE UNCHANGED tick
    BY <1>8, Zenon DEF ManualEnds
  <2>5. SnapshotTyped(latest') /\ (latest' = latest \/ latest'.captured = manual)
    <3>1. CASE \E w \in WindowsAt(manual) : latest' = [captured |-> manual, window |-> w]
      <4>1. PICK w \in WindowsAt(manual) : latest' = [captured |-> manual,
           window |-> w] BY <3>1
      <4>2. w \in Times BY <2>2, WindowsTyped
      <4>. QED BY <2>2, <4>1, <4>2, SnapshotMade, Zenon
    <3>2. CASE latest' \in {latest, [latest EXCEPT !.captured = manual]}
      <4>1. SnapshotTyped(latest) BY Zenon DEF SnapshotsTyped
      <4>2. /\ SnapshotTyped([latest EXCEPT !.captured = manual])
            /\ [latest EXCEPT !.captured = manual].captured = manual
        BY <2>2, <4>1, SnapshotFailed
      <4>3. latest' = latest \/ latest' = [latest EXCEPT !.captured = manual] BY <3>2
      <4>. QED BY <4>1, <4>2, <4>3, Zenon
    <3>. QED BY <2>4, <3>1, <3>2, Zenon
  <2>6. \A s : HoldsFloor(s, latest, counted, called) => HoldsFloor(s, latest', counted, called)
    <3>1. called = Never <=> counted = Never BY Zenon DEF RecordedTyped
    <3>. QED BY <2>1, <2>2, <2>3, <2>5, <3>1, Zenon DEF HoldsFloor
  <2>11. NotOlder(latest', latest) /\ (latest'.captured # Never => latest'.captured <= clock)
    <3>1. /\ latest.captured # Never => /\ latest.captured \in Nat /\ latest.captured <= manual
                                       /\ latest.captured <= clock
          /\ manual <= clock
      BY <2>1, SnapshotFields, TimesAre, Zenon DEF SnapshotsTyped, AskedInOrder
    <3>2. CASE latest' = latest BY <3>1, <3>2, NotOlderSelf, Zenon DEF SnapshotsTyped
    <3>3. CASE latest'.captured = manual
      <4>1. latest.captured # Never => manual >= latest.captured BY <2>2, <3>1, SMT
      <4>. QED BY <2>1, <3>1, <3>3, <4>1, Zenon DEF NotOlder
    <3>. QED BY <2>5, <3>2, <3>3
  <2>12. \A s : StateTyped(s) /\ HeadsAhead(s, latest) => HeadsAhead(s, latest')
    BY <2>5, <2>11, AheadStays, Zenon DEF SnapshotsTyped
  <2>13. NotOlder(latest, tick.latest) => NotOlder(latest', tick.latest)
    BY <2>5, <2>11, NotOlderThan, Zenon DEF SnapshotsTyped
  <2>7. TimesTyped' /\ RecordedTyped'
    <3>1. Never \in Times BY DEF Times
    <3>. QED BY <2>1, <3>1, Zenon DEF TimesTyped, RecordedTyped
  <2>8. StoredFloor'
    <3>1. HeadsAhead(schedule, latest') BY <2>12, Zenon DEF StoredFloor, StatesTyped
    <3>. QED BY <2>1, <2>6, <3>1, Zenon DEF StoredFloor, HeadsAhead, HoldsFloor
  <2>9. CASE tick.pc = "joined"
    <3>1. /\ tick.now \in Nat /\ tick.now <= clock /\ tick.interval \in Intervals
          /\ clock <= tick.now + MaxSlow
          /\ (called # Never => called <= tick.now)
          /\ tick = [pc |-> tick.pc, now |-> tick.now, interval |-> tick.interval,
                     latest |-> tick.latest, state |-> tick.state]
      <4>1. tick.pc # "idle" BY <2>9, SMT
      <4>2. called # Never => called <= tick.now BY <2>9, SMT DEF AskedInOrder
      <4>. QED BY <4>1, <4>2, Zenon DEF TickTyped
    <3>2. PICK s : /\ tick' = [tick EXCEPT !.pc = "record", !.state = s]
                   /\ StateTyped(s) /\ BacksOff(s) /\ HoldsFloor(s, latest', counted, called)
                   /\ HeadsAhead(s, latest')
      <4>1. CASE \E w \in WindowsAt(manual) :
                    /\ latest' = [captured |-> manual, window |-> w]
                    /\ tick' = [tick EXCEPT !.pc = "record",
                                            !.state = AfterSuccess(tick, latest', j)]
        <5>1. tick' = [tick EXCEPT !.pc = "record", !.state = AfterSuccess(tick, latest', j)]
          BY <4>1
        <5>2. latest'.captured = manual
          <6>1. PICK w \in WindowsAt(manual) : latest' = [captured |-> manual, window |-> w]
            BY <4>1
          <6>. QED BY <6>1, Zenon
        <5> DEFINE s == AfterSuccess(tick, latest', j)
        <5>3. /\ StateTyped(s) /\ BacksOff(s) /\ s.outcome = "succeeded" /\ s.next \in Nat
              /\ s.next >= manual + Minimum /\ HeadsAhead(s, latest')
          BY <2>1, <2>5, <3>1, <5>2, SuccessMakes, Zenon
        <5> HIDE DEF s
        <5>4. s.outcome # "failed" BY <5>3, SMT
        <5>5. called # Never => s.next >= called + Minimum
          BY <2>2, <2>3, <5>3, SMT DEF ScheduleAssumption
        <5>6. HoldsFloor(s, latest', counted, called)
          <6>1. called = Never <=> counted = Never BY Zenon DEF RecordedTyped
          <6>. QED BY <2>1, <2>3, <5>2, <5>4, <5>5, <6>1, Zenon DEF HoldsFloor
        <5>. QED BY <5>1, <5>3, <5>6, Zenon DEF s
      <4>2. CASE tick' = [tick EXCEPT !.pc = "record", !.state = AfterFailure(tick, j)]
        <5> DEFINE s == AfterFailure(tick, j)
        <5>1. /\ StateTyped(s) /\ BacksOff(s) /\ s.outcome = "failed" /\ s.next \in Nat
              /\ s.next >= tick.now + Minimum
          BY <3>1, FailureMakes, Zenon DEF StatesTyped
        <5> HIDE DEF s
        <5>2. counted # Never => s.next >= counted + Minimum
          <6>1. /\ counted # Never => called # Never /\ counted <= called
                /\ counted # Never => counted \in Nat
            BY TimesAre, Zenon DEF RecordedTyped, TimesTyped
          <6>. QED BY <2>3, <3>1, <5>1, <6>1, SMT DEF ScheduleAssumption
        <5>3. s.next # Never BY <1>0, <5>1
        <5>4. HoldsFloor(s, latest', counted, called) BY <5>1, <5>2, <5>3, Zenon DEF HoldsFloor
        <5>5. HeadsAhead(s, latest') BY <5>1, Zenon DEF HeadsAhead
        <5>. QED BY <4>2, <5>1, <5>4, <5>5, Zenon DEF s
      <4>. QED BY <2>4, <2>9, <4>1, <4>2, Zenon
    <3>3. /\ tick'.pc = "record" /\ tick'.state = s /\ tick'.now = tick.now
          /\ tick'.interval = tick.interval /\ tick'.latest = tick.latest
          /\ tick' = [pc |-> tick'.pc, now |-> tick'.now, interval |-> tick'.interval,
                      latest |-> tick'.latest, state |-> tick'.state]
      BY <3>2, TickGoesOn, Zenon
    <3>4. tick'.pc # "collect" /\ tick'.pc # "inspect" /\ tick'.pc # "joined" BY <3>3, SMT
    <3>5. TickTyped' BY <2>1, <3>1, <3>3, Zenon DEF TickTyped
    <3>6. StatesTyped' BY <2>1, <3>2, <3>3, Zenon DEF StatesTyped, StateTyped
    <3>7. SnapshotsTyped' BY <2>5, <3>3, Zenon DEF SnapshotsTyped, SnapshotTyped
    <3>8. StatesBackOff' BY <2>1, <3>2, <3>3, Zenon DEF StatesBackOff, BacksOff
    <3>9. AskedInOrder' BY <2>1, <2>11, <3>4, SMT DEF AskedInOrder
    <3>10. ReadFloor' BY <3>4, SMT DEF ReadFloor
    <3>11. MadeFloor' BY <2>1, <3>2, <3>3, Zenon DEF MadeFloor, HeadsAhead, HoldsFloor
    <3>12. SpacingKept' /\ BackoffKept' BY <3>4, SMT DEF SpacingKept, BackoffKept
    <3>. QED BY <2>7, <2>8, <3>5, <3>6, <3>7, <3>8, <3>9, <3>10, <3>11, <3>12
  <2>10. CASE tick.pc # "joined"
    <3>1. tick' = tick BY <2>4, <2>10, Zenon
    <3>2. TickTyped' BY <2>1, <3>1, Zenon DEF TickTyped
    <3>3. StatesTyped' BY <2>1, <3>1, Zenon DEF StatesTyped, StateTyped
    <3>4. SnapshotsTyped' BY <2>5, <3>1, Zenon DEF SnapshotsTyped, SnapshotTyped
    <3>5. StatesBackOff' BY <2>1, <3>1, Zenon DEF StatesBackOff, BacksOff
    <3>6. AskedInOrder' BY <2>1, <2>11, <3>1, Zenon DEF AskedInOrder
    <3>10. StateTyped(tick.state) BY Zenon DEF StatesTyped
    <3>7. ReadFloor'
      <4>1. SUFFICES ASSUME tick.pc \in {"inspect", "collect", "joined"} PROVE ReadFloor'
        BY <3>1, Zenon DEF ReadFloor
      <4>2. HeadsAhead(tick.state, latest') /\ NotOlder(latest', tick.latest)
        BY <2>12, <2>13, <3>10, <4>1, Zenon DEF ReadFloor
      <4>3. /\ HeadsAhead(tick.state, tick.latest)
            /\ ~unrecorded => /\ HoldsFloor(tick.state, latest', counted, called)
                              /\ HoldsFloor(tick.state, tick.latest, counted, called)
        BY <2>6, <4>1, Zenon DEF ReadFloor
      <4>. QED BY <2>1, <3>1, <4>2, <4>3, Zenon DEF ReadFloor, HeadsAhead, NotOlder, HoldsFloor
    <3>8. MadeFloor'
      <4>1. SUFFICES ASSUME tick.pc = "record" PROVE MadeFloor'
        BY <3>1, Zenon DEF MadeFloor
      <4>2. HeadsAhead(tick.state, latest') /\ HoldsFloor(tick.state, latest', counted, called)
        BY <2>6, <2>12, <3>10, <4>1, Zenon DEF MadeFloor
      <4>. QED BY <2>1, <3>1, <4>2, Zenon DEF MadeFloor, HeadsAhead, HoldsFloor
    <3>9. SpacingKept' /\ BackoffKept' BY <2>1, <3>1, Zenon DEF SpacingKept, BackoffKept
    <3>. QED BY <2>7, <2>8, <3>2, <3>3, <3>4, <3>5, <3>6, <3>7, <3>8, <3>9
  <2>. QED BY <2>9, <2>10
<1>9. CASE IntervalChanges
  <2>1. /\ interval' \in Intervals
        /\ UNCHANGED <<clock, latest, schedule, manual, tick, called, counted, unrecorded>>
    BY <1>9, Zenon DEF IntervalChanges
  <2>2. TimesTyped' /\ RecordedTyped' /\ AskedInOrder'
    BY <2>1, Zenon DEF TimesTyped, RecordedTyped, AskedInOrder
  <2>3. TickTyped' /\ StatesTyped' /\ SnapshotsTyped' /\ StatesBackOff'
    BY <2>1, Zenon DEF TickTyped, StatesTyped, SnapshotsTyped, StatesBackOff, StateTyped,
      SnapshotTyped, BacksOff
  <2>4. StoredFloor' /\ ReadFloor' /\ MadeFloor'
    BY <2>1, Zenon DEF StoredFloor, ReadFloor, MadeFloor, HeadsAhead, NotOlder, HoldsFloor
  <2>5. SpacingKept' /\ BackoffKept' BY <2>1, Zenon DEF SpacingKept, BackoffKept
  <2>. QED BY <2>2, <2>3, <2>4, <2>5
<1>10. CASE Restart
  <2>1. tick' = NoTick /\ manual' = Never /\ UNCHANGED <<clock, interval, latest, schedule, called, counted, unrecorded>>
    BY <1>10, Zenon DEF Restart
  <2>2. clock' \in 0..MaxTime BY <2>1, Zenon DEF TimesTyped
  <2>3. Never \in Times BY DEF Times
  <2>4. TimesTyped' /\ RecordedTyped' BY <2>1, <2>3, Zenon DEF TimesTyped, RecordedTyped
  <2>5. StatesTyped' /\ SnapshotsTyped' /\ StatesBackOff'
    <3>1. StateTyped(schedule)' /\ SnapshotTyped(latest)' /\ BacksOff(schedule)'
      BY <2>1, Zenon DEF StatesTyped, SnapshotsTyped, StatesBackOff, StateTyped,
         SnapshotTyped, BacksOff
    <3>. QED BY <2>1, <2>2, <3>1, TickOver DEF StatesTyped, SnapshotsTyped, StatesBackOff
  <2>6. AskedInOrder'
    <3>1. tick'.pc = "idle" BY <2>1, <2>2, TickOver
    <3>. QED BY <2>1, <3>1, SMT DEF AskedInOrder
  <2>7. StoredFloor' BY <2>1, Zenon DEF StoredFloor, HeadsAhead, HoldsFloor
  <2>. QED BY <2>1, <2>2, <2>4, <2>5, <2>6, <2>7, TickOver
<1>11. CASE ScheduleClock
  <2>1. /\ clock < MaxTime /\ clock' = clock + 1
        /\ tick.pc = "idle" \/ clock < tick.now + MaxSlow
        /\ UNCHANGED <<interval, latest, schedule, manual, tick, called, counted, unrecorded>>
    BY <1>11, Zenon DEF ScheduleClock
  <2>2. clock' \in 0..MaxTime /\ clock' \in Nat /\ clock <= clock' /\ clock \in Nat
    BY <2>1, SMT DEF TimesTyped, ScheduleAssumption
  <2>3. TimesTyped' /\ RecordedTyped' BY <2>1, <2>2, Zenon DEF TimesTyped, RecordedTyped
  <2>4. AskedInOrder'
    <3>1. called # Never => called \in Nat /\ called <= clock
      BY TimesAre, Zenon DEF AskedInOrder, TimesTyped
    <3>2. manual # Never => manual \in Nat /\ manual <= clock
      BY TimesAre, Zenon DEF AskedInOrder, TimesTyped
    <3>3. called # Never => called <= clock' BY <2>2, <3>1, SMT
    <3>4. manual # Never => manual <= clock' BY <2>2, <3>2, SMT
    <3>5. latest.captured # Never => latest.captured \in Nat /\ latest.captured <= clock
      BY SnapshotFields, TimesAre, Zenon DEF SnapshotsTyped, AskedInOrder
    <3>6. latest.captured # Never => latest.captured <= clock' BY <2>2, <3>5, SMT
    <3>. QED BY <2>1, <3>3, <3>4, <3>6, Zenon DEF AskedInOrder
  <2>5. TickTyped'
    <3>1. tick.now <= clock' BY <2>2, SMT DEF TickTyped
    <3>2. tick.now \in Nat /\ MaxSlow \in Nat BY DEF TickTyped, ScheduleAssumption
    <3>3. clock < tick.now + MaxSlow => clock' <= tick.now + MaxSlow
      BY <2>1, <2>2, <3>2, SMT
    <3>. QED BY <2>1, <3>1, <3>2, <3>3, Zenon DEF TickTyped
  <2>6. StatesTyped' /\ SnapshotsTyped' /\ StatesBackOff'
    BY <2>1, Zenon DEF StatesTyped, SnapshotsTyped, StatesBackOff, StateTyped,
       SnapshotTyped, BacksOff
  <2>7. StoredFloor' /\ ReadFloor' /\ MadeFloor'
    BY <2>1, Zenon DEF StoredFloor, ReadFloor, MadeFloor, HeadsAhead, NotOlder, HoldsFloor
  <2>8. SpacingKept' /\ BackoffKept'
    <3>1. called # Never /\ clock + MaxSlow >= called + Minimum => clock' + MaxSlow >= called + Minimum
      <4>1. called # Never => called \in Nat BY TimesAre, Zenon DEF TimesTyped
      <4>. QED BY <2>2, <4>1, SMT DEF ScheduleAssumption
    <3>. QED BY <2>1, <3>1, Zenon DEF SpacingKept, BackoffKept
  <2>. QED BY <2>3, <2>4, <2>5, <2>6, <2>7, <2>8
<1>12. CASE UNCHANGED scheduleVars
  <2>1. UNCHANGED <<clock, interval, latest, schedule, manual, tick, called, counted, unrecorded>>
    BY <1>12, Zenon DEF scheduleVars
  <2>2. TimesTyped' /\ RecordedTyped' /\ AskedInOrder'
    BY <2>1, Zenon DEF TimesTyped, RecordedTyped, AskedInOrder
  <2>3. TickTyped' /\ StatesTyped' /\ SnapshotsTyped' /\ StatesBackOff'
    BY <2>1, Zenon DEF TickTyped, StatesTyped, SnapshotsTyped, StatesBackOff, StateTyped,
      SnapshotTyped, BacksOff
  <2>4. StoredFloor' /\ ReadFloor' /\ MadeFloor'
    BY <2>1, Zenon DEF StoredFloor, ReadFloor, MadeFloor, HeadsAhead, NotOlder, HoldsFloor
  <2>5. SpacingKept' /\ BackoffKept' BY <2>1, Zenon DEF SpacingKept, BackoffKept
  <2>. QED BY <2>2, <2>3, <2>4, <2>5
<1>. QED
  BY <1>1, <1>2, <1>3, <1>4, <1>5, <1>6, <1>7, <1>8, <1>9, <1>10, <1>11, <1>12
     DEF ScheduleNext

(* The inductive invariant has what the runs check.                          *)
LEMMA ScheduleInvImplies ==
  ASSUME ScheduleAssumption, ScheduleInv PROVE ScheduleKept
<1> USE DEF ScheduleInv
<1>1. NoneOverdue
  <2>1. SUFFICES ASSUME tick.pc = "inspect", Overdue(tick) PROVE tick.now >= Due(tick)
    BY Zenon DEF NoneOverdue
  <2>2. tick.pc # "idle" BY <2>1, SMT
  <2>3. /\ SnapshotTyped(tick.latest) /\ StateTyped(tick.state) /\ tick.now \in Nat
        /\ tick.interval \in Intervals /\ BacksOff(tick.state)
    BY <2>2, Zenon DEF SnapshotsTyped, StatesTyped, StatesBackOff, TickTyped
  <2>4. HeadsAhead(tick.state, tick.latest) BY <2>1, SMT DEF ReadFloor
  <2>. QED BY <2>1, <2>3, <2>4, OverdueIsDue, Zenon
<1>2. ScheduleTypeOK
  <2>1. schedule.outcome = "failed" <=> schedule.failures > 0 BY StateFields, Zenon
       DEF StatesTyped
  <2>. QED BY <2>1, Zenon DEF ScheduleTypeOK, TimesTyped, TickTyped, StatesTyped,
       SnapshotsTyped,
         StateTyped, SnapshotTyped, RecordedTyped
<1>. QED BY <1>1, <1>2 DEF ScheduleKept

(* The calls of the provider keep the distance the code gives them: the      *)
(* minimum after a call that is not backed off from, and the minimum less    *)
(* the time its tick took after one that is.  A back-off is waited for, and  *)
(* a target that is overdue is not passed over.  For any intervals, minimum, *)
(* back-off, jitter, reset horizons and length of a tick.                    *)
(* scheduler.go:156, :162, :180, :189.                                       *)
THEOREM NeitherTooOftenNorTooLate == ScheduleSpec => []ScheduleKept
<1>1. ScheduleInit => ScheduleInv BY ScheduleHolds, ScheduleAssumption
<1>2. ScheduleInv /\ [ScheduleNext]_scheduleVars => ScheduleInv'
  BY ScheduleStepKeeps, ScheduleAssumption
<1>3. ScheduleInv => ScheduleKept BY ScheduleInvImplies, ScheduleAssumption
<1>. QED BY <1>1, <1>2, <1>3, PTL DEF ScheduleSpec

-----------------------------------------------------------------------------
(* The evidence and the recommendation.                                      *)

(* A reading that was stored.                                                *)
Reported == [value : Nat, at : Nat]

(* The time, the version and who is signed out.                              *)
NowTyped ==
    /\ now \in 0..MaxNow /\ version \in Versions /\ signedOut \subseteq RankedProfiles

(* The profiles have one login or not.                                       *)
SharingTyped == sharing \in BOOLEAN

(* The last evidence is a reading or none.                                   *)
LastTyped == last \in [RankedProfiles -> [Versions -> [Metrics -> Reported \cup {NoEvidence}]]]

(* The newest snapshots, none of them in the future.                         *)
NewestTyped ==
    /\ newest \in [RankedProfiles -> [at : Int, state : [Metrics -> Outcomes]]]
    /\ \A p \in RankedProfiles : newest[p].at <= now

(* Nothing is newer than the newest snapshot.                                *)
LastIsOlder ==
    \A p \in RankedProfiles : \A v \in Versions : \A m \in Metrics :
        last[p][v][m] # NoEvidence => last[p][v][m].at <= newest[p].at

(* What the newest snapshot calls available it has evidence of.              *)
AvailableIsKnown ==
    \A p \in RankedProfiles : \A m \in Metrics :
        newest[p].state[m] = "available" =>
            \E v \in Versions : last[p][v][m] # NoEvidence /\ last[p][v][m].at = newest[p].at

(* The invariant of the evidence.                                            *)
EvidenceInv ==
    /\ NowTyped /\ SharingTyped /\ LastTyped /\ NewestTyped /\ LastIsOlder /\ AvailableIsKnown

-----------------------------------------------------------------------------
(* Time goes on by windows.                                                  *)
LEMMA WindowsInOrder ==
  ASSUME EvidenceAssumption, NEW a \in Nat, NEW b \in Nat, a <= b
  PROVE  Window(a) \in Int /\ Window(b) \in Int /\ Window(a) <= Window(b)
<1> DEFINE n == WindowLength
<1>1. n \in Nat /\ n > 0 BY SMT DEF EvidenceAssumption
<1> HIDE DEF n
<1>2. a \div n \in Int /\ a % n \in 0..(n - 1) /\ a = n * (a \div n) + (a % n) BY <1>1
<1>3. b \div n \in Int /\ b % n \in 0..(n - 1) /\ b = n * (b \div n) + (b % n) BY <1>1
<1> DEFINE qa == a \div n
           qb == b \div n
           ra == a % n
           rb == b % n
<1>4. qa \in Int /\ qb \in Int /\ ra \in 0..(n - 1) /\ rb \in 0..(n - 1)
      /\ a = n * qa + ra /\ b = n * qb + rb
  BY <1>2, <1>3, Zenon
<1> HIDE DEF qa, qb, ra, rb
<1>5. ~(qb < qa)
  <2> SUFFICES ASSUME qb < qa PROVE FALSE OBVIOUS
  <2>1. PICK d \in Int : qa = qb + 1 + d /\ d >= 0
    <3>1. qa - qb - 1 \in Int /\ qa = qb + 1 + (qa - qb - 1) /\ qa - qb - 1 >= 0 BY <1>4
    <3>. QED BY <3>1
  <2>2. n * qa = n * qb + n + n * d BY <1>1, <1>4, <2>1
  <2>3. n * d >= 0 BY <1>1, <2>1
  <2>4. n * d \in Int /\ n * qb \in Int /\ n * qa \in Int BY <1>1, <1>4, <2>1
  <2>. QED BY <1>1, <1>4, <2>2, <2>3, <2>4
<1>6. qa <= qb BY <1>4, <1>5
<1>. QED BY <1>4, <1>6 DEF qa, qb, Window, n

(* The evidence of a metric is finite, not newer than the newest snapshot,   *)
(* and has what was stored.                                                  *)
LEMMA EvidenceIs ==
  ASSUME EvidenceAssumption, EvidenceInv, NEW p \in RankedProfiles, NEW m \in Metrics
  PROVE  /\ IsFiniteSet(Evidence(p, m))
         /\ \A e \in Evidence(p, m) : /\ e.value \in Nat /\ e.at \in Nat
                                      /\ e.at <= newest[p].at /\ e.at <= now
         /\ \A v \in Versions : last[p][v][m] # NoEvidence =>
               \E e \in Evidence(p, m) : e.at = last[p][v][m].at
<1> DEFINE Known == {u \in Versions : last[p][u][m] # NoEvidence}
           AsRead(v) == [value |-> last[p][v][m].value, at |-> last[p][v][m].at, version |-> v]
<1>1. Evidence(p, m) = {AsRead(v) : v \in Known} BY Zenon DEF Evidence
<1>2. \A v \in Known : /\ v \in Versions /\ last[p][v][m] # NoEvidence
                       /\ AsRead(v).value = last[p][v][m].value /\ AsRead(v).at = last[p][v][m].at
  OBVIOUS
<1>3. IsFiniteSet(Known)
  <2>1. Known \subseteq Versions /\ IsFiniteSet(Versions) BY DEF EvidenceAssumption
  <2> HIDE DEF Known
  <2>. QED BY <2>1, FS_Subset
<1>4. IsFiniteSet({AsRead(v) : v \in Known})
  <2> DEFINE T == {AsRead(v) : v \in Known}
             f == [v \in Known |-> AsRead(v)]
  <2> HIDE DEF Known, AsRead
  <2>1. f \in [Known -> T] /\ \A y \in T : \E v \in Known : f[v] = y BY Zenon
  <2>2. f \in Surjection(Known, T) BY <2>1, Zenon DEF Surjection
  <2> HIDE DEF T, f
  <2>3. IsFiniteSet(T) BY <1>3, <2>2, FS_Surjection
  <2>. QED BY <2>3 DEF T
<1>5. ASSUME NEW v \in Known
      PROVE  /\ last[p][v][m].value \in Nat /\ last[p][v][m].at \in Nat
             /\ last[p][v][m].at <= newest[p].at /\ last[p][v][m].at <= now
  <2>1. v \in Versions /\ last[p][v][m] # NoEvidence BY <1>2, <1>5
  <2>2. last[p][v][m] \in Reported BY <2>1 DEF EvidenceInv, LastTyped
  <2>3. last[p][v][m].value \in Nat /\ last[p][v][m].at \in Nat BY <2>2 DEF Reported
  <2>4. last[p][v][m].at <= newest[p].at BY <2>1, Zenon DEF EvidenceInv, LastIsOlder
  <2>5. newest[p].at \in Int /\ newest[p].at <= now BY DEF EvidenceInv, NewestTyped
  <2>6. now \in Nat BY DEF EvidenceInv, NowTyped, EvidenceAssumption
  <2>. QED BY <2>3, <2>4, <2>5, <2>6, SMT
<1> HIDE DEF Known, AsRead
<1>6. \A v \in Versions : last[p][v][m] # NoEvidence => v \in Known BY DEF Known
<1>7. ASSUME NEW e \in Evidence(p, m)
      PROVE  e.value \in Nat /\ e.at \in Nat /\ e.at <= newest[p].at /\ e.at <= now
  <2>1. PICK v \in Known : e = AsRead(v) BY <1>1
  <2>. QED BY <1>2, <1>5, <2>1
<1>8. ASSUME NEW v \in Versions, last[p][v][m] # NoEvidence
      PROVE  \E e \in Evidence(p, m) : e.at = last[p][v][m].at
  <2>1. v \in Known BY <1>6, <1>8
  <2>2. AsRead(v) \in Evidence(p, m) BY <1>1, <2>1
  <2>3. AsRead(v).at = last[p][v][m].at BY <1>2, <2>1
  <2>. QED BY <2>2, <2>3
<1>9. IsFiniteSet(Evidence(p, m)) BY <1>1, <1>4
<1>. QED BY <1>7, <1>8, <1>9

(* Where there is evidence one is the latest.                                *)
LEMMA LatestIs ==
  ASSUME EvidenceAssumption, EvidenceInv, NEW p \in RankedProfiles, NEW m \in Metrics,
         Evidence(p, m) # {}
  PROVE  /\ LatestValue(p, m) \in Evidence(p, m)
         /\ \A o \in Evidence(p, m) : o.at <= LatestValue(p, m).at
<1> DEFINE es == Evidence(p, m)
           S == {e.at + 1 : e \in es}
<1>1. \A e \in es : e.at \in Nat /\ e.at <= now BY EvidenceIs
<1>2. now \in Nat BY DEF EvidenceInv, NowTyped, EvidenceAssumption
<1> HIDE DEF es
<1>3. S \in SUBSET (1..(now + 1)) /\ S # {}
  <2>1. \A e \in es : e.at + 1 \in 1..(now + 1) BY <1>1, <1>2
  <2>2. PICK e \in es : TRUE BY DEF es
  <2>. QED BY <2>1, <2>2, Zenon
<1>4. \E x \in S : \A y \in S : y <= x
  <2>1. now + 1 \in Nat BY <1>2
  <2> HIDE DEF S
  <2>. QED BY <1>3, <2>1, HasGreatest
<1>5. PICK e \in es : \A y \in S : y <= e.at + 1 BY <1>4, Zenon
<1>6. \A o \in es : o.at <= e.at
  <2> SUFFICES ASSUME NEW o \in es PROVE o.at <= e.at OBVIOUS
  <2>1. o.at + 1 <= e.at + 1 BY <1>5
  <2>2. o.at \in Nat /\ e.at \in Nat BY <1>1
  <2>. QED BY <2>1, <2>2, SMT
<1>7. LatestValue(p, m) = CHOOSE x \in es : \A o \in es : o.at <= x.at BY DEF LatestValue,
     es
<1>8. LatestValue(p, m) \in es /\ \A o \in es : o.at <= LatestValue(p, m).at
  BY <1>6, <1>7, Zenon
<1>. QED BY <1>8, Zenon DEF es

(* The evidence that is looked at has the latest there is.                   *)
LEMMA CurrentHasLatest ==
  ASSUME EvidenceAssumption, EvidenceInv, NEW p \in RankedProfiles, NEW m \in Metrics,
         Evidence(p, m) # {}
  PROVE  LatestValue(p, m) \in Current(p, m)
<1> DEFINE L == LatestValue(p, m)
           es == Evidence(p, m)
           running == {e \in es : Window(e.at) = Window(now)}
           among == IF running # {} THEN running ELSE es
           g == CHOOSE e \in among : \A o \in among : o.at <= e.at
<1>1. L \in es /\ (\A o \in es : o.at <= L.at) /\ (\A e \in es : e.at \in Nat /\ e.at <= now)
  BY LatestIs, EvidenceIs
<1>2. now \in Nat BY DEF EvidenceInv, NowTyped, EvidenceAssumption
<1>3. CurrentWindow(p, m) = Window(g.at) BY Zenon DEF CurrentWindow
<1>4. L = CHOOSE e \in es : \A o \in es : o.at <= e.at BY DEF LatestValue
<1> HIDE DEF L, es
<1>5. Window(L.at) = Window(g.at)
  <2>1. CASE running = {} BY <1>4, <2>1
  <2>2. CASE running # {}
    <3>1. PICK r \in es : Window(r.at) = Window(now) BY <2>2
    <3>2. r.at \in Nat /\ L.at \in Nat /\ r.at <= L.at /\ L.at <= now BY <1>1
    <3>3. /\ Window(r.at) \in Int /\ Window(L.at) \in Int /\ Window(now) \in Int
          /\ Window(r.at) <= Window(L.at) /\ Window(L.at) <= Window(now)
      BY <1>2, <3>2, WindowsInOrder
    <3>4. Window(L.at) = Window(now) BY <3>1, <3>3, SMT
    <3>5. L \in running /\ \A o \in running : o.at <= L.at BY <1>1, <3>4
    <3>6. g \in running BY <2>2, <3>5, Zenon
    <3>. QED BY <3>4, <3>6
  <2>. QED BY <2>1, <2>2
<1>. QED BY <1>1, <1>3, <1>5, Zenon DEF Current, L, es

(* What a metric shows.                                                      *)
Shown(p, m) == CapacityOf(StateOf(newest[p].state[m], Current(p, m)), Current(p, m))

(* The capacities a metric can show.                                         *)
Levels == {"contradictory", "partial", "stale", "incompatible", "fresh"}

(* What the capacity of a metric says of its current evidence.               *)
LEMMA ShownIs ==
  ASSUME NEW st \in Outcomes, NEW C, IsFiniteSet(C)
  PROVE  LET x == CapacityOf(StateOf(st, C), C)
         IN  /\ x \in Levels
             /\ x \notin {"contradictory", "partial"} =>
                   st = "available" /\ Cardinality(C) = 1
             /\ x = "fresh" => \A e \in C : IsFresh(e) /\ Window(e.at) = Window(now)
             /\ x = "stale" => \E e \in C : ~IsFresh(e)
<1> DEFINE y == StateOf(st, C)
           x == CapacityOf(y, C)
<1>1. st \in {"available", "unsupported", "failed", "reauthentication"} BY DEF Outcomes
<1>2. Cardinality(C) \in Nat /\ (Cardinality(C) = 0 <=> C = {})
  BY FS_CardinalityType, FS_EmptySet
<1>3. CASE st # "available"
  <2>1. y = st BY <1>3, Zenon DEF StateOf
  <2>2. y # "contradictory" /\ y \notin {"available", "stale"} BY <1>1, <1>3, <2>1, SMT
  <2>3. x = "partial" BY <2>2, Zenon DEF CapacityOf
  <2> HIDE DEF x
  <2>. QED BY <2>3, SMT DEF Levels, x
<1>4. CASE st = "available" /\ C = {}
  <2>1. y = st BY <1>4, Zenon DEF StateOf
  <2>2. y # "contradictory" BY <1>4, <2>1, SMT
  <2>3. x = "partial" BY <1>4, <2>2, Zenon DEF CapacityOf
  <2> HIDE DEF x
  <2>. QED BY <2>3, SMT DEF Levels, x
<1>5. CASE st = "available" /\ C # {}
  <2>1. y \in {"contradictory", "available", "stale"}
        /\ (y = "stale" => \A e \in C : ~IsFresh(e))
    BY <1>5, SMT DEF StateOf
  <2>2. CASE y = "contradictory"
    <3>1. x = "contradictory" BY <2>2, Zenon DEF CapacityOf
    <3> HIDE DEF x
    <3>. QED BY <3>1, SMT DEF Levels, x
  <2>3. CASE y # "contradictory" /\ Cardinality(C) > 1
    <3>1. x = "contradictory" BY <1>5, <2>1, <2>3, SMT DEF CapacityOf
    <3> HIDE DEF x
    <3>. QED BY <3>1, SMT DEF Levels, x
  <2>4. CASE y # "contradictory" /\ ~(Cardinality(C) > 1)
    <3>1. Cardinality(C) = 1 BY <1>2, <1>5, <2>4, SMT
    <3>2. PICK e \in C : TRUE BY <1>5
    <3>3. x = IF y = "stale" \/ \E o \in C : ~IsFresh(o) THEN "stale"
              ELSE IF \E o \in C : Window(o.at) # Window(now) THEN "incompatible" ELSE "fresh"
      <4> HIDE DEF y
      <4>. QED BY <1>5, <2>1, <2>4, SMT DEF CapacityOf
    <3> HIDE DEF x, y
    <3>. QED BY <1>5, <2>1, <3>1, <3>2, <3>3, SMT DEF Levels, x, y
  <2>. QED BY <2>2, <2>3, <2>4
<1>. QED BY <1>3, <1>4, <1>5

(* A capacity that is known rests on the latest evidence alone.              *)
LEMMA ShownOf ==
  ASSUME EvidenceAssumption, EvidenceInv, NEW p \in RankedProfiles, NEW m \in Metrics
  PROVE  /\ Shown(p, m) \in Levels
         /\ Shown(p, m) \notin {"contradictory", "partial"} =>
               /\ newest[p].state[m] = "available"
               /\ Current(p, m) = {LatestValue(p, m)} /\ Reading(p, m) = LatestValue(p, m)
               /\ LatestValue(p, m) \in Evidence(p, m)
               /\ \A o \in Evidence(p, m) : o.at <= LatestValue(p, m).at
               /\ Shown(p, m) = "fresh" =>
                     IsFresh(LatestValue(p, m)) /\ Window(LatestValue(p, m).at) = Window(now)
               /\ Shown(p, m) = "stale" => ~IsFresh(LatestValue(p, m))
<1> DEFINE C == Current(p, m)
           st == newest[p].state[m]
           L == LatestValue(p, m)
           x == Shown(p, m)
<1>1. C \in SUBSET Evidence(p, m) BY Zenon DEF Current
<1>2. IsFiniteSet(C)
  <2>1. IsFiniteSet(Evidence(p, m)) BY EvidenceIs
  <2> HIDE DEF C
  <2>. QED BY <1>1, <2>1, FS_Subset
<1>3. st \in Outcomes BY DEF EvidenceInv, NewestTyped
<1> HIDE DEF C, st
<1>4. /\ x \in Levels
      /\ x \notin {"contradictory", "partial"} => st = "available" /\ Cardinality(C) = 1
      /\ x = "fresh" => \A e \in C : IsFresh(e) /\ Window(e.at) = Window(now)
      /\ x = "stale" => \E e \in C : ~IsFresh(e)
  <2>1. x = CapacityOf(StateOf(st, C), C) BY Zenon DEF Shown, C, st
  <2> HIDE DEF x
  <2>. QED BY <1>2, <1>3, <2>1, ShownIs, Zenon
<1>5. ASSUME Cardinality(C) = 1
      PROVE  /\ C = {L} /\ Reading(p, m) = L /\ L \in Evidence(p, m)
             /\ \A o \in Evidence(p, m) : o.at <= L.at
  <2>1. PICK e : C = {e} BY <1>2, <1>5, FS_Singleton
  <2>2. Evidence(p, m) # {} BY <1>1, <2>1
  <2>3. L \in C BY <2>2, CurrentHasLatest, Zenon DEF C
  <2>4. C = {L} BY <2>1, <2>3
  <2>5. Reading(p, m) \in C BY <2>4, Zenon DEF Reading, C
  <2>6. L \in Evidence(p, m) /\ \A o \in Evidence(p, m) : o.at <= L.at
    BY <2>2, LatestIs, Zenon
  <2>7. Reading(p, m) = L BY <2>4, <2>5
  <2>. QED BY <2>4, <2>6, <2>7
<1> HIDE DEF x, L
<1>6. ASSUME x \notin {"contradictory", "partial"}
      PROVE  /\ st = "available" /\ C = {L} /\ Reading(p, m) = L /\ L \in Evidence(p, m)
             /\ \A o \in Evidence(p, m) : o.at <= L.at
             /\ x = "fresh" => IsFresh(L) /\ Window(L.at) = Window(now)
             /\ x = "stale" => ~IsFresh(L)
  <2>1. st = "available" /\ Cardinality(C) = 1 BY <1>4, <1>6, Zenon
  <2>2. C = {L} /\ Reading(p, m) = L /\ L \in Evidence(p, m)
        /\ \A o \in Evidence(p, m) : o.at <= L.at
    BY <1>5, <2>1
  <2>3. \A e \in C : e = L BY <2>2
  <2>4. L \in C BY <2>2
  <2>. QED BY <1>4, <2>1, <2>2, <2>3, <2>4, Zenon
<1>. QED BY <1>4, <1>6, Zenon DEF C, st, L, x

(* What the capacity of a profile says of its metrics.                       *)
LEMMA CapacityIs ==
  ASSUME EvidenceAssumption, EvidenceInv, NEW p \in RankedProfiles
  PROVE  /\ Capacity(p) = "fresh" => \A m \in Metrics : Shown(p, m) = "fresh"
         /\ Capacity(p) = "stale" =>
               /\ \A m \in Metrics : Shown(p, m) \notin {"contradictory", "partial"}
               /\ \E m \in Metrics : Shown(p, m) = "stale"
<1> DEFINE shown == {Shown(p, m) : m \in Metrics}
<1>1. Capacity(p) = IF shown \cap {"contradictory", "partial"} # {} THEN "uncertain"
                    ELSE IF "stale" \in shown THEN "stale"
                    ELSE IF "incompatible" \in shown THEN "uncertain"
                    ELSE "fresh"
  BY Zenon DEF Capacity, Shown
<1>2. \A m \in Metrics : Shown(p, m) \in Levels /\ Shown(p, m) \in shown BY ShownOf
<1>3. \A x \in shown : \E m \in Metrics : Shown(p, m) = x BY Zenon
<1> HIDE DEF shown
<1>4. ASSUME Capacity(p) = "fresh" PROVE \A m \in Metrics : Shown(p, m) = "fresh"
  <2>1. shown \cap {"contradictory", "partial"} = {} /\ "stale" \notin shown
        /\ "incompatible" \notin shown
    BY <1>1, <1>4, SMT
  <2>2. "contradictory" \notin shown /\ "partial" \notin shown BY <2>1
  <2>. QED BY <1>2, <2>1, <2>2, Zenon DEF Levels
<1>5. ASSUME Capacity(p) = "stale"
      PROVE  /\ \A m \in Metrics : Shown(p, m) \notin {"contradictory", "partial"}
             /\ \E m \in Metrics : Shown(p, m) = "stale"
  <2>1. shown \cap {"contradictory", "partial"} = {} /\ "stale" \in shown
    BY <1>1, <1>5, SMT
  <2>2. "contradictory" \notin shown /\ "partial" \notin shown BY <2>1
  <2>. QED BY <1>2, <1>3, <2>1, <2>2, Zenon
<1>. QED BY <1>4, <1>5

-----------------------------------------------------------------------------
(* The ranking.                                                              *)
FreshProfiles == {p \in Eligible : Capacity(p) = "fresh"}

(* The readings of a profile.                                                *)
Readout(p) == [m \in Metrics |-> Reading(p, m)]

(* Those of them that no other dominates.                                    *)
BestProfiles ==
    {p \in FreshProfiles : \A q \in FreshProfiles \ {p} : ~Dominates(Readout(q), Readout(p))}

(* A recommended profile is the only one that is not dominated, and nothing  *)
(* is uncertain.                                                             *)
LEMMA RecommendedIs ==
  ASSUME EvidenceAssumption, NEW p \in Recommended
  PROVE  /\ \A q \in Eligible : Capacity(q) \in {"fresh", "stale"}
         /\ BestProfiles = {p}
         /\ \A m \in Metrics : Reading(p, m).value # Full
<1> DEFINE capacity == [q \in Eligible |-> Capacity(q)]
           fresh == {q \in Eligible : capacity[q] = "fresh"}
           reading == [q \in fresh |-> [m \in Metrics |-> Reading(q, m)]]
           best == {r \in fresh : \A q \in fresh \ {r} : ~Dominates(reading[q], reading[r])}
           founded == /\ AllKnown(capacity)
                      /\ \A q, r \in fresh : q = r \/ ~Incomparable(reading[q], reading[r])
                      /\ Cardinality(best) = 1
                      /\ \A q \in best : \A m \in Metrics : reading[q][m].value # Full
<1>1. Recommended = IF founded THEN best ELSE {} BY Zenon DEF Recommended
<1>2. fresh = FreshProfiles BY Zenon DEF FreshProfiles
<1>3. \A q \in fresh : reading[q] = Readout(q) BY Zenon DEF Readout
<1>4. \A q \in Eligible : capacity[q] = Capacity(q) BY Zenon
<1>5. DOMAIN capacity = Eligible BY Zenon
<1> HIDE DEF fresh, reading
<1>6. best = BestProfiles
  <2>1. \A r \in fresh : (\A q \in fresh \ {r} : ~Dominates(reading[q], reading[r]))
                      <=> (\A q \in fresh \ {r} : ~Dominates(Readout(q), Readout(r)))
    BY <1>3, Zenon
  <2>. QED BY <1>2, <2>1, Zenon DEF BestProfiles
<1>7. founded /\ p \in best
  <2> HIDE DEF founded, best
  <2>. QED BY <1>1
<1>8. \A q \in Eligible : Capacity(q) \in {"fresh", "stale"}
  <2>1. AllKnown(capacity) BY <1>7
  <2> HIDE DEF capacity
  <2>. QED BY <1>4, <1>5, <2>1, Zenon DEF AllKnown
<1>9. best = {p}
  <2>1. Cardinality(best) = 1 /\ p \in best BY <1>7
  <2>2. best \in SUBSET RankedProfiles /\ IsFiniteSet(RankedProfiles)
    BY <1>2, Zenon DEF FreshProfiles, Eligible, EvidenceAssumption
  <2> HIDE DEF best
  <2>3. PICK x : best = {x}
    <3>1. IsFiniteSet(best) BY <2>2, FS_Subset
    <3>. QED BY <2>1, <3>1, FS_Singleton
  <2>. QED BY <2>1, <2>3
<1>10. \A m \in Metrics : Reading(p, m).value # Full
  <2>1. p \in fresh /\ reading[p] = Readout(p) BY <1>3, <1>7, Zenon
  <2>2. \A m \in Metrics : reading[p][m].value # Full BY <1>7, Zenon
  <2>3. \A m \in Metrics : Readout(p)[m] = Reading(p, m) BY Zenon DEF Readout
  <2>. QED BY <2>1, <2>2, <2>3, Zenon
<1>. QED BY <1>6, <1>8, <1>9, <1>10, Zenon

(* Used percentages of the profiles that can be compared.                    *)
LEMMA FreshIs ==
  ASSUME EvidenceAssumption, EvidenceInv, NEW p \in FreshProfiles
  PROVE  /\ p \in Eligible /\ p \in RankedProfiles
         /\ \A m \in Metrics :
               /\ Readout(p)[m] = LatestValue(p, m) /\ Readout(p)[m].value \in Nat
               /\ LatestValue(p, m) \in Evidence(p, m)
               /\ IsFresh(LatestValue(p, m)) /\ Window(LatestValue(p, m).at) = Window(now)
               /\ newest[p].state[m] = "available"
<1>1. p \in Eligible /\ p \in RankedProfiles /\ Capacity(p) = "fresh"
  BY Zenon DEF FreshProfiles, Eligible
<1>2. ASSUME NEW m \in Metrics
      PROVE  /\ Readout(p)[m] = LatestValue(p, m) /\ Readout(p)[m].value \in Nat
             /\ LatestValue(p, m) \in Evidence(p, m)
             /\ IsFresh(LatestValue(p, m)) /\ Window(LatestValue(p, m).at) = Window(now)
             /\ newest[p].state[m] = "available"
  <2>1. Shown(p, m) = "fresh" BY <1>1, CapacityIs
  <2>2. Shown(p, m) \notin {"contradictory", "partial"} BY <2>1
  <2>3. /\ newest[p].state[m] = "available" /\ Reading(p, m) = LatestValue(p, m)
        /\ LatestValue(p, m) \in Evidence(p, m)
        /\ IsFresh(LatestValue(p, m)) /\ Window(LatestValue(p, m).at) = Window(now)
    BY <1>1, <2>1, <2>2, ShownOf, Zenon
  <2>4. LatestValue(p, m).value \in Nat BY <1>1, <2>3, EvidenceIs, Zenon
  <2>5. Readout(p)[m] = Reading(p, m) BY Zenon DEF Readout
  <2>. QED BY <2>3, <2>4, <2>5, Zenon
<1>. QED BY <1>1, <1>2

(* To dominate is a strict order.                                            *)
LEMMA DominanceIsOrder ==
  ASSUME EvidenceAssumption, EvidenceInv
  PROVE  /\ \A p \in FreshProfiles : ~Dominates(Readout(p), Readout(p))
         /\ \A p, q, r \in FreshProfiles :
               Dominates(Readout(p), Readout(q)) /\ Dominates(Readout(q), Readout(r))
                  => Dominates(Readout(p), Readout(r))
<1>1. \A p \in FreshProfiles : \A m \in Metrics : Readout(p)[m].value \in Nat BY FreshIs
<1>2. ASSUME NEW p \in FreshProfiles, Dominates(Readout(p), Readout(p)) PROVE FALSE
  <2>1. PICK m \in Metrics : Readout(p)[m].value < Readout(p)[m].value
    BY <1>2, Zenon DEF Dominates
  <2>. QED BY <1>1, <2>1, SMT
<1>3. ASSUME NEW p \in FreshProfiles, NEW q \in FreshProfiles, NEW r \in FreshProfiles,
             Dominates(Readout(p), Readout(q)), Dominates(Readout(q), Readout(r))
      PROVE  Dominates(Readout(p), Readout(r))
  <2> DEFINE a(m) == Readout(p)[m].value
             b(m) == Readout(q)[m].value
             c(m) == Readout(r)[m].value
  <2>1. \A m \in Metrics : a(m) \in Nat /\ b(m) \in Nat /\ c(m) \in Nat BY <1>1
  <2>2. /\ \A m \in Metrics : a(m) <= b(m) /\ b(m) <= c(m)
        /\ \E m \in Metrics : a(m) < b(m)
    BY <1>3, Zenon DEF Dominates
  <2>3. Dominates(Readout(p), Readout(r)) <=>
           (\A m \in Metrics : a(m) <= c(m)) /\ (\E m \in Metrics : a(m) < c(m))
    BY Zenon DEF Dominates
  <2> HIDE DEF a, b, c
  <2>4. \A m \in Metrics : a(m) <= c(m) BY <2>1, <2>2, SMT
  <2>5. \E m \in Metrics : a(m) < c(m)
    <3>1. PICK m \in Metrics : a(m) < b(m) BY <2>2
    <3>2. a(m) < c(m) BY <2>1, <2>2, <3>1, SMT
    <3>. QED BY <3>2
  <2>. QED BY <2>3, <2>4, <2>5
<1>. QED BY <1>2, <1>3

(* Where one profile alone is not dominated, it dominates the others.        *)
LEMMA BestDominates ==
  ASSUME EvidenceAssumption, EvidenceInv, NEW p, BestProfiles = {p},
         NEW q \in FreshProfiles, q # p
  PROVE  Dominates(Readout(p), Readout(q))
<1> DEFINE F == FreshProfiles
           Over(r) == {s \in F : Dominates(Readout(r), Readout(s))}
           D == {r \in F : r = q \/ Dominates(Readout(r), Readout(q))}
           S == {Cardinality(Over(r)) + 1 : r \in D}
           n == Cardinality(F)
<1>1. IsFiniteSet(F) /\ n \in Nat
  <2>1. F \in SUBSET RankedProfiles /\ IsFiniteSet(RankedProfiles)
    BY DEF FreshProfiles, Eligible, EvidenceAssumption
  <2> HIDE DEF F
  <2>. QED BY <2>1, FS_Subset, FS_CardinalityType
<1>2. \A r : Over(r) \in SUBSET F OBVIOUS
<1>3. \A r : IsFiniteSet(Over(r)) /\ Cardinality(Over(r)) \in 0..n
  <2> HIDE DEF F, Over, n
  <2>1. ASSUME NEW r PROVE IsFiniteSet(Over(r)) /\ Cardinality(Over(r)) \in 0..n
    <3>1. Over(r) \in SUBSET F BY <1>2
    <3>2. IsFiniteSet(Over(r)) /\ Cardinality(Over(r)) <= Cardinality(F)
      BY <1>1, <3>1, FS_Subset
    <3>3. Cardinality(Over(r)) \in Nat BY <3>2, FS_CardinalityType
    <3>. QED BY <1>1, <3>2, <3>3, SMT DEF n
  <2>. QED BY <2>1
<1>4. q \in D OBVIOUS
<1>5. PICK r \in D : \A s \in D : Cardinality(Over(s)) <= Cardinality(Over(r))
  <2> HIDE DEF D, Over, n, F
  <2>1. S \in SUBSET (1..(n + 1)) /\ S # {}
    <3>1. \A s : Cardinality(Over(s)) + 1 \in 1..(n + 1) BY <1>1, <1>3
    <3>. QED BY <1>4, <3>1, Zenon
  <2>2. \E x \in S : \A y \in S : y <= x
    <3>1. n + 1 \in Nat BY <1>1
    <3> HIDE DEF S
    <3>. QED BY <2>1, <3>1, HasGreatest
  <2>3. PICK r \in D : \A y \in S : y <= Cardinality(Over(r)) + 1 BY <2>2, Zenon
  <2>4. \A s \in D : Cardinality(Over(s)) + 1 <= Cardinality(Over(r)) + 1 BY <2>3, Zenon
  <2>5. \A s \in D : Cardinality(Over(s)) <= Cardinality(Over(r)) BY <1>3, <2>4, SMT
  <2>. QED BY <2>5
<1>6. r \in F BY Zenon
<1>7. ASSUME NEW s \in F, Dominates(Readout(s), Readout(r)) PROVE FALSE
  <2>1. Dominates(Readout(s), Readout(q))
    <3>1. r = q \/ Dominates(Readout(r), Readout(q)) BY Zenon
    <3>. QED BY <1>6, <1>7, <3>1, DominanceIsOrder, Zenon
  <2>2. s \in D BY <1>7, <2>1, Zenon
  <2>3. Over(r) \in SUBSET Over(s) BY <1>6, <1>7, DominanceIsOrder, Zenon
  <2>4. r \in Over(s) /\ r \notin Over(r) BY <1>6, <1>7, DominanceIsOrder, Zenon
  <2> HIDE DEF Over, D, F, n
  <2>5. Cardinality(Over(r)) < Cardinality(Over(s))
    <3>1. Over(r) # Over(s) BY <2>4
    <3>2. IsFiniteSet(Over(s)) BY <1>3
    <3>3. Cardinality(Over(r)) <= Cardinality(Over(s))
          /\ (Cardinality(Over(r)) = Cardinality(Over(s)) => Over(r) = Over(s))
      BY <2>3, <3>2, FS_Subset
    <3>4. Cardinality(Over(r)) \in 0..n /\ Cardinality(Over(s)) \in 0..n BY <1>3
    <3>. QED BY <1>1, <3>1, <3>3, <3>4, SMT
  <2>6. Cardinality(Over(s)) <= Cardinality(Over(r)) BY <1>5, <2>2
  <2>7. Cardinality(Over(r)) \in 0..n /\ Cardinality(Over(s)) \in 0..n BY <1>3
  <2>. QED BY <1>1, <2>5, <2>6, <2>7, SMT
<1>8. r \in BestProfiles BY <1>6, <1>7, Zenon DEF BestProfiles
<1>9. r = p BY <1>8
<1>. QED BY <1>9, Zenon

(* A recommendation is of a known profile, and of the best one.              *)
LEMMA RecommendationIs ==
  ASSUME EvidenceAssumption, EvidenceInv PROVE RecommendedIsKnown /\ RecommendedIsBest
<1>1. ASSUME NEW p \in Recommended, NEW m \in Metrics
      PROVE  LET e == LatestValue(p, m)
             IN  /\ now - e.at <= FreshLimit /\ Window(e.at) = Window(now) /\ e.value # Full
                 /\ e.at = newest[p].at
  <2>1. BestProfiles = {p} /\ \A o \in Metrics : Reading(p, o).value # Full
    BY <1>1, RecommendedIs, Zenon
  <2>2. p \in FreshProfiles BY <2>1, Zenon DEF BestProfiles
  <2>3. /\ p \in RankedProfiles /\ Readout(p)[m] = LatestValue(p, m)
        /\ LatestValue(p, m) \in Evidence(p, m) /\ IsFresh(LatestValue(p, m))
        /\ Window(LatestValue(p, m).at) = Window(now) /\ newest[p].state[m] = "available"
    BY <2>2, FreshIs
  <2>4. LatestValue(p, m).value # Full
    <3>1. Readout(p)[m] = Reading(p, m) BY Zenon DEF Readout
    <3>. QED BY <2>1, <2>3, <3>1, Zenon
  <2>5. LatestValue(p, m).at = newest[p].at
    <3>1. PICK v \in Versions : last[p][v][m] # NoEvidence /\ last[p][v][m].at = newest[p].at
      BY <2>3, Zenon DEF EvidenceInv, AvailableIsKnown
    <3>2. PICK e \in Evidence(p, m) : e.at = last[p][v][m].at BY <2>3, <3>1, EvidenceIs
    <3>3. e.at <= LatestValue(p, m).at BY <2>3, <3>2, LatestIs
    <3>4. LatestValue(p, m).at \in Nat /\ LatestValue(p, m).at <= newest[p].at
      BY <2>3, EvidenceIs
    <3>5. e.at \in Nat BY <2>3, EvidenceIs
    <3>. QED BY <3>1, <3>2, <3>3, <3>4, <3>5, SMT
  <2>. QED BY <2>3, <2>4, <2>5, Zenon DEF IsFresh
<1>2. ASSUME NEW p \in Recommended, NEW q \in Eligible \ {p}
      PROVE  /\ \A m \in Metrics : newest[q].state[m] = "available"
             /\ \/ \E m \in Metrics : now - LatestValue(q, m).at > FreshLimit
                \/ /\ \A m \in Metrics : LatestValue(p, m).value <= LatestValue(q, m).value
                   /\ \E m \in Metrics : LatestValue(p, m).value < LatestValue(q, m).value
  <2>1. BestProfiles = {p} /\ Capacity(q) \in {"fresh", "stale"} /\ q # p /\ q \in RankedProfiles
    BY <1>2, RecommendedIs, Zenon DEF Eligible
  <2>2. p \in FreshProfiles BY <2>1, Zenon DEF BestProfiles
  <2>3. CASE Capacity(q) = "fresh"
    <3>1. q \in FreshProfiles BY <1>2, <2>3, Zenon DEF FreshProfiles
    <3>2. Dominates(Readout(p), Readout(q)) BY <2>1, <3>1, BestDominates
    <3>3. /\ \A m \in Metrics : Readout(p)[m] = LatestValue(p, m)
          /\ \A m \in Metrics : Readout(q)[m] = LatestValue(q, m) /\ newest[q].state[m] = "available"
      BY <2>2, <3>1, FreshIs
    <3>. QED BY <3>2, <3>3, Zenon DEF Dominates
  <2>4. CASE Capacity(q) = "stale"
    <3>1. /\ \A m \in Metrics : Shown(q, m) \notin {"contradictory", "partial"}
          /\ \E m \in Metrics : Shown(q, m) = "stale"
      BY <2>1, <2>4, CapacityIs, Zenon
    <3>2. \A m \in Metrics : newest[q].state[m] = "available"
      BY <2>1, <3>1, ShownOf, Zenon
    <3>3. PICK m \in Metrics : Shown(q, m) = "stale" BY <3>1
    <3>4. ~IsFresh(LatestValue(q, m)) /\ LatestValue(q, m) \in Evidence(q, m)
      BY <2>1, <3>1, <3>3, ShownOf, Zenon
    <3>5. now - LatestValue(q, m).at > FreshLimit
      <4>1. LatestValue(q, m).at \in Nat BY <2>1, <3>4, EvidenceIs, Zenon
      <4>2. now \in Nat /\ FreshLimit \in Nat BY DEF EvidenceInv, NowTyped,
           EvidenceAssumption
      <4>. QED BY <3>4, <4>1, <4>2, SMT DEF IsFresh
    <3>. QED BY <3>2, <3>5
  <2>. QED BY <2>1, <2>3, <2>4, Zenon
<1>. QED BY <1>1, <1>2, Zenon DEF RecommendedIsKnown, RecommendedIsBest

(* A contradiction is between two readings of one window.                    *)
LEMMA ContradictionsAreReal ==
  ASSUME EvidenceAssumption, EvidenceInv PROVE NoContradictionAcrossWindows
<1> SUFFICES ASSUME NEW p \in RankedProfiles, NEW m \in Metrics,
                    Availability(p, m) = "contradictory"
             PROVE  \E e, o \in Evidence(p, m) : Window(e.at) = Window(o.at) /\ e.value # o.value
  BY Zenon DEF NoContradictionAcrossWindows
<1> DEFINE C == Current(p, m)
           V == {e.value : e \in C}
<1>1. newest[p].state[m] \in Outcomes BY DEF EvidenceInv, NewestTyped
<1>2. Cardinality(V) > 1
  <2>1. Availability(p, m) = StateOf(newest[p].state[m], C) BY Zenon DEF Availability
  <2> HIDE DEF C
  <2>2. newest[p].state[m] # "contradictory" BY <1>1, SMT DEF Outcomes
  <2>3. ASSUME ~(Cardinality(V) > 1) PROVE FALSE
    <3> HIDE DEF V
    <3>1. StateOf(newest[p].state[m], C) \in {newest[p].state[m], "available", "stale"}
      BY <2>3, Zenon DEF StateOf, V
    <3>. QED BY <2>1, <2>2, <3>1, SMT
  <2>. QED BY <2>3
<1>3. C \in SUBSET Evidence(p, m) /\ \A e, o \in C : Window(e.at) = Window(o.at)
  BY Zenon DEF Current
<1> HIDE DEF C
<1>4. PICK e \in C, o \in C : e.value # o.value
  <2>1. SUFFICES ASSUME \A e, o \in C : e.value = o.value PROVE FALSE OBVIOUS
  <2>2. CASE C = {}
    <3>1. V = {} BY <2>2
    <3>2. Cardinality(V) = 0 BY <3>1, FS_EmptySet
    <3> HIDE DEF V
    <3>. QED BY <1>2, <3>2, SMT
  <2>3. CASE C # {}
    <3>1. PICK e \in C : TRUE BY <2>3
    <3>2. V = {e.value} BY <2>1, <3>1
    <3>3. Cardinality(V) = 1 BY <3>2, FS_Singleton
    <3> HIDE DEF V
    <3>. QED BY <1>2, <3>3, SMT
  <2>. QED BY <2>2, <2>3
<1>. QED BY <1>3, <1>4, Zenon

-----------------------------------------------------------------------------

(* The invariant holds of the first states.                                  *)
LEMMA EvidenceHolds ==
  ASSUME EvidenceAssumption, EvidenceInit PROVE EvidenceInv
<1>1. NowTyped BY DEF EvidenceInit, EvidenceAssumption, NowTyped
<1>2. SharingTyped BY Zenon DEF EvidenceInit, SharingTyped
<1>3. LastTyped /\ LastIsOlder BY DEF EvidenceInit, LastTyped, LastIsOlder
<1>4. \A p \in RankedProfiles : newest[p] = [at |-> -1, state |-> [m \in Metrics |-> "failed"]]
  BY DEF EvidenceInit
<1>5. \A p \in RankedProfiles : newest[p].at = -1 /\ \A m \in Metrics : newest[p].state[m] = "failed"
  BY <1>4
<1>6. NewestTyped
  <2>1. [m \in Metrics |-> "failed"] \in [Metrics -> Outcomes] BY DEF Outcomes
  <2>2. -1 \in Int /\ -1 <= 0 OBVIOUS
  <2>3. newest \in [RankedProfiles -> [at : Int, state : [Metrics -> Outcomes]]]
    BY <2>1, <2>2, Zenon DEF EvidenceInit
  <2>. QED BY <1>5, <2>2, <2>3, Zenon DEF EvidenceInit, NewestTyped
<1>7. AvailableIsKnown BY <1>5, SMT DEF AvailableIsKnown
<1>. QED BY <1>1, <1>2, <1>3, <1>6, <1>7 DEF EvidenceInv

(* The last evidence of a metric is a reading or none.                       *)
LEMMA LastIs ==
  ASSUME LastTyped
  PROVE  \A p \in RankedProfiles, v \in Versions, m \in Metrics :
            last[p][v][m] \in Reported \cup {NoEvidence}
BY DEF LastTyped

(* A capture keeps the invariant, whatever it measured.                      *)
LEMMA CaptureKeeps ==
  ASSUME EvidenceAssumption, EvidenceInv, NEW p \in RankedProfiles, NEW measured \in SUBSET Metrics,
         NEW others \in {"unsupported", "failed", "reauthentication"}, Capture(p, measured, others)
  PROVE  EvidenceInv'
<1> USE DEF EvidenceInv
<1>1. now' = now /\ version' = version /\ sharing' = sharing /\ newest[p].at < now
      /\ signedOut' = SignedOutBy(p, others) /\ version \in Versions
      /\ newest' = [newest EXCEPT ![p] =
            NewestIs(p, [m \in Metrics |-> IF m \in measured THEN "available" ELSE others])]
  BY Zenon DEF Capture, NowTyped
<1>2. PICK value \in Readings :
         last' = [last EXCEPT ![p][version] = [m \in Metrics |->
                      IF m \in measured THEN [value |-> value[m], at |-> now] ELSE @[m]]]
  BY Zenon DEF Capture
<1>3. now \in Nat /\ now <= now BY SMT DEF NowTyped, EvidenceAssumption
<1>4. \A m \in Metrics : value[m] \in Nat BY DEF EvidenceAssumption
<1> DEFINE new(m) == [value |-> value[m], at |-> now]
<1>5. \A m \in Metrics : new(m) \in Reported /\ new(m) # NoEvidence /\ new(m).at = now
  <2>1. \A m \in Metrics : new(m) \in Reported BY <1>3, <1>4, Zenon DEF Reported
  <2>2. NoEvidence \notin Reported BY Zenon DEF EvidenceAssumption, Reported
  <2>3. \A m \in Metrics : new(m).at = now BY Zenon
  <2> HIDE DEF new
  <2>. QED BY <2>1, <2>2, <2>3, Zenon
<1>6. /\ \A q \in RankedProfiles : \A v \in Versions : \A m \in Metrics :
            last'[q][v][m] = IF q = p /\ v = version /\ m \in measured THEN new(m) ELSE last[q][v][m]
      /\ last' \in [RankedProfiles -> [Versions -> [Metrics -> Reported \cup {NoEvidence}]]]
  <2> DEFINE row == [m \in Metrics |-> IF m \in measured THEN new(m) ELSE last[p][version][m]]
  <2>1. last' = [last EXCEPT ![p][version] = row] BY <1>2, Zenon
  <2>2. row \in [Metrics -> Reported \cup {NoEvidence}]
    <3> HIDE DEF new
    <3>1. \A m \in Metrics : last[p][version][m] \in Reported \cup {NoEvidence}
      BY <1>1 DEF LastTyped
    <3>. QED BY <1>5, <3>1
  <2>3. \A m \in Metrics : row[m] = IF m \in measured THEN new(m) ELSE last[p][version][m] BY Zenon
  <2> HIDE DEF row, new
  <2>4. last' \in [RankedProfiles -> [Versions -> [Metrics -> Reported \cup {NoEvidence}]]]
    BY <1>1, <2>1, <2>2 DEF LastTyped
  <2>5. \A q \in RankedProfiles : \A v \in Versions :
           last'[q][v] = IF q = p /\ v = version THEN row ELSE last[q][v]
    BY <1>1, <2>1 DEF LastTyped
  <2>. QED BY <2>3, <2>4, <2>5, ZenonT(60)
<1> HIDE DEF new
<1>7. /\ newest' \in [RankedProfiles -> [at : Int, state : [Metrics -> Outcomes]]]
      /\ newest'[p].at = now
      /\ \A m \in Metrics : newest'[p].state[m] = IF m \in measured THEN "available" ELSE others
      /\ \A q \in RankedProfiles : q # p => newest'[q] = newest[q]
  <2> DEFINE st == [m \in Metrics |-> IF m \in measured THEN "available" ELSE others]
             row == [at |-> now, state |-> st]
  <2>1. newest' = [newest EXCEPT ![p] = row] BY <1>1, Zenon DEF NewestIs
  <2>2. st \in [Metrics -> Outcomes] BY DEF Outcomes
  <2>3. \A m \in Metrics : st[m] = IF m \in measured THEN "available" ELSE others BY Zenon
  <2> HIDE DEF st
  <2>4. row \in [at : Int, state : [Metrics -> Outcomes]] /\ row.at = now /\ row.state = st
    BY <1>3, <2>2
  <2> HIDE DEF row
  <2>5. newest'[p] = row BY <2>1 DEF NewestTyped
  <2>6. \A q \in RankedProfiles : q # p => newest'[q] = newest[q] BY <2>1 DEF NewestTyped
  <2>7. newest' \in [RankedProfiles -> [at : Int, state : [Metrics -> Outcomes]]]
    BY <2>1, <2>4 DEF NewestTyped
  <2>. QED BY <2>3, <2>4, <2>5, <2>6, <2>7, Zenon
<1>7a. ASSUME NEW q \in RankedProfiles, NEW v \in Versions, NEW m \in Metrics
      PROVE  /\ q = p /\ v = version /\ m \in measured => last'[q][v][m] = new(m)
             /\ ~(q = p /\ v = version /\ m \in measured) => last'[q][v][m] = last[q][v][m]
  <2>1. last'[q][v][m] = IF q = p /\ v = version /\ m \in measured THEN new(m) ELSE last[q][v][m]
    BY <1>6
  <2>. QED BY <2>1, Zenon
<1>8. NowTyped' BY <1>1 DEF NowTyped, SignedOutBy
<1>9. SharingTyped' BY <1>1, Zenon DEF SharingTyped
<1>10. LastTyped' BY <1>6, Zenon DEF LastTyped
<1>11. NewestTyped' BY <1>1, <1>3, <1>7, Zenon DEF NewestTyped
<1>12. LastIsOlder'
  <2> SUFFICES ASSUME NEW q \in RankedProfiles, NEW v \in Versions, NEW m \in Metrics,
                      last'[q][v][m] # NoEvidence
               PROVE  last'[q][v][m].at <= newest'[q].at
    BY Zenon DEF LastIsOlder
  <2>1. CASE q = p /\ v = version /\ m \in measured BY <1>3, <1>5, <1>6, <1>7, <2>1, Zenon
  <2>2. CASE ~(q = p /\ v = version /\ m \in measured)
    <3>1. last'[q][v][m] = last[q][v][m] BY <1>7a, <2>2
    <3>2. last[q][v][m].at <= newest[q].at BY <3>1, Zenon DEF LastIsOlder
    <3>3. CASE q # p BY <1>7, <3>1, <3>2, <3>3, Zenon
    <3>4. CASE q = p
      <4>1. last[q][v][m] \in Reported
        <5>1. last[q][v][m] \in Reported \cup {NoEvidence} BY LastIs, Zenon
        <5>2. last[q][v][m] # NoEvidence BY <3>1, Zenon
        <5>. QED BY <5>1, <5>2, Zenon
      <4>2. last[q][v][m].at \in Nat BY <4>1 DEF Reported
      <4>3. newest[p].at \in Int BY DEF NewestTyped
      <4>4. last[q][v][m].at <= now BY <1>1, <1>3, <3>2, <3>4, <4>2, <4>3, SMT
      <4>. QED BY <1>7, <3>1, <3>4, <4>4, Zenon
    <3>. QED BY <3>3, <3>4
  <2>. QED BY <2>1, <2>2
<1>13. AvailableIsKnown'
  <2> SUFFICES ASSUME NEW q \in RankedProfiles, NEW m \in Metrics, newest'[q].state[m] = "available"
               PROVE  \E v \in Versions :
                         last'[q][v][m] # NoEvidence /\ last'[q][v][m].at = newest'[q].at
    BY Zenon DEF AvailableIsKnown
  <2>1. CASE q = p
    <3>1. m \in measured
      <4>1. others # "available" BY SMT
      <4>. QED BY <1>7, <2>1, <4>1, Zenon
    <3>2. last'[q][version][m] = new(m) BY <1>1, <1>7a, <2>1, <3>1
    <3>. QED BY <1>1, <1>5, <1>7, <2>1, <3>2, Zenon
  <2>2. CASE q # p
    <3>1. newest'[q] = newest[q] BY <1>7, <2>2
    <3>2. PICK v \in Versions : last[q][v][m] # NoEvidence /\ last[q][v][m].at = newest[q].at
      BY <3>1, Zenon DEF AvailableIsKnown
    <3>3. last'[q][v][m] = last[q][v][m] BY <1>7a, <2>2
    <3>. QED BY <3>1, <3>2, <3>3, Zenon
  <2>. QED BY <2>1, <2>2
<1>. QED BY <1>8, <1>9, <1>10, <1>11, <1>12, <1>13

(* Every step keeps the invariant.                                           *)
LEMMA EvidenceStepKeeps ==
  ASSUME EvidenceAssumption, EvidenceInv, [EvidenceNext]_evidenceVars PROVE EvidenceInv'
<1> USE DEF EvidenceInv
<1>1. ASSUME NEW p \in RankedProfiles, CaptureAny(p) PROVE EvidenceInv'
  <2>1. {First} \in SUBSET Metrics /\ {} \in SUBSET Metrics /\ Metrics \in SUBSET Metrics
    BY DEF EvidenceAssumption
  <2>2. CASE Capture(p, Metrics, "unsupported") BY <2>1, <2>2, CaptureKeeps
  <2>3. CASE Capture(p, {First}, "unsupported") BY <2>1, <2>3, CaptureKeeps
  <2>4. CASE Capture(p, {}, "failed") BY <2>1, <2>4, CaptureKeeps
  <2>5. CASE Capture(p, {}, "reauthentication") BY <2>1, <2>5, CaptureKeeps
  <2>. QED BY <1>1, <2>2, <2>3, <2>4, <2>5, Zenon DEF CaptureAny
<1>2. CASE Upgrade
  <2>1. /\ version' \in Versions /\ now' = now /\ sharing' = sharing /\ last' = last
        /\ newest' = newest /\ signedOut' = signedOut
    BY <1>2, Zenon DEF Upgrade
  <2>. QED BY <2>1, Zenon
         DEF NowTyped, SharingTyped, LastTyped, NewestTyped, LastIsOlder, AvailableIsKnown
<1>3. CASE TimePasses
  <2>1. /\ now < MaxNow /\ now' = now + 1 /\ version' = version /\ sharing' = sharing
        /\ last' = last /\ newest' = newest /\ signedOut' = signedOut
    BY <1>3, Zenon DEF TimePasses
  <2>2. NowTyped' BY <2>1, SMT DEF NowTyped, EvidenceAssumption
  <2>3. NewestTyped'
    <3>1. \A p \in RankedProfiles : newest[p].at \in Int /\ newest[p].at <= now BY
         DEF NewestTyped
    <3>2. now \in Nat BY DEF NowTyped, EvidenceAssumption
    <3>3. \A p \in RankedProfiles : newest[p].at <= now' BY <2>1, <3>1, <3>2, SMT
    <3>. QED BY <2>1, <3>3, Zenon DEF NewestTyped
  <2>. QED BY <2>1, <2>2, <2>3, Zenon DEF SharingTyped, LastTyped, LastIsOlder,
       AvailableIsKnown
<1>4. CASE UNCHANGED evidenceVars
  <2>1. /\ version' = version /\ now' = now /\ sharing' = sharing /\ last' = last
        /\ newest' = newest /\ signedOut' = signedOut
    BY <1>4, Zenon DEF evidenceVars
  <2>. QED BY <2>1, Zenon
         DEF NowTyped, SharingTyped, LastTyped, NewestTyped, LastIsOlder, AvailableIsKnown
<1>. QED BY <1>1, <1>2, <1>3, <1>4 DEF EvidenceNext

(* The inductive invariant has what the runs check.                          *)
LEMMA EvidenceInvImplies ==
  ASSUME EvidenceAssumption, EvidenceInv PROVE RecommendationFounded
<1>1. EvidenceTypeOK
  <2>1. \A p \in RankedProfiles : newest[p].state \in [Metrics -> Outcomes]
    BY DEF EvidenceInv, NewestTyped
  <2>. QED BY <2>1, Zenon DEF EvidenceTypeOK, EvidenceInv, NowTyped, SharingTyped,
       LastIsOlder
<1>. QED BY <1>1, RecommendationIs, ContradictionsAreReal, Zenon DEF RecommendationFounded

(* A recommendation stands on evidence that is known, fresh and of one       *)
(* window, and is better than the others: for any profiles, metrics,         *)
(* readings and versions. ranking.go:31.                                     *)
THEOREM RecommendationsAreFounded == EvidenceSpec => []RecommendationFounded
<1>1. EvidenceInit => EvidenceInv BY EvidenceHolds, EvidenceAssumption
<1>2. EvidenceInv /\ [EvidenceNext]_evidenceVars => EvidenceInv'
  BY EvidenceStepKeeps, EvidenceAssumption
<1>3. EvidenceInv => RecommendationFounded BY EvidenceInvImplies, EvidenceAssumption
<1>. QED BY <1>1, <1>2, <1>3, PTL DEF EvidenceSpec

-----------------------------------------------------------------------------
(* The alerts.                                                               *)

(* What an evaluation has in hand.                                           *)
Evaluation ==
    [pc : {"idle", "sync", "list", "due", "deliver", "record"}, holds : BOOLEAN, now : Nat,
     current : BOOLEAN, native : BOOLEAN, id : Nat, attempts : 0..(DeliveryMaxAttempts - 1),
     opening : Nat, ok : BOOLEAN]

(* A capture.                                                                *)
Taken == [found : {"fine", "low", "signed_out", "failed"}, at : Nat]

(* The kind of the alert, the time, the evidence and what is counted.        *)
ScalarsTyped ==
    /\ kind \in Kinds /\ time \in 0..MaxAlertTime
    /\ standing \in {"ready", "needs_reauthentication", "quarantined"}
    /\ captures \in Seq(Taken) /\ Len(captures) <= MaxCaptures
    /\ attempt \in {"none", "ok", "failed"} /\ scheduled \in 0..RepeatedFailureCount
    /\ sent \in Nat /\ tries \in Nat
    /\ mixedUp \subseteq {"attempt", "unavailable"}

(* What is known of the condition.                                           *)
FlagsTyped == known \in BOOLEAN /\ warned \in BOOLEAN

(* The row of the alert.                                                     *)
RowTyped ==
    alert # NoAlert =>
        /\ alert \in Row /\ alert.attempts <= DeliveryMaxAttempts
        /\ alert.delivery = "pending" => alert.attempts = 0 /\ alert.next = 0

(* The evaluations.                                                          *)
EvaluationsTyped == evaluator \in [Evaluators -> Evaluation]

(* Before there is a row nobody has one in hand.                             *)
NoneYet ==
    alert = NoAlert => /\ sent = 0 /\ tries = 0
                       /\ \A e \in Evaluators : evaluator[e].pc \in {"idle", "sync", "list"}

(* An evaluation that is not outdated holds what the evidence says, and a    *)
(* row that is known follows it.                                             *)
HoldsNow == Holds(kind)

HoldsToEvidence ==
    /\ \A e \in Evaluators :
          evaluator[e].pc = "sync" /\ evaluator[e].current => (evaluator[e].holds <=> HoldsNow)
    /\ known => (Active <=> HoldsNow)

(* An attempt is under way at this opening of the alert.                     *)
Underway(e) == evaluator[e].pc \in {"deliver", "record"}

(* It is of the opening the alert has now.                                   *)
Here(e) == Underway(e) /\ evaluator[e].opening = alert.opening

(* Attempts are of this opening or of an earlier one.                        *)
OfOpenings == \A e \in Evaluators : Underway(e) => evaluator[e].opening <= alert.opening

(* The row is taken while an attempt at this opening is under way.           *)
OneAttempt ==
    "attempt" \notin mixedUp =>
        /\ \A e \in Evaluators : Here(e) => alert.delivery = "attempting"
        /\ \A e, d \in Evaluators : Here(e) /\ Here(d) => e = d

(* A notice that was shown is known to the row, or to its one attempt.       *)
SentIsKnown ==
    "attempt" \notin mixedUp =>
        /\ sent <= 1
        /\ sent = 1 => /\ alert.delivery \in {"attempting", "delivered"}
                       /\ \A e \in Evaluators : Here(e) => evaluator[e].pc = "record" /\ evaluator[e].ok

(* The row counts the attempts.                                              *)
TriesCounted == mixedUp = {} /\ alert # NoAlert => tries <= alert.attempts

(* The invariant of the alerts.                                              *)
AlertInv ==
    /\ ScalarsTyped /\ FlagsTyped /\ RowTyped /\ EvaluationsTyped /\ NoneYet /\ HoldsToEvidence
    /\ OfOpenings /\ OneAttempt /\ SentIsKnown /\ TriesCounted

(* A row with some of its fields changed.                                    *)
LEMMA RowUpdated ==
  ASSUME NEW r \in Row
  PROVE  /\ Opened(r) \in Row
         /\ [r EXCEPT !.state = "resolved"] \in Row
         /\ [r EXCEPT !.state = "acknowledged"] \in Row
         /\ \A n \in Nat : [r EXCEPT !.id = n] \in Row
         /\ \A d \in {"delivered", "failed"}, n \in Nat : [r EXCEPT !.delivery = d, !.next = n] \in Row
         /\ \A d \in {"attempting", "unavailable"}, m \in Nat, n \in Nat :
               [r EXCEPT !.delivery = d, !.attempts = m, !.next = n] \in Row
<1>1. r.opening + 1 \in Nat /\ 0 \in Nat BY SMT DEF Row
<1>2. Opened(r) \in Row BY <1>1, Zenon DEF Opened, Row
<1>. QED BY <1>2, Zenon DEF Row

(* The fields of the row.                                                    *)
LEMMA RowFields ==
  ASSUME NEW r \in Row
  PROVE  /\ r.id \in Nat /\ r.opening \in Nat /\ r.attempts \in Nat /\ r.next \in Nat
         /\ r.state \in {"open", "acknowledged", "resolved"}
         /\ r.delivery \in {"pending", "attempting", "delivered", "failed", "unavailable"}
BY SMT DEF Row

(* An evaluation with some of its fields changed.                            *)
LEMMA EvaluationUpdated ==
  ASSUME NEW r \in Evaluation, NEW pc \in {"idle", "sync", "list", "due", "deliver", "record"}
  PROVE  /\ [r EXCEPT !.pc = pc] \in Evaluation
         /\ [r EXCEPT !.current = FALSE] \in Evaluation
         /\ \A ok \in BOOLEAN : [r EXCEPT !.pc = pc, !.ok = ok] \in Evaluation
         /\ \A n \in Nat : [r EXCEPT !.pc = pc, !.opening = n] \in Evaluation
         /\ \A n \in Nat : [r EXCEPT !.pc = pc, !.now = n] \in Evaluation
         /\ \A h \in BOOLEAN, n \in Nat, c \in BOOLEAN :
               [r EXCEPT !.pc = pc, !.holds = h, !.now = n, !.current = c] \in Evaluation
         /\ \A v \in BOOLEAN, i \in Nat, m \in 0..(DeliveryMaxAttempts - 1), n \in Nat :
               [r EXCEPT !.pc = pc, !.native = v, !.id = i, !.attempts = m, !.opening = n] \in Evaluation
BY Zenon DEF Evaluation

(* The fields of an evaluation.                                              *)
LEMMA EvaluationFields ==
  ASSUME NEW r \in Evaluation
  PROVE  /\ r.pc \in {"idle", "sync", "list", "due", "deliver", "record"}
         /\ r.now \in Nat /\ r.id \in Nat /\ r.opening \in Nat
         /\ r.attempts \in 0..(DeliveryMaxAttempts - 1)
BY SMT DEF Evaluation

(* Those of them that are true or false.                                     *)
LEMMA EvaluationBooleans ==
  ASSUME NEW r \in Evaluation
  PROVE  r.holds \in BOOLEAN /\ r.current \in BOOLEAN /\ r.native \in BOOLEAN /\ r.ok \in BOOLEAN
BY Zenon DEF Evaluation

(* No evaluation is one.                                                     *)
LEMMA NotEvaluatingTyped ==
  ASSUME AlertAssumption PROVE NotEvaluating \in Evaluation
<1>1. 0 \in 0..(DeliveryMaxAttempts - 1) /\ 0 \in Nat BY SMT DEF AlertAssumption
<1>. QED BY <1>1, Zenon DEF NotEvaluating, Evaluation

(* The invariant holds of the first states.                                  *)
LEMMA AlertHolds ==
  ASSUME AlertInit, AlertAssumption, NoAlertAssumption PROVE AlertInv
<1>1. EvaluationsTyped /\ \A e \in Evaluators : evaluator[e].pc = "idle"
  <2>1. NotEvaluating.pc = "idle" BY Zenon DEF NotEvaluating
  <2>. QED BY <2>1, NotEvaluatingTyped, SMT DEF AlertInit, EvaluationsTyped
<1>2. ScalarsTyped
  <2>1. captures \in Seq(Taken) /\ Len(captures) = 0 BY SMT DEF AlertInit
  <2>. QED BY <2>1, SMT DEF AlertInit, AlertAssumption, ScalarsTyped
<1>5. FlagsTyped BY Zenon DEF AlertInit, FlagsTyped
<1>3. RowTyped /\ NoneYet /\ OfOpenings /\ OneAttempt /\ SentIsKnown /\ TriesCounted
  BY <1>1, SMT DEF AlertInit, RowTyped, NoneYet, OfOpenings, OneAttempt, SentIsKnown,
     TriesCounted,
     Here, Underway
<1>4. HoldsToEvidence BY <1>1, SMT DEF AlertInit, HoldsToEvidence
<1>. QED BY <1>1, <1>2, <1>3, <1>4, <1>5 DEF AlertInv

(* The time is a number.                                                     *)
LEMMA TimeIsNat ==
  ASSUME ScalarsTyped, AlertAssumption PROVE time \in Nat
BY SMT DEF ScalarsTyped, AlertAssumption

(* The condition holds or not.                                               *)
LEMMA HoldsBoolean == HoldsNow \in BOOLEAN
BY Zenon DEF HoldsNow, Holds

(* A step of an evaluation is one of an evaluation.                          *)
LEMMA EvaluatingTyped ==
  ASSUME evaluator \in [Evaluators -> Evaluation], NEW e \in Evaluators, NEW q \in Evaluation, Evaluating(e, q)
  PROVE  evaluator' \in [Evaluators -> Evaluation] /\ evaluator'[e] = q /\ \A d \in Evaluators : d # e => evaluator'[d] = evaluator[d]
BY Zenon DEF Evaluating

(* An evaluation that is outdated is an evaluation.                          *)
LEMMA OutdatedTyped ==
  ASSUME evaluator \in [Evaluators -> Evaluation]
  PROVE  /\ Outdated \in [Evaluators -> Evaluation]
         /\ \A d \in Evaluators :
               /\ Outdated[d].pc = evaluator[d].pc /\ Outdated[d].opening = evaluator[d].opening
               /\ Outdated[d].ok = evaluator[d].ok /\ ~Outdated[d].current
<1>1. \A d \in Evaluators : evaluator[d] \in Evaluation OBVIOUS
<1>2. \A d \in Evaluators : [evaluator[d] EXCEPT !.current = FALSE] \in Evaluation
  BY <1>1, Zenon DEF Evaluation
<1>3. ASSUME NEW d \in Evaluators
      PROVE  /\ [evaluator[d] EXCEPT !.current = FALSE].pc = evaluator[d].pc
             /\ [evaluator[d] EXCEPT !.current = FALSE].opening = evaluator[d].opening
             /\ [evaluator[d] EXCEPT !.current = FALSE].ok = evaluator[d].ok
             /\ ~[evaluator[d] EXCEPT !.current = FALSE].current
  BY <1>1, Zenon DEF Evaluation
<1>4. Outdated = [d \in Evaluators |-> [evaluator[d] EXCEPT !.current = FALSE]] BY Zenon
     DEF Outdated
<1>. QED BY <1>2, <1>3, <1>4, Zenon

(* An evaluation has these fields.                                           *)
LEMMA EvaluationIsRecord ==
  ASSUME evaluator \in [Evaluators -> Evaluation], NEW e \in Evaluators
  PROVE  evaluator[e] \in Evaluation
OBVIOUS

(* An evaluation that is over leaves the others.                             *)
LEMMA EvaluationOver ==
  ASSUME AlertAssumption, evaluator \in [Evaluators -> Evaluation], NEW e \in Evaluators, Evaluated(e)
  PROVE  /\ evaluator' \in [Evaluators -> Evaluation] /\ evaluator'[e].pc = "idle"
         /\ \A d \in Evaluators : d # e => evaluator'[d] = evaluator[d]
<1>1. NotEvaluating.pc = "idle" BY Zenon DEF NotEvaluating
<1>2. evaluator'[e] = NotEvaluating /\ evaluator' \in [Evaluators -> Evaluation]
      /\ \A d \in Evaluators : d # e => evaluator'[d] = evaluator[d]
  BY NotEvaluatingTyped, EvaluatingTyped, Zenon DEF Evaluated
<1>. QED BY <1>1, <1>2, Zenon

(* What leaves the evidence leaves the condition.                            *)
LEMMA EvidenceSame ==
  ASSUME UNCHANGED <<kind, time, standing, captures, scheduled, warned>> PROVE HoldsNow' <=> HoldsNow
BY Zenon DEF HoldsNow, Holds, Useful, FailuresInARow, CapturedFailures

(* What a synchronisation makes of the row.                                  *)
LEMMA SyncedRow ==
  ASSUME RowTyped, NoAlertAssumption, NEW e \in Evaluators, SyncAlerts(e)
  PROVE  /\ (evaluator[e].holds <=> Active')
         /\ \/ /\ alert' # NoAlert /\ alert' \in Row
               /\ alert'.delivery = "pending" /\ alert'.attempts = 0 /\ alert'.next = 0
               /\ alert # NoAlert => alert'.opening = alert.opening + 1
               /\ sent' = 0 /\ tries' = 0 /\ mixedUp' = {}
            \/ /\ sent' = sent /\ tries' = tries /\ mixedUp' = mixedUp
               /\ alert = NoAlert <=> alert' = NoAlert
               /\ alert # NoAlert => /\ alert' \in Row
                                     /\ alert'.opening = alert.opening
                                     /\ alert'.delivery = alert.delivery
                                     /\ alert'.attempts = alert.attempts
                                     /\ alert'.next = alert.next
<1>1. CASE evaluator[e].holds /\ alert = NoAlert
  <2>1. /\ alert' = [id |-> 1, opening |-> 1, state |-> "open", delivery |-> "pending", attempts |-> 0, next |-> 0]
        /\ sent' = 0 /\ tries' = 0 /\ mixedUp' = {}
    BY <1>1, Zenon DEF SyncAlerts, Active
  <2>2. alert' \in Row BY <2>1, SMT DEF Row
  <2>3. alert' # NoAlert BY <2>2, Zenon DEF NoAlertAssumption
  <2>4. alert'.delivery = "pending" /\ alert'.attempts = 0 /\ alert'.next = 0 /\ alert'.state = "open"
    BY <2>1, SMT
  <2>. QED BY <1>1, <2>1, <2>2, <2>3, <2>4, Zenon DEF Active
<1>2. CASE evaluator[e].holds /\ alert # NoAlert /\ alert.state = "resolved"
  <2>1. /\ alert' = Opened(alert) /\ sent' = 0 /\ tries' = 0 /\ mixedUp' = {}
    BY <1>2, Zenon DEF SyncAlerts, SeenAgain, Active
  <2>2. alert \in Row BY <1>2 DEF RowTyped
  <2>3. alert' \in Row /\ alert' # NoAlert BY <2>1, <2>2, RowUpdated, Zenon
       DEF NoAlertAssumption
  <2>4. /\ alert'.delivery = "pending" /\ alert'.attempts = 0 /\ alert'.next = 0 /\ alert'.state = "open"
        /\ alert'.opening = alert.opening + 1
    BY <2>1, <2>2, SMT DEF Opened, Row
  <2>. QED BY <1>2, <2>1, <2>3, <2>4, Zenon DEF Active
<1>3. CASE evaluator[e].holds /\ alert # NoAlert /\ alert.state # "resolved"
  <2>1. alert' = alert /\ UNCHANGED <<sent, tries, mixedUp>> BY <1>3, Zenon
       DEF SyncAlerts, SeenAgain, Active
  <2>. QED BY <1>3, <2>1, Zenon DEF Active, RowTyped
<1>4. CASE ~evaluator[e].holds /\ Active
  <2>1. alert' = [alert EXCEPT !.state = "resolved"] /\ UNCHANGED <<sent, tries,
       mixedUp>> BY <1>4, Zenon DEF SyncAlerts, Resolved
  <2>2. alert \in Row /\ alert # NoAlert BY <1>4, Zenon DEF RowTyped, Active
  <2>3. alert' \in Row /\ alert' # NoAlert BY <2>1, <2>2, RowUpdated, Zenon
       DEF NoAlertAssumption
  <2>4. /\ alert'.opening = alert.opening /\ alert'.delivery = alert.delivery /\ alert'.next = alert.next
        /\ alert'.attempts = alert.attempts /\ alert'.state = "resolved"
    BY <2>1, <2>2, SMT DEF Row
  <2>. QED BY <1>4, <2>1, <2>2, <2>3, <2>4, Zenon DEF Active
<1>5. CASE ~evaluator[e].holds /\ ~Active /\ alert' = alert
  <2>1. UNCHANGED <<sent, tries, mixedUp>> BY <1>5, Zenon DEF SyncAlerts
  <2>. QED BY <1>5, <2>1, Zenon DEF Active, RowTyped
<1>6. CASE ~evaluator[e].holds /\ ~Active /\ alert' # alert
  <2>1. alert # NoAlert /\ alert' = [alert EXCEPT !.id = alert.opening + 1] /\ UNCHANGED <<sent, tries, mixedUp>>
    BY <1>6, Zenon DEF SyncAlerts
  <2>2. alert \in Row BY <2>1 DEF RowTyped
  <2>5. alert.opening + 1 \in Nat BY <2>2, SMT DEF Row
  <2>3. alert' \in Row /\ alert' # NoAlert BY <2>1, <2>2, <2>5, RowUpdated, Zenon
       DEF NoAlertAssumption
  <2>4. /\ alert'.opening = alert.opening /\ alert'.delivery = alert.delivery /\ alert'.next = alert.next
        /\ alert'.attempts = alert.attempts /\ alert'.state = alert.state
    BY <2>1, <2>2, SMT DEF Row
  <2>. QED BY <1>6, <2>1, <2>2, <2>3, <2>4, Zenon DEF Active
<1>. QED BY <1>1, <1>2, <1>3, <1>4, <1>5, <1>6, Zenon

(* A row that is active is there.                                            *)
LEMMA RowOpen ==
  ASSUME alert # NoAlert, alert' # NoAlert, alert.state = "open", alert'.state = "open"
  PROVE  Active /\ Active'
BY SMT DEF Active

(* One capture more leaves the captures captures.                            *)
CapturesTyped == captures \in Seq(Taken) /\ Len(captures) <= MaxCaptures

LEMMA CaptureTyped ==
  ASSUME ScalarsTyped, AlertAssumption, UNCHANGED time,
         NEW found \in {"fine", "low", "signed_out", "failed"}, Captured(found)
  PROVE  CapturesTyped'
<1>1. [found |-> found, at |-> time] \in Taken BY TimeIsNat, Zenon DEF Taken
<1>2. /\ captures \in Seq(Taken) /\ Len(captures) < MaxCaptures /\ MaxCaptures \in Nat
      /\ captures' = Append(captures, [found |-> found, at |-> time])
  BY Zenon DEF ScalarsTyped, Captured, AlertAssumption
<1>. QED BY <1>1, <1>2, SMT DEF CapturesTyped

(* What changes the evidence and outdates the evaluations keeps the          *)
(* invariant: nobody holds to it, and no attempt is touched.                 *)
LEMMA OutdatedKeeps ==
  ASSUME AlertInv, Outdate, UNCHANGED <<alert, sent, tries, mixedUp>>, ScalarsTyped',
         warned' \in BOOLEAN
  PROVE  AlertInv'
<1> USE DEF AlertInv, RowTyped, EvaluationsTyped, NoneYet, OfOpenings, OneAttempt, SentIsKnown,
     TriesCounted, Here, Underway
<1>1. /\ evaluator' \in [Evaluators -> Evaluation] /\ known' = FALSE
      /\ \A d \in Evaluators : /\ evaluator'[d].pc = evaluator[d].pc
                                /\ evaluator'[d].opening = evaluator[d].opening
                                /\ evaluator'[d].ok = evaluator[d].ok /\ ~evaluator'[d].current
  BY OutdatedTyped, Zenon DEF Outdate
<1>2. FlagsTyped' BY <1>1, Zenon DEF FlagsTyped
<1>3. RowTyped' /\ EvaluationsTyped' /\ NoneYet' BY <1>1, SMTT(40)
<1>4. HoldsToEvidence' BY <1>1, Zenon DEF HoldsToEvidence
<1>5. OfOpenings' /\ OneAttempt' /\ SentIsKnown' /\ TriesCounted' BY <1>1, SMTT(40)
<1>. QED BY <1>2, <1>3, <1>4, <1>5, SMT DEF AlertInv

(* Every step of an evaluation and of what happens meanwhile keeps the       *)
(* invariant.                                                                *)
LEMMA AlertStepKeeps ==
  ASSUME AlertInv, [AlertNext]_alertVars, AlertAssumption, NoAlertAssumption
  PROVE  AlertInv'
<1> USE AlertAssumption, NoAlertAssumption DEF AlertInv, FlagsTyped, ScalarsTyped,
     RowTyped, EvaluationsTyped, NoneYet, OfOpenings, OneAttempt, SentIsKnown,
     TriesCounted, Here, Underway
<1>a. /\ alert # NoAlert => alert.opening \in Nat /\ alert.attempts \in Nat
      /\ \A d \in Evaluators : evaluator[d].opening \in Nat
  BY RowFields, EvaluationFields, Zenon
<1>1. CASE UNCHANGED alertVars
  <2>1. /\ FlagsTyped' /\ ScalarsTyped' /\ RowTyped' /\ EvaluationsTyped'
        /\ NoneYet'
    BY <1>1, SMTT(40) DEF alertVars
  <2>2. HoldsToEvidence'
    BY <1>1, EvidenceSame, Zenon DEF alertVars, HoldsToEvidence, Active
  <2>3. /\ OfOpenings' /\ OneAttempt' /\ SentIsKnown' /\ TriesCounted'
    BY <1>1, SMTT(40) DEF alertVars
  <2>. QED BY <2>1, <2>2, <2>3, SMT DEF AlertInv
<1>2. ASSUME NEW e \in Evaluators, ReadEvidence(e)
      PROVE  AlertInv'
  <2>a. /\ evaluator' \in [Evaluators -> Evaluation]
        /\ \A d \in Evaluators : d # e => evaluator'[d] = evaluator[d]
        /\ evaluator'[e].pc = "sync" /\ (evaluator'[e].holds <=> HoldsNow)
    <3> DEFINE q == [NotEvaluating EXCEPT !.pc = "sync", !.holds = HoldsNow, !.now = time, !.current = TRUE]
    <3>1. q \in Evaluation
      BY NotEvaluatingTyped, EvaluationUpdated, HoldsBoolean, TimeIsNat, Zenon
    <3>2. Evaluating(e, q) BY <1>2, Zenon DEF ReadEvidence, HoldsNow
    <3>3. q.pc = "sync" /\ (q.holds <=> HoldsNow)
      BY Zenon DEF NotEvaluating
    <3> HIDE DEF q
    <3>4. /\ evaluator' \in [Evaluators -> Evaluation] /\ evaluator'[e] = q
          /\ \A d \in Evaluators : d # e => evaluator'[d] = evaluator[d]
      BY <3>1, <3>2, EvaluatingTyped, Zenon
    <3>. QED BY <3>3, <3>4, Zenon
  <2>b. /\ UNCHANGED <<kind, time, standing, captures, attempt, scheduled, warned, alert, known, sent, tries, mixedUp>> /\ evaluator[e].pc = "idle"
    BY <1>2, Zenon DEF ReadEvidence
  <2>d. HoldsNow' <=> HoldsNow BY <2>b, EvidenceSame, Zenon
  <2>1. FlagsTyped'
    BY <2>b, Zenon
  <2>2. /\ ScalarsTyped' /\ RowTyped' /\ EvaluationsTyped' /\ NoneYet'
    BY <2>a, <2>b, SMTT(40)
  <2>3. HoldsToEvidence'
    BY <2>a, <2>b, <2>d, Zenon DEF HoldsToEvidence, Active
  <2>4. /\ OfOpenings' /\ OneAttempt' /\ SentIsKnown' /\ TriesCounted'
    BY <2>a, <2>b, SMTT(40)
  <2>. QED BY <2>1, <2>2, <2>3, <2>4, SMT DEF AlertInv
<1>3. ASSUME NEW e \in Evaluators, SyncAlerts(e)
      PROVE  AlertInv'
  <2>a. /\ evaluator' \in [Evaluators -> Evaluation]
        /\ \A d \in Evaluators : d # e => evaluator'[d] = evaluator[d]
        /\ evaluator'[e].pc = "list"
    <3> DEFINE q == [NotEvaluating EXCEPT !.pc = "list", !.now = evaluator[e].now]
    <3>1. q \in Evaluation
      BY NotEvaluatingTyped, EvaluationUpdated, EvaluationFields, Zenon
    <3>2. Evaluating(e, q) BY <1>3, Zenon DEF SyncAlerts
    <3>3. q.pc = "list"
      BY Zenon DEF NotEvaluating
    <3> HIDE DEF q
    <3>4. /\ evaluator' \in [Evaluators -> Evaluation] /\ evaluator'[e] = q
          /\ \A d \in Evaluators : d # e => evaluator'[d] = evaluator[d]
      BY <3>1, <3>2, EvaluatingTyped, Zenon
    <3>. QED BY <3>3, <3>4, Zenon
  <2>b. /\ UNCHANGED <<kind, time, standing, captures, attempt, scheduled, warned>> /\ evaluator[e].pc = "sync"
    BY <1>3, Zenon DEF SyncAlerts
  <2>f. evaluator[e].holds <=> Active' BY <1>3, SyncedRow
  <2>h. known' \in BOOLEAN BY <1>3, EvaluationBooleans, Zenon DEF SyncAlerts
  <2>g. known' <=> evaluator[e].current BY <1>3, Zenon DEF SyncAlerts
  <2>c. \/ /\ alert' # NoAlert /\ alert' \in Row
           /\ alert'.delivery = "pending" /\ alert'.attempts = 0 /\ alert'.next = 0
           /\ alert # NoAlert => alert'.opening = alert.opening + 1
           /\ sent' = 0 /\ tries' = 0 /\ mixedUp' = {}
        \/ /\ sent' = sent /\ tries' = tries /\ mixedUp' = mixedUp
           /\ alert = NoAlert <=> alert' = NoAlert
           /\ alert # NoAlert => /\ alert' \in Row
                                 /\ alert'.opening = alert.opening
                                 /\ alert'.delivery = alert.delivery
                                 /\ alert'.attempts = alert.attempts
                                 /\ alert'.next = alert.next
    BY <1>3, SyncedRow
  <2>d. HoldsNow' <=> HoldsNow BY <2>b, EvidenceSame, Zenon
  <2>1. FlagsTyped'
    BY <2>b, <2>h, Zenon
  <2>2. ScalarsTyped'
    <3>1. UNCHANGED <<kind, time, standing, captures, attempt, scheduled>> BY <2>b
    <3>2. sent' \in Nat /\ tries' \in Nat BY <2>b, <2>c, SMT
    <3>3. mixedUp' \subseteq {"attempt", "unavailable"} BY <2>b, <2>c, Zenon
    <3>. QED BY <3>1, <3>2, <3>3, SMT
  <2>3. /\ RowTyped' /\ EvaluationsTyped'
    BY <2>a, <2>b, <2>c, SMTT(40)
  <2>4. NoneYet'
    BY <2>a, <2>b, <2>c, SMTT(40) DEF Active
  <2>5. HoldsToEvidence'
    BY <2>a, <2>b, <2>f, <2>g, <2>d, Zenon DEF HoldsToEvidence
  <2>6. /\ OfOpenings' /\ OneAttempt'
    BY <2>a, <2>b, <2>c, <1>a, SMTT(40)
  <2>7. /\ SentIsKnown' /\ TriesCounted'
    BY <2>a, <2>b, <2>c, SMTT(40)
  <2>. QED BY <2>1, <2>2, <2>3, <2>4, <2>5, <2>6, <2>7, SMT DEF AlertInv
<1>4. ASSUME NEW e \in Evaluators, ListAlerts(e)
      PROVE  AlertInv'
  <2>a. /\ evaluator' \in [Evaluators -> Evaluation]
        /\ \A d \in Evaluators : d # e => evaluator'[d] = evaluator[d]
        /\ evaluator'[e].pc \in {"idle", "due"}
        /\ evaluator'[e].pc = "due" => alert # NoAlert
    <3>1. CASE Evaluated(e) BY <3>1, EvaluationOver
    <3>2. ASSUME NEW native \in BOOLEAN, alert # NoAlert, DeliveryDue(alert, evaluator[e].now),
                 Evaluating(e, [evaluator[e] EXCEPT !.pc = "due", !.native = native, !.id = alert.id,
                                   !.attempts = alert.attempts, !.opening = alert.opening])
          PROVE  /\ evaluator' \in [Evaluators -> Evaluation]
                 /\ \A d \in Evaluators : d # e => evaluator'[d] = evaluator[d]
                 /\ evaluator'[e].pc = "due"
      <4> DEFINE q == [evaluator[e] EXCEPT !.pc = "due", !.native = native, !.id = alert.id,
                                   !.attempts = alert.attempts, !.opening = alert.opening]
      <4>1. /\ alert.attempts \in 0..(DeliveryMaxAttempts - 1)
            /\ alert.id \in Nat /\ alert.opening \in Nat
        BY <3>2, RowFields, SMT DEF DeliveryDue, AlertAssumption
      <4>2. q \in Evaluation /\ q.pc = "due"
        <5>1. evaluator[e] \in Evaluation OBVIOUS
        <5>2. q.pc = "due" BY <5>1, Zenon DEF Evaluation
        <5>. QED BY <4>1, <5>1, <5>2, EvaluationUpdated, Zenon
      <4>3. Evaluating(e, q) BY <3>2
      <4> HIDE DEF q
      <4>4. /\ evaluator' \in [Evaluators -> Evaluation] /\ evaluator'[e] = q
            /\ \A d \in Evaluators : d # e => evaluator'[d] = evaluator[d]
        BY <4>2, <4>3, EvaluatingTyped, Zenon
      <4>. QED BY <4>2, <4>4, Zenon
    <3>. QED BY <1>4, <3>1, <3>2, Zenon DEF ListAlerts
  <2>b. UNCHANGED <<kind, time, standing, captures, attempt, scheduled, warned, alert, known, sent, tries, mixedUp>>
    BY <1>4, Zenon DEF ListAlerts
  <2>d. HoldsNow' <=> HoldsNow BY <2>b, EvidenceSame, Zenon
  <2>1. FlagsTyped'
    BY <2>b, Zenon
  <2>2. /\ ScalarsTyped' /\ RowTyped' /\ EvaluationsTyped' /\ NoneYet'
    BY <2>a, <2>b, SMTT(40)
  <2>3. HoldsToEvidence'
    BY <2>a, <2>b, <2>d, Zenon DEF HoldsToEvidence, Active
  <2>4. /\ OfOpenings' /\ OneAttempt' /\ SentIsKnown' /\ TriesCounted'
    BY <2>a, <2>b, SMTT(40)
  <2>. QED BY <2>1, <2>2, <2>3, <2>4, SMT DEF AlertInv
<1>5. ASSUME NEW e \in Evaluators, RecordUnavailable(e)
      PROVE  AlertInv'
  <2>a. /\ evaluator' \in [Evaluators -> Evaluation] /\ evaluator'[e].pc = "idle"
        /\ \A d \in Evaluators : d # e => evaluator'[d] = evaluator[d]
    <3>1. Evaluated(e) BY <1>5, Zenon DEF RecordUnavailable
    <3>. QED BY <3>1, EvaluationOver
  <2>b. /\ UNCHANGED <<kind, time, standing, captures, attempt, scheduled, warned, known, sent, tries>>
        /\ evaluator[e].pc = "due"
    BY <1>5, Zenon DEF RecordUnavailable
  <2>c. \/ alert' = alert /\ mixedUp' = mixedUp
        \/ /\ alert # NoAlert /\ alert' \in Row /\ alert' # NoAlert
           /\ alert'.opening = alert.opening
           /\ alert'.attempts = evaluator[e].attempts /\ alert'.attempts < DeliveryMaxAttempts /\ alert'.attempts \in Nat
           /\ alert'.delivery = "unavailable" /\ alert.delivery \in Waiting
           /\ alert.state = "open" /\ alert'.state = "open"
           /\ \/ alert.attempts = evaluator[e].attempts /\ mixedUp' = mixedUp
              \/ mixedUp' = mixedUp \cup {"unavailable"}
    <3>1. alert # NoAlert /\ alert \in Row BY <2>b, SMT
    <3>2. /\ evaluator[e].attempts \in Nat /\ evaluator[e].now + UnavailableFor \in Nat
          /\ evaluator[e].attempts < DeliveryMaxAttempts
      BY EvaluationFields, SMT DEF UnavailableFor, AlertAssumption
    <3>3. CASE alert' = [alert EXCEPT !.delivery = "unavailable", !.attempts = evaluator[e].attempts,
                                     !.next = evaluator[e].now + UnavailableFor]
      <4>1. alert' \in Row BY <3>1, <3>2, <3>3, RowUpdated, Zenon
      <4>2. /\ alert'.opening = alert.opening /\ alert'.attempts = evaluator[e].attempts
            /\ alert'.delivery = "unavailable" /\ alert'.state = alert.state
        BY <3>1, <3>3, Zenon DEF Row
      <4>3. alert' # NoAlert BY <4>1, Zenon DEF NoAlertAssumption
      <4>. QED BY <1>5, <3>2, <4>1, <4>2, <4>3, SMT DEF RecordUnavailable
    <3>. QED BY <1>5, <3>3, SMT DEF RecordUnavailable
  <2>d. HoldsNow' <=> HoldsNow BY <2>b, EvidenceSame, Zenon
  <2>i. Active' <=> Active
    <3>1. CASE alert' = alert BY <3>1, Zenon DEF Active
    <3>2. CASE alert' # alert BY <2>c, <3>2, RowOpen, Zenon
    <3>. QED BY <3>1, <3>2
  <2>1. FlagsTyped'
    BY <2>b, Zenon
  <2>2. ScalarsTyped'
    <3>1. UNCHANGED <<kind, time, standing, captures, attempt, scheduled>> BY <2>b
    <3>2. sent' \in Nat /\ tries' \in Nat BY <2>b, <2>c, SMT
    <3>3. mixedUp' \subseteq {"attempt", "unavailable"} BY <2>b, <2>c, Zenon
    <3>. QED BY <3>1, <3>2, <3>3, SMT
  <2>3. /\ RowTyped' /\ EvaluationsTyped' /\ NoneYet'
    BY <2>a, <2>b, <2>c, <1>a, SMTT(40) DEF Waiting
  <2>4. HoldsToEvidence'
    BY <2>a, <2>b, <2>d, <2>i, Zenon DEF HoldsToEvidence
  <2>5. OfOpenings'
    BY <2>a, <2>b, <2>c, <1>a, SMTT(40) DEF Waiting
  <2>6. OneAttempt'
    BY <2>a, <2>b, <2>c, <1>a, SMTT(40) DEF Waiting
  <2>7. SentIsKnown'
    BY <2>a, <2>b, <2>c, <1>a, SMTT(40) DEF Waiting
  <2>8. TriesCounted'
    BY <2>a, <2>b, <2>c, <1>a, SMTT(40) DEF Waiting
  <2>. QED BY <2>1, <2>2, <2>3, <2>4, <2>5, <2>6, <2>7, <2>8, SMT DEF AlertInv
<1>6. ASSUME NEW e \in Evaluators, ClaimAlertDelivery(e)
      PROVE  AlertInv'
  <2>b. /\ UNCHANGED <<kind, time, standing, captures, attempt, scheduled, warned, known, sent, mixedUp>>
        /\ evaluator[e].pc = "due" /\ alert # NoAlert /\ alert \in Row
    <3>1. UNCHANGED <<kind, time, standing, captures, attempt, scheduled, warned, known, sent, mixedUp>> /\ evaluator[e].pc = "due"
      BY <1>6, Zenon DEF ClaimAlertDelivery
    <3>. QED BY <3>1, SMT
  <2>a. /\ evaluator' \in [Evaluators -> Evaluation]
        /\ \A d \in Evaluators : d # e => evaluator'[d] = evaluator[d]
        /\ \/ /\ evaluator'[e].pc = "idle" /\ alert' = alert /\ tries' = tries
           \/ /\ evaluator'[e].pc = "deliver" /\ evaluator'[e].opening = alert.opening
              /\ Claimable(evaluator[e]) /\ tries' = tries + 1
              /\ alert' = [alert EXCEPT !.delivery = "attempting", !.attempts = alert.attempts + 1, !.next = 0]
    <3>1. CASE Claimable(evaluator[e])
      <4> DEFINE q == [evaluator[e] EXCEPT !.pc = "deliver", !.opening = alert.opening]
      <4>1. alert.opening \in Nat BY <2>b, RowFields
      <4>2. evaluator[e] \in Evaluation OBVIOUS
      <4>3. q \in Evaluation BY <4>1, <4>2, EvaluationUpdated, Zenon
      <4>4. q.pc = "deliver" /\ q.opening = alert.opening BY <4>2, Zenon DEF Evaluation
      <4>5. /\ Evaluating(e, q) /\ tries' = tries + 1
            /\ alert' = [alert EXCEPT !.delivery = "attempting", !.attempts = alert.attempts + 1, !.next = 0]
        BY <1>6, <3>1 DEF ClaimAlertDelivery
      <4> HIDE DEF q
      <4>6. /\ evaluator' \in [Evaluators -> Evaluation] /\ evaluator'[e] = q
            /\ \A d \in Evaluators : d # e => evaluator'[d] = evaluator[d]
        BY <4>3, <4>5, EvaluatingTyped, Zenon
      <4>. QED BY <3>1, <4>4, <4>5, <4>6, Zenon
    <3>2. CASE ~Claimable(evaluator[e])
      <4>1. NotEvaluating.pc = "idle" BY Zenon DEF NotEvaluating
      <4>2. Evaluating(e, NotEvaluating) /\ alert' = alert /\ tries' = tries
        BY <1>6, <3>2, Zenon DEF ClaimAlertDelivery, Evaluated
      <4>3. /\ evaluator' \in [Evaluators -> Evaluation] /\ evaluator'[e] = NotEvaluating
            /\ \A d \in Evaluators : d # e => evaluator'[d] = evaluator[d]
        BY <4>2, NotEvaluatingTyped, EvaluatingTyped, Zenon
      <4>. QED BY <4>1, <4>2, <4>3
    <3>. QED BY <3>1, <3>2
  <2>c. \/ /\ evaluator'[e].pc = "idle" /\ alert' = alert /\ tries' = tries
        \/ /\ evaluator'[e].pc = "deliver" /\ evaluator'[e].opening = alert.opening
           /\ alert' \in Row /\ alert' # NoAlert /\ alert'.delivery = "attempting"
           /\ alert.delivery \in Waiting /\ alert'.attempts = alert.attempts + 1
           /\ alert'.attempts \in Nat /\ alert'.attempts <= DeliveryMaxAttempts
           /\ alert'.opening = alert.opening /\ tries' = tries + 1
           /\ alert # NoAlert /\ alert.state = "open" /\ alert'.state = "open"
    <3>1. CASE alert' = alert /\ tries' = tries /\ evaluator'[e].pc = "idle" BY <3>1
    <3>2. CASE /\ Claimable(evaluator[e]) /\ tries' = tries + 1
               /\ alert' = [alert EXCEPT !.delivery = "attempting", !.attempts = alert.attempts + 1, !.next = 0]
               /\ evaluator'[e].pc = "deliver" /\ evaluator'[e].opening = alert.opening
      <4>1. /\ alert.delivery \in Waiting /\ alert.state = "open"
            /\ alert.attempts + 1 \in Nat /\ alert.attempts + 1 <= DeliveryMaxAttempts /\ 0 \in Nat
        BY <2>b, <3>2, RowFields, SMTT(40) DEF Claimable, AlertAssumption
      <4>2. alert' \in Row BY <2>b, <3>2, <4>1, RowUpdated, Zenon
      <4>3. /\ alert'.delivery = "attempting" /\ alert'.attempts = alert.attempts + 1
            /\ alert'.opening = alert.opening /\ alert'.state = alert.state
        BY <2>b, <3>2, Zenon DEF Row
      <4>4. alert' # NoAlert BY <4>2, Zenon DEF NoAlertAssumption
      <4>. QED BY <2>b, <3>2, <4>1, <4>2, <4>3, <4>4, Zenon
    <3>. QED BY <2>a, <3>1, <3>2
  <2>e. /\ evaluator' \in [Evaluators -> Evaluation]
        /\ \A d \in Evaluators : d # e => evaluator'[d] = evaluator[d]
        /\ evaluator'[e].pc \in {"idle", "deliver"}
    BY <2>a, <2>c
  <2>d. HoldsNow' <=> HoldsNow BY <2>b, EvidenceSame, Zenon
  <2>i. Active' <=> Active
    <3>1. CASE alert' = alert BY <3>1, Zenon DEF Active
    <3>2. CASE alert' # alert BY <2>c, <3>2, RowOpen, Zenon
    <3>. QED BY <3>1, <3>2
  <2>1. FlagsTyped'
    BY <2>b, Zenon
  <2>2. ScalarsTyped'
    <3>1. UNCHANGED <<kind, time, standing, captures, attempt, scheduled>> BY <2>b
    <3>2. sent' \in Nat /\ tries' \in Nat BY <2>b, <2>c, SMT
    <3>3. mixedUp' \subseteq {"attempt", "unavailable"} BY <2>b, <2>c, Zenon
    <3>. QED BY <3>1, <3>2, <3>3, SMT
  <2>3. /\ RowTyped' /\ EvaluationsTyped' /\ NoneYet'
    BY <2>b, <2>c, <2>e, <1>a, SMTT(40) DEF Waiting
  <2>4. HoldsToEvidence'
    BY <2>e, <2>b, <2>d, <2>i, Zenon DEF HoldsToEvidence
  <2>5. /\ OfOpenings' /\ OneAttempt' /\ SentIsKnown' /\ TriesCounted'
    BY <2>b, <2>c, <2>e, <1>a, SMTT(40) DEF Waiting
  <2>. QED BY <2>1, <2>2, <2>3, <2>4, <2>5, SMT DEF AlertInv
<1>7. ASSUME NEW e \in Evaluators, NEW ok \in BOOLEAN, Deliver(e, ok)
      PROVE  AlertInv'
  <2>a. /\ evaluator' \in [Evaluators -> Evaluation]
        /\ \A d \in Evaluators : d # e => evaluator'[d] = evaluator[d]
        /\ evaluator'[e].pc = "record" /\ evaluator'[e].opening = evaluator[e].opening /\ (evaluator'[e].ok <=> ok)
    <3> DEFINE q == [evaluator[e] EXCEPT !.pc = "record", !.ok = ok]
    <3>1. q \in Evaluation
      BY EvaluationUpdated, Zenon
    <3>2. Evaluating(e, q) BY <1>7, Zenon DEF Deliver, AlertStep
    <3>3. q.pc = "record" /\ q.opening = evaluator[e].opening /\ (q.ok <=> ok)
      BY EvaluationIsRecord, ZenonT(60) DEF Evaluation
    <3> HIDE DEF q
    <3>4. /\ evaluator' \in [Evaluators -> Evaluation] /\ evaluator'[e] = q
          /\ \A d \in Evaluators : d # e => evaluator'[d] = evaluator[d]
      BY <3>1, <3>2, EvaluatingTyped, Zenon
    <3>. QED BY <3>3, <3>4, Zenon
  <2>b. /\ UNCHANGED <<kind, time, standing, captures, attempt, scheduled, warned, alert, known, tries, mixedUp>> /\ evaluator[e].pc = "deliver"
    BY <1>7, Zenon DEF Deliver
  <2>c. \/ sent' = sent + 1 /\ ok /\ alert.opening = evaluator[e].opening
        \/ sent' = sent /\ ~(ok /\ alert.opening = evaluator[e].opening)
    BY <1>7, Zenon DEF Deliver
  <2>d. HoldsNow' <=> HoldsNow BY <2>b, EvidenceSame, Zenon
  <2>1. FlagsTyped'
    BY <2>b, Zenon
  <2>2. /\ ScalarsTyped' /\ RowTyped' /\ EvaluationsTyped' /\ NoneYet'
    BY <2>a, <2>b, <2>c, <1>a, SMTT(40)
  <2>3. HoldsToEvidence'
    BY <2>a, <2>b, <2>d, Zenon DEF HoldsToEvidence, Active
  <2>4. OfOpenings'
    BY <2>a, <2>b, <2>c, <1>a, SMTT(40)
  <2>5. OneAttempt'
    BY <2>a, <2>b, <2>c, <1>a, SMTT(40)
  <2>6. SentIsKnown'
    BY <2>a, <2>b, <2>c, <1>a, SMTT(40)
  <2>7. TriesCounted'
    BY <2>a, <2>b, <2>c, <1>a, SMTT(40)
  <2>. QED BY <2>1, <2>2, <2>3, <2>4, <2>5, <2>6, <2>7, SMT DEF AlertInv
<1>8. ASSUME NEW e \in Evaluators, NEW works \in BOOLEAN, RecordAlertDelivery(e, works)
      PROVE  AlertInv'
  <2>a. /\ evaluator' \in [Evaluators -> Evaluation] /\ evaluator'[e].pc = "idle"
        /\ \A d \in Evaluators : d # e => evaluator'[d] = evaluator[d]
    <3>1. Evaluated(e) BY <1>8, Zenon DEF RecordAlertDelivery
    <3>. QED BY <3>1, EvaluationOver
  <2>b. UNCHANGED <<kind, time, standing, captures, attempt, scheduled, warned, known, sent, tries>> /\ evaluator[e].pc = "record"
    BY <1>8, Zenon DEF RecordAlertDelivery
  <2>c. \/ alert' = alert /\ mixedUp' = mixedUp
        \/ /\ alert # NoAlert /\ alert' \in Row /\ alert' # NoAlert
           /\ alert'.opening = alert.opening /\ alert'.attempts = alert.attempts
           /\ alert'.attempts \in Nat
           /\ alert.delivery = "attempting" /\ alert.state = "open" /\ alert'.state = "open"
           /\ \/ evaluator[e].ok /\ alert'.delivery = "delivered"
              \/ ~evaluator[e].ok /\ alert'.delivery = "failed"
           /\ \/ alert.opening = evaluator[e].opening /\ mixedUp' = mixedUp
              \/ mixedUp' = mixedUp \cup {"attempt"}
    <3>1. alert # NoAlert /\ alert \in Row BY <2>b, SMT
    <3> DEFINE attempts == evaluator[e].attempts + 1
               next == IF evaluator[e].ok \/ attempts >= DeliveryMaxAttempts THEN 0 ELSE evaluator[e].now + RetryAfter(attempts)
               delivery == IF evaluator[e].ok THEN "delivered" ELSE "failed"
    <3>2. next \in Nat
      <4>1. RetryAfter(attempts) \in Nat BY SMT DEF RetryAfter
      <4>2. evaluator[e].now + RetryAfter(attempts) \in Nat
        <5>1. evaluator[e].now \in Nat BY EvaluationFields, Zenon
        <5>. QED BY <4>1, <5>1, SMT
      <4>3. 0 \in Nat BY SMT
      <4> HIDE DEF attempts
      <4>. QED BY <4>2, <4>3, Zenon
    <3>3. CASE alert' = [alert EXCEPT !.delivery = delivery, !.next = next] /\ alert.delivery = "attempting" /\ alert.state = "open"
      <4> HIDE DEF next
      <4>1. alert' \in Row BY <3>1, <3>2, <3>3, RowUpdated, Zenon
      <4>2. /\ alert'.opening = alert.opening /\ alert'.attempts = alert.attempts
            /\ alert'.delivery = delivery /\ alert'.state = alert.state
        BY <3>1, <3>3, Zenon DEF Row
      <4>3. alert' # NoAlert BY <4>1, Zenon DEF NoAlertAssumption
      <4>4. \/ alert.opening = evaluator[e].opening /\ mixedUp' = mixedUp
            \/ mixedUp' = mixedUp \cup {"attempt"}
            \/ alert' = alert /\ mixedUp' = mixedUp
        BY <1>8, Zenon DEF RecordAlertDelivery
      <4>5. \/ evaluator[e].ok /\ alert'.delivery = "delivered"
            \/ ~evaluator[e].ok /\ alert'.delivery = "failed"
        BY <4>2, Zenon
      <4>6. alert'.attempts \in Nat BY <4>1, RowFields
      <4> HIDE DEF delivery
      <4>. QED BY <3>1, <3>3, <4>1, <4>2, <4>3, <4>4, <4>5, <4>6
    <3>. QED BY <1>8, <3>3, Zenon DEF RecordAlertDelivery, Outcome
  <2>d. HoldsNow' <=> HoldsNow BY <2>b, EvidenceSame, Zenon
  <2>i. Active' <=> Active
    <3>1. CASE alert' = alert BY <3>1, Zenon DEF Active
    <3>2. CASE alert' # alert BY <2>c, <3>2, RowOpen, Zenon
    <3>. QED BY <3>1, <3>2
  <2>1. FlagsTyped'
    BY <2>b, Zenon
  <2>2. ScalarsTyped'
    <3>1. UNCHANGED <<kind, time, standing, captures, attempt, scheduled>> BY <2>b
    <3>2. sent' \in Nat /\ tries' \in Nat BY <2>b, <2>c, SMT
    <3>3. mixedUp' \subseteq {"attempt", "unavailable"} BY <2>b, <2>c, Zenon
    <3>. QED BY <3>1, <3>2, <3>3, SMT
  <2>3. /\ RowTyped' /\ EvaluationsTyped' /\ NoneYet'
    BY <2>a, <2>b, <2>c, <1>a, SMTT(40)
  <2>4. HoldsToEvidence'
    BY <2>a, <2>b, <2>d, <2>i, Zenon DEF HoldsToEvidence
  <2>5. /\ OfOpenings' /\ OneAttempt' /\ SentIsKnown' /\ TriesCounted'
    BY <2>a, <2>b, <2>c, <1>a, SMTT(40)
  <2>. QED BY <2>1, <2>2, <2>3, <2>4, <2>5, SMT DEF AlertInv
<1>9. ASSUME NEW found \in {"fine", "low", "signed_out", "failed"}, CaptureStored(found)
      PROVE  AlertInv'
  <2>1. Captured(found) /\ UNCHANGED <<kind, time, standing, attempt, scheduled, sent, tries, mixedUp>>
    BY <1>9, Zenon DEF CaptureStored
  <2>2. CapturesTyped' BY <2>1, CaptureTyped
  <2>3. ScalarsTyped' BY <2>1, <2>2, Zenon DEF CapturesTyped
  <2>. QED BY <1>9, <2>3, OutdatedKeeps, Zenon DEF CaptureStored
<1>14. ASSUME NEW found \in {"fine", "low", "signed_out", "failed"}, ScheduledRefresh(found)
      PROVE  AlertInv'
  <2>1. /\ Captured(found) \/ UNCHANGED captures
        /\ UNCHANGED <<kind, time, standing, scheduled, sent, tries, mixedUp>>
        /\ attempt' \in {"none", "ok", "failed"}
    BY <1>14, Zenon DEF ScheduledRefresh
  <2>2. CapturesTyped'
    <3>1. CASE Captured(found) BY <3>1, <2>1, CaptureTyped
    <3>2. CASE UNCHANGED captures BY <3>2, Zenon DEF CapturesTyped
    <3>. QED BY <2>1, <3>1, <3>2
  <2>3. ScalarsTyped' BY <2>1, <2>2, Zenon DEF CapturesTyped
  <2>. QED BY <1>14, <2>3, OutdatedKeeps, Zenon DEF ScheduledRefresh
<1>15. CASE AttemptRecorded
  <2>1. UNCHANGED <<kind, time, standing, captures, sent, tries, mixedUp>> /\ attempt' = "none"
    BY <1>15, Zenon DEF AttemptRecorded
  <2>2. scheduled' \in 0..RepeatedFailureCount BY <1>15, SMT DEF AttemptRecorded, AlertAssumption
  <2>3. ScalarsTyped' BY <2>1, <2>2, Zenon
  <2>. QED BY <1>15, <2>3, OutdatedKeeps, Zenon DEF AttemptRecorded
<1>16. CASE StandingChanges
  <2>1. /\ UNCHANGED <<kind, time, captures, attempt, scheduled, sent, tries, mixedUp>>
        /\ standing' \in {"ready", "needs_reauthentication", "quarantined"}
    BY <1>16, Zenon DEF StandingChanges
  <2>2. ScalarsTyped' BY <2>1, Zenon
  <2>. QED BY <1>16, <2>2, OutdatedKeeps, Zenon DEF StandingChanges
<1>10. CASE SetThreshold
  <2>1. UNCHANGED <<kind, time, standing, captures, attempt, scheduled, sent, tries, mixedUp>>
    BY <1>10, Zenon DEF SetThreshold
  <2>2. ScalarsTyped' BY <2>1, Zenon
  <2>3. warned' \in BOOLEAN BY <1>10, Zenon DEF SetThreshold
  <2>. QED BY <1>10, <2>2, <2>3, OutdatedKeeps, Zenon DEF SetThreshold
<1>11. CASE AcknowledgeAlert
  <2>b. UNCHANGED <<kind, time, standing, captures, attempt, scheduled, warned, evaluator, known, sent, tries, mixedUp>>
    BY <1>11, Zenon DEF AcknowledgeAlert
  <2>c. /\ alert # NoAlert /\ alert.state = "open" /\ alert' \in Row /\ alert' # NoAlert
        /\ alert'.opening = alert.opening /\ alert'.attempts = alert.attempts
        /\ alert'.delivery = alert.delivery /\ alert'.next = alert.next /\ alert'.state = "acknowledged"
    <3>1. alert # NoAlert /\ alert.state = "open" /\ alert' = [alert EXCEPT !.state = "acknowledged"] /\ alert \in Row
      BY <1>11, Zenon DEF AcknowledgeAlert
    <3>2. alert' \in Row BY <3>1, RowUpdated, Zenon
    <3>3. alert' # NoAlert BY <3>2, Zenon DEF NoAlertAssumption
    <3>. QED BY <3>1, <3>2, <3>3, SMT DEF Row
  <2>i. Active' <=> Active BY <2>c, SMT DEF Active
  <2>d. HoldsNow' <=> HoldsNow BY <2>b, EvidenceSame, Zenon
  <2>1. FlagsTyped'
    BY <2>b, Zenon
  <2>2. /\ ScalarsTyped' /\ RowTyped' /\ EvaluationsTyped' /\ NoneYet'
    BY <2>b, <2>c, SMTT(40)
  <2>3. HoldsToEvidence'
    BY <2>b, <2>d, <2>i, Zenon DEF HoldsToEvidence
  <2>4. /\ OfOpenings' /\ OneAttempt' /\ SentIsKnown' /\ TriesCounted'
    BY <2>b, <2>c, SMTT(40)
  <2>. QED BY <2>1, <2>2, <2>3, <2>4, SMT DEF AlertInv
<1>12. CASE AlertCrash
  <2>a. /\ evaluator' \in [Evaluators -> Evaluation]
        /\ \A d \in Evaluators : evaluator'[d].pc = "idle"
    <3>1. NotEvaluating.pc = "idle" BY Zenon DEF NotEvaluating
    <3>. QED BY <1>12, <3>1, NotEvaluatingTyped, Zenon DEF AlertCrash
  <2>b. /\ UNCHANGED <<kind, time, standing, captures, scheduled, warned, alert, known, sent, tries, mixedUp>>
        /\ attempt' = "none"
    BY <1>12, Zenon DEF AlertCrash
  <2>d. HoldsNow' <=> HoldsNow BY <2>b, EvidenceSame, Zenon
  <2>1. FlagsTyped'
    BY <2>b, Zenon
  <2>2. /\ ScalarsTyped' /\ RowTyped' /\ EvaluationsTyped' /\ NoneYet'
    BY <2>a, <2>b, SMTT(40)
  <2>3. HoldsToEvidence'
    BY <2>a, <2>b, <2>d, Zenon DEF HoldsToEvidence, Active
  <2>4. /\ OfOpenings' /\ OneAttempt' /\ SentIsKnown' /\ TriesCounted'
    BY <2>a, <2>b, SMTT(40)
  <2>. QED BY <2>1, <2>2, <2>3, <2>4, SMT DEF AlertInv
<1>13. CASE AlertClock
  <2>1. UNCHANGED <<kind, standing, captures, attempt, scheduled, sent, tries, mixedUp>>
    BY <1>13, Zenon DEF AlertClock
  <2>2. time' \in 0..MaxAlertTime BY <1>13, SMT DEF AlertClock, AlertAssumption
  <2>3. ScalarsTyped' BY <2>1, <2>2, Zenon
  <2>. QED BY <1>13, <2>3, OutdatedKeeps, Zenon DEF AlertClock
<1>. QED BY <1>1, <1>2, <1>3, <1>4, <1>5, <1>6, <1>7, <1>8, <1>9, <1>10,
   <1>11, <1>12, <1>13, <1>14, <1>15, <1>16 DEF AlertNext

(* The last capture that tells something is found by going back.             *)
LEMMA UsefulIsLast ==
  ASSUME captures \in Seq(Taken), captures # <<>>
  PROVE  Useful \in DOMAIN captures /\ \A i \in DOMAIN captures : LastToTell(i) <=> i = Useful
<1> DEFINE n == Len(captures)
           some == {i \in DOMAIN captures : captures[i].found # "failed"}
           among == IF some = {} THEN DOMAIN captures ELSE some
<1>1. n \in Nat /\ n >= 1 /\ DOMAIN captures = 1..n
  BY SMT
<1> HIDE DEF n
<1>2. among \in SUBSET (1..n) /\ among # {}
  <2>1. 1 \in 1..n BY <1>1, SMT
  <2>. QED BY <1>1, <2>1, Zenon
<1>3. PICK m \in among : \A j \in among : j <= m
  <2> HIDE DEF among
  <2>. QED BY <1>1, <1>2, HasGreatest
<1>4. \A i \in among : (\A j \in among : j <= i) => i = m
  <2> HIDE DEF among
  <2>1. \A i \in among : i \in Int BY <1>2, SMT
  <2>. QED BY <1>2, <1>3, <2>1, SMT
<1>5. Useful = m
  <2>1. Useful = CHOOSE i \in among : \A j \in among : j <= i BY Zenon DEF Useful
  <2> HIDE DEF among
  <2>. QED BY <1>3, <1>4, <2>1, Zenon
<1>6. CASE some = {}
  <2>1. m = n BY <1>1, <1>3, <1>6, SMT
  <2>2. \A i \in DOMAIN captures : LastToTell(i) <=> i = Len(captures) BY <1>6, Zenon
       DEF LastToTell, Tells
  <2>3. m \in DOMAIN captures BY <1>1, <1>3, <1>6
  <2>. QED BY <1>5, <2>1, <2>2, <2>3 DEF n
<1>7. CASE some # {}
  <2>1. m \in some /\ \A j \in some : j <= m BY <1>3, <1>7
  <2>2. \A i \in some : (\A j \in some : j <= i) => i = m BY <1>4, <1>7
  <2>. QED BY <1>5, <1>7, <2>1, <2>2, Zenon DEF LastToTell, Tells
<1>. QED BY <1>6, <1>7

(* The failures that were captured are as many as the last captures say.     *)
LEMMA FailuresCounted ==
  ASSUME captures \in Seq(Taken), captures # <<>>, AlertAssumption
  PROVE  /\ CapturedFailures \in Nat
         /\ CapturedFailures >= RepeatedFailureCount <=> LastFailed
<1> DEFINE n == Len(captures)
           Failed(j) == captures[j].found = "failed"
           F == {i \in DOMAIN captures : \A j \in i..n : Failed(j)}
           R == RepeatedFailureCount
           InARow == n >= R /\ \A i \in 0..(R - 1) : Failed(n - i)
<1>1. n \in Nat /\ n >= 1 /\ DOMAIN captures = 1..n BY SMT
<1>2. R \in Nat /\ R >= 1 BY SMT DEF AlertAssumption
<1>3. CapturedFailures = Cardinality(F) /\ (LastFailed <=> InARow)
  BY Zenon DEF CapturedFailures, LastFailed
<1> HIDE DEF n, R, Failed
<1>4. CASE F = {}
  <2>1. ~Failed(n)
    <3>1. n \in 1..n /\ \A j \in n..n : j = n BY <1>1, SMT
    <3>. QED BY <1>1, <1>4, <3>1, Zenon
  <2>2. ~InARow
    <3>1. 0 \in 0..(R - 1) /\ n - 0 = n BY <1>1, <1>2, SMT
    <3>. QED BY <2>1, <3>1, Zenon
  <2>3. Cardinality(F) = 0 BY <1>4, FS_EmptySet
  <2>. QED BY <1>2, <1>3, <2>2, <2>3, SMT DEF R
<1>5. CASE F # {}
  <2>1. F \in SUBSET Nat BY <1>1, SMT
  <2>2. PICK m \in F : \A k \in F : m <= k
    <3> HIDE DEF F
    <3>. QED BY <1>5, <2>1, HasLeast
  <2>3. F = m..n
    <3>1. m \in 1..n /\ \A j \in m..n : Failed(j) BY <1>1
    <3>2. \A i \in m..n : i \in 1..n /\ i..n \subseteq m..n BY <1>1, <3>1, SMT
    <3>3. m..n \subseteq F BY <1>1, <3>1, <3>2, Zenon
    <3>4. \A i \in F : i \in 1..n /\ m <= i BY <1>1, <2>2, Zenon
    <3>5. F \subseteq m..n
      <4> HIDE DEF F
      <4>. QED BY <1>1, <3>1, <3>4, SMT
    <3>. QED BY <3>3, <3>5
  <2>4. m \in 1..n BY <1>1
  <2>5. Cardinality(F) = n - m + 1
    <3>1. Cardinality(m..n) = IF m > n THEN 0 ELSE n - m + 1
      BY <1>1, <2>4, FS_Interval, SMT
    <3>2. Cardinality(m..n) = n - m + 1 BY <1>1, <2>4, <3>1, SMT
    <3>. QED BY <2>3, <3>2, Zenon
  <2>6. ASSUME Cardinality(F) >= R PROVE InARow
    <3>1. \A i \in 0..(R - 1) : n - i \in m..n BY <1>1, <1>2, <2>4, <2>5, <2>6, SMT
    <3>2. \A j \in m..n : Failed(j) BY <2>3
    <3>3. n >= R BY <1>1, <1>2, <2>4, <2>5, <2>6, SMT
    <3>. QED BY <3>1, <3>2, <3>3, Zenon
  <2>7. ASSUME InARow PROVE Cardinality(F) >= R
    <3>1. n - R + 1 \in 1..n BY <1>1, <1>2, <2>7, SMT
    <3>2. ASSUME NEW j \in (n - R + 1)..n PROVE Failed(j)
      <4>1. n - j \in 0..(R - 1) /\ n - (n - j) = j BY <1>1, <1>2, <3>1, SMT
      <4>. QED BY <2>7, <4>1, Zenon
    <3>3. n - R + 1 \in F BY <1>1, <3>1, <3>2
    <3>4. m <= n - R + 1 BY <2>2, <3>3
    <3>. QED BY <1>1, <1>2, <2>4, <2>5, <3>4, SMT
  <2>8. Cardinality(F) \in Nat BY <1>1, <2>4, <2>5, SMT
  <2>. QED BY <1>3, <2>6, <2>7, <2>8 DEF R
<1>. QED BY <1>4, <1>5

(* So are the failures in a row, with those the scheduler has recorded.      *)
LEMMA InARowIs ==
  ASSUME CapturedFailures \in Nat, AlertAssumption, scheduled \in 0..RepeatedFailureCount
  PROVE  FailuresInARow >= RepeatedFailureCount
           <=> CapturedFailures >= RepeatedFailureCount \/ scheduled = RepeatedFailureCount
<1> DEFINE c == CapturedFailures
<1>1. c \in Nat OBVIOUS
<1>2. FailuresInARow = IF scheduled > c THEN scheduled ELSE c BY Zenon DEF FailuresInARow
<1> HIDE DEF c
<1>3. FailuresInARow >= RepeatedFailureCount
        <=> c >= RepeatedFailureCount \/ scheduled = RepeatedFailureCount
  BY <1>1, <1>2, SMT DEF AlertAssumption
<1>. QED BY <1>3 DEF c

(* The condition the code evaluates is the one the evidence calls for.       *)
LEMMA HoldsIsCalledFor ==
  ASSUME captures \in Seq(Taken), AlertAssumption, time \in Nat,
         scheduled \in 0..RepeatedFailureCount
  PROVE  Holds(kind) <=> CalledFor
<1>1. CASE captures = <<>>
  <2>1. DOMAIN captures = {} /\ Len(captures) = 0 BY <1>1, SMT
  <2>2. ~LastFailed BY <2>1, SMT DEF AlertAssumption, LastFailed
  <2>3. CapturedFailures = 0
    <3>1. {i \in DOMAIN captures : \A j \in i..Len(captures) : captures[j].found = "failed"} = {}
      BY <2>1, Zenon
    <3>. QED BY <3>1, FS_EmptySet, Zenon DEF CapturedFailures
  <2>4. FailuresInARow >= RepeatedFailureCount <=> scheduled = RepeatedFailureCount
    BY <2>3, InARowIs, SMT DEF AlertAssumption
  <2>. QED BY <1>1, <2>1, <2>2, <2>4, Zenon DEF Holds, CalledFor
<1>2. CASE captures # <<>>
  <2>1. Useful \in DOMAIN captures /\ \A i \in DOMAIN captures : LastToTell(i) <=> i = Useful
    BY <1>2, UsefulIsLast
  <2>2. time - captures[Useful].at > StaleAfter <=> time > captures[Useful].at + StaleAfter
    <3>2. captures[Useful] \in Taken BY <2>1
    <3>1. captures[Useful].at \in Nat BY <3>2, SMT DEF Taken
    <3>. QED BY <3>1, SMT DEF AlertAssumption
  <2>3. FailuresInARow >= RepeatedFailureCount <=> LastFailed \/ scheduled = RepeatedFailureCount
    BY <1>2, FailuresCounted, InARowIs, Zenon
  <2>. QED BY <1>2, <2>1, <2>2, <2>3, Zenon DEF Holds, CalledFor
<1>. QED BY <1>1, <1>2

(* The inductive invariant has what the runs check.                          *)
LEMMA AlertInvImplies ==
  ASSUME AlertInv, AlertAssumption, NoAlertAssumption PROVE AlertsTold
<1> USE DEF AlertInv
<1>1. AlertTypeOK
  <2>1. /\ kind \in Kinds /\ time \in 0..MaxAlertTime /\ Len(captures) <= MaxCaptures
        /\ standing \in {"ready", "needs_reauthentication", "quarantined"}
        /\ attempt \in {"none", "ok", "failed"} /\ scheduled \in 0..RepeatedFailureCount
        /\ sent \in Nat /\ tries \in Nat /\ mixedUp \subseteq {"attempt", "unavailable"}
    BY Zenon DEF ScalarsTyped
  <2>2. known \in BOOLEAN BY Zenon DEF FlagsTyped
  <2>3. /\ alert = NoAlert \/ alert \in Row
        /\ alert # NoAlert => alert.attempts <= DeliveryMaxAttempts
        /\ (alert # NoAlert /\ alert.delivery = "pending") => alert.attempts = 0 /\ alert.next = 0
    BY Zenon DEF RowTyped
  <2>4. \A e \in Evaluators : /\ evaluator[e].pc \in {"idle", "sync", "list", "due", "deliver", "record"}
                              /\ evaluator[e].attempts < DeliveryMaxAttempts
    <3> TAKE e \in Evaluators
    <3>1. evaluator[e] \in Evaluation BY DEF EvaluationsTyped
    <3>2. /\ evaluator[e].pc \in {"idle", "sync", "list", "due", "deliver", "record"}
          /\ evaluator[e].attempts \in 0..(DeliveryMaxAttempts - 1)
      BY <3>1, EvaluationFields, Zenon
    <3>. QED BY <3>2, SMT DEF AlertAssumption
  <2>. QED BY <2>1, <2>2, <2>3, <2>4, Zenon DEF AlertTypeOK
<1>2. NotifiedOnce BY Zenon DEF SentIsKnown, NotifiedOnce, NoticeOnce
<1>3. TriesBounded
  <2>1. alert # NoAlert => alert.attempts \in Nat BY RowFields, Zenon DEF RowTyped
  <2>. QED BY <2>1, SMT DEF TriesBounded, TriesCounted, RowTyped, NoneYet,
       AlertAssumption, ScalarsTyped
<1>4. AlertFollowsEvidence
  <2>1. captures \in Seq(Taken) /\ time \in Nat /\ scheduled \in 0..RepeatedFailureCount
    BY TimeIsNat, Zenon DEF ScalarsTyped
  <2>2. HoldsNow <=> CalledFor BY <2>1, HoldsIsCalledFor, Zenon DEF HoldsNow
  <2>. QED BY <2>2, Zenon DEF AlertFollowsEvidence, HoldsToEvidence
<1>. QED BY <1>1, <1>2, <1>3, <1>4 DEF AlertsTold

(* Once an evaluation of the evidence there is has been written, the alert   *)
(* is active exactly when that evidence calls for it: the captures, the      *)
(* standing of the profile, the failures the scheduler recorded and the end  *)
(* of the window.  One notice is shown of an opening, and attempts end at    *)
(* the maximum, unless outcomes were mixed up.  It is so for any number of   *)
(* evaluators and captures.  alerts.go:93, store/alerts.go:79.               *)
THEOREM AlertsAreTold == AlertSpec => []AlertsTold
<1>1. AlertInit => AlertInv BY AlertHolds, AlertAssumption, NoAlertAssumption
<1>2. AlertInv /\ [AlertNext]_alertVars => AlertInv'
  BY AlertStepKeeps, AlertAssumption, NoAlertAssumption
<1>3. AlertInv => AlertsTold BY AlertInvImplies, AlertAssumption, NoAlertAssumption
<1>. QED BY <1>1, <1>2, <1>3, PTL DEF AlertSpec

-----------------------------------------------------------------------------
(* The history of one profile and metric.                                    *)

(* Some of the days have a first and a last.                                 *)
LEMMA DaysInOrder ==
  ASSUME NEW S \in SUBSET Days, S # {}
  PROVE  /\ \E m \in S : \A k \in S : m <= k
         /\ \E m \in S : \A k \in S : k <= m
<1>1. S \in SUBSET Nat BY SMT DEF Days
<1>2. \E m \in S : \A k \in S : m <= k BY <1>1, HasLeast, Zenon
<1>3. \E m \in S : \A k \in S : k <= m
  <2> DEFINE T == {k + 1 : k \in S}
  <2>1. T \in SUBSET (1..(MaxHistory + 1)) /\ T # {}
    <3>1. \A k \in S : k + 1 \in 1..(MaxHistory + 1) BY HistoryAssumption, SMT DEF Days
    <3>2. PICK k \in S : TRUE OBVIOUS
    <3> QED BY <3>1, <3>2, Zenon
  <2>2. MaxHistory + 1 \in Nat BY HistoryAssumption, SMT
  <2> HIDE DEF T
  <2>3. PICK t \in T : \A u \in T : u <= t BY <2>1, <2>2, HasGreatest
  <2>4. PICK m \in S : t = m + 1 BY DEF T
  <2>5. \A k \in S : k + 1 \in T BY DEF T
  <2> QED BY <1>1, <2>3, <2>4, <2>5, SMT
<1> QED BY <1>2, <1>3

(* Aggregates and the readings of a fact.                                    *)
Buckets == {Bucket(t) : t \in Days}

AggregateRow ==
    [value : HistoryValues, bucket : Buckets, first : Days, last : Days,
     samples : Nat]

EqualTo(batch, v, b) == {d \in batch : d.value = v /\ Bucket(d.at) = b}

AggregatesTyped == \A g \in aggregates : g \in AggregateRow /\ g.first <= g.last

(* Readings are of the past, those in an aggregate of the days before today. *)
TakenBefore ==
    /\ \A d \in taken : d.at <= today
    /\ \A d \in taken \ details : d.at < today

(* The invariant of the history.                                             *)
HistInv ==
    /\ HistoryTypeOK /\ CountedOnce /\ AggregatesTyped /\ TakenBefore /\ IsFiniteSet(taken)

(* Readings that are folded into an aggregate stay within its fact.          *)
LEMMA FoldIs ==
  ASSUME NEW g \in AggregateRow, g.first <= g.last, NEW equal \in SUBSET History,
         IsFiniteSet(equal)
  PROVE  /\ Fold(g, equal) \in AggregateRow
         /\ Fold(g, equal).value = g.value /\ Fold(g, equal).bucket = g.bucket
         /\ Fold(g, equal).samples = g.samples + Cardinality(equal)
         /\ Fold(g, equal).first \in {d.at : d \in equal} \cup {g.first}
         /\ Fold(g, equal).last \in {d.at : d \in equal} \cup {g.last}
         /\ g.last <= Fold(g, equal).last
         /\ \A d \in equal : d.at <= Fold(g, equal).last
         /\ Fold(g, equal).first <= Fold(g, equal).last
<1> DEFINE times == {d.at : d \in equal} \cup {g.first, g.last}
           low == CHOOSE t \in times : \A u \in times : t <= u
           high == CHOOSE t \in times : \A u \in times : u <= t
<1>1. \A d \in equal : d.at \in Days BY SMT DEF History
<1>2. g.first \in Days /\ g.last \in Days /\ g.samples \in Nat BY DEF AggregateRow
<1>3. times \in SUBSET Days /\ times # {} BY <1>1, <1>2, Zenon
<1>4. /\ g.first \in times /\ g.last \in times /\ \A d \in equal : d.at \in times
      /\ \A t \in times : t \in {d.at : d \in equal} \/ t = g.first \/ t = g.last
  BY Zenon
<1>5. Cardinality(equal) \in Nat BY FS_CardinalityType, Zenon
<1> HIDE DEF times
<1>6. (\E m \in times : \A k \in times : m <= k) /\ (\E m \in times : \A k \in times : k <= m)
  BY <1>3, DaysInOrder, Zenon
<1>7. low \in times /\ \A u \in times : low <= u BY <1>6, Zenon
<1>8. high \in times /\ \A u \in times : u <= high BY <1>6, Zenon
<1> HIDE DEF low, high
<1>9. Fold(g, equal) = [g EXCEPT !.samples = @ + Cardinality(equal), !.first = low, !.last = high]
  BY Zenon DEF Fold, times, low, high
<1>10. /\ Fold(g, equal).value = g.value /\ Fold(g, equal).bucket = g.bucket
       /\ Fold(g, equal).samples = g.samples + Cardinality(equal)
       /\ Fold(g, equal).first = low /\ Fold(g, equal).last = high
  BY <1>9 DEF AggregateRow
<1>11. low \in Days /\ high \in Days BY <1>3, <1>7, <1>8
<1>12. Fold(g, equal) \in AggregateRow
  <2>1. g.samples + Cardinality(equal) \in Nat BY <1>2, <1>5, SMT
  <2> HIDE DEF AggregateRow
  <2>2. \A n \in Nat : \A a, b \in Days :
           [g EXCEPT !.samples = n, !.first = a, !.last = b] \in AggregateRow
    BY DEF AggregateRow
  <2>3. [g EXCEPT !.samples = g.samples + Cardinality(equal), !.first = low, !.last = high]
           \in AggregateRow
    BY <1>11, <2>1, <2>2
  <2> QED BY <1>9, <2>3, Zenon
<1>13. low <= high /\ g.last <= high /\ \A d \in equal : d.at <= high
  BY <1>4, <1>7, <1>8, Zenon
<1>14. \A a, b \in Days : a <= b /\ b <= a => a = b BY HistoryAssumption, SMT DEF Days
<1>15. low \in {d.at : d \in equal} \cup {g.first}
  <2>1. CASE low = g.last
    <3>1. low <= g.first BY <1>4, <1>7, Zenon
    <3>2. low = g.first BY <1>2, <1>14, <2>1, <3>1, Zenon
    <3> QED BY <3>2, Zenon
  <2> QED BY <1>4, <1>7, <2>1, Zenon
<1>16. high \in {d.at : d \in equal} \cup {g.last}
  <2>1. CASE high = g.first
    <3>1. g.last <= high BY <1>13
    <3>2. high = g.last BY <1>2, <1>14, <2>1, <3>1, Zenon
    <3> QED BY <3>2, Zenon
  <2> QED BY <1>4, <1>8, <2>1, Zenon
<1> QED BY <1>10, <1>12, <1>13, <1>15, <1>16, Zenon

(* An aggregate with no reading in it yet, of a fact that has none.          *)
Starts(start, batch, v, b) ==
    /\ start \in AggregateRow /\ start.first <= start.last
    /\ start.value = v /\ start.bucket = b
    /\ \/ start \in aggregates
       \/ /\ \A g \in aggregates : ~(g.value = v /\ g.bucket = b)
          /\ start.samples = 0
          /\ \E d \in EqualTo(batch, v, b) : start.first = d.at /\ start.last = d.at

(* A compaction makes one aggregate for every fact it has.                   *)
LEMMA CompactedIs ==
  ASSUME HistInv, NEW batch \in SUBSET details
  PROVE  /\ \A h \in Compacted(batch) : \E start :
               /\ Starts(start, batch, h.value, h.bucket)
               /\ h = Fold(start, EqualTo(batch, h.value, h.bucket))
         /\ \A g \in aggregates : \E h \in Compacted(batch) : h.value = g.value /\ h.bucket = g.bucket
         /\ \A d \in batch : \E h \in Compacted(batch) : h.value = d.value /\ h.bucket = Bucket(d.at)
         /\ \A h, k \in Compacted(batch) : h.value = k.value /\ h.bucket = k.bucket => h = k
<1> DEFINE facts == {<<d.value, Bucket(d.at)>> : d \in batch}
                       \cup {<<g.value, g.bucket>> : g \in aggregates}
           Equal(f) == {d \in batch : SameFact(d, f[1], f[2])}
           Prior(f) == {g \in aggregates : g.value = f[1] /\ g.bucket = f[2]}
           Some(f) == CHOOSE d \in Equal(f) : TRUE
           New(f) == [value |-> f[1], bucket |-> f[2], first |-> Some(f).at, last |-> Some(f).at,
                      samples |-> 0]
           Start(f) == IF Prior(f) # {} THEN CHOOSE g \in Prior(f) : TRUE ELSE New(f)
<1>1. Compacted(batch) = {Fold(Start(f), Equal(f)) : f \in facts} BY DEF Compacted
<1>2. \A v, b : Equal(<<v, b>>) = EqualTo(batch, v, b) BY SMT DEF SameFact, EqualTo
<1>3. batch \subseteq History /\ IsFiniteSet(batch)
  <2>1. batch \subseteq taken /\ batch \subseteq History BY SMT DEF HistInv, HistoryTypeOK
  <2> QED BY <2>1, FS_Subset, Zenon DEF HistInv
<1>4. ASSUME NEW v, NEW b PROVE EqualTo(batch, v, b) \subseteq History
                                /\ IsFiniteSet(EqualTo(batch, v, b))
  <2>1. EqualTo(batch, v, b) \subseteq batch BY Zenon DEF EqualTo
  <2> QED BY <1>3, <2>1, FS_Subset, Zenon
<1>5. ASSUME NEW f \in facts PROVE Starts(Start(f), batch, f[1], f[2])
  <2>1. CASE Prior(f) # {}
    <3>1. Start(f) \in Prior(f) BY <2>1, Zenon
    <3> HIDE DEF Start
    <3>2. Start(f) \in aggregates /\ Start(f).value = f[1] /\ Start(f).bucket = f[2]
      BY <3>1, Zenon
    <3> QED BY <3>2, Zenon DEF Starts, HistInv, AggregatesTyped
  <2>2. CASE Prior(f) = {}
    <3>1. \A g \in aggregates : ~(g.value = f[1] /\ g.bucket = f[2]) BY <2>2, Zenon
    <3>2. PICK d \in batch : f = <<d.value, Bucket(d.at)>>
      <4>1. ASSUME NEW g \in aggregates, f = <<g.value, g.bucket>> PROVE FALSE
        <5>1. g.value = f[1] /\ g.bucket = f[2] BY <4>1, SMT
        <5> QED BY <3>1, <5>1, Zenon
      <4> QED BY <4>1, Zenon
    <3>3. f[1] = d.value /\ f[2] = Bucket(d.at) BY <3>2, SMT
    <3>4. d \in Equal(f) BY <3>3, Zenon DEF SameFact
    <3>5. Some(f) \in Equal(f) BY <3>4, Zenon
    <3>6. Start(f) = New(f) BY <2>2, Zenon
    <3>7. Equal(f) = EqualTo(batch, f[1], f[2]) BY Zenon DEF SameFact, EqualTo
    <3> HIDE DEF Some, Equal
    <3>8. Some(f) \in EqualTo(batch, f[1], f[2]) BY <3>5, <3>7, Zenon
    <3>9. Some(f).at \in Days
      <4>1. Some(f) \in History BY <1>4, <3>8, Zenon
      <4> QED BY <4>1 DEF History
    <3>10. f[1] \in HistoryValues /\ f[2] \in Buckets
      <4>1. d.value \in HistoryValues /\ d.at \in Days BY <1>3, <3>2 DEF History
      <4> QED BY <3>3, <4>1, Zenon DEF Buckets
    <3>11. New(f) \in AggregateRow /\ New(f).first = Some(f).at /\ New(f).last = Some(f).at
           /\ New(f).value = f[1] /\ New(f).bucket = f[2] /\ New(f).samples = 0
      BY <3>9, <3>10 DEF AggregateRow
    <3>12. Some(f).at <= Some(f).at BY <3>9, HistoryAssumption, SMT DEF Days
    <3> HIDE DEF New, Start
    <3> QED BY <3>1, <3>6, <3>8, <3>11, <3>12, Zenon DEF Starts
  <2> QED BY <2>1, <2>2
<1>6. ASSUME NEW f \in facts
      PROVE  /\ Fold(Start(f), Equal(f)).value = f[1] /\ Fold(Start(f), Equal(f)).bucket = f[2]
             /\ Equal(f) = EqualTo(batch, f[1], f[2])
  <2>1. Equal(f) = EqualTo(batch, f[1], f[2]) BY Zenon DEF SameFact, EqualTo
  <2>2. Starts(Start(f), batch, f[1], f[2]) BY <1>5
  <2>3. Equal(f) \subseteq History /\ IsFiniteSet(Equal(f)) BY <1>4, <2>1, Zenon
  <2> HIDE DEF Start, Equal
  <2>4. /\ Fold(Start(f), Equal(f)).value = Start(f).value
        /\ Fold(Start(f), Equal(f)).bucket = Start(f).bucket
    BY <2>2, <2>3, FoldIs, Zenon DEF Starts
  <2> QED BY <2>1, <2>2, <2>4, Zenon DEF Starts
<1>7. \A d \in batch : <<d.value, Bucket(d.at)>> \in facts BY Zenon
<1>8. \A g \in aggregates : <<g.value, g.bucket>> \in facts BY Zenon
<1>9. \A f \in facts : f = <<f[1], f[2]>> BY SMT
<1>10. \A v, b : <<v, b>>[1] = v /\ <<v, b>>[2] = b BY SMT
<1> HIDE DEF facts, Start, Equal
<1>11. ASSUME NEW h \in Compacted(batch)
       PROVE  \E start : /\ Starts(start, batch, h.value, h.bucket)
                         /\ h = Fold(start, EqualTo(batch, h.value, h.bucket))
  <2>1. PICK f \in facts : h = Fold(Start(f), Equal(f)) BY <1>1, <1>11, Zenon
  <2>2. h.value = f[1] /\ h.bucket = f[2] /\ Equal(f) = EqualTo(batch, f[1], f[2])
    BY <1>6, <2>1, Zenon
  <2>3. Starts(Start(f), batch, f[1], f[2]) BY <1>5
  <2> QED BY <2>1, <2>2, <2>3, Zenon
<1>12. ASSUME NEW v, NEW b, <<v, b>> \in facts
       PROVE  \E h \in Compacted(batch) : h.value = v /\ h.bucket = b
  <2>1. Fold(Start(<<v, b>>), Equal(<<v, b>>)) \in Compacted(batch) BY <1>1, <1>12, Zenon
  <2>2. /\ Fold(Start(<<v, b>>), Equal(<<v, b>>)).value = v
        /\ Fold(Start(<<v, b>>), Equal(<<v, b>>)).bucket = b
    BY <1>6, <1>10, <1>12, Zenon
  <2> QED BY <2>1, <2>2, Zenon
<1>13. \A g \in aggregates : \E h \in Compacted(batch) : h.value = g.value /\ h.bucket = g.bucket
  BY <1>8, <1>12, Zenon
<1>14. \A d \in batch : \E h \in Compacted(batch) : h.value = d.value /\ h.bucket = Bucket(d.at)
  BY <1>7, <1>12, Zenon
<1>15. ASSUME NEW h \in Compacted(batch), NEW k \in Compacted(batch),
              h.value = k.value, h.bucket = k.bucket
       PROVE  h = k
  <2>1. PICK f \in facts : h = Fold(Start(f), Equal(f)) BY <1>1, <1>15, Zenon
  <2>2. PICK e \in facts : k = Fold(Start(e), Equal(e)) BY <1>1, <1>15, Zenon
  <2>3. f[1] = e[1] /\ f[2] = e[2] BY <1>6, <1>15, <2>1, <2>2, Zenon
  <2>4. f = <<f[1], f[2]>> /\ e = <<e[1], e[2]>> BY <1>9
  <2>5. f = e BY <2>3, <2>4, Zenon
  <2> QED BY <2>1, <2>2, <2>5, Zenon
<1> QED BY <1>11, <1>13, <1>14, <1>15, Zenon

(* What a compaction makes of a fact: what it was before, and the readings.  *)
LEMMA AggregateIs ==
  ASSUME HistInv, NEW batch \in SUBSET details, NEW h \in Compacted(batch)
  PROVE  /\ h \in AggregateRow /\ h.first <= h.last /\ h.samples > 0
         /\ Bucket(h.first) = h.bucket /\ Bucket(h.last) = h.bucket
         /\ \A g \in aggregates : g.value = h.value /\ g.bucket = h.bucket =>
               /\ h.samples = g.samples + Cardinality(EqualTo(batch, h.value, h.bucket))
               /\ g.last <= h.last
         /\ (\A g \in aggregates : ~(g.value = h.value /\ g.bucket = h.bucket)) =>
               h.samples = Cardinality(EqualTo(batch, h.value, h.bucket))
         /\ \/ \E d \in EqualTo(batch, h.value, h.bucket) : h.last = d.at
            \/ \E g \in aggregates : g.value = h.value /\ g.bucket = h.bucket /\ h.last = g.last
         /\ \A d \in EqualTo(batch, h.value, h.bucket) : d.at <= h.last
<1> DEFINE equal == EqualTo(batch, h.value, h.bucket)
<1>1. equal \subseteq History /\ IsFiniteSet(equal) /\ \A d \in equal : Bucket(d.at) = h.bucket
  <2>1. batch \subseteq taken /\ batch \subseteq History BY SMT DEF HistInv, HistoryTypeOK
  <2>2. equal \subseteq batch /\ \A d \in equal : Bucket(d.at) = h.bucket BY Zenon DEF EqualTo
  <2> QED BY <2>1, <2>2, FS_Subset, Zenon DEF HistInv
<1>2. PICK start : Starts(start, batch, h.value, h.bucket) /\ h = Fold(start, equal)
  BY CompactedIs, Zenon
<1> HIDE DEF equal
<1>3. start \in AggregateRow /\ start.first <= start.last /\ start.samples \in Nat
  <2>1. start \in AggregateRow /\ start.first <= start.last BY <1>2, Zenon DEF Starts
  <2> QED BY <2>1 DEF AggregateRow
<1>4. /\ h \in AggregateRow /\ h.samples = start.samples + Cardinality(equal)
      /\ h.first \in {d.at : d \in equal} \cup {start.first}
      /\ h.last \in {d.at : d \in equal} \cup {start.last}
      /\ start.last <= h.last /\ h.first <= h.last
      /\ \A d \in equal : d.at <= h.last
  BY <1>1, <1>2, <1>3, FoldIs, Zenon
<1>5. Cardinality(equal) \in Nat BY <1>1, FS_CardinalityType, Zenon
<1>6. CASE start \in aggregates
  <2>1. start.samples > 0 /\ Bucket(start.first) = h.bucket /\ Bucket(start.last) = h.bucket
        /\ start.value = h.value /\ start.bucket = h.bucket
    BY <1>2, <1>6, Zenon DEF Starts, HistInv, HistoryTypeOK
  <2>2. h.samples > 0 BY <1>3, <1>4, <1>5, <2>1, SMT
  <2>3. Bucket(h.first) = h.bucket /\ Bucket(h.last) = h.bucket
    BY <1>1, <1>4, <2>1, Zenon
  <2>4. \A g \in aggregates : g.value = h.value /\ g.bucket = h.bucket => g = start
    BY <1>6, <2>1, Zenon DEF HistInv, HistoryTypeOK
  <2>5. \/ \E d \in equal : h.last = d.at
        \/ \E g \in aggregates : g.value = h.value /\ g.bucket = h.bucket /\ h.last = g.last
    BY <1>4, <1>6, <2>1, Zenon
  <2> QED BY <1>4, <1>6, <2>1, <2>2, <2>3, <2>4, <2>5, Zenon DEF equal
<1>7. CASE start \notin aggregates
  <2>1. /\ \A g \in aggregates : ~(g.value = h.value /\ g.bucket = h.bucket)
        /\ start.samples = 0
    BY <1>2, <1>7, Zenon DEF Starts
  <2>2. PICK d \in equal : start.first = d.at /\ start.last = d.at
    BY <1>2, <1>7, Zenon DEF Starts, equal
  <2>3. h.samples = Cardinality(equal) BY <1>4, <1>5, <2>1, SMT
  <2>4. h.samples > 0
    <3>1. Cardinality(equal) # 0 BY <1>1, <2>2, FS_EmptySet, Zenon
    <3> QED BY <1>5, <2>3, <3>1, SMT
  <2>5. Bucket(h.first) = h.bucket /\ Bucket(h.last) = h.bucket
    BY <1>1, <1>4, <2>2, Zenon
  <2>6. \E e \in equal : h.last = e.at BY <1>4, <2>2, Zenon
  <2> QED BY <1>4, <2>1, <2>3, <2>4, <2>5, <2>6, Zenon DEF equal
<1> QED BY <1>6, <1>7

(* The readings that were compacted.                                         *)
InAggregate(v, b) == {d \in taken \ details : d.value = v /\ Bucket(d.at) = b}

(* How CountedOnce is used, and shown.                                       *)
LEMMA CountedIs ==
  CountedOnce <=>
    \A v \in HistoryValues : \A b \in Buckets :
       /\ InAggregate(v, b) = {} => \A g \in aggregates : g.value # v \/ g.bucket # b
       /\ InAggregate(v, b) # {} => \E g \in aggregates :
             g.value = v /\ g.bucket = b /\ g.samples = Cardinality(InAggregate(v, b))
<1>1. CountedOnce <=>
        \A v \in HistoryValues : \A b \in Buckets :
           IF InAggregate(v, b) = {} THEN \A g \in aggregates : g.value # v \/ g.bucket # b
           ELSE \E g \in aggregates :
                   g.value = v /\ g.bucket = b /\ g.samples = Cardinality(InAggregate(v, b))
  BY DEF CountedOnce, InAggregate, Buckets
<1> QED BY <1>1, Zenon

(* The same of the next state.                                               *)
LEMMA CountedIsNext ==
  CountedOnce' <=>
    \A v \in HistoryValues : \A b \in Buckets :
       /\ InAggregate(v, b)' = {} => \A g \in aggregates' : g.value # v \/ g.bucket # b
       /\ InAggregate(v, b)' # {} => \E g \in aggregates' :
             g.value = v /\ g.bucket = b /\ g.samples = Cardinality(InAggregate(v, b)')
<1>1. CountedOnce' <=>
        \A v \in HistoryValues : \A b \in Buckets :
           IF InAggregate(v, b)' = {} THEN \A g \in aggregates' : g.value # v \/ g.bucket # b
           ELSE \E g \in aggregates' :
                   g.value = v /\ g.bucket = b /\ g.samples = Cardinality(InAggregate(v, b)')
  BY DEF CountedOnce, InAggregate, Buckets
<1> QED BY <1>1, Zenon

(* It stays true while no reading is compacted and no aggregate changes.     *)
LEMMA CountedStays ==
  ASSUME CountedOnce, aggregates' = aggregates, taken' \ details' = taken \ details
  PROVE  CountedOnce'
<1>1. ASSUME NEW v, NEW b PROVE InAggregate(v, b)' = InAggregate(v, b)
  BY Zenon DEF InAggregate, Bucket
<1> QED BY <1>1, CountedIs, CountedIsNext, Zenon

(* A batch is of readings that are due, all of days before today.            *)
LEMMA DueIsDue ==
  ASSUME HistInv
  PROVE  DueBatch \subseteq details /\ \A d \in DueBatch : d.at < today /\ d.at \in Days
<1>1. today \in Nat /\ age \in Nat BY HistoryAssumption, SMT DEF HistInv, HistoryTypeOK, Days
<1>2. \A d \in details : d.at \in Days /\ d.at \in Nat
  <2>1. details \subseteq History BY Zenon DEF HistInv, HistoryTypeOK
  <2>2. \A d \in History : d.at \in Days /\ d.at \in Nat BY HistoryAssumption, SMT DEF History, Days
  <2> QED BY <2>1, <2>2, Zenon
<1>3. DueBatch \subseteq Expired /\ Expired \subseteq details BY Zenon DEF DueBatch, Expired
<1>4. \A d \in Expired : d.at < Before BY Zenon DEF Expired
<1>5. ASSUME NEW d \in DueBatch PROVE d.at < today
  <2>1. d.at < Before /\ d.at \in Nat BY <1>2, <1>3, <1>4, <1>5, Zenon
  <2> QED BY <1>1, <2>1, SMT DEF Before
<1> QED BY <1>2, <1>3, <1>5, Zenon

(* A compaction counts every reading once.                                   *)
LEMMA RetainKeeps ==
  ASSUME HistInv, RetainHistory
  PROVE  HistInv'
<1> DEFINE batch == DueBatch
<1>1. /\ aggregates' = Compacted(batch) /\ details' = details \ batch
      /\ snapshots' \subseteq snapshots /\ UNCHANGED <<today, age, confirmed, taken>>
  BY Zenon DEF RetainHistory, Left
<1>2. batch \subseteq details /\ \A d \in batch : d.at < today BY DueIsDue, Zenon
<1> HIDE DEF batch
<1>3. details \subseteq taken BY Zenon DEF HistInv, HistoryTypeOK
<1>4. \A h \in aggregates' : /\ h \in AggregateRow /\ h.first <= h.last /\ h.samples > 0
                             /\ Bucket(h.first) = h.bucket /\ Bucket(h.last) = h.bucket
  BY <1>1, <1>2, AggregateIs, Zenon
<1>5. \A h \in aggregates' :
          /\ \A g \in aggregates : g.value = h.value /\ g.bucket = h.bucket =>
                h.samples = g.samples + Cardinality(EqualTo(batch, h.value, h.bucket))
          /\ (\A g \in aggregates : ~(g.value = h.value /\ g.bucket = h.bucket)) =>
                h.samples = Cardinality(EqualTo(batch, h.value, h.bucket))
  BY <1>1, <1>2, AggregateIs, Zenon
<1>6. /\ \A g \in aggregates : \E h \in aggregates' : h.value = g.value /\ h.bucket = g.bucket
      /\ \A d \in batch : \E h \in aggregates' : h.value = d.value /\ h.bucket = Bucket(d.at)
  BY <1>1, <1>2, CompactedIs, Zenon
<1>7. HistoryTypeOK'
  <2>1. \A h, k \in aggregates' : h.value = k.value /\ h.bucket = k.bucket => h = k
    BY <1>1, <1>2, CompactedIs, Zenon
  <2>2. details' \subseteq details BY <1>1, Zenon
  <2> QED BY <1>1, <1>3, <1>4, <2>1, <2>2, Zenon DEF HistInv, HistoryTypeOK, Bucket
<1>8. AggregatesTyped' BY <1>4, Zenon DEF AggregatesTyped, AggregateRow, Buckets, Days, Bucket
<1>9. TakenBefore' BY <1>1, <1>2, <1>3, Zenon DEF HistInv, TakenBefore
<1>10. IsFiniteSet(taken') BY <1>1, Zenon DEF HistInv
<1>11. CountedOnce'
  <2> SUFFICES ASSUME NEW v \in HistoryValues, NEW b \in Buckets
               PROVE  /\ InAggregate(v, b)' = {} => \A g \in aggregates' : g.value # v \/ g.bucket # b
                      /\ InAggregate(v, b)' # {} => \E g \in aggregates' :
                            g.value = v /\ g.bucket = b /\ g.samples = Cardinality(InAggregate(v, b)')
    BY CountedIsNext, Zenon
  <2> DEFINE old == InAggregate(v, b)
             equal == EqualTo(batch, v, b)
  <2>1. InAggregate(v, b)' = old \cup equal /\ old \cap equal = {}
    <3>1. InAggregate(v, b)' = {d \in taken \ (details \ batch) : d.value = v /\ Bucket(d.at) = b}
      BY <1>1, Zenon DEF InAggregate
    <3> QED BY <1>2, <1>3, <3>1, Zenon DEF InAggregate, EqualTo
  <2>2. /\ old = {} => \A g \in aggregates : g.value # v \/ g.bucket # b
        /\ old # {} => \E g \in aggregates : g.value = v /\ g.bucket = b
                                             /\ g.samples = Cardinality(old)
    BY CountedIs, Zenon DEF HistInv
  <2>3. IsFiniteSet(old) /\ IsFiniteSet(equal)
    <3>1. old \subseteq taken /\ equal \subseteq taken
      BY <1>2, <1>3, Zenon DEF InAggregate, EqualTo
    <3> QED BY <3>1, FS_Subset, Zenon DEF HistInv
  <2> HIDE DEF old, equal
  <2>4. Cardinality(old \cup equal) = Cardinality(old) + Cardinality(equal)
        /\ Cardinality(old) \in Nat /\ Cardinality(equal) \in Nat
    <3>1. Cardinality({}) = 0 BY FS_EmptySet, Zenon
    <3>2. Cardinality(old \cup equal)
             = Cardinality(old) + Cardinality(equal) - Cardinality(old \cap equal)
      BY <2>3, FS_Union, Zenon
    <3>3. Cardinality(old) \in Nat /\ Cardinality(equal) \in Nat
      BY <2>3, FS_CardinalityType, Zenon
    <3>4. Cardinality(old \cap equal) = 0 BY <2>1, <3>1, Zenon
    <3> QED BY <3>2, <3>3, <3>4, SMT
  <2>5. ASSUME InAggregate(v, b)' = {} PROVE \A g \in aggregates' : g.value # v \/ g.bucket # b
    <3>1. old = {} /\ equal = {} BY <2>1, <2>5, Zenon
    <3> SUFFICES ASSUME NEW h \in aggregates', h.value = v, h.bucket = b PROVE FALSE
      BY Zenon
    <3>2. \A g \in aggregates : ~(g.value = h.value /\ g.bucket = h.bucket) BY <2>2, <3>1, Zenon
    <3>3. h.samples = Cardinality(EqualTo(batch, h.value, h.bucket)) /\ h.samples > 0
      BY <1>4, <1>5, <3>2, Zenon
    <3>4. h.samples = Cardinality({}) BY <3>1, <3>3, Zenon DEF equal
    <3> QED BY <3>3, <3>4, FS_EmptySet, SMT
  <2>6. ASSUME InAggregate(v, b)' # {}
        PROVE  \E g \in aggregates' :
                  g.value = v /\ g.bucket = b /\ g.samples = Cardinality(InAggregate(v, b)')
    <3>1. PICK h \in aggregates' : h.value = v /\ h.bucket = b
      <4>1. CASE old # {}
        <5>1. PICK g \in aggregates : g.value = v /\ g.bucket = b BY <2>2, <4>1, Zenon
        <5> QED BY <1>6, <5>1, Zenon
      <4>2. CASE old = {}
        <5>1. PICK d \in equal : TRUE BY <2>1, <2>6, <4>2, Zenon
        <5>2. d \in batch /\ d.value = v /\ Bucket(d.at) = b BY <5>1, Zenon DEF equal, EqualTo
        <5> QED BY <1>6, <5>2, Zenon
      <4> QED BY <4>1, <4>2
    <3>2. h.samples = Cardinality(old) + Cardinality(equal)
      <4>1. CASE old # {}
        <5>1. PICK g \in aggregates : g.value = v /\ g.bucket = b /\ g.samples = Cardinality(old)
          BY <2>2, <4>1, Zenon
        <5>2. h.samples = g.samples + Cardinality(EqualTo(batch, h.value, h.bucket))
          BY <1>5, <3>1, <5>1, Zenon
        <5> QED BY <3>1, <5>1, <5>2, Zenon DEF equal
      <4>2. CASE old = {}
        <5>1. \A g \in aggregates : ~(g.value = h.value /\ g.bucket = h.bucket)
          BY <2>2, <3>1, <4>2, Zenon
        <5>2. h.samples = Cardinality(EqualTo(batch, h.value, h.bucket))
          BY <1>5, <5>1, Zenon
        <5>3. h.samples = Cardinality(equal) BY <3>1, <5>2, Zenon DEF equal
        <5>4. Cardinality(old) = 0 BY <4>2, FS_EmptySet, Zenon
        <5> QED BY <2>4, <5>3, <5>4, SMT
      <4> QED BY <4>1, <4>2
    <3> QED BY <2>1, <2>4, <3>1, <3>2, Zenon
  <2> QED BY <2>5, <2>6, Zenon
<1> QED BY <1>7, <1>8, <1>9, <1>10, <1>11, Zenon DEF HistInv

(* A reading is of today, and none of today is compacted.                    *)
LEMMA RecordKeeps ==
  ASSUME HistInv, NEW failed \in BOOLEAN, Record(failed)
  PROVE  HistInv'
<1>1. UNCHANGED <<today, age, aggregates, confirmed>>
      /\ snapshots' = snapshots \cup {[at |-> today, failed |-> failed]}
  BY Zenon DEF Record
<1>2. \/ UNCHANGED <<details, taken>>
      \/ \E v \in HistoryValues :
           /\ details' = details \cup {[value |-> v, at |-> today]}
           /\ taken' = taken \cup {[value |-> v, at |-> today]}
  BY DEF Record
<1>3. today \in Days BY Zenon DEF HistInv, HistoryTypeOK
<1>4. snapshots' \subseteq [at : Days, failed : BOOLEAN]
  <2>1. [at |-> today, failed |-> failed] \in [at : Days, failed : BOOLEAN] BY <1>3, Zenon
  <2> QED BY <1>1, <2>1, Zenon DEF HistInv, HistoryTypeOK
<1>5. CASE UNCHANGED <<details, taken>>
  <2>1. CountedOnce' BY <1>1, <1>5, CountedStays, Zenon DEF HistInv
  <2> QED BY <1>1, <1>4, <1>5, <2>1, Zenon
       DEF HistInv, HistoryTypeOK, AggregatesTyped, TakenBefore, Bucket, AggregateRow, Buckets, Days
<1>6. CASE \E v \in HistoryValues :
             /\ details' = details \cup {[value |-> v, at |-> today]}
             /\ taken' = taken \cup {[value |-> v, at |-> today]}
  <2>1. PICK v \in HistoryValues : /\ details' = details \cup {[value |-> v, at |-> today]}
                                   /\ taken' = taken \cup {[value |-> v, at |-> today]}
    BY <1>6, Zenon
  <2> DEFINE reading == [value |-> v, at |-> today]
  <2>2. reading \in History /\ reading.at = today BY <1>3, <2>1, SMT DEF History
  <2>3. details' = details \cup {reading} /\ taken' = taken \cup {reading} BY <2>1, Zenon
  <2> HIDE DEF reading
  <2>4. reading \notin taken \ details
    <3>1. ~(today < today) BY <1>3, HistoryAssumption, SMT DEF Days
    <3> QED BY <2>2, <3>1, Zenon DEF HistInv, TakenBefore
  <2>5. taken' \ details' = taken \ details BY <2>3, <2>4, Zenon
  <2>6. CountedOnce' BY <1>1, <2>5, CountedStays, Zenon DEF HistInv
  <2>7. today <= today BY <1>3, HistoryAssumption, SMT DEF Days
  <2>8. TakenBefore' BY <1>1, <2>2, <2>3, <2>5, <2>7, Zenon DEF HistInv, TakenBefore
  <2>9. IsFiniteSet(taken') BY <2>3, FS_AddElement, Zenon DEF HistInv
  <2>10. /\ details' \subseteq History /\ taken' \subseteq History /\ details' \subseteq taken'
    BY <2>2, <2>3, Zenon DEF HistInv, HistoryTypeOK
  <2> QED BY <1>1, <1>4, <2>6, <2>8, <2>9, <2>10, Zenon
       DEF HistInv, HistoryTypeOK, AggregatesTyped, Bucket, AggregateRow, Buckets, Days
<1> QED BY <1>2, <1>5, <1>6, Zenon

(* An aggregate is purged with every reading it counts, or stays as it is.   *)
LEMMA PurgeKeeps ==
  ASSUME HistInv, Purge
  PROVE  HistInv'
<1>1. UNCHANGED <<today, age>> BY Zenon DEF Purge
<1>2. CASE UNCHANGED <<details, snapshots, aggregates, taken>>
  <2>1. CountedOnce' BY <1>2, CountedStays, Zenon DEF HistInv
  <2> QED BY <1>1, <1>2, <2>1, Zenon
       DEF HistInv, HistoryTypeOK, AggregatesTyped, TakenBefore, Bucket, AggregateRow, Buckets, Days
<1>3. CASE ~UNCHANGED <<details, snapshots, aggregates, taken>>
  <2> DEFINE lost == AggregatesIn(confirmed.from, confirmed.to)
             going == DetailsIn(confirmed.from, confirmed.to)
  <2>1. /\ details' = details \ going /\ aggregates' = aggregates \ lost
        /\ snapshots' = snapshots \ SnapshotsIn(confirmed.from, confirmed.to)
        /\ taken' = {d \in taken : /\ d \notin going
                                   /\ d \in details \/ \A g \in lost : d.value # g.value
                                                                       \/ Bucket(d.at) # g.bucket}
    BY <1>3, Zenon DEF Purge
  <2>2. lost \subseteq aggregates /\ going \subseteq details BY Zenon DEF AggregatesIn, DetailsIn
  <2> HIDE DEF lost, going
  <2>3. /\ details \subseteq taken /\ taken \subseteq History
        /\ \A g, h \in aggregates : g.value = h.value /\ g.bucket = h.bucket => g = h
    BY Zenon DEF HistInv, HistoryTypeOK
  <2>4. /\ taken' \subseteq taken /\ details' \subseteq taken' /\ details' \subseteq details
        /\ taken' \ details' \subseteq taken \ details
    BY <2>1, <2>2, <2>3, Zenon
  <2>5. HistoryTypeOK'
    <3>1. aggregates' \subseteq aggregates /\ snapshots' \subseteq snapshots BY <2>1, Zenon
    <3> QED BY <1>1, <2>3, <2>4, <3>1, Zenon DEF HistInv, HistoryTypeOK, Bucket
  <2>6. AggregatesTyped'
    <3>1. aggregates' \subseteq aggregates BY <2>1, Zenon
    <3> QED BY <3>1, Zenon DEF HistInv, AggregatesTyped, AggregateRow, Buckets, Days, Bucket
  <2>7. TakenBefore' BY <1>1, <2>4, Zenon DEF HistInv, TakenBefore
  <2>8. IsFiniteSet(taken') BY <2>4, FS_Subset, Zenon DEF HistInv
  <2>9. CountedOnce'
    <3> SUFFICES ASSUME NEW v \in HistoryValues, NEW b \in Buckets
                 PROVE  /\ InAggregate(v, b)' = {} =>
                             \A g \in aggregates' : g.value # v \/ g.bucket # b
                        /\ InAggregate(v, b)' # {} => \E g \in aggregates' :
                              g.value = v /\ g.bucket = b /\ g.samples = Cardinality(InAggregate(v, b)')
      BY CountedIsNext, Zenon
    <3> DEFINE old == InAggregate(v, b)
    <3>1. old = {d \in taken \ details : d.value = v /\ Bucket(d.at) = b}
          /\ InAggregate(v, b)' = {d \in taken' \ details' : d.value = v /\ Bucket(d.at) = b}
      BY Zenon DEF InAggregate, Bucket
    <3>2. /\ old = {} => \A g \in aggregates : g.value # v \/ g.bucket # b
          /\ old # {} => \E g \in aggregates : g.value = v /\ g.bucket = b
                                               /\ g.samples = Cardinality(old)
      BY CountedIs, Zenon DEF HistInv
    <3> HIDE DEF old
    <3>3. CASE \E g \in lost : g.value = v /\ g.bucket = b
      <4>1. PICK g \in lost : g.value = v /\ g.bucket = b BY <3>3, Zenon
      <4>2. InAggregate(v, b)' = {} BY <2>1, <2>2, <3>1, <4>1, Zenon
      <4>3. \A h \in aggregates' : h.value # v \/ h.bucket # b
        BY <2>1, <2>2, <2>3, <4>1, Zenon
      <4> QED BY <4>2, <4>3, Zenon
    <3>4. CASE \A g \in lost : g.value # v \/ g.bucket # b
      <4>1. InAggregate(v, b)' = old
        <5>1. \A d \in old : d \in taken' \ details' BY <2>1, <2>2, <3>1, <3>4, Zenon
        <5> QED BY <2>4, <3>1, <5>1, Zenon
      <4>2. \A g \in aggregates : g.value = v /\ g.bucket = b => g \in aggregates'
        BY <2>1, <3>4, Zenon
      <4>3. aggregates' \subseteq aggregates BY <2>1, Zenon
      <4> QED BY <3>2, <4>1, <4>2, <4>3, Zenon
    <3> QED BY <3>3, <3>4, Zenon
  <2> QED BY <2>5, <2>6, <2>7, <2>8, <2>9, Zenon DEF HistInv
<1> QED BY <1>2, <1>3

(* The invariant holds at first, and every step keeps it.                    *)
LEMMA HistoryHolds == HistorySpec => []HistInv
<1>1. HistoryInit => HistInv
  <2> SUFFICES ASSUME HistoryInit PROVE HistInv OBVIOUS
  <2>1. /\ today = 0 /\ age \in Ages /\ aggregates = {} /\ details = {} /\ snapshots = {}
        /\ taken = {}
    BY Zenon DEF HistoryInit
  <2>2. HistoryTypeOK
    <3>1. today \in Days BY <2>1, HistoryAssumption, SMT DEF Days
    <3> QED BY <2>1, <3>1, Zenon DEF HistoryTypeOK
  <2>3. CountedOnce BY <2>1 DEF CountedOnce
  <2>4. AggregatesTyped /\ TakenBefore BY <2>1, Zenon DEF AggregatesTyped, TakenBefore
  <2>5. IsFiniteSet(taken) BY <2>1, FS_EmptySet, Zenon
  <2> QED BY <2>2, <2>3, <2>4, <2>5, Zenon DEF HistInv
<1>2. HistInv /\ [HistoryNext]_historyVars => HistInv'
  <2> SUFFICES ASSUME HistInv, [HistoryNext]_historyVars PROVE HistInv' OBVIOUS
  <2>1. ASSUME UNCHANGED <<details, aggregates, snapshots, taken>>, age' \in Ages,
               today' \in Days, today <= today'
        PROVE  HistInv'
    <3>1. TakenBefore'
      <4>1. \A d \in taken : d.at \in Days
        <5>1. taken \subseteq History BY Zenon DEF HistInv, HistoryTypeOK
        <5>2. \A d \in History : d.at \in Days BY DEF History
        <5> QED BY <5>1, <5>2, Zenon
      <4>2. today \in Days BY Zenon DEF HistInv, HistoryTypeOK
      <4>3. \A t \in Days : (t <= today => t <= today') /\ (t < today => t < today')
        BY <2>1, <4>2, HistoryAssumption, SMT DEF Days
      <4> QED BY <2>1, <4>1, <4>3, Zenon DEF HistInv, TakenBefore
    <3>2. HistoryTypeOK' BY <2>1, Zenon DEF HistInv, HistoryTypeOK, Bucket
    <3>3. CountedOnce' BY <2>1, CountedStays, Zenon DEF HistInv
    <3>4. AggregatesTyped'
      BY <2>1, Zenon DEF HistInv, AggregatesTyped, AggregateRow, Buckets, Days, Bucket
    <3> QED BY <2>1, <3>1, <3>2, <3>3, <3>4, Zenon DEF HistInv
  <2>2. today \in Days /\ today <= today /\ age \in Ages
    <3>1. today \in Days /\ age \in Ages BY Zenon DEF HistInv, HistoryTypeOK
    <3> QED BY <3>1, HistoryAssumption, SMT DEF Days
  <2>3. CASE \E failed \in BOOLEAN : Record(failed) BY <2>3, RecordKeeps, Zenon
  <2>4. CASE RetainHistory BY <2>4, RetainKeeps
  <2>5. CASE \E from, to \in 0..(MaxHistory + 1) : Preview(from, to)
    BY <2>1, <2>2, <2>5, Zenon DEF Preview
  <2>6. CASE Purge BY <2>6, PurgeKeeps
  <2>7. CASE SetAge BY <2>1, <2>2, <2>7, Zenon DEF SetAge
  <2>8. CASE NextDay
    <3>1. today' \in Days /\ today <= today'
      BY <2>2, <2>8, HistoryAssumption, SMT DEF NextDay, Days
    <3>2. UNCHANGED <<age, details, aggregates, snapshots, taken>> BY <2>8, Zenon DEF NextDay
    <3> QED BY <2>1, <2>2, <3>1, <3>2, Zenon
  <2>9. CASE UNCHANGED historyVars BY <2>1, <2>2, <2>9, Zenon DEF historyVars
  <2> QED BY <2>3, <2>4, <2>5, <2>6, <2>7, <2>8, <2>9, Zenon DEF HistoryNext
<1> QED BY <1>1, <1>2, PTL DEF HistorySpec

(* The newest of a set of snapshots are so of every part that has them all.  *)
LEMMA NewestStays ==
  ASSUME NEW S \in SUBSET [at : Days, failed : BOOLEAN], NEW T \in SUBSET S,
         Newest(S) \subseteq T
  PROVE  Newest(T) = Newest(S)
<1>1. \A s \in S : s.at \in Days BY Zenon
<1>2. \A a, b, c \in Days : a <= b /\ b <= c => a <= c BY HistoryAssumption, SMT DEF Days
<1>3. ASSUME NEW s \in Newest(T) PROVE s \in Newest(S)
  <2> DEFINE times == {o.at : o \in S}
  <2>1. s \in T /\ \A o \in T : o.at <= s.at BY <1>3, Zenon DEF Newest
  <2>2. times \in SUBSET Days /\ times # {} BY <1>1, <2>1, Zenon
  <2>3. \A o \in S : o.at \in times BY Zenon
  <2>4. \A n \in times : \E o \in S : n = o.at BY Zenon
  <2> HIDE DEF times
  <2>5. PICK n \in times : \A k \in times : k <= n BY <2>2, DaysInOrder, Zenon
  <2>6. PICK m \in S : n = m.at BY <2>4
  <2>7. m \in Newest(S) BY <2>3, <2>5, <2>6, Zenon DEF Newest
  <2>8. m.at <= s.at BY <2>1, <2>7, Zenon
  <2>9. \A o \in S : o.at <= s.at
    BY <1>1, <1>2, <2>1, <2>3, <2>5, <2>6, <2>8, Zenon
  <2> QED BY <2>1, <2>9, Zenon DEF Newest
<1>4. ASSUME NEW s \in Newest(S) PROVE s \in Newest(T)
  BY <1>4, Zenon DEF Newest
<1> QED BY <1>3, <1>4, Zenon

(* A compaction keeps the newest snapshots.                                  *)
LEMMA StatusIsKept ==
  ASSUME HistInv, RetainHistory
  PROVE  StatusOf(snapshots') = StatusOf(snapshots)
<1>1. snapshots \in SUBSET [at : Days, failed : BOOLEAN] BY Zenon DEF HistInv, HistoryTypeOK
<1>2. snapshots' \subseteq snapshots /\ \A s \in Kept(snapshots) : s \in snapshots => s \in snapshots'
  BY Zenon DEF RetainHistory, Gone
<1> DEFINE in(set) == {s \in set : ~s.failed}
<1>3. Newest(snapshots) \subseteq snapshots'
  BY <1>2, Zenon DEF Kept, Newest
<1>4. Newest(in(snapshots)) \subseteq in(snapshots')
  <2>1. Newest(in(snapshots)) \subseteq Kept(snapshots) BY Zenon DEF Kept, Newest
  <2>2. Newest(in(snapshots)) \subseteq in(snapshots) BY Zenon DEF Newest
  <2> QED BY <1>2, <2>1, <2>2, Zenon
<1>5. /\ in(snapshots) \in SUBSET [at : Days, failed : BOOLEAN]
      /\ in(snapshots') \in SUBSET in(snapshots)
  BY <1>1, <1>2, Zenon
<1>6. Newest(snapshots') = Newest(snapshots) BY <1>1, <1>2, <1>3, NewestStays, Zenon
<1>7. Newest(in(snapshots')) = Newest(in(snapshots))
  <2> HIDE DEF in
  <2> QED BY <1>4, <1>5, NewestStays, Zenon
<1> QED BY <1>6, <1>7, Zenon DEF StatusOf

(* What is known of the details and aggregates, with its times.              *)
Known(ds, gs) ==
    {<<d.value, Bucket(d.at), d.at>> : d \in ds} \cup {<<g.value, g.bucket, g.last>> : g \in gs}

(* A compaction keeps what is known last.                                    *)
LEMMA LastKnownIsKept ==
  ASSUME HistInv, RetainHistory
  PROVE  LastKnown(details', aggregates') = LastKnown(details, aggregates)
<1> DEFINE batch == DueBatch
           old == Known(details, aggregates)
           new == Known(details', aggregates')
<1>1. aggregates' = Compacted(batch) /\ details' = details \ batch
  BY Zenon DEF RetainHistory, Left
<1>2. batch \subseteq details BY DueIsDue, Zenon
<1>3. LastKnown(details, aggregates) = {k \in old : \A o \in old : o[3] <= k[3]}
      /\ LastKnown(details', aggregates') = {k \in new : \A o \in new : o[3] <= k[3]}
  BY DEF LastKnown, Known
<1>4. /\ \A d \in details : <<d.value, Bucket(d.at), d.at>> \in old
      /\ \A g \in aggregates : <<g.value, g.bucket, g.last>> \in old
      /\ \A d \in details' : <<d.value, Bucket(d.at), d.at>> \in new
      /\ \A g \in aggregates' : <<g.value, g.bucket, g.last>> \in new
  BY Zenon DEF Known
<1>5. /\ \A k \in old : \/ \E d \in details : k = <<d.value, Bucket(d.at), d.at>>
                        \/ \E g \in aggregates : k = <<g.value, g.bucket, g.last>>
      /\ \A k \in new : \/ \E d \in details' : k = <<d.value, Bucket(d.at), d.at>>
                        \/ \E g \in aggregates' : k = <<g.value, g.bucket, g.last>>
  BY Zenon DEF Known
<1> HIDE DEF batch, old, new
<1>6. \A h \in aggregates' :
         /\ \A g \in aggregates : g.value = h.value /\ g.bucket = h.bucket => g.last <= h.last
         /\ \/ \E d \in EqualTo(batch, h.value, h.bucket) : h.last = d.at
            \/ \E g \in aggregates : g.value = h.value /\ g.bucket = h.bucket /\ h.last = g.last
         /\ \A d \in EqualTo(batch, h.value, h.bucket) : d.at <= h.last
  BY <1>1, <1>2, AggregateIs, Zenon
<1>7. /\ \A g \in aggregates : \E h \in aggregates' : h.value = g.value /\ h.bucket = g.bucket
      /\ \A d \in batch : \E h \in aggregates' : h.value = d.value /\ h.bucket = Bucket(d.at)
  BY <1>1, <1>2, CompactedIs, Zenon
<1>8. new \subseteq old
  <2> SUFFICES ASSUME NEW k \in new PROVE k \in old OBVIOUS
  <2>1. CASE \E d \in details' : k = <<d.value, Bucket(d.at), d.at>>
    BY <1>1, <1>4, <2>1, Zenon
  <2>2. CASE \E h \in aggregates' : k = <<h.value, h.bucket, h.last>>
    <3>1. PICK h \in aggregates' : k = <<h.value, h.bucket, h.last>> BY <2>2
    <3>2. CASE \E d \in EqualTo(batch, h.value, h.bucket) : h.last = d.at
      <4>1. PICK d \in EqualTo(batch, h.value, h.bucket) : h.last = d.at BY <3>2
      <4>2. d \in details /\ d.value = h.value /\ Bucket(d.at) = h.bucket
        BY <1>2, <4>1, Zenon DEF EqualTo
      <4>3. k = <<d.value, Bucket(d.at), d.at>> BY <3>1, <4>1, <4>2, Zenon
      <4> QED BY <1>4, <4>2, <4>3, Zenon
    <3>3. CASE \E g \in aggregates : g.value = h.value /\ g.bucket = h.bucket /\ h.last = g.last
      <4>1. PICK g \in aggregates : g.value = h.value /\ g.bucket = h.bucket /\ h.last = g.last
        BY <3>3
      <4>2. k = <<g.value, g.bucket, g.last>> BY <3>1, <4>1, Zenon
      <4> QED BY <1>4, <4>1, <4>2, Zenon
    <3> QED BY <1>6, <3>2, <3>3, Zenon
  <2> QED BY <1>5, <2>1, <2>2, Zenon
<1>9. \A k \in old : k[3] \in Days
  <2> SUFFICES ASSUME NEW k \in old PROVE k[3] \in Days OBVIOUS
  <2>1. ASSUME NEW d \in details, k = <<d.value, Bucket(d.at), d.at>> PROVE k[3] \in Days
    <3>1. details \subseteq History BY Zenon DEF HistInv, HistoryTypeOK
    <3>2. \A e \in History : e.at \in Days BY DEF History
    <3>3. k[3] = d.at BY <2>1, SMT
    <3> QED BY <3>1, <3>2, <3>3, Zenon
  <2>2. ASSUME NEW g \in aggregates, k = <<g.value, g.bucket, g.last>> PROVE k[3] \in Days
    <3>1. g \in AggregateRow BY Zenon DEF HistInv, AggregatesTyped
    <3>2. g.last \in Days BY <3>1 DEF AggregateRow
    <3>3. k[3] = g.last BY <2>2, SMT
    <3> QED BY <3>2, <3>3, Zenon
  <2> QED BY <1>5, <2>1, <2>2, Zenon
<1>10. \A a, b \in Days : a <= b /\ b <= a => a = b BY HistoryAssumption, SMT DEF Days
<1>11. \A a, b, c \in Days : a <= b /\ b <= c => a <= c BY HistoryAssumption, SMT DEF Days
<1>12. \A a, b, c : <<a, b, c>>[3] = c BY SMT
<1>13. ASSUME NEW k \in old, \A o \in old : o[3] <= k[3] PROVE k \in new
  <2>1. ASSUME NEW d \in details, k = <<d.value, Bucket(d.at), d.at>> PROVE k \in new
    <3>1. CASE d \in details' BY <1>4, <2>1, <3>1, Zenon
    <3>2. CASE d \notin details'
      <4>1. d \in batch BY <1>1, <3>2, Zenon
      <4>2. PICK h \in aggregates' : h.value = d.value /\ h.bucket = Bucket(d.at)
        BY <1>7, <4>1, Zenon
      <4>3. d \in EqualTo(batch, h.value, h.bucket) BY <4>1, <4>2, Zenon DEF EqualTo
      <4>4. d.at <= h.last BY <1>6, <4>3, Zenon
      <4>5. <<h.value, h.bucket, h.last>> \in new BY <1>4
      <4>6. h.last <= k[3] /\ h.last \in Days /\ k[3] \in Days /\ k[3] = d.at
        BY <1>8, <1>9, <1>12, <1>13, <2>1, <4>5, Zenon
      <4>7. h.last = d.at BY <1>10, <4>4, <4>6, Zenon
      <4> QED BY <2>1, <4>2, <4>5, <4>7, Zenon
    <3> QED BY <3>1, <3>2
  <2>2. ASSUME NEW g \in aggregates, k = <<g.value, g.bucket, g.last>> PROVE k \in new
    <3>1. PICK h \in aggregates' : h.value = g.value /\ h.bucket = g.bucket BY <1>7
    <3>2. g.last <= h.last BY <1>6, <3>1, Zenon
    <3>3. <<h.value, h.bucket, h.last>> \in new BY <1>4
    <3>4. h.last <= k[3] /\ h.last \in Days /\ k[3] \in Days /\ k[3] = g.last
      BY <1>8, <1>9, <1>12, <1>13, <2>2, <3>3, Zenon
    <3>5. h.last = g.last BY <1>10, <3>2, <3>4, Zenon
    <3> QED BY <2>2, <3>1, <3>3, <3>5, Zenon
  <2> QED BY <1>5, <2>1, <2>2, Zenon
<1>14. ASSUME NEW k \in new, \A o \in new : o[3] <= k[3] PROVE \A o \in old : o[3] <= k[3]
  <2> DEFINE times == {o[3] : o \in old}
  <2>1. times \in SUBSET Days /\ times # {} BY <1>8, <1>9, Zenon
  <2>2. \A o \in old : o[3] \in times BY Zenon
  <2>3. \A n \in times : \E o \in old : n = o[3] BY Zenon
  <2> HIDE DEF times
  <2>4. PICK n \in times : \A t \in times : t <= n BY <2>1, DaysInOrder, Zenon
  <2>5. PICK m \in old : n = m[3] BY <2>3
  <2>6. \A o \in old : o[3] <= m[3] BY <2>2, <2>4, <2>5, Zenon
  <2>7. m \in new BY <1>13, <2>6, Zenon
  <2>8. m[3] <= k[3] BY <1>14, <2>7
  <2> QED BY <1>8, <1>9, <1>11, <2>6, <2>8, Zenon
<1>15. {k \in old : \A o \in old : o[3] <= k[3]} = {k \in new : \A o \in new : o[3] <= k[3]}
  BY <1>8, <1>13, <1>14, Zenon
<1> QED BY <1>3, <1>15, Zenon

(* A purge deletes what it selects, and only when that is what was shown.    *)
LEMMA PurgeDeletesWhatWasShown ==
  ASSUME Purge
  PROVE  /\ details \ details' \subseteq confirmed.selected.details
         /\ snapshots \ snapshots' \subseteq confirmed.selected.snapshots
         /\ \A g \in aggregates \ aggregates' :
                <<g.value, g.bucket>> \in confirmed.selected.aggregates
<1> DEFINE from == confirmed.from
           to == confirmed.to
<1>1. CASE ~Confirmed
  <2>1. UNCHANGED <<details, snapshots, aggregates>> BY <1>1, Zenon DEF Purge
  <2> QED BY <2>1, Zenon
<1>2. CASE Confirmed
  <2>1. /\ details' = details \ DetailsIn(from, to)
        /\ snapshots' = snapshots \ SnapshotsIn(from, to)
        /\ aggregates' = aggregates \ AggregatesIn(from, to)
    BY <1>2, Zenon DEF Purge
  <2>2. /\ Selected(from, to).details = DetailsIn(from, to)
        /\ Selected(from, to).snapshots = SnapshotsIn(from, to)
        /\ Selected(from, to).aggregates = {<<g.value, g.bucket>> : g \in AggregatesIn(from, to)}
    BY SMT DEF Selected
  <2>3. confirmed.selected = Selected(from, to) BY <1>2, Zenon DEF Confirmed
  <2>4. \A g \in AggregatesIn(from, to) :
           <<g.value, g.bucket>> \in {<<h.value, h.bucket>> : h \in AggregatesIn(from, to)}
    BY Zenon
  <2> QED BY <2>1, <2>2, <2>3, <2>4, Zenon
<1> QED BY <1>1, <1>2

(* Every reading that was taken and not purged is in the history once; a     *)
(* compaction changes neither what is known last nor whether the profile is  *)
(* signed in, and a purge deletes only what its user was shown:              *)
(* retention.go:205, store/usage.go:332, retention.go:214, purge.go:50.      *)
THEOREM HistoryIsKept == HistorySpec => HistoryKept
<1>1. HistInv => HistoryTypeOK /\ CountedOnce BY Zenon DEF HistInv
<1>2. HistInv /\ [HistoryNext]_historyVars =>
        [RetainHistory => LastKnown(details', aggregates') = LastKnown(details, aggregates)]_historyVars
  BY LastKnownIsKept
<1>3. HistInv /\ [HistoryNext]_historyVars =>
        [RetainHistory => StatusOf(snapshots') = StatusOf(snapshots)]_historyVars
  BY StatusIsKept
<1>4. HistInv /\ [HistoryNext]_historyVars =>
        [Purge =>
           /\ details \ details' \subseteq confirmed.selected.details
           /\ snapshots \ snapshots' \subseteq confirmed.selected.snapshots
           /\ \A g \in aggregates \ aggregates' :
                <<g.value, g.bucket>> \in confirmed.selected.aggregates]_historyVars
  BY PurgeDeletesWhatWasShown
<1>5. HistorySpec => [](HistoryTypeOK /\ CountedOnce) BY <1>1, HistoryHolds, PTL
<1>6. HistorySpec => LastKnownStays
  BY <1>2, HistoryHolds, PTL DEF HistorySpec, LastKnownStays
<1>7. HistorySpec => StatusStays
  BY <1>3, HistoryHolds, PTL DEF HistorySpec, StatusStays
<1>8. HistorySpec => PurgesWhatWasShown
  BY <1>4, HistoryHolds, PTL DEF HistorySpec, PurgesWhatWasShown
<1> QED BY <1>5, <1>6, <1>7, <1>8, PTL DEF HistoryKept
=============================================================================
