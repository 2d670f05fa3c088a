-------------------------- MODULE Comparison_proofs --------------------------
(***************************************************************************)
(* What a comparison guarantees for every two scans and whatever is asked  *)
(* of them: the inductive invariant behind the safety properties of        *)
(* Comparison, and those as theorems.                                      *)
(***************************************************************************)
EXTENDS Comparison, FiniteSetTheorems, WellFoundedInduction, TLAPS

-----------------------------------------------------------------------------
(* Line order, and what each pass takes for one finding.                   *)

\* The indexes and the lines of a scan are numbers.
LEMMA ScanFacts ==
  ASSUME NEW s \in Scans
  PROVE  /\ Len(s) \in Nat /\ DOMAIN s = 1..Len(s)
         /\ IsFiniteSet(DOMAIN s)
         /\ \A i \in DOMAIN s : /\ i \in Nat \ {0} /\ s[i].line \in Nat
                                /\ s[i].band \in 0..4 /\ s[i].suppressed \in BOOLEAN
<1>1. /\ Len(s) \in Nat /\ DOMAIN s = 1..Len(s)
      /\ \A i \in DOMAIN s : /\ s[i].line \in Nat /\ s[i].band \in 0..4
                             /\ s[i].suppressed \in BOOLEAN
  BY ComparisonAssumption
<1>2. IsFiniteSet(1..Len(s))
  BY <1>1, FS_Interval
<1>. QED BY <1>1, <1>2

\* A set of naturals that is not empty has a least member.
LEMMA LeastOfNaturals ==
  ASSUME NEW S \in SUBSET Nat, S # {}
  PROVE  \E i \in S : \A j \in S : i <= j
<1>. DEFINE less == OpToRel(<, Nat)
<1>1. IsWellFoundedOn(less, Nat)
  BY NatLessThanWellFounded
<1>2. \A i, j \in Nat : j < i => <<j, i>> \in less
  BY DEF OpToRel
<1>. HIDE DEF less
<1>3. PICK i \in S : \A j \in S : ~ <<j, i>> \in less
  BY <1>1, WFMin
<1>4. \A j \in S : ~(j < i)
  BY <1>2, <1>3
<1>. QED BY <1>4

\* Line order is a strict total order of a scan's findings.
LEMMA LineOrder ==
  ASSUME NEW s \in Scans, NEW i \in DOMAIN s, NEW j \in DOMAIN s, NEW k \in DOMAIN s
  PROVE  /\ ~Before(s, i, i)
         /\ Before(s, i, j) /\ Before(s, j, k) => Before(s, i, k)
         /\ i # j => Before(s, i, j) \/ Before(s, j, i)
         /\ Before(s, i, j) => ~Before(s, j, i)
BY ScanFacts DEF Before

\* Every part of a scan that is not empty has a finding none of it comes before.
LEMMA FirstInLine ==
  ASSUME NEW s \in Scans, NEW T \in SUBSET DOMAIN s, T # {}
  PROVE  \E z \in T : \A e \in T : ~Before(s, e, z)
<1>. DEFINE Lines == {s[i].line : i \in T}
<1>1. PICK l \in Lines : \A m \in Lines : l <= m
  <2>1. Lines \in SUBSET Nat /\ Lines # {}
    BY ScanFacts
  <2>. QED BY <2>1, LeastOfNaturals
<1>. DEFINE There == {i \in T : s[i].line = l}
<1>2. PICK z \in There : \A e \in There : z <= e
  <2>1. There \in SUBSET Nat /\ There # {}
    BY <1>1, ScanFacts
  <2>. QED BY <2>1, LeastOfNaturals
<1>3. \A e \in T : s[e].line \in Nat /\ l <= s[e].line /\ e \in Nat
  BY <1>1, ScanFacts
<1>4. ASSUME NEW e \in T, Before(s, e, z) PROVE FALSE
  BY <1>2, <1>3, <1>4 DEF Before
<1>. QED BY <1>2, <1>4

\* A pass groups findings: being alike is symmetric and transitive.
LEMMA AlikeGroups ==
  ASSUME NEW n, NEW f, NEW g, NEW e
  PROVE  /\ Alike(n, f, g) => Alike(n, g, f)
         /\ Alike(n, f, g) /\ Alike(n, g, e) => Alike(n, f, e)
BY DEF Alike

\* What is ahead of a finding is finite, and less than all that are alike with it.
LEMMA AheadFinite ==
  ASSUME NEW n, NEW s \in Scans, NEW S \in SUBSET DOMAIN s, NEW i \in S
  PROVE  /\ IsFiniteSet(AheadOf(n, s, S, i)) /\ Cardinality(AheadOf(n, s, S, i)) \in Nat
         /\ i \notin AheadOf(n, s, S, i)
<1>1. AheadOf(n, s, S, i) \in SUBSET DOMAIN s
  BY DEF AheadOf
<1>. QED BY <1>1, ScanFacts, LineOrder, FS_Subset, FS_CardinalityType DEF AheadOf

\* No two alike findings have as many ahead of them.
LEMMA PlaceInLine ==
  ASSUME NEW n, NEW s \in Scans, NEW S \in SUBSET DOMAIN s, NEW i \in S, NEW j \in S,
         Alike(n, s[i], s[j]),
         Cardinality(AheadOf(n, s, S, i)) = Cardinality(AheadOf(n, s, S, j))
  PROVE  i = j
<1>1. ASSUME NEW p \in S, NEW q \in S, Alike(n, s[p], s[q]), Before(s, p, q)
      PROVE  Cardinality(AheadOf(n, s, S, p)) # Cardinality(AheadOf(n, s, S, q))
  <2>1. AheadOf(n, s, S, p) \subseteq AheadOf(n, s, S, q)
    <3>1. SUFFICES ASSUME NEW e \in AheadOf(n, s, S, p)
                   PROVE  e \in AheadOf(n, s, S, q)
      OBVIOUS
    <3>2. e \in S /\ Alike(n, s[e], s[p]) /\ Before(s, e, p)
      BY <3>1 DEF AheadOf
    <3>3. Alike(n, s[e], s[q])
      BY <1>1, <3>2, AlikeGroups
    <3>4. Before(s, e, q)
      BY <1>1, <3>2, LineOrder
    <3>. QED BY <3>2, <3>3, <3>4 DEF AheadOf
  <2>2. p \in AheadOf(n, s, S, q)
    BY <1>1 DEF AheadOf
  <2>3. p \notin AheadOf(n, s, S, p) /\ IsFiniteSet(AheadOf(n, s, S, q))
    BY AheadFinite
  <2>. QED BY <2>1, <2>2, <2>3, FS_Subset
<1>2. CASE i # j
  <2>1. Before(s, i, j) \/ Before(s, j, i)
    BY <1>2, LineOrder
  <2>. QED BY <1>1, <2>1, AlikeGroups
<1>. QED BY <1>2

\* Every place in the line of those alike with a finding is somebody's.
LEMMA LineIsFull ==
  ASSUME NEW n, NEW s \in Scans, NEW S \in SUBSET DOMAIN s, NEW i \in S, NEW m \in Nat,
         m < Cardinality({j \in S : Alike(n, s[j], s[i])})
  PROVE  \E j \in S : Alike(n, s[j], s[i]) /\ Cardinality(AheadOf(n, s, S, j)) = m
<1>. DEFINE C == {j \in S : Alike(n, s[j], s[i])}
            Taken(k) == \E j \in C : Cardinality(AheadOf(n, s, S, j)) = k
            Free == {k \in Nat : k < Cardinality(C) /\ ~Taken(k)}
<1>1. IsFiniteSet(C) /\ Cardinality(C) \in Nat
  <2>1. C \in SUBSET DOMAIN s
    OBVIOUS
  <2>. QED BY <2>1, ScanFacts, FS_Subset, FS_CardinalityType
<1>2. ASSUME NEW j \in C
      PROVE  AheadOf(n, s, S, j) = {e \in C : Before(s, e, j)}
  BY <1>2, AlikeGroups DEF AheadOf
<1>3. SUFFICES ASSUME Free # {} PROVE FALSE
  BY DEF Free
<1>4. PICK k \in Free : \A l \in Free : k <= l
  <2>1. Free \in SUBSET Nat
    OBVIOUS
  <2>. HIDE DEF Free
  <2>. QED BY <1>3, <2>1, LeastOfNaturals
<1>5. \E D \in SUBSET C : /\ Cardinality(D) = k
                          /\ \A d \in D, e \in C : Before(s, e, d) => e \in D
  <2>1. CASE k = 0
    BY <2>1, FS_EmptySet
  <2>2. CASE k # 0
    <3>1. k - 1 \in Nat /\ k - 1 < Cardinality(C) /\ k - 1 \notin Free
      BY <1>1, <1>4, <2>2
    <3>2. PICK x \in C : Cardinality(AheadOf(n, s, S, x)) = k - 1
      BY <3>1
    <3>. DEFINE A == {e \in C : Before(s, e, x)}
                D == A \union {x}
    <3>3. A = AheadOf(n, s, S, x)
      BY <1>2
    <3>4. IsFiniteSet(A) /\ x \notin A /\ Cardinality(A) = k - 1
      BY <3>2, <3>3, AheadFinite
    <3>5. Cardinality(D) = k
      <4>. HIDE DEF A
      <4>1. Cardinality(A \union {x}) = Cardinality(A) + 1
        BY <3>4, FS_AddElement
      <4>2. k \in Nat
        BY <1>4
      <4>. QED BY <3>4, <4>1, <4>2
    <3>6. ASSUME NEW d \in D, NEW e \in C, Before(s, e, d) PROVE e \in D
      <4>1. d = x \/ Before(s, d, x)
        OBVIOUS
      <4>2. d \in DOMAIN s /\ e \in DOMAIN s /\ x \in DOMAIN s
        OBVIOUS
      <4>3. Before(s, e, x)
        BY <3>6, <4>1, <4>2, LineOrder
      <4>. QED BY <4>3
    <3>7. D \in SUBSET C
      OBVIOUS
    <3>. HIDE DEF D
    <3>. QED BY <3>5, <3>6, <3>7
  <2>. QED BY <2>1, <2>2
<1>6. PICK D \in SUBSET C : /\ Cardinality(D) = k
                            /\ \A d \in D, e \in C : Before(s, e, d) => e \in D
  BY <1>5
<1>7. C \ D # {} /\ (C \ D) \in SUBSET DOMAIN s
  <2>1. k < Cardinality(C) /\ k \in Nat
    BY <1>4
  <2>2. C # D
    BY <1>1, <1>6, <2>1
  <2>3. C \in SUBSET DOMAIN s
    OBVIOUS
  <2>. HIDE DEF C
  <2>. QED BY <2>2, <2>3
<1>8. PICK z \in C \ D : \A e \in C \ D : ~Before(s, e, z)
  <2>. HIDE DEF C
  <2>. QED BY <1>7, FirstInLine
<1>9. AheadOf(n, s, S, z) = D
  <2>1. {e \in C : Before(s, e, z)} \subseteq D
    BY <1>8
  <2>2. ASSUME NEW d \in D PROVE Before(s, d, z)
    <3>1. d \in DOMAIN s /\ z \in DOMAIN s /\ d # z
      BY <1>6, <1>8
    <3>2. ~Before(s, z, d)
      BY <1>6, <1>8
    <3>. QED BY <3>1, <3>2, LineOrder
  <2>3. AheadOf(n, s, S, z) = {e \in C : Before(s, e, z)}
    BY <1>2, <1>8
  <2>. QED BY <1>6, <2>1, <2>2, <2>3
<1>. QED BY <1>4, <1>6, <1>8, <1>9

-----------------------------------------------------------------------------
(* The inductive invariant.                                                *)

Started == stage \notin {"read", "refused"}

\* What each stage has behind it.
ShapeInv ==
  /\ stage \in {"read", "refused"} => pass = 1 /\ old = {} /\ new = {}
  /\ pass = 1 => pair = [h \in DOMAIN head |-> 0]
  /\ Started => Comparable /\ old = Distinct(base, BaseHolds) /\ new = Distinct(head, HeadHolds)
  /\ stage \in {"judge", "answer", "done"} => pass = 5

\* Pairs are one to one, and each was good enough for a pass that is over.
PairFit(h) == Fit(head[h], base[pair[h]])
PairInv ==
  /\ \A h \in DOMAIN head :
       pair[h] # 0 => h \in new /\ pair[h] \in old /\ PairFit(h) < pass
  /\ \A h, k \in DOMAIN head : pair[h] # 0 /\ pair[h] = pair[k] => h = k

\* Two findings that fit well enough for a pass that is over are not both left waiting:
\* one of them is in a pair that is as good.
Served(h, b) ==
  \/ pair[h] # 0 /\ PairFit(h) <= Fit(head[h], base[b])
  \/ \E k \in new : pair[k] = b /\ PairFit(k) <= Fit(head[h], base[b])
StableInv ==
  \A h \in new, b \in old : Fit(head[h], base[b]) < pass => Served(h, b)

\* What became of each finding follows from the pairs, and the verdict from that.
VerdictInv ==
  /\ stage \in {"judge", "answer", "done"} =>
       /\ \A h \in new : change[h] = ChangeOf(h)
       /\ fixed = {b \in Left : ~base[b].suppressed}
  /\ IF stage \in {"answer", "done"}
     THEN tripped = {h \in new : change[h] = "new" /\ Shown(head[h]) /\ MeetsGate(head[h])}
     ELSE tripped = {}
  /\ exit = "clean" => stage = "done" /\ tripped = {}

\* A scan compared with itself: a finding both reports hold is paired with itself, by its
\* fingerprint where it has one and by its identity otherwise.
Itself == base = head /\ ~ask.noBase /\ RanksAgree(base)
SelfInv ==
  Itself /\ Started =>
    /\ pass > 1 => \A k \in old : base[k].hash # NoHash => pair[k] = k
    /\ pass > 2 => \A k \in old : pair[k] = k

IInv == TypeOK /\ ShapeInv /\ PairInv /\ StableInv /\ VerdictInv /\ SelfInv

\* A pass takes findings for one exactly where they fit as well as it asks.
LEMMA FitsAsAlike ==
  ASSUME NEW f, NEW g
  PROVE  /\ Fit(f, g) \in 1..5
         /\ \A n \in 1..4 : Alike(n, f, g) => Fit(f, g) <= n
         /\ \A n \in 1..4 : Fit(f, g) = n => Alike(n, f, g)
BY DEF Fit, SameLines, Alike

LEMMA DistinctPart ==
  ASSUME NEW s, NEW S
  PROVE  Distinct(s, S) \subseteq S
BY DEF Distinct

LEMMA HoldsPart == BaseHolds \subseteq DOMAIN base /\ HeadHolds \subseteq DOMAIN head
BY DEF BaseHolds, HeadHolds, Written

\* What one pass does: it pairs findings left over that are alike and have the same place
\* in line, and leaves every pair that was made.
LEMMA MatchFacts ==
  ASSUME TypeOK, Match
  PROVE  /\ \A h \in DOMAIN head : h \notin Unpaired => pair'[h] = pair[h]
         /\ \A h \in Unpaired : \/ pair'[h] = 0
                                \/ pair'[h] \in Left /\ Takes(h, pair'[h])
         /\ \A h \in Unpaired : (\E b \in Left : Takes(h, b)) =>
                                  pair'[h] \in Left /\ Takes(h, pair'[h])
         /\ Unpaired \subseteq new /\ Left \subseteq old /\ new \subseteq DOMAIN head
         /\ UNCHANGED <<base, head, ask, old, new, stage>> /\ pass \in 1..4 /\ pass' = pass + 1
<1>1. new \subseteq DOMAIN head /\ Unpaired \subseteq new /\ Left \subseteq old
  BY DEF TypeOK, Unpaired, Left
<1>2. \A h \in DOMAIN head :
        pair'[h] = IF h \in Unpaired /\ \E b \in Left : Takes(h, b)
                   THEN CHOOSE b \in Left : Takes(h, b) ELSE pair[h]
  BY DEF Match
<1>3. \A h \in Unpaired : pair[h] = 0
  BY DEF Unpaired
<1>4. ASSUME NEW h \in Unpaired, \E b \in Left : Takes(h, b)
      PROVE  pair'[h] \in Left /\ Takes(h, pair'[h])
  <2>1. pair'[h] = CHOOSE b \in Left : Takes(h, b)
    BY <1>1, <1>2, <1>4
  <2>2. (CHOOSE b \in Left : Takes(h, b)) \in Left /\ Takes(h, CHOOSE b \in Left : Takes(h, b))
    BY <1>4
  <2>. QED BY <2>1, <2>2
<1>5. \A h \in DOMAIN head : h \notin Unpaired => pair'[h] = pair[h]
  BY <1>2
<1>6. ASSUME NEW h \in Unpaired
      PROVE  pair'[h] = 0 \/ (pair'[h] \in Left /\ Takes(h, pair'[h]))
  BY <1>1, <1>2, <1>3, <1>4
<1>7. UNCHANGED <<base, head, ask, old, new, stage>> /\ pass \in 1..4 /\ pass' = pass + 1
  BY DEF Match, input
<1>. QED BY <1>1, <1>4, <1>5, <1>6, <1>7

-----------------------------------------------------------------------------
(* Types and stages.                                                       *)

LEMMA TypeInit == Init => TypeOK
BY ScanFacts DEF Init, TypeOK, Stages, Changes

LEMMA TypeStep == TypeOK /\ ShapeInv /\ [Next]_vars => TypeOK'
<1>. SUFFICES ASSUME TypeOK, ShapeInv, [Next]_vars PROVE TypeOK'
  OBVIOUS
<1>1. CASE Read
  <2>1. Distinct(base, BaseHolds) \subseteq DOMAIN base
    BY DistinctPart, HoldsPart
  <2>2. Distinct(head, HeadHolds) \subseteq DOMAIN head
    BY DistinctPart, HoldsPart
  <2>3. UNCHANGED <<base, head, ask, pass, pair, change, exit>> /\ fixed' = fixed /\ tripped' = tripped
    BY <1>1 DEF Read, input
  <2>4. fixed = {} /\ tripped = {}
    BY <1>1 DEF Read, TypeOK, ShapeInv
  <2>. QED BY <1>1, <2>1, <2>2, <2>3, <2>4 DEF Read, TypeOK, Stages
<1>2. CASE Refuse
  BY <1>2 DEF Refuse, input, TypeOK, Stages
<1>3. CASE Match
  <2>1. \A h \in DOMAIN head : pair'[h] \in 0..Len(base)
    <3>1. old \subseteq 1..Len(base) /\ Len(base) \in Nat
      BY ScanFacts DEF TypeOK
    <3>2. \A h \in DOMAIN head : pair'[h] \in old \union {0, pair[h]}
      BY <1>3, MatchFacts
    <3>. QED BY <3>1, <3>2 DEF TypeOK
  <2>2. pair' \in [DOMAIN head -> 0..Len(base)]
    BY <1>3, <2>1 DEF Match
  <2>3. pass' \in 1..5
    BY <1>3 DEF Match
  <2>. QED BY <1>3, <2>2, <2>3 DEF Match, input, TypeOK
<1>4. CASE Classify
  <2>1. \A h \in DOMAIN head : ChangeOf(h) \in Changes
    BY DEF ChangeOf, Changes
  <2>2. change' \in [DOMAIN head -> Changes]
    BY <1>4, <2>1 DEF Classify, Changes
  <2>. QED BY <1>4, <2>2 DEF Classify, input, TypeOK, Stages, Left
<1>5. CASE Judge
  BY <1>5 DEF Judge, input, TypeOK, Stages
<1>6. CASE Answer
  <2>1. exit' \in {"clean", "failed"}
    BY <1>6 DEF Answer
  <2>. QED BY <1>6, <2>1 DEF Answer, input, TypeOK, Stages
<1>7. CASE UNCHANGED vars
  BY <1>7 DEF vars, TypeOK
<1>. QED BY <1>1, <1>2, <1>3, <1>4, <1>5, <1>6, <1>7 DEF Next

LEMMA ShapeInit == Init => ShapeInv
BY DEF Init, ShapeInv, Started

LEMMA ShapeStep == TypeOK /\ ShapeInv /\ [Next]_vars => ShapeInv'
<1>. SUFFICES ASSUME TypeOK, ShapeInv, [Next]_vars PROVE ShapeInv'
  OBVIOUS
<1>0. UNCHANGED input
  BY DEF Next, vars, input, Read, Refuse, Match, Classify, Judge, Answer
<1>1. /\ Comparable' = Comparable
      /\ Distinct(base, BaseHolds)' = Distinct(base, BaseHolds)
      /\ Distinct(head, HeadHolds)' = Distinct(head, HeadHolds)
  BY <1>0 DEF input, Comparable, BandsCompare, ScopesCompare, Distinct, BaseHolds, HeadHolds, Written
<1>. USE <1>0, <1>1 DEF ShapeInv, Started, input
<1>2. CASE Read
  BY <1>2 DEF Read
<1>3. CASE Refuse
  BY <1>3 DEF Refuse
<1>4. CASE Match
  BY <1>4 DEF Match, TypeOK
<1>5. CASE Classify
  BY <1>5 DEF Classify
<1>6. CASE Judge
  BY <1>6 DEF Judge
<1>7. CASE Answer
  BY <1>7 DEF Answer
<1>8. CASE UNCHANGED vars
  BY <1>8 DEF vars
<1>. QED BY <1>2, <1>3, <1>4, <1>5, <1>6, <1>7, <1>8 DEF Next

\* Every step but Read and Match leaves what pairs are made of.
LEMMA PairsKept ==
  ASSUME [Next]_vars, ~Read, ~Match
  PROVE  UNCHANGED <<base, head, ask, pass, old, new, pair>>
BY DEF Next, vars, input, Refuse, Classify, Judge, Answer

-----------------------------------------------------------------------------
(* Pairing.                                                                *)

LEMMA PairInit == Init => PairInv /\ StableInv
<1>. SUFFICES ASSUME Init PROVE PairInv /\ StableInv
  OBVIOUS
<1>1. \A h \in DOMAIN head : pair[h] = 0
  BY DEF Init
<1>. QED BY <1>1 DEF Init, PairInv, StableInv

\* The pairs of one pass are one to one, among themselves and with those made before.
LEMMA PairStep == TypeOK /\ ShapeInv /\ PairInv /\ [Next]_vars => PairInv'
<1>. SUFFICES ASSUME TypeOK, ShapeInv, PairInv, [Next]_vars PROVE PairInv'
  OBVIOUS
<1>1. CASE Match
  <2>1. /\ UNCHANGED <<base, head, old, new>> /\ pass \in 1..4 /\ pass' = pass + 1
        /\ Unpaired \subseteq DOMAIN head /\ Left \subseteq DOMAIN base
        /\ Unpaired \subseteq new /\ Left \subseteq old
        /\ base \in Scans /\ head \in Scans
    BY <1>1, MatchFacts DEF TypeOK
  <2>2. ASSUME NEW h \in DOMAIN head, pair'[h] # 0
        PROVE  h \in new /\ pair'[h] \in old /\ Fit(head[h], base[pair'[h]]) < pass + 1
    <3>1. CASE h \notin Unpaired
      <4>1. pair'[h] = pair[h]
        BY <1>1, <2>2, <3>1, MatchFacts
      <4>2. Fit(head[h], base[pair[h]]) < pass /\ h \in new /\ pair[h] \in old
        BY <2>2, <4>1 DEF PairInv, PairFit
      <4>3. Fit(head[h], base[pair[h]]) \in 1..5
        BY FitsAsAlike
      <4>. QED BY <2>1, <4>1, <4>2, <4>3
    <3>2. CASE h \in Unpaired
      <4>1. pair'[h] \in Left /\ Takes(h, pair'[h])
        BY <1>1, <2>2, <3>2, MatchFacts
      <4>2. Alike(pass, head[h], base[pair'[h]])
        BY <4>1 DEF Takes
      <4>3. Fit(head[h], base[pair'[h]]) <= pass /\ Fit(head[h], base[pair'[h]]) \in 1..5
        BY <2>1, <4>2, FitsAsAlike
      <4>. QED BY <2>1, <3>2, <4>1, <4>3
    <3>. QED BY <3>1, <3>2
  <2>3. ASSUME NEW h \in DOMAIN head, NEW k \in DOMAIN head, pair'[h] # 0, pair'[h] = pair'[k]
        PROVE  h = k
    <3>1. CASE h \notin Unpaired /\ k \notin Unpaired
      BY <1>1, <2>3, <3>1, MatchFacts DEF PairInv
    <3>2. ASSUME NEW i \in DOMAIN head, NEW j \in DOMAIN head, pair'[i] # 0, pair'[i] = pair'[j],
                 i \notin Unpaired, j \in Unpaired
          PROVE  FALSE
      <4>1. pair'[i] = pair[i] /\ pair[i] # 0
        BY <1>1, <3>2, MatchFacts
      <4>2. i \in new
        BY <4>1 DEF PairInv
      <4>3. pair'[j] \in Left
        BY <1>1, <3>2, MatchFacts
      <4>. QED BY <3>2, <4>1, <4>2, <4>3 DEF Left
    <3>3. CASE h \in Unpaired /\ k \in Unpaired
      <4>. DEFINE b == pair'[h]
      <4>1. b \in Left /\ Takes(h, b) /\ Takes(k, b)
        BY <1>1, <2>3, <3>3, MatchFacts
      <4>2. /\ Cardinality(AheadOf(pass, head, Unpaired, h))
                 = Cardinality(AheadOf(pass, head, Unpaired, k))
            /\ Alike(pass, head[h], head[k])
        BY <4>1, AlikeGroups DEF Takes
      <4>. QED BY <2>1, <3>3, <4>2, PlaceInLine
    <3>. QED BY <2>3, <3>1, <3>2, <3>3
  <2>. QED BY <2>1, <2>2, <2>3 DEF PairInv, PairFit
<1>2. CASE Read
  <2>1. pass = 1 /\ pair' = pair /\ head' = head
    BY <1>2 DEF Read, ShapeInv, input
  <2>2. \A h \in DOMAIN head : pair[h] = 0
    BY <2>1 DEF ShapeInv
  <2>. QED BY <2>1, <2>2 DEF PairInv
<1>3. CASE ~Match /\ ~Read
  BY <1>3, PairsKept DEF PairInv, PairFit
<1>. QED BY <1>1, <1>2, <1>3

\* Where two findings are alike and both are left over, a pass pairs one of them: the
\* shorter of the two lines they stand in is paired to its end.
LEMMA OneIsTaken ==
  ASSUME TypeOK, ShapeInv, Match, NEW h \in Unpaired, NEW b \in Left, Alike(pass, head[h], base[b])
  PROVE  \/ \E c \in Left : Takes(h, c)
         \/ \E k \in Unpaired : Takes(k, b)
<1>. DEFINE H == {k \in Unpaired : Alike(pass, head[k], head[h])}
            B == {c \in Left : Alike(pass, base[c], base[b])}
            m == Cardinality(AheadOf(pass, head, Unpaired, h))
            n == Cardinality(AheadOf(pass, base, Left, b))
<1>1. /\ Unpaired \in SUBSET DOMAIN head /\ Left \in SUBSET DOMAIN base
      /\ base \in Scans /\ head \in Scans
  BY MatchFacts DEF TypeOK
<1>2. m \in Nat /\ n \in Nat
  BY <1>1, AheadFinite
<1>3. IsFiniteSet(H) /\ Cardinality(H) \in Nat /\ IsFiniteSet(B) /\ Cardinality(B) \in Nat
  <2>1. H \in SUBSET DOMAIN head /\ B \in SUBSET DOMAIN base
    BY <1>1
  <2>2. IsFiniteSet(DOMAIN head) /\ IsFiniteSet(DOMAIN base)
    BY <1>1, ScanFacts
  <2>. QED BY <2>1, <2>2, FS_Subset, FS_CardinalityType
<1>4. m < Cardinality(H)
  <2>1. AheadOf(pass, head, Unpaired, h) \subseteq H /\ h \in H
    BY AlikeGroups DEF AheadOf
  <2>2. h \notin AheadOf(pass, head, Unpaired, h)
    BY <1>1, AheadFinite
  <2>. HIDE DEF H
  <2>3. m <= Cardinality(H) /\ m # Cardinality(H)
    BY <1>3, <2>1, <2>2, FS_Subset
  <2>. QED BY <1>2, <1>3, <2>3
<1>5. n < Cardinality(B)
  <2>1. AheadOf(pass, base, Left, b) \subseteq B /\ b \in B
    BY AlikeGroups DEF AheadOf
  <2>2. b \notin AheadOf(pass, base, Left, b)
    BY <1>1, AheadFinite
  <2>. HIDE DEF B
  <2>3. n <= Cardinality(B) /\ n # Cardinality(B)
    BY <1>3, <2>1, <2>2, FS_Subset
  <2>. QED BY <1>2, <1>3, <2>3
<1>6. CASE m < Cardinality(B)
  <2>1. PICK c \in Left : Alike(pass, base[c], base[b]) /\ Cardinality(AheadOf(pass, base, Left, c)) = m
    BY <1>1, <1>2, <1>6, LineIsFull
  <2>2. Alike(pass, head[h], base[c])
    BY <2>1, AlikeGroups
  <2>. QED BY <2>1, <2>2 DEF Takes
<1>7. CASE n < Cardinality(H)
  <2>1. PICK k \in Unpaired : /\ Alike(pass, head[k], head[h])
                              /\ Cardinality(AheadOf(pass, head, Unpaired, k)) = n
    BY <1>1, <1>2, <1>7, LineIsFull
  <2>2. Alike(pass, head[k], base[b])
    BY <2>1, AlikeGroups
  <2>. QED BY <2>1, <2>2 DEF Takes
<1>. QED
  <2>. HIDE DEF m, n, H, B
  <2>. QED BY <1>2, <1>3, <1>4, <1>5, <1>6, <1>7

\* A pair that was made stays, and a finding still to be paired had none.
LEMMA MadePairsStay ==
  ASSUME TypeOK, ShapeInv, PairInv, Match, NEW h \in new, pair[h] # 0
  PROVE  pair'[h] = pair[h]
<1>1. h \notin Unpaired /\ h \in DOMAIN head
  BY DEF Unpaired, TypeOK
<1>. QED BY <1>1, MatchFacts

LEMMA StableStep == TypeOK /\ ShapeInv /\ PairInv /\ StableInv /\ [Next]_vars => StableInv'
<1>. SUFFICES ASSUME TypeOK, ShapeInv, PairInv, StableInv, [Next]_vars PROVE StableInv'
  OBVIOUS
<1>1. CASE Match
  <2>1. /\ UNCHANGED <<base, head, old, new>> /\ pass \in 1..4 /\ pass' = pass + 1
        /\ Unpaired \subseteq new /\ Left \subseteq old /\ new \subseteq DOMAIN head
    BY <1>1, MatchFacts
  <2>2. SUFFICES ASSUME NEW h \in new, NEW b \in old, Fit(head[h], base[b]) < pass + 1
                 PROVE  \/ pair'[h] # 0 /\ Fit(head[h], base[pair'[h]]) <= Fit(head[h], base[b])
                        \/ \E k \in new : /\ pair'[k] = b
                                          /\ Fit(head[k], base[b]) <= Fit(head[h], base[b])
    <3>1. \A k \in new, b \in old : pair'[k] = b => Fit(head[k], base[pair'[k]]) = Fit(head[k], base[b])
      OBVIOUS
    <3>. QED BY <2>1, <2>2, <3>1 DEF StableInv, Served, PairFit
  <2>3. Fit(head[h], base[b]) \in 1..5
    BY FitsAsAlike
  <2>0. 0 \notin old
    BY ScanFacts DEF TypeOK
  <2>4. CASE Fit(head[h], base[b]) < pass
    <3>1. Served(h, b)
      BY <2>4 DEF StableInv
    <3>2. CASE pair[h] # 0 /\ PairFit(h) <= Fit(head[h], base[b])
      BY <1>1, <3>2, MadePairsStay DEF PairFit
    <3>3. CASE \E k \in new : pair[k] = b /\ PairFit(k) <= Fit(head[h], base[b])
      <4>1. PICK k \in new : pair[k] = b /\ PairFit(k) <= Fit(head[h], base[b])
        BY <3>3
      <4>2. pair'[k] = b
        BY <1>1, <2>0, <4>1, MadePairsStay
      <4>. QED BY <4>1, <4>2 DEF PairFit
    <3>. QED BY <3>1, <3>2, <3>3 DEF Served
  <2>5. CASE Fit(head[h], base[b]) = pass
    <3>1. Alike(pass, head[h], base[b])
      BY <2>1, <2>5, FitsAsAlike
    <3>2. CASE h \notin Unpaired
      <4>1. pair[h] # 0 /\ h \in DOMAIN head
        BY <2>1, <3>2 DEF Unpaired
      <4>2. Fit(head[h], base[pair[h]]) < pass /\ Fit(head[h], base[pair[h]]) \in 1..5
        BY <4>1, FitsAsAlike DEF PairInv, PairFit
      <4>3. pair'[h] = pair[h]
        BY <1>1, <4>1, MadePairsStay
      <4>. QED BY <2>1, <2>5, <4>1, <4>2, <4>3
    <3>3. CASE b \notin Left
      <4>1. PICK k \in new : pair[k] = b
        BY <3>3 DEF Left
      <4>2. pair[k] # 0 /\ k \in DOMAIN head
        BY <2>0, <2>1, <4>1
      <4>3. Fit(head[k], base[b]) < pass /\ Fit(head[k], base[b]) \in 1..5
        BY <4>1, <4>2, FitsAsAlike DEF PairInv, PairFit
      <4>4. pair'[k] = b
        BY <1>1, <4>1, <4>2, MadePairsStay
      <4>. QED BY <2>1, <2>5, <4>3, <4>4
    <3>4. CASE h \in Unpaired /\ b \in Left
      <4>1. ASSUME NEW c \in Left, Takes(h, c)
            PROVE  pair'[h] # 0 /\ Fit(head[h], base[pair'[h]]) <= pass
        <5>1. pair'[h] \in Left /\ Takes(h, pair'[h])
          BY <1>1, <3>4, <4>1, MatchFacts
        <5>2. Alike(pass, head[h], base[pair'[h]])
          BY <5>1 DEF Takes
        <5>. QED BY <2>0, <2>1, <5>1, <5>2, FitsAsAlike
      <4>2. ASSUME NEW k \in Unpaired, Takes(k, b)
            PROVE  pair'[k] = b /\ Fit(head[k], base[b]) <= pass
        <5>1. pair'[k] \in Left /\ Takes(k, pair'[k])
          BY <1>1, <3>4, <4>2, MatchFacts
        <5>2. /\ Cardinality(AheadOf(pass, base, Left, pair'[k]))
                   = Cardinality(AheadOf(pass, base, Left, b))
              /\ Alike(pass, base[pair'[k]], base[b]) /\ Alike(pass, head[k], base[b])
          BY <4>2, <5>1, AlikeGroups DEF Takes
        <5>3. Left \in SUBSET DOMAIN base /\ base \in Scans
          BY <2>1 DEF TypeOK
        <5>4. pair'[k] = b
          BY <3>4, <5>1, <5>2, <5>3, PlaceInLine
        <5>. QED BY <2>1, <5>2, <5>4, FitsAsAlike
      <4>3. \/ \E c \in Left : Takes(h, c)
            \/ \E k \in Unpaired : Takes(k, b)
        BY <1>1, <3>1, <3>4, OneIsTaken
      <4>. QED BY <2>1, <2>5, <4>1, <4>2, <4>3
    <3>. QED BY <3>2, <3>3, <3>4
  <2>. QED BY <2>1, <2>2, <2>3, <2>4, <2>5
<1>2. CASE Read
  <2>1. pass' = 1
    BY <1>2 DEF Read, ShapeInv
  <2>2. \A h, b : Fit(head[h], base[b])' \in 1..5
    BY FitsAsAlike DEF Fit, SameLines
  <2>. QED BY <2>1, <2>2 DEF StableInv
<1>3. CASE ~Match /\ ~Read
  BY <1>3, PairsKept DEF StableInv, Served, PairFit
<1>. QED BY <1>1, <1>2, <1>3

-----------------------------------------------------------------------------
(* Verdicts.                                                               *)

LEMMA VerdictInit == Init => VerdictInv
BY DEF Init, VerdictInv

LEMMA VerdictStep == TypeOK /\ ShapeInv /\ VerdictInv /\ [Next]_vars => VerdictInv'
<1>. SUFFICES ASSUME TypeOK, ShapeInv, VerdictInv, [Next]_vars PROVE VerdictInv'
  OBVIOUS
<1>1. CASE Read
  BY <1>1 DEF Read, VerdictInv
<1>2. CASE Refuse
  BY <1>2 DEF Refuse, VerdictInv
<1>3. CASE Match
  BY <1>3 DEF Match, VerdictInv
<1>4. CASE Classify
  <2>1. new \subseteq DOMAIN head /\ UNCHANGED <<base, head, old, new, pair, tripped, exit>>
    BY <1>4 DEF Classify, input, TypeOK
  <2>2. \A h \in new : change'[h] = ChangeOf(h) /\ ChangeOf(h)' = ChangeOf(h)
    BY <1>4, <2>1 DEF Classify, ChangeOf, Moved, WasExcused
  <2>3. fixed' = {b \in Left : ~base[b].suppressed}' /\ stage' = "judge" /\ stage = "match"
    BY <1>4, <2>1 DEF Classify, Left
  <2>. QED BY <2>1, <2>2, <2>3 DEF VerdictInv
<1>5. CASE Judge
  <2>1. UNCHANGED <<base, head, ask, old, new, pair, change, fixed, exit>> /\ stage' = "answer" /\ stage = "judge"
    BY <1>5 DEF Judge, input
  <2>2. tripped' = {h \in new : change[h] = "new" /\ Shown(head[h]) /\ MeetsGate(head[h])}'
    BY <1>5, <2>1 DEF Judge, Shown, MeetsGate
  <2>3. \A h \in new : ChangeOf(h)' = ChangeOf(h)
    BY <2>1 DEF ChangeOf, Moved, WasExcused
  <2>4. {b \in Left : ~base[b].suppressed}' = {b \in Left : ~base[b].suppressed}
    BY <2>1 DEF Left
  <2>. QED BY <2>1, <2>2, <2>3, <2>4 DEF VerdictInv
<1>6. CASE Answer
  <2>1. UNCHANGED <<base, head, ask, old, new, pair, change, fixed, tripped>> /\ stage' = "done" /\ stage = "answer"
    BY <1>6 DEF Answer, input
  <2>2. exit' = "clean" => tripped = {}
    BY <1>6 DEF Answer
  <2>3. \A h \in new : ChangeOf(h)' = ChangeOf(h)
    BY <2>1 DEF ChangeOf, Moved, WasExcused
  <2>4. {b \in Left : ~base[b].suppressed}' = {b \in Left : ~base[b].suppressed}
    BY <2>1 DEF Left
  <2>5. \A h \in new : Shown(head[h])' = Shown(head[h]) /\ MeetsGate(head[h])' = MeetsGate(head[h])
    BY <2>1 DEF Shown, MeetsGate
  <2>. QED BY <2>1, <2>2, <2>3, <2>4, <2>5 DEF VerdictInv
<1>7. CASE UNCHANGED vars
  BY <1>7 DEF vars, VerdictInv, ChangeOf, Moved, WasExcused, Left, Shown, MeetsGate
<1>. QED BY <1>1, <1>2, <1>3, <1>4, <1>5, <1>6, <1>7 DEF Next

-----------------------------------------------------------------------------
(* A scan compared with itself.                                            *)

\* A report written for band P4 holds what a whole one does.
LEMMA NarrowingHolds ==
  ASSUME NEW s \in Scans, NEW scope, NEW band \in 0..4
  PROVE  /\ Written(s, scope, band) = Written(s, scope, Narrowing(band))
         /\ Narrowing(band) \in 0..4
<1>1. \A i \in DOMAIN s : s[i].band \in 0..4
  BY ScanFacts
<1>. QED BY <1>1 DEF Written, Narrowing

\* The two reports of one scan that may be compared: the base holds no more than the head,
\* and alike findings of one component are in both or in neither.
LEMMA OneGround ==
  ASSUME TypeOK, ShapeInv, Started, Itself
  PROVE  /\ old \subseteq new
         /\ \A k \in old, j \in new :
              Alike(1, base[j], base[k]) \/ Alike(2, base[j], base[k]) => j \in old
         /\ \A j \in new \ old : j \notin BaseHolds
<1>1. /\ base \in Scans /\ base = head /\ Comparable /\ ~ask.noBase
      /\ ask.baseBand \in 0..4 /\ ask.headBand \in 0..4
      /\ old = Distinct(base, BaseHolds) /\ new = Distinct(base, HeadHolds)
  BY ComparisonAssumption DEF TypeOK, ShapeInv, Itself
<1>2. /\ BaseHolds = Written(base, ask.baseScope, Narrowing(ask.baseBand))
      /\ HeadHolds = Written(base, ask.baseScope, Narrowing(ask.headBand))
      /\ Narrowing(ask.headBand) <= Narrowing(ask.baseBand)
      /\ Narrowing(ask.headBand) \in 0..4 /\ Narrowing(ask.baseBand) \in 0..4
  <2>1. BandsCompare /\ ask.headScope = ask.baseScope
    BY <1>1 DEF Comparable, ScopesCompare
  <2>2. BaseHolds = Written(base, ask.baseScope, ask.baseBand)
    BY <1>1 DEF BaseHolds
  <2>3. HeadHolds = Written(base, ask.baseScope, ask.headBand)
    BY <1>1, <2>1 DEF HeadHolds
  <2>4. Narrowing(ask.headBand) <= Narrowing(ask.baseBand)
    BY <2>1 DEF BandsCompare
  <2>. QED BY <1>1, <2>2, <2>3, <2>4, NarrowingHolds
<1>3. \A i \in DOMAIN base : base[i].band \in 0..4 /\ i \in Nat
  BY <1>1, ScanFacts
<1>4. BaseHolds \subseteq HeadHolds /\ HeadHolds \subseteq DOMAIN base
  BY <1>2, <1>3 DEF Written
<1>5. ASSUME NEW i \in BaseHolds, NEW j \in HeadHolds,
             Alike(1, base[j], base[i]) \/ Alike(2, base[j], base[i])
      PROVE  j \in BaseHolds
  <2>1. base[j].band = base[i].band
    BY <1>4, <1>5 DEF Itself, RanksAgree
  <2>2. base[j].component = base[i].component
    BY <1>5 DEF Alike
  <2>. QED BY <1>2, <1>4, <1>5, <2>1, <2>2 DEF Written
<1>6. \A f, g : Repeats(f, g) => Alike(2, f, g)
  BY DEF Repeats, SameIdentity, Alike
<1>7. ASSUME NEW k \in old PROVE k \in new
  <2>1. k \in BaseHolds /\ \A j \in BaseHolds : j < k => ~Repeats(base[j], base[k])
    BY <1>1 DEF Distinct
  <2>2. ASSUME NEW j \in HeadHolds, j < k, Repeats(base[j], base[k]) PROVE FALSE
    BY <1>5, <1>6, <2>1, <2>2
  <2>. QED BY <1>1, <1>4, <2>1, <2>2 DEF Distinct
<1>8. ASSUME NEW j \in new, j \in BaseHolds PROVE j \in old
  BY <1>1, <1>4, <1>8 DEF Distinct
<1>9. ASSUME NEW k \in old, NEW j \in new,
             Alike(1, base[j], base[k]) \/ Alike(2, base[j], base[k])
      PROVE  j \in old
  <2>1. k \in BaseHolds /\ j \in HeadHolds
    BY <1>1, DistinctPart
  <2>. QED BY <1>5, <1>8, <1>9, <2>1
<1>. QED BY <1>7, <1>8, <1>9

\* A finding both reports hold, left over with its like in both, is paired with itself.
LEMMA TakesItself ==
  ASSUME TypeOK, ShapeInv, PairInv, Match, base = head,
         NEW k \in Unpaired, k \in Left, Alike(pass, base[k], base[k]),
         {j \in Unpaired : Alike(pass, base[j], base[k])} = {j \in Left : Alike(pass, base[j], base[k])}
  PROVE  pair'[k] = k
<1>1. AheadOf(pass, head, Unpaired, k) = AheadOf(pass, base, Left, k)
  BY DEF AheadOf
<1>2. Takes(k, k)
  BY <1>1 DEF Takes
<1>3. pair'[k] \in Left /\ Takes(k, pair'[k])
  BY <1>2, MatchFacts
<1>4. /\ Cardinality(AheadOf(pass, base, Left, k)) = Cardinality(AheadOf(pass, base, Left, pair'[k]))
      /\ Alike(pass, base[k], base[pair'[k]])
  BY <1>2, <1>3 DEF Takes
<1>5. Left \in SUBSET DOMAIN base /\ base \in Scans
  BY MatchFacts DEF TypeOK
<1>. QED BY <1>3, <1>4, <1>5, PlaceInLine

LEMMA SelfInit == Init => SelfInv
BY DEF Init, SelfInv, Started

LEMMA SelfStep == TypeOK /\ ShapeInv /\ PairInv /\ SelfInv /\ [Next]_vars => SelfInv'
<1>. SUFFICES ASSUME TypeOK, ShapeInv, PairInv, SelfInv, [Next]_vars, Itself', Started'
              PROVE  /\ pass' > 1 => \A k \in old' : base'[k].hash # NoHash => pair'[k] = k
                     /\ pass' > 2 => \A k \in old' : pair'[k] = k
  BY DEF SelfInv
<1>1. CASE Match
  <2>1. /\ UNCHANGED <<base, head, ask, old, new, stage>> /\ pass \in 1..4 /\ pass' = pass + 1
        /\ Unpaired \subseteq new /\ Left \subseteq old /\ new \subseteq DOMAIN head
    BY <1>1, MatchFacts
  <2>2. Itself /\ Started /\ base = head
    BY <2>1 DEF Itself, Started, RanksAgree
  <2>3. /\ old \subseteq new
        /\ \A k \in old, j \in new :
             Alike(1, base[j], base[k]) \/ Alike(2, base[j], base[k]) => j \in old
        /\ \A k \in old : k # 0
    BY <2>2, OneGround, ScanFacts DEF TypeOK
  <2>4. ASSUME NEW k \in old, pair[k] = k PROVE pair'[k] = k
    BY <1>1, <2>3, <2>4, MadePairsStay
  <2>5. CASE pass = 1
    <3>1. Unpaired = new /\ Left = old
      <4>1. \A h \in new : pair[h] = 0
        BY <2>1, <2>5 DEF ShapeInv
      <4>. QED BY <2>3, <4>1 DEF Unpaired, Left
    <3>2. ASSUME NEW k \in old, base[k].hash # NoHash PROVE pair'[k] = k
      <4>1. Alike(pass, base[k], base[k])
        BY <2>5, <3>2 DEF Alike
      <4>2. {j \in new : Alike(pass, base[j], base[k])} = {j \in old : Alike(pass, base[j], base[k])}
        BY <2>3, <2>5
      <4>. QED BY <1>1, <2>2, <2>3, <3>1, <4>1, <4>2, TakesItself
    <3>. QED BY <2>1, <2>5, <3>2
  <2>6. CASE pass = 2
    <3>1. \A k \in old : base[k].hash # NoHash => pair[k] = k
      BY <2>2, <2>6 DEF SelfInv
    <3>2. ASSUME NEW h \in new, pair[h] # 0
          PROVE  head[h].hash # NoHash /\ base[pair[h]].hash # NoHash
      <4>1. PairFit(h) = 1
        <5>1. h \in DOMAIN head /\ PairFit(h) \in 1..5
          BY <2>1, FitsAsAlike DEF PairFit
        <5>. QED BY <2>6, <3>2, <5>1 DEF PairInv
      <4>2. Alike(1, head[h], base[pair[h]])
        BY <4>1, FitsAsAlike DEF PairFit
      <4>. QED BY <4>2 DEF Alike
    <3>3. ASSUME NEW k \in old, base[k].hash = NoHash PROVE k \in Unpaired /\ k \in Left
      <4>1. pair[k] = 0
        BY <2>2, <2>3, <3>2, <3>3
      <4>2. \A h \in new : pair[h] # k
        BY <2>3, <3>2, <3>3
      <4>. QED BY <2>3, <4>1, <4>2 DEF Unpaired, Left
    <3>4. \A k \in old : base[k].hash # NoHash => k \notin Unpaired /\ k \notin Left
      BY <2>3, <3>1 DEF Unpaired, Left
    <3>5. ASSUME NEW k \in old, base[k].hash = NoHash PROVE pair'[k] = k
      <4>1. Alike(pass, base[k], base[k])
        BY <2>6 DEF Alike
      <4>2. {j \in Unpaired : Alike(pass, base[j], base[k])} = {j \in Left : Alike(pass, base[j], base[k])}
        <5>1. ASSUME NEW j \in Unpaired, Alike(2, base[j], base[k]) PROVE j \in Left
          BY <2>1, <2>3, <3>3, <3>4, <5>1
        <5>2. ASSUME NEW j \in Left PROVE j \in Unpaired
          BY <2>1, <3>3, <3>4
        <5>. QED BY <2>6, <5>1, <5>2
      <4>. QED BY <1>1, <2>2, <3>3, <3>5, <4>1, <4>2, TakesItself
    <3>6. \A k \in old : pair'[k] = k
      BY <2>4, <3>1, <3>5
    <3>. QED BY <2>1, <3>6
  <2>7. CASE pass > 2
    <3>1. \A k \in old : pair[k] = k
      BY <2>2, <2>7 DEF SelfInv
    <3>. QED BY <2>1, <2>4, <3>1
  <2>. QED BY <2>1, <2>5, <2>6, <2>7
<1>2. CASE Read
  BY <1>2 DEF Read, ShapeInv
<1>3. CASE ~Match /\ ~Read
  <2>1. UNCHANGED <<base, head, ask, pass, old, new, pair>>
    BY <1>3, PairsKept
  <2>2. Started
    BY <1>3 DEF Next, vars, Refuse, Classify, Judge, Answer, Started
  <2>. QED BY <2>1, <2>2 DEF SelfInv, Itself, RanksAgree
<1>. QED BY <1>1, <1>2, <1>3

-----------------------------------------------------------------------------
(* The theorems.                                                           *)

\* For every two scans and whatever is asked: the inductive invariant holds.
THEOREM ComparisonInvariant == Spec => []IInv
<1>1. Init => IInv
  BY TypeInit, ShapeInit, PairInit, VerdictInit, SelfInit DEF IInv
<1>2. IInv /\ [Next]_vars => IInv'
  BY TypeStep, ShapeStep, PairStep, StableStep, VerdictStep, SelfStep DEF IInv
<1>. QED BY <1>1, <1>2, PTL DEF Spec

\* For every two scans: every variable of the comparison stays in its range.
THEOREM ComparisonTypes == Spec => []TypeOK
<1>1. IInv => TypeOK
  BY DEF IInv
<1>. QED BY <1>1, ComparisonInvariant, PTL

\* For every two scans, of any length: the pairing the passes leave is one to one and
\* stable, so no two findings that are one are told as a fix and a new flaw.
THEOREM PairingIsStable == Spec => []StablePairs
<1>1. IInv => StablePairs
  <2>. SUFFICES ASSUME IInv, pass = 5 PROVE StablePairs
    BY DEF StablePairs
  <2>0. 0 \notin old /\ new \subseteq DOMAIN head
    BY ScanFacts DEF IInv, TypeOK
  <2>1. ASSUME NEW h \in new
        PROVE  HeadFit(h) \in 1..5 /\ (pair[h] # 0 => pair[h] \in old /\ HeadFit(h) < 5)
    BY <2>0, FitsAsAlike DEF IInv, PairInv, PairFit, HeadFit
  <2>2. \A h, k \in new : pair[h] # 0 /\ pair[h] = pair[k] => h = k
    BY <2>0 DEF IInv, PairInv
  <2>3. ASSUME NEW h \in new, NEW b \in old
        PROVE  Fit(head[h], base[b]) >= HeadFit(h) \/ Fit(head[h], base[b]) >= BaseFit(b)
    <3>1. Fit(head[h], base[b]) \in 1..5
      BY FitsAsAlike
    <3>2. CASE Fit(head[h], base[b]) = 5
      BY <2>1, <3>1, <3>2
    <3>3. CASE pair[h] # 0 /\ PairFit(h) <= Fit(head[h], base[b])
      BY <2>1, <3>1, <3>3 DEF PairFit, HeadFit
    <3>4. CASE \E k \in new : pair[k] = b /\ PairFit(k) <= Fit(head[h], base[b])
      <4>1. PICK k \in new : pair[k] = b /\ PairFit(k) <= Fit(head[h], base[b])
        BY <3>4
      <4>2. b \notin Left /\ pair[k] # 0
        BY <2>0, <4>1 DEF Left
      <4>3. (CHOOSE j \in new : pair[j] = b) = k
        BY <2>2, <4>1, <4>2
      <4>4. BaseFit(b) = HeadFit(CHOOSE j \in new : pair[j] = b)
        BY <4>2 DEF BaseFit
      <4>5. BaseFit(b) = HeadFit(k)
        BY <4>3, <4>4
      <4>6. HeadFit(k) = PairFit(k)
        BY <4>2 DEF HeadFit, PairFit
      <4>. QED BY <2>1, <3>1, <4>1, <4>5, <4>6
    <3>. QED BY <3>1, <3>2, <3>3, <3>4 DEF IInv, StableInv, Served
  <2>. QED BY <2>1, <2>2, <2>3 DEF StablePairs
<1>. QED BY <1>1, ComparisonInvariant, PTL

\* Of the findings at one place of a scan, the first one written is compared.
LEMMA PlaceIsCompared ==
  ASSUME NEW s \in Scans, NEW S \in SUBSET DOMAIN s, NEW f, NEW i \in Beside(f, s, S)
  PROVE  \E j \in Beside(f, s, S) : j \in Distinct(s, S) /\ Place(s[j]) = Place(s[i])
<1>. DEFINE T == {j \in Beside(f, s, S) : Place(s[j]) = Place(s[i])}
<1>1. PICK j \in T : \A e \in T : j <= e
  <2>1. T \in SUBSET Nat /\ T # {}
    BY ScanFacts DEF Beside
  <2>. QED BY <2>1, LeastOfNaturals
<1>2. ASSUME NEW e \in S, e < j, Repeats(s[e], s[j]) PROVE FALSE
  <2>1. e \in T
    BY <1>1, <1>2 DEF Repeats, SameIdentity, Place, Beside
  <2>2. e \in Nat /\ j \in Nat
    BY <1>1, ScanFacts DEF Beside
  <2>. QED BY <1>1, <1>2, <2>1, <2>2
<1>. QED BY <1>1, <1>2 DEF Distinct, Beside

\* The places of a part of a scan are finitely many.
LEMMA PlacesFinite ==
  ASSUME NEW s \in Scans, NEW S \in SUBSET DOMAIN s
  PROVE  IsFiniteSet(PlacesOf(s, S))
<1>. DEFINE g == [i \in S |-> Place(s[i])]
<1>1. g \in Surjection(S, PlacesOf(s, S))
  BY DEF Surjection, PlacesOf
<1>2. IsFiniteSet(S)
  BY ScanFacts, FS_Subset
<1>. HIDE DEF g
<1>. QED BY <1>1, <1>2, FS_Surjection

\* For every two scans: a command that ends clean saw no more instances of one flaw in one
\* file that its gate counts than the base already held.
THEOREM ExtraInstancesTrip == Spec => []ExtraInstanceTrips
<1>1. IInv => ExtraInstanceTrips
  <2>. SUFFICES ASSUME IInv, exit = "clean", NEW i \in HeadHolds
                PROVE  Cardinality(PlacesOf(head, Counting(Beside(head[i], head, HeadHolds))))
                         <= Cardinality(PlacesOf(base, Beside(head[i], base, BaseHolds)))
    BY DEF ExtraInstanceTrips
  <2>. DEFINE A == Beside(head[i], head, HeadHolds)
              U == Counting(A)
              B == Beside(head[i], base, BaseHolds)
              Stands(p) == CHOOSE j \in U : j \in new /\ Place(head[j]) = p
              f == [p \in PlacesOf(head, U) |-> Place(base[pair[Stands(p)]])]
  <2>1. /\ stage = "done" /\ tripped = {} /\ base \in Scans /\ head \in Scans
        /\ old = Distinct(base, BaseHolds) /\ new = Distinct(head, HeadHolds)
        /\ new \subseteq DOMAIN head /\ old \subseteq DOMAIN base
    BY DEF IInv, VerdictInv, ShapeInv, Started, TypeOK
  <2>2. ASSUME NEW u \in U PROVE \E j \in U : j \in new /\ Place(head[j]) = Place(head[u])
    <3>1. u \in A
      BY DEF Counting
    <3>2. PICK j \in A : j \in new /\ Place(head[j]) = Place(head[u])
      BY <2>1, <3>1, HoldsPart, PlaceIsCompared
    <3>3. j \in U
      BY <3>2 DEF Counting
    <3>. QED BY <3>2, <3>3
  <2>3. ASSUME NEW j \in U, j \in new PROVE pair[j] # 0 /\ pair[j] \in old /\ pair[j] \in B
    <3>1. j \in A /\ ~head[j].suppressed /\ Shown(head[j]) /\ MeetsGate(head[j])
      BY DEF Counting
    <3>2. pair[j] # 0
      <4>1. SUFFICES ASSUME pair[j] = 0 PROVE FALSE
        OBVIOUS
      <4>2. change[j] = "new"
        BY <2>1, <2>3, <3>1, <4>1 DEF IInv, VerdictInv, ChangeOf, Moved, WasExcused
      <4>3. j \in {h \in new : change[h] = "new" /\ Shown(head[h]) /\ MeetsGate(head[h])}
        BY <2>3, <3>1, <4>2
      <4>. QED BY <2>1, <4>3 DEF IInv, VerdictInv
    <3>3. pair[j] \in old /\ PairFit(j) < 5
      <4>1. j \in DOMAIN head /\ pass = 5
        BY <2>1, <2>3 DEF IInv, ShapeInv
      <4>. QED BY <3>2, <4>1 DEF IInv, PairInv
    <3>4. base[pair[j]].spot = head[i].spot /\ base[pair[j]].repo = head[i].repo
      BY <3>1, <3>3 DEF PairFit, Fit, Beside
    <3>5. pair[j] \in BaseHolds
      BY <2>1, <3>3, DistinctPart
    <3>. QED BY <3>2, <3>3, <3>4, <3>5 DEF Beside
  <2>4. ASSUME NEW p \in PlacesOf(head, U)
        PROVE  Stands(p) \in U /\ Stands(p) \in new /\ Place(head[Stands(p)]) = p
    <3>1. \E j \in U : j \in new /\ Place(head[j]) = p
      BY <2>2 DEF PlacesOf
    <3>. QED BY <3>1
  <2>5. ASSUME NEW b \in old, NEW c \in old, b \in B, c \in B, Place(base[b]) = Place(base[c])
        PROVE  b = c
    <3>1. Repeats(base[b], base[c]) /\ Repeats(base[c], base[b])
      BY <2>5 DEF Place, Beside, Repeats, SameIdentity
    <3>2. b \in Nat /\ c \in Nat /\ b \in BaseHolds /\ c \in BaseHolds
      BY <2>1, ScanFacts, DistinctPart
    <3>3. ~(b < c) /\ ~(c < b)
      BY <2>1, <3>1, <3>2 DEF Distinct
    <3>. QED BY <3>2, <3>3
  <2>6. f \in Injection(PlacesOf(head, U), PlacesOf(base, B))
    <3>1. \A p \in PlacesOf(head, U) :
            /\ pair[Stands(p)] # 0 /\ pair[Stands(p)] \in old /\ pair[Stands(p)] \in B
            /\ f[p] = Place(base[pair[Stands(p)]])
      BY <2>3, <2>4
    <3>2. f \in [PlacesOf(head, U) -> PlacesOf(base, B)]
      BY <3>1 DEF PlacesOf
    <3>3. ASSUME NEW p \in PlacesOf(head, U), NEW q \in PlacesOf(head, U), f[p] = f[q]
          PROVE  p = q
      <4>. HIDE DEF f, Stands, B
      <4>1. pair[Stands(p)] = pair[Stands(q)] /\ pair[Stands(p)] # 0
        <5>1. Place(base[pair[Stands(p)]]) = Place(base[pair[Stands(q)]])
          BY <3>1, <3>3
        <5>. QED BY <2>5, <3>1, <5>1
      <4>2. Stands(p) \in DOMAIN head /\ Stands(q) \in DOMAIN head
        BY <2>1, <2>4
      <4>3. Stands(p) = Stands(q)
        BY <4>1, <4>2 DEF IInv, PairInv
      <4>. QED BY <2>4, <4>3
    <3>. HIDE DEF f
    <3>. QED BY <3>2, <3>3 DEF Injection, IsInjective
  <2>7. IsFiniteSet(PlacesOf(base, B))
    <3>1. B \in SUBSET DOMAIN base
      BY HoldsPart DEF Beside
    <3>. HIDE DEF B
    <3>. QED BY <2>1, <3>1, PlacesFinite
  <2>. HIDE DEF f, U, B
  <2>8. Cardinality(PlacesOf(head, U)) <= Cardinality(PlacesOf(base, B))
    BY <2>6, <2>7, FS_Injection
  <2>. QED BY <2>8 DEF U, B
<1>. QED BY <1>1, ComparisonInvariant, PTL

\* For every scan whose like findings rank alike: compared with itself, however its reports
\* were scoped and narrowed, it shows nothing that came or went.
THEOREM SameScansAreQuiet == Spec => []SameScanIsQuiet
<1>1. IInv => SameScanIsQuiet
  <2>. SUFFICES ASSUME IInv, Itself, stage \in {"judge", "answer", "done"}
                PROVE  /\ fixed = {} /\ tripped = {}
                       /\ \A h \in new : \/ change[h] \in {"unchanged", "accepted"}
                                         \/ change[h] = "new" /\ ~Shown(head[h])
    BY DEF SameScanIsQuiet, Itself
  <2>1. Started /\ TypeOK /\ ShapeInv /\ pass = 5 /\ base = head
    BY DEF IInv, ShapeInv, Started, Itself
  <2>2. \A k \in old : pair[k] = k /\ k # 0 /\ k \in new
    BY <2>1, OneGround, ScanFacts DEF IInv, SelfInv, TypeOK
  <2>3. Left = {}
    BY <2>2 DEF Left
  <2>4. fixed = {}
    BY <2>3 DEF IInv, VerdictInv
  <2>5. ASSUME NEW h \in new, pair[h] # 0 PROVE change[h] = "unchanged"
    <3>1. h \in DOMAIN head /\ pair[h] \in old /\ pair[h] \in DOMAIN head
      BY <2>1, <2>2, <2>5 DEF IInv, PairInv, TypeOK
    <3>2. pair[h] = h
      BY <2>2, <2>5, <3>1 DEF IInv, PairInv
    <3>3. ChangeOf(h) = "unchanged"
      BY <2>1, <2>5, <3>2 DEF ChangeOf, Moved, WasExcused
    <3>. QED BY <3>3 DEF IInv, VerdictInv
  <2>6. ASSUME NEW h \in new, pair[h] = 0
        PROVE  change[h] = "accepted" \/ (change[h] = "new" /\ ~Shown(head[h]))
    <3>1. h \notin old /\ h \notin BaseHolds
      BY <2>1, <2>2, <2>6, OneGround
    <3>2. ~Shown(head[h])
      <4>1. /\ base \in Scans /\ head = base /\ h \in DOMAIN base /\ ~ask.noBase /\ Comparable
            /\ {ask.baseBand, ask.headBand, ask.minBand} \subseteq 0..4
            /\ h \in Written(base, ask.headScope, ask.headBand)
        BY <2>1, ComparisonAssumption, DistinctPart
           DEF TypeOK, ShapeInv, Itself, HeadHolds
      <4>2. BandsCompare /\ ask.headScope = ask.baseScope
        BY <4>1 DEF Comparable, ScopesCompare
      <4>3. /\ h \notin Written(base, ask.baseScope, Narrowing(ask.baseBand))
            /\ h \in Written(base, ask.baseScope, Narrowing(ask.headBand))
        BY <3>1, <4>1, <4>2, NarrowingHolds DEF BaseHolds
      <4>4. base[h].band \in 0..4
        BY <4>1, ScanFacts
      <4>5. base[h].band # 0 /\ base[h].band < ask.minBand
        <5>1. /\ base[h].band # 0 /\ base[h].band < Narrowing(ask.baseBand)
              /\ base[h].band >= Narrowing(ask.headBand)
              /\ Narrowing(ask.baseBand) \in 0..4 /\ Narrowing(ask.headBand) \in 0..4
          BY <4>1, <4>3, <4>4, NarrowingHolds DEF Written
        <5>2. /\ Narrowing(ask.baseBand) = 0 \/ Narrowing(ask.headBand) >= Narrowing(ask.baseBand)
                 \/ ask.minBand >= Narrowing(ask.baseBand)
          BY <4>2 DEF BandsCompare
        <5>. QED BY <4>1, <4>4, <5>1, <5>2
      <4>. QED BY <4>1, <4>4, <4>5 DEF Shown
    <3>3. ChangeOf(h) \in {"accepted", "new"}
      BY <2>6 DEF ChangeOf, Moved, WasExcused
    <3>. QED BY <3>2, <3>3 DEF IInv, VerdictInv
  <2>7. tripped = {}
    BY <2>5, <2>6 DEF IInv, VerdictInv
  <2>. QED BY <2>4, <2>5, <2>6, <2>7
<1>. QED BY <1>1, ComparisonInvariant, PTL
=============================================================================
