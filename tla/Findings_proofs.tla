--------------------------- MODULE Findings_proofs ---------------------------
(***************************************************************************)
(* What the finding pipeline guarantees for every report, whatever the     *)
(* feeds, rules, claims, settings and gate: the inductive invariant behind *)
(* the safety properties of Findings, and those as theorems.               *)
(***************************************************************************)
EXTENDS Findings, WellFoundedInduction, TLAPS

-----------------------------------------------------------------------------
(* Ranking one finding.                                                    *)

USE DEF Low, Medium, High, Critical

\* Signals and verdicts keep a severity in range, and change it only where they say so.
LEMMA EscalationFacts ==
  ASSUME NEW in \in Inputs, NEW v \in Verdicts
  PROVE  /\ Held(in) \in Severities
         /\ Escalation(in, v).sev \in Severities
         /\ Escalation(in, v).signal = "none" => Escalation(in, v).sev = Held(in)
         /\ Lowered(in, v) \in Severities
         /\ Lowered(in, v) # Escalation(in, v).sev => v = "unreachable"
<1>1. Held(in) \in Severities
  BY DEF Held, Larger, Inputs, Severities
<1>2. \A s \in Severities, e \in Exploits :
        Exploited(s, e).sev \in Severities /\ (Exploited(s, e).signal = "none" => Exploited(s, e).sev = s)
  BY DEF Exploited, Raised, Escalate, Severities, Exploits
<1>3. \A s \in Severities, h \in Healths :
        Depended(s, h).sev \in Severities /\ (Depended(s, h).signal = "none" => Depended(s, h).sev = s)
  BY DEF Depended, Raised, Escalate, Severities, Healths
<1>4. /\ ByExploit(in).sev \in Severities
      /\ ByExploit(in).signal = "none" => ByExploit(in).sev = Held(in)
  BY <1>1, <1>2 DEF ByExploit, Inputs
<1>5. /\ ByHealth(in).sev \in Severities
      /\ ByHealth(in).signal = "none" => ByHealth(in).sev = Held(in)
  BY <1>1, <1>3 DEF ByHealth, Inputs
<1>6. Escalation(in, v) \in {ByHealth(in), ByExploit(in)}
  BY DEF Escalation
<1>7. \A s \in Severities : RankAt(v, s) \in Severities /\ (RankAt(v, s) # s => v = "unreachable")
  BY DEF RankAt, Deescalate, Severities
<1>. QED BY <1>1, <1>4, <1>5, <1>6, <1>7 DEF Lowered

\* Reading a stamp back gives the severity its band was computed from.
LEMMA RankRoundTrip ==
  ASSUME NEW in \in Inputs, NEW v \in Verdicts
  PROVE  /\ RankOf(in, v) \in Ranks
         /\ RankedSeverity(in.rating, RankOf(in, v), v) = Lowered(in, v)
         /\ RankOf(in, v).band = PriorityBand[in.tier][Lowered(in, v)]
<1>. DEFINE esc == Escalation(in, v)
            low == Lowered(in, v)
<1>1. /\ esc.sev \in Severities /\ low \in Severities /\ Held(in) \in Severities
      /\ esc.signal = "none" => esc.sev = Held(in)
      /\ low # esc.sev => v = "unreachable"
  BY EscalationFacts
<1>2. /\ RankOf(in, v).band = PriorityBand[in.tier][low]
      /\ RankOf(in, v).to = IF esc.signal = "none" THEN 0 ELSE esc.sev
      /\ RankOf(in, v).rankedAs = IF low = esc.sev THEN 0 ELSE low
      /\ RankOf(in, v).floor = IF Held(in) = in.rating THEN 0 ELSE in.floor
  BY DEF RankOf
<1>3. Larger(in.rating, RankOf(in, v).floor) = Held(in)
  BY <1>2 DEF Larger, Held, Inputs, Severities
<1>4. \A t \in Tiers, s \in Severities : PriorityBand[t][s] \in Bands
  BY DEF PriorityBand, Tiers, Severities, Bands
<1>5. RankOf(in, v) \in Ranks
  <2>. HIDE DEF esc, low
  <2>. QED BY <1>1, <1>4 DEF RankOf, Ranks, Inputs, Severities, esc, low
<1>6. RankedSeverity(in.rating, RankOf(in, v), v) = low
  <2>. HIDE DEF esc, low
  <2>. QED BY <1>1, <1>2, <1>3 DEF RankedSeverity, Severities
<1>. QED BY <1>2, <1>5, <1>6

-----------------------------------------------------------------------------
(* Sorting findings into flaws.                                            *)

\* A set of naturals that is not empty has a least member (the counterexample with which
\* every induction below is carried out).
LEMMA LeastNatural ==
  ASSUME NEW S \in SUBSET Nat, S # {}
  PROVE  \E i \in S : \A j \in S : i <= j
<1>. DEFINE less == OpToRel(<, Nat)
<1>1. IsWellFoundedOn(less, Nat)
  BY NatLessThanWellFounded
<1>2. \A i, j \in Nat : j < i => <<j, i>> \in less
  BY DEF OpToRel
<1>. HIDE DEF less
<1>3. PICK i \in S : \A j \in S : ~ <<j, i>> \in less
  BY <1>1, WFMin
<1>4. \A j \in S : ~(j < i)
  BY <1>2, <1>3
<1>. QED BY <1>4

\* Least picks it.
LEMMA LeastFacts ==
  ASSUME NEW S \in SUBSET Nat, S # {}
  PROVE  Least(S) \in S /\ \A j \in S : Least(S) <= j
<1>1. \E i \in S : \A j \in S : i <= j
  BY LeastNatural
<1>. QED BY <1>1 DEF Least

\* The dependency of one component that a flaw is in.
Site(f) == <<Report[f].control, Report[f].component, Report[f].place, Report[f].pkg>>

\* Findings are sorted: every one into one flaw, with those of its key; a flaw is in one
\* dependency, and what one scanner reported of it has one key.
Sorted(keyed, flaws) ==
  /\ \A G \in flaws : G \subseteq keyed
  /\ \A f \in keyed : \E G \in flaws : f \in G
  /\ \A G, H \in flaws : G # H => G \intersect H = {}
  /\ \A G \in flaws : \A f \in G, g \in keyed : Flaw(f) = Flaw(g) => g \in G
  /\ \A G \in flaws : \A f, g \in G : Site(f) = Site(g)
  /\ \A G \in flaws : \A f, g \in G : Report[f].tool = Report[g].tool => Flaw(f) = Flaw(g)

\* In sorted findings, the flaw of a finding is the only one it is in.
LEMMA WithFacts ==
  ASSUME NEW keyed, NEW flaws, Sorted(keyed, flaws), NEW f \in keyed
  PROVE  /\ With(flaws, f) \in flaws /\ f \in With(flaws, f)
         /\ \A G \in flaws : f \in G => G = With(flaws, f)
<1>1. \E G \in flaws : f \in G
  BY DEF Sorted
<1>2. With(flaws, f) \in flaws /\ f \in With(flaws, f)
  BY <1>1 DEF With
<1>. QED BY <1>2 DEF Sorted

\* Sorting by key alone sorts.
LEMMA ByKeySorted ==
  ASSUME NEW keyed \in SUBSET Findings
  PROVE  Sorted(keyed, ByKey(keyed))
<1>1. \A f, g : Flaw(f) = Flaw(g) => Site(f) = Site(g)
  BY DEF Flaw, FlawAs, Site
<1>2. \A f \in keyed : f \in {g \in keyed : Flaw(g) = Flaw(f)}
  OBVIOUS
<1>3. \A f \in keyed : \E G \in ByKey(keyed) : f \in G
  BY <1>2 DEF ByKey
<1>4. \A G \in ByKey(keyed) : \E f \in keyed : G = {g \in keyed : Flaw(g) = Flaw(f)}
  BY DEF ByKey
<1>5. /\ \A G \in ByKey(keyed) : G \subseteq keyed
      /\ \A G \in ByKey(keyed) : \A f, g \in G : Flaw(f) = Flaw(g)
      /\ \A G \in ByKey(keyed) : \A f \in G, g \in keyed : Flaw(f) = Flaw(g) => g \in G
  BY <1>4
<1>6. \A G, H \in ByKey(keyed) : G # H => G \intersect H = {}
  <2>. SUFFICES ASSUME NEW G \in ByKey(keyed), NEW H \in ByKey(keyed), NEW f \in G \intersect H
                PROVE  G = H
    OBVIOUS
  <2>1. \A g \in keyed : g \in G <=> Flaw(g) = Flaw(f)
    BY <1>5
  <2>2. \A g \in keyed : g \in H <=> Flaw(g) = Flaw(f)
    BY <1>5
  <2>. QED BY <1>5, <2>1, <2>2
<1>. QED BY <1>1, <1>3, <1>5, <1>6 DEF Sorted

\* Joining the flaws an alias links keeps the findings sorted: no scanner is in both.
LEMMA JoinSorted ==
  ASSUME NEW keyed \in SUBSET Findings, NEW flaws, Sorted(keyed, flaws),
         NEW f \in keyed, NEW id
  PROVE  Sorted(keyed, Join(keyed, flaws, f, id))
<1>. DEFINE named == NamedBy(keyed, f, id)
            h == Least(named)
            G == With(flaws, f)
            H == With(flaws, h)
            new == (flaws \ {G, H}) \union {G \union H}
<1>1. CASE named = {} \/ ToolsOf(G) \intersect ToolsOf(H) # {}
  BY <1>1 DEF Join
<1>2. CASE named # {} /\ ToolsOf(G) \intersect ToolsOf(H) = {}
  <2>1. h \in keyed /\ Flaw(h) = FlawAs(f, id)
    <3>1. named \in SUBSET Nat
      BY FindingsAssumption DEF NamedBy
    <3>2. h \in named
      <4>. HIDE DEF named
      <4>. QED BY <1>2, <3>1, LeastFacts
    <3>. QED BY <3>2 DEF NamedBy
  <2>2. Site(h) = Site(f)
    BY <2>1 DEF Flaw, FlawAs, Site
  <2>3. /\ G \in flaws /\ f \in G /\ H \in flaws /\ h \in H
        /\ G \subseteq keyed /\ H \subseteq keyed
    BY <2>1, WithFacts DEF Sorted
  <2>4. \A x, y \in G \union H : Site(x) = Site(y)
    BY <2>2, <2>3 DEF Sorted
  <2>5. \A x \in G, y \in H : Report[x].tool # Report[y].tool
    BY <1>2 DEF ToolsOf
  <2>6. \A x, y \in G \union H : Report[x].tool = Report[y].tool => Flaw(x) = Flaw(y)
    BY <2>3, <2>5 DEF Sorted
  <2>7. Join(keyed, flaws, f, id) = new
    BY <1>2 DEF Join
  <2>. HIDE DEF G, H
  <2>8. Sorted(keyed, new)
    <3>1. \A K \in new : K \subseteq keyed
      BY <2>3 DEF Sorted
    <3>2. \A x \in keyed : \E K \in new : x \in K
      <4>. TAKE x \in keyed
      <4>1. PICK K \in flaws : x \in K
        BY DEF Sorted
      <4>2. CASE K \in {G, H}
        <5>1. G \union H \in new /\ x \in G \union H
          BY <4>1, <4>2
        <5>. QED BY <5>1
      <4>3. CASE K \notin {G, H}
        <5>1. K \in new
          BY <4>1, <4>3
        <5>. QED BY <4>1, <5>1
      <4>. QED BY <4>2, <4>3
    <3>3. \A K, L \in new : K # L => K \intersect L = {}
      BY <2>3 DEF Sorted
    <3>4. \A K \in new : \A x \in K, y \in keyed : Flaw(x) = Flaw(y) => y \in K
      <4>1. \A K \in flaws : \A x \in K, y \in keyed : Flaw(x) = Flaw(y) => y \in K
        BY DEF Sorted
      <4>. HIDE DEF Sorted
      <4>. QED BY <2>3, <4>1
    <3>5. \A K \in new : \A x, y \in K : Site(x) = Site(y)
      BY <2>4 DEF Sorted
    <3>6. \A K \in new : \A x, y \in K : Report[x].tool = Report[y].tool => Flaw(x) = Flaw(y)
      BY <2>6 DEF Sorted
    <3>. HIDE DEF new
    <3>. QED BY <3>1, <3>2, <3>3, <3>4, <3>5, <3>6 DEF Sorted
  <2>. QED BY <2>7, <2>8
<1>. QED BY <1>1, <1>2

\* A finding's aliases are joined one after another, and each keeps the findings sorted.
LEMMA JoinAllSorted ==
  ASSUME NEW keyed \in SUBSET Findings, NEW start, Sorted(keyed, start), NEW f \in keyed
  PROVE  Sorted(keyed, JoinAll(keyed, start, f))
<1>. DEFINE n == Len(Report[f].aliases)
            Chain(g, k) == g = [i \in 0..k |-> IF i = 0 THEN start
                                  ELSE Join(keyed, g[i - 1], f, Report[f].aliases[i])]
            joined == CHOOSE g : Chain(g, n)
<1>0. n \in Nat
  BY FindingsAssumption
<1>. HIDE DEF n
<1>1. \A k \in 0..n : \E g : Chain(g, k)
  <2>. DEFINE bad == {k \in 0..n : ~\E g : Chain(g, k)}
  <2>. SUFFICES ASSUME bad # {} PROVE FALSE
    OBVIOUS
  <2>1. PICK k \in bad : \A j \in bad : k <= j
    <3>1. bad \in SUBSET Nat
      BY <1>0
    <3>. HIDE DEF bad
    <3>. QED BY <3>1, LeastNatural
  <2>2. k # 0
    <3>1. Chain([i \in 0..0 |-> start], 0)
      OBVIOUS
    <3>. QED BY <3>1
  <2>3. PICK g : Chain(g, k - 1)
    BY <1>0, <2>1, <2>2
  <2>. DEFINE last == Join(keyed, g[k - 1], f, Report[f].aliases[k])
              h == [i \in 0..k |-> IF i = k THEN last ELSE g[i]]
  <2>4. Chain(h, k)
    <3>1. \A i \in 0..k : h[i] = IF i = 0 THEN start
                                 ELSE Join(keyed, h[i - 1], f, Report[f].aliases[i])
      <4>. TAKE i \in 0..k
      <4>1. CASE i = k
        BY <1>0, <2>1, <2>2, <4>1
      <4>2. CASE i # k
        <5>1. i \in 0..(k - 1) /\ h[i] = g[i] /\ (i # 0 => h[i - 1] = g[i - 1])
          BY <1>0, <2>1, <2>2, <4>2
        <5>2. g[i] = IF i = 0 THEN start ELSE Join(keyed, g[i - 1], f, Report[f].aliases[i])
          BY <2>3, <5>1
        <5>. QED BY <5>1, <5>2
      <4>. QED BY <4>1, <4>2
    <3>. QED BY <3>1
  <2>. QED BY <2>1, <2>4
<1>2. joined = [i \in 0..n |-> IF i = 0 THEN start
                   ELSE Join(keyed, joined[i - 1], f, Report[f].aliases[i])]
  <2>1. \E g : Chain(g, n)
    BY <1>0, <1>1
  <2>. HIDE DEF Chain
  <2>2. Chain(joined, n)
    BY <2>1
  <2>. QED BY <2>2 DEF Chain
<1>3. \A i \in 0..n : Sorted(keyed, joined[i])
  <2>. HIDE DEF joined
  <2>. DEFINE bad == {i \in 0..n : ~Sorted(keyed, joined[i])}
  <2>. SUFFICES ASSUME bad # {} PROVE FALSE
    OBVIOUS
  <2>1. PICK i \in bad : \A j \in bad : i <= j
    <3>1. bad \in SUBSET Nat
      BY <1>0
    <3>. HIDE DEF bad
    <3>. QED BY <3>1, LeastNatural
  <2>2. CASE i = 0
    BY <1>0, <1>2, <2>1, <2>2
  <2>3. CASE i # 0
    <3>1. i - 1 \in 0..n /\ i - 1 \notin bad
      BY <1>0, <2>1, <2>3
    <3>2. joined[i] = Join(keyed, joined[i - 1], f, Report[f].aliases[i])
      BY <1>2, <2>1, <2>3
    <3>. QED BY <2>1, <3>1, <3>2, JoinSorted
  <2>. QED BY <2>2, <2>3
<1>4. JoinAll(keyed, start, f) = joined[n]
  BY DEF JoinAll, n
<1>. QED BY <1>0, <1>3, <1>4

\* So does joining every finding's aliases in turn.
LEMMA FlawsSorted ==
  ASSUME NEW keyed \in SUBSET Findings
  PROVE  Sorted(keyed, Flaws(keyed))
<1>. DEFINE n == Len(Report)
            Chain(g, k) == g = [f \in 0..k |-> IF f = 0 THEN ByKey(keyed)
                                  ELSE IF f \in keyed THEN JoinAll(keyed, g[f - 1], f) ELSE g[f - 1]]
            joined == CHOOSE g : Chain(g, n)
<1>0. n \in Nat
  BY FindingsAssumption
<1>. HIDE DEF n
<1>1. \A k \in 0..n : \E g : Chain(g, k)
  <2>. DEFINE bad == {k \in 0..n : ~\E g : Chain(g, k)}
  <2>. SUFFICES ASSUME bad # {} PROVE FALSE
    OBVIOUS
  <2>1. PICK k \in bad : \A j \in bad : k <= j
    <3>1. bad \in SUBSET Nat
      BY <1>0
    <3>. HIDE DEF bad
    <3>. QED BY <3>1, LeastNatural
  <2>2. k # 0
    <3>1. Chain([f \in 0..0 |-> ByKey(keyed)], 0)
      OBVIOUS
    <3>. QED BY <3>1
  <2>3. PICK g : Chain(g, k - 1)
    BY <1>0, <2>1, <2>2
  <2>. DEFINE last == IF k \in keyed THEN JoinAll(keyed, g[k - 1], k) ELSE g[k - 1]
              h == [f \in 0..k |-> IF f = k THEN last ELSE g[f]]
  <2>4. Chain(h, k)
    <3>1. \A f \in 0..k : h[f] = IF f = 0 THEN ByKey(keyed)
                                 ELSE IF f \in keyed THEN JoinAll(keyed, h[f - 1], f) ELSE h[f - 1]
      <4>. TAKE f \in 0..k
      <4>1. CASE f = k
        BY <1>0, <2>1, <2>2, <4>1
      <4>2. CASE f # k
        <5>1. f \in 0..(k - 1) /\ h[f] = g[f] /\ (f # 0 => h[f - 1] = g[f - 1])
          BY <1>0, <2>1, <2>2, <4>2
        <5>2. g[f] = IF f = 0 THEN ByKey(keyed)
                     ELSE IF f \in keyed THEN JoinAll(keyed, g[f - 1], f) ELSE g[f - 1]
          BY <2>3, <5>1
        <5>. QED BY <5>1, <5>2
      <4>. QED BY <4>1, <4>2
    <3>. QED BY <3>1
  <2>. QED BY <2>1, <2>4
<1>2. joined = [f \in 0..n |-> IF f = 0 THEN ByKey(keyed)
                  ELSE IF f \in keyed THEN JoinAll(keyed, joined[f - 1], f) ELSE joined[f - 1]]
  <2>1. Chain(joined, n)
    <3>1. \E g : Chain(g, n)
      BY <1>0, <1>1
    <3>. HIDE DEF Chain
    <3>. QED BY <3>1
  <2>. QED BY <2>1
<1>3. \A f \in 0..n : Sorted(keyed, joined[f])
  <2>. HIDE DEF joined
  <2>. DEFINE bad == {f \in 0..n : ~Sorted(keyed, joined[f])}
  <2>. SUFFICES ASSUME bad # {} PROVE FALSE
    OBVIOUS
  <2>1. PICK f \in bad : \A j \in bad : f <= j
    <3>1. bad \in SUBSET Nat
      BY <1>0
    <3>. HIDE DEF bad
    <3>. QED BY <3>1, LeastNatural
  <2>2. CASE f = 0
    BY <1>0, <1>2, <2>1, <2>2, ByKeySorted
  <2>3. CASE f # 0
    <3>1. f - 1 \in 0..n /\ f - 1 \notin bad
      BY <1>0, <2>1, <2>3
    <3>2. joined[f] = IF f \in keyed THEN JoinAll(keyed, joined[f - 1], f) ELSE joined[f - 1]
      BY <1>2, <2>1, <2>3
    <3>. QED BY <2>1, <3>1, <3>2, JoinAllSorted
  <2>. QED BY <2>2, <2>3
<1>4. Flaws(keyed) = joined[n]
  BY DEF Flaws, n
<1>. QED BY <1>0, <1>3, <1>4

\* The copies of a flaw, as the steps that read the sorted findings see them.
LEMMA CopiesFacts ==
  ASSUME present \in SUBSET Findings, NEW flaws, Sorted(Keyed, flaws)
  PROVE  /\ \A f \in present :
              /\ f \in CopiesIn(flaws, f) /\ CopiesIn(flaws, f) \subseteq present
              /\ \A g \in CopiesIn(flaws, f) :
                   CopiesIn(flaws, g) = CopiesIn(flaws, f) /\ Site(g) = Site(f)
         /\ \A f, g \in Keyed :
              /\ Flaw(f) = Flaw(g) => g \in CopiesIn(flaws, f)
              /\ Report[f].tool = Report[g].tool /\ g \in CopiesIn(flaws, f) => Flaw(f) = Flaw(g)
<1>1. Keyed \subseteq present
  BY DEF Keyed
<1>2. \A f \in Keyed : /\ CopiesIn(flaws, f) = With(flaws, f)
                       /\ With(flaws, f) \in flaws /\ f \in With(flaws, f)
                       /\ \A G \in flaws : f \in G => G = With(flaws, f)
  BY WithFacts DEF CopiesIn
<1>3. \A f \in Keyed : CopiesIn(flaws, f) \in flaws /\ CopiesIn(flaws, f) \subseteq Keyed
  BY <1>2 DEF Sorted
<1>4. \A f \in Keyed : \A g \in CopiesIn(flaws, f) :
        CopiesIn(flaws, g) = CopiesIn(flaws, f) /\ Site(g) = Site(f)
  BY <1>2, <1>3 DEF Sorted
<1>5. \A f \in present \ Keyed : CopiesIn(flaws, f) = {f}
  BY DEF CopiesIn
<1>6. \A f, g \in Keyed :
        /\ Flaw(f) = Flaw(g) => g \in CopiesIn(flaws, f)
        /\ Report[f].tool = Report[g].tool /\ g \in CopiesIn(flaws, f) => Flaw(f) = Flaw(g)
  BY <1>2, <1>3 DEF Sorted
<1>7. ASSUME NEW f \in present
      PROVE  /\ f \in CopiesIn(flaws, f) /\ CopiesIn(flaws, f) \subseteq present
             /\ \A g \in CopiesIn(flaws, f) :
                  CopiesIn(flaws, g) = CopiesIn(flaws, f) /\ Site(g) = Site(f)
  <2>1. CASE f \in Keyed
    BY <1>1, <1>2, <1>3, <1>4, <2>1
  <2>2. CASE f \notin Keyed
    BY <1>5, <2>2
  <2>. QED BY <2>1, <2>2
<1>. QED BY <1>6, <1>7

-----------------------------------------------------------------------------
(* The strongest verdict, the copy that is counted, and the highest rank.  *)

\* The strongest verdict is one of those given, or none, and no weaker than any.
LEMMA VerdictFacts ==
  ASSUME NEW V \in SUBSET Verdicts
  PROVE  /\ Strongest(V) \in V \union {"none"}
         /\ \A w \in V : VerdictRank(Strongest(V)) >= VerdictRank(w)
<1>1. \E v \in V \union {"none"} : \A w \in V : VerdictRank(v) >= VerdictRank(w)
  <2>1. CASE "reachable" \in V
    BY <2>1 DEF VerdictRank, Verdicts
  <2>2. CASE "reachable" \notin V /\ "unreachable" \in V
    BY <2>2 DEF VerdictRank, Verdicts
  <2>3. CASE "reachable" \notin V /\ "unreachable" \notin V /\ "unknown" \in V
    BY <2>3 DEF VerdictRank, Verdicts
  <2>4. CASE V \intersect {"reachable", "unreachable", "unknown"} = {}
    BY <2>4 DEF VerdictRank, Verdicts
  <2>. QED BY <2>1, <2>2, <2>3, <2>4
<1>. QED BY <1>1 DEF Strongest

\* Of bounded integers one is the most.
LEMMA MostExists ==
  ASSUME NEW S, S # {}, NEW v \in [S -> Int], NEW b \in Int, \A x \in S : v[x] <= b
  PROVE  \E x \in S : \A y \in S : v[y] <= v[x]
<1>. DEFINE T == {b - v[x] : x \in S}
<1>1. T \in SUBSET Nat /\ T # {}
  OBVIOUS
<1>2. PICK m \in T : \A n \in T : m <= n
  <2>. HIDE DEF T
  <2>. QED BY <1>1, LeastNatural
<1>3. PICK x \in S : m = b - v[x]
  BY <1>2
<1>4. \A y \in S : v[y] <= v[x]
  BY <1>2, <1>3
<1>. QED BY <1>4

\* Highest picks it from ranks and severities.
LEMMA HighestFacts ==
  ASSUME NEW S \in SUBSET (0..4)
  PROVE  /\ Highest(S) \in S \union {0}
         /\ \A t \in S : Highest(S) >= t
<1>. DEFINE T == S \union {0}
            v == [t \in T |-> t]
<1>1. PICK t \in T : \A u \in T : v[u] <= v[t]
  <2>1. T # {} /\ v \in [T -> Int] /\ \A t \in T : v[t] <= 4
    OBVIOUS
  <2>. HIDE DEF T, v
  <2>. QED BY <2>1, MostExists
<1>2. \A u \in S : t >= u
  BY <1>1
<1>. QED BY <1>1, <1>2 DEF Highest

\* Of copies that stand differently in finitely many respects one stands first: keep those
\* foremost in the first respect, of them those foremost in the second, and so on.
Foremost(S, s, i) == {x \in S : \A y \in S : s[y][i] <= s[x][i]}

\* Some are foremost in one respect, and who is their equal in it is foremost too.
LEMMA ForemostFacts ==
  ASSUME NEW G, NEW S \in SUBSET G, S # {}, NEW s \in [G -> [1..6 -> Int]], NEW b \in Int,
         NEW i \in 1..6, \A x \in G : s[x][i] <= b
  PROVE  /\ Foremost(S, s, i) # {} /\ Foremost(S, s, i) \subseteq S
         /\ \A x \in Foremost(S, s, i), y \in S :
              ~(s[y][i] > s[x][i]) /\ (s[y][i] = s[x][i] => y \in Foremost(S, s, i))
<1>. DEFINE v == [x \in S |-> s[x][i]]
<1>1. v \in [S -> Int] /\ \A x \in S : v[x] <= b
  OBVIOUS
<1>2. \E x \in S : \A y \in S : v[y] <= v[x]
  <2>. HIDE DEF v
  <2>. QED BY <1>1, MostExists
<1>3. Foremost(S, s, i) # {}
  BY <1>2 DEF Foremost
<1>4. \A x \in G : s[x][i] \in Int
  OBVIOUS
<1>. QED BY <1>3, <1>4 DEF Foremost

\* Of numbered copies that stand in six respects one stands first: correlation has a choice.
LEMMA FirstExists ==
  ASSUME NEW G \in SUBSET Nat, G # {}, NEW s \in [G -> [1..6 -> Int]], NEW b \in Int,
         \A x \in G, i \in 1..6 : s[x][i] <= b
  PROVE  \E f \in G : \A g \in G : ~Precedes(s[g], s[f]) /\ (s[g] = s[f] => f <= g)
<1>. DEFINE A1 == Foremost(G, s, 1)
            A2 == Foremost(A1, s, 2)
            A3 == Foremost(A2, s, 3)
            A4 == Foremost(A3, s, 4)
            A5 == Foremost(A4, s, 5)
            A6 == Foremost(A5, s, 6)
            Narrows(S, A, i) ==
              /\ A # {} /\ A \subseteq S
              /\ \A x \in A, y \in S : ~(s[y][i] > s[x][i]) /\ (s[y][i] = s[x][i] => y \in A)
<1>0. ASSUME NEW S \in SUBSET G, S # {}, NEW i \in 1..6
      PROVE  Narrows(S, Foremost(S, s, i), i)
  <2>1. \A x \in G : s[x][i] <= b
    OBVIOUS
  <2>. QED BY <1>0, <2>1, ForemostFacts
<1>. HIDE DEF Narrows
<1>1. Narrows(G, A1, 1)
  BY <1>0
<1>a. A1 \in SUBSET G /\ A1 # {}
  BY <1>1 DEF Narrows
<1>. HIDE DEF A1
<1>2. Narrows(A1, A2, 2)
  BY <1>0, <1>a
<1>b. A2 \in SUBSET G /\ A2 # {}
  BY <1>2, <1>a DEF Narrows
<1>. HIDE DEF A2
<1>3. Narrows(A2, A3, 3)
  BY <1>0, <1>b
<1>c. A3 \in SUBSET G /\ A3 # {}
  BY <1>3, <1>b DEF Narrows
<1>. HIDE DEF A3
<1>4. Narrows(A3, A4, 4)
  BY <1>0, <1>c
<1>d. A4 \in SUBSET G /\ A4 # {}
  BY <1>4, <1>c DEF Narrows
<1>. HIDE DEF A4
<1>5. Narrows(A4, A5, 5)
  BY <1>0, <1>d
<1>e. A5 \in SUBSET G /\ A5 # {}
  BY <1>5, <1>d DEF Narrows
<1>. HIDE DEF A5
<1>6. Narrows(A5, A6, 6)
  BY <1>0, <1>e
<1>. HIDE DEF A6
<1>. USE DEF Narrows
<1>7. A6 \in SUBSET Nat
  BY <1>1, <1>2, <1>3, <1>4, <1>5, <1>6
<1>8. PICK f \in A6 : \A g \in A6 : f <= g
  BY <1>6, <1>7, LeastNatural
<1>9. f \in G /\ f \in A1 /\ f \in A2 /\ f \in A3 /\ f \in A4 /\ f \in A5
  BY <1>1, <1>2, <1>3, <1>4, <1>5, <1>6
<1>10. ASSUME NEW g \in G, NEW i \in 1..6, s[g][i] > s[f][i], \A j \in 1..(i - 1) : s[g][j] = s[f][j]
       PROVE  FALSE
  <2>1. /\ i > 1 => s[g][1] = s[f][1]
        /\ i > 2 => s[g][2] = s[f][2]
        /\ i > 3 => s[g][3] = s[f][3]
        /\ i > 4 => s[g][4] = s[f][4]
        /\ i > 5 => s[g][5] = s[f][5]
    BY <1>10
  <2>2. i > 1 => g \in A1
    BY <1>1, <1>9, <2>1
  <2>3. i > 2 => g \in A2
    BY <1>2, <1>9, <2>1, <2>2
  <2>4. i > 3 => g \in A3
    BY <1>3, <1>9, <2>1, <2>3
  <2>5. i > 4 => g \in A4
    BY <1>4, <1>9, <2>1, <2>4
  <2>6. i > 5 => g \in A5
    BY <1>5, <1>9, <2>1, <2>5
  <2>7. i \in {1, 2, 3, 4, 5, 6}
    OBVIOUS
  <2>. QED BY <1>1, <1>2, <1>3, <1>4, <1>5, <1>6, <1>8, <1>9, <1>10, <2>2, <2>3, <2>4, <2>5, <2>6, <2>7
<1>11. \A g \in G : s[g] = s[f] => f <= g
  BY <1>1, <1>2, <1>3, <1>4, <1>5, <1>6, <1>8, <1>9
<1>. QED BY <1>9, <1>10, <1>11 DEF Precedes

\* The copy that is counted: its place against each of the others.
LEMMA CountedFacts ==
  ASSUME rank \in [Findings -> Ranks], outside \in [Findings -> BOOLEAN],
         NEW G \in SUBSET Findings, G # {}
  PROVE  /\ StrongestOf(G) \in G
         /\ \A g \in G :
              LET f == StrongestOf(G)
              IN  /\ BySetting(f) => BySetting(g)
                  /\ ~BySetting(g) /\ outside[f] => outside[g]
                  /\ ~BySetting(g) /\ (outside[f] <=> outside[g]) => rank[f].band >= rank[g].band
<1>. DEFINE s == [f \in G |-> Standing(f)]
<1>1. ASSUME NEW f \in Findings
      PROVE  /\ Standing(f) \in [1..6 -> Int]
             /\ \A i \in 1..6 : Standing(f)[i] <= 4
             /\ Standing(f)[1] = IF BySetting(f) THEN 0 ELSE 1
             /\ Standing(f)[2] = IF outside[f] THEN 0 ELSE 1
             /\ Standing(f)[3] = rank[f].band
  <2>1. rank[f].band \in 1..4 /\ Report[f].rating \in 1..4 /\ Report[f].toolOrder \in Nat
    BY FindingsAssumption DEF Ranks, Bands, Severities
  <2>. QED BY <2>1 DEF Standing
<1>2. s \in [G -> [1..6 -> Int]] /\ \A x \in G, i \in 1..6 : s[x][i] <= 4
  BY <1>1
<1>3. G \in SUBSET Nat
  BY FindingsAssumption
<1>4. \E f \in G : \A g \in G : ~Precedes(s[g], s[f]) /\ (s[g] = s[f] => f <= g)
  <2>. HIDE DEF s
  <2>1. G # {} /\ 4 \in Int
    OBVIOUS
  <2>. QED BY <1>2, <1>3, <2>1, FirstExists
<1>5. PICK top : top = StrongestOf(G)
  OBVIOUS
<1>6. top \in G /\ \A g \in G : ~Precedes(s[g], s[top])
  <2>1. StrongestOf(G) = CHOOSE f \in G : \A g \in G : ~Precedes(s[g], s[f]) /\ (s[g] = s[f] => f <= g)
    BY DEF StrongestOf
  <2>. HIDE DEF s
  <2>. QED BY <1>4, <1>5, <2>1
<1>7. ASSUME NEW g \in G
      PROVE  /\ BySetting(top) => BySetting(g)
             /\ ~BySetting(g) /\ outside[top] => outside[g]
             /\ ~BySetting(g) /\ (outside[top] <=> outside[g]) => rank[top].band >= rank[g].band
  <2>1. /\ ~(s[g][1] > s[top][1])
        /\ s[g][1] = s[top][1] => ~(s[g][2] > s[top][2])
        /\ s[g][1] = s[top][1] /\ s[g][2] = s[top][2] => ~(s[g][3] > s[top][3])
    <3>. HIDE DEF s
    <3>. QED BY <1>6 DEF Precedes
  <2>2. rank[top].band \in Int /\ rank[g].band \in Int
    BY <1>6 DEF Ranks, Bands
  <2>. QED BY <1>1, <1>6, <2>1, <2>2
<1>. QED BY <1>5, <1>6, <1>7

-----------------------------------------------------------------------------
(* The type of the state.                                                  *)

\* The prioritizer's inputs are in its domain, whatever the feeds answer.
LEMMA InputsFacts ==
  ASSUME NEW f \in Findings, NEW v \in Verdicts, NEW health \in HealthAnswers \union {Silent}
  PROVE  /\ InputsOf(f, health) \in Inputs
         /\ Prioritize(f, v, health) \in Ranks
         /\ RankedSeverity(Report[f].rating, Prioritize(f, v, health), v) = Lowered(InputsOf(f, health), v)
         /\ Prioritize(f, v, health).band = PriorityBand[InputsOf(f, health).tier][Lowered(InputsOf(f, health), v)]
<1>1. health \in [Packages -> Healths]
  BY FindingsAssumption DEF Silent, Healths
<1>2. Report[f].control \in Controls /\ Report[f].component \in Field("component")
  BY FindingsAssumption DEF Field
<1>3. Floor[Report[f].control] \in 0..Critical /\ Tier[Report[f].control, Report[f].component] \in Tiers
  <2>1. Floor \in [Controls -> 0..Critical] /\ Tier \in [Controls \X Field("component") -> Tiers]
    BY FindingsAssumption
  <2>2. <<Report[f].control, Report[f].component>> \in Controls \X Field("component")
    BY <1>2
  <2>3. Floor[Report[f].control] \in 0..Critical
    BY <1>2, <2>1
  <2>4. Tier[Report[f].control, Report[f].component] \in Tiers
    BY <2>1, <2>2
  <2>. QED BY <2>3, <2>4
<1>4. Report[f].pkg # NoPkg => health[Report[f].pkg] \in Healths
  BY <1>1 DEF Packages, Field
<1>5. (IF Report[f].id \in DOMAIN Exploit THEN Exploit[Report[f].id] ELSE "none") \in Exploits
  BY FindingsAssumption DEF Exploits
<1>6. (IF Report[f].pkg = NoPkg THEN "none" ELSE health[Report[f].pkg]) \in Healths
  BY <1>4 DEF Healths
<1>7. Report[f].rating \in Severities
  BY FindingsAssumption
<1>8. InputsOf(f, health) \in Inputs /\ InputsOf(f, health).rating = Report[f].rating
  BY <1>3, <1>5, <1>6, <1>7 DEF InputsOf, Inputs
<1>. QED BY <1>8, RankRoundTrip DEF Prioritize

\* The verdict a finding is given is that of an analyzer's finding it reaches.
LEMMA GivenFacts ==
  ASSUME verdict \in [Findings -> Verdicts], present \in SUBSET Findings, NEW f
  PROVE  /\ Given(f) \in Verdicts
         /\ FoldedIn(f) \subseteq Analyzers \intersect present
         /\ \A b \in FoldedIn(f) : VerdictRank(Given(f)) >= VerdictRank(verdict[b])
         /\ Given(f) # "none" => \E b \in FoldedIn(f) : verdict[b] = Given(f)
<1>. DEFINE V == {verdict[b] : b \in UNION {Twins(a) : a \in Reaching(f)}}
<1>1. FoldedIn(f) \subseteq Analyzers \intersect present
  BY DEF FoldedIn, Twins
<1>2. V = {verdict[b] : b \in FoldedIn(f)}
  BY DEF FoldedIn
<1>3. V \in SUBSET Verdicts
  BY <1>1, <1>2
<1>4. Given(f) = Strongest(V)
  BY DEF Given
<1>. HIDE DEF V
<1>5. Given(f) \in V \union {"none"} /\ \A w \in V : VerdictRank(Given(f)) >= VerdictRank(w)
  BY <1>3, <1>4, VerdictFacts
<1>. QED BY <1>1, <1>2, <1>3, <1>5 DEF Verdicts

\* A decision spread to copies is one of theirs, and none where only settings decided.
LEMMA SuppressionFacts ==
  ASSUME TypeOK, NEW G \in SUBSET Findings
  PROVE  /\ SuppressionIn(G) \in {Not} \union (Origins \X (0..Len(Rules)))
         /\ SuppressionIn(G) = Not <=> \A g \in G : Suppressed(g) => BySetting(g)
<1>. DEFINE decided == {f \in G : Suppressed(f) /\ ~BySetting(f)}
<1>1. CASE decided = {}
  BY <1>1 DEF SuppressionIn
<1>2. CASE decided # {}
  <2>1. decided \in SUBSET Nat
    <3>1. Findings \in SUBSET Nat
      BY FindingsAssumption
    <3>. QED BY <3>1
  <2>2. Least(decided) \in decided
    <3>. HIDE DEF decided
    <3>. QED BY <1>2, <2>1, LeastFacts
  <2>. QED BY <1>2, <2>2 DEF SuppressionIn, TypeOK, Suppressed
<1>. QED BY <1>1, <1>2

\* A setting's reason is a reason.
LEMMA SettingFacts ==
  ASSUME NEW f, NEW answers
  PROVE  FirstSetting(f, answers) \in {Not} \union (Settings \X (0..Len(Rules)))
<1>. DEFINE which == {i \in DOMAIN SettingOrder : SetsAside(f, SettingOrder[i], answers)}
<1>1. DOMAIN SettingOrder = 1..4 /\ \A i \in 1..4 : SettingOrder[i] \in Settings
  BY DEF SettingOrder, Settings
<1>2. Len(Rules) \in Nat
  BY FindingsAssumption
<1>3. CASE which = {}
  BY <1>3 DEF FirstSetting
<1>4. CASE which # {}
  <2>1. which \in SUBSET Nat
    BY <1>1
  <2>2. Least(which) \in which
    <3>. HIDE DEF which
    <3>. QED BY <1>4, <2>1, LeastFacts
  <2>3. FirstSetting(f, answers) = <<SettingOrder[Least(which)], 0>>
    BY <1>4 DEF FirstSetting
  <2>4. Least(which) \in 1..4
    BY <1>1, <2>2
  <2>. HIDE DEF which
  <2>. QED BY <1>1, <1>2, <2>3, <2>4
<1>. QED BY <1>3, <1>4

\* The copies of a flaw are findings still in the report, and one of them is counted.
LEMMA CopyFacts ==
  ASSUME TypeOK, NEW f \in present
  PROVE  LET G == CopiesIn(Flaws(Keyed), f)
         IN  /\ f \in G /\ G \in SUBSET present /\ G \in SUBSET Findings
             /\ StrongestOf(G) \in G
<1>. DEFINE flaws == Flaws(Keyed)
            G == CopiesIn(flaws, f)
<1>1. Keyed \in SUBSET Findings /\ present \in SUBSET Findings
  BY DEF TypeOK, Keyed
<1>2. Sorted(Keyed, flaws)
  BY <1>1, FlawsSorted
<1>. HIDE DEF flaws
<1>3. f \in G /\ G \subseteq present
  BY <1>1, <1>2, CopiesFacts
<1>4. G \in SUBSET Findings /\ G # {}
  BY <1>1, <1>3
<1>. HIDE DEF G
<1>5. StrongestOf(G) \in G
  BY <1>4, CountedFacts DEF TypeOK
<1>. QED BY <1>3, <1>4, <1>5 DEF G, flaws

\* A run starts in its type.
LEMMA InitTypeOK == Init => TypeOK
<1>. SUFFICES ASSUME Init PROVE TypeOK
  OBVIOUS
<1>1. PICK S \in SUBSET Optional, v \in [Analyzers -> Verdicts \ {"none"}],
           m \in MarksGiven, q \in SUBSET Silenceable :
        scan = [reported |-> Findings \ S, marks |-> m, silenced |-> q,
                verdict |-> [f \in Findings |-> IF f \in Analyzers THEN v[f] ELSE "none"]]
  BY DEF Init
<1>2. /\ scan.reported \in SUBSET Findings /\ scan.marks \in [Findings -> SUBSET Marks]
      /\ scan.silenced \in SUBSET Findings /\ scan.verdict \in [Findings -> Verdicts]
  <2>1. m \in [Findings -> SUBSET Marks] /\ q \in SUBSET Findings
    BY FindingsAssumption
  <2>2. [f \in Findings |-> IF f \in Analyzers THEN v[f] ELSE "none"] \in [Findings -> Verdicts]
    BY DEF Verdicts
  <2>. QED BY <1>1, <2>1, <2>2
<1>3. scan \in [reported : SUBSET Findings, verdict : [Findings -> Verdicts],
               marks : [Findings -> SUBSET Marks], silenced : SUBSET Findings]
  BY <1>1, <1>2
<1>4. rank \in [Findings -> Ranks]
  <2>1. verdict \in [Findings -> Verdicts]
    BY <1>2 DEF Init
  <2>2. \A f \in Findings : Prioritize(f, verdict[f], Silent) \in Ranks
    BY <2>1, InputsFacts
  <2>. QED BY <2>2 DEF Init
<1>5. Len(Rules) \in Nat
  BY FindingsAssumption
<1>6. supp \in [Findings -> {Not} \union (Origins \X (0..Len(Rules)))]
  <2>1. <<"scanner", 0>> \in Origins \X (0..Len(Rules))
    BY <1>5 DEF Origins
  <2>. QED BY <2>1 DEF Init
<1>7. world \in [health : HealthAnswers \union {Silent}, lapsed : SUBSET DOMAIN Rules, claims : SUBSET ClaimPool,
                answers : AsideAnswers \union {NoAnswers}, gate : Gates \union {NoGate}]
  BY DEF Init
<1>8. stage \in DOMAIN After
  BY DEF Init, After
<1>9. tally \in [Findings -> Verdicts] /\ outcome \in [Controls -> {"none", "pass", "fail"}]
  BY DEF Init, Verdicts
<1>10. outside \in [Findings -> BOOLEAN] /\ under \in [Findings -> Findings]
  BY DEF Init
<1>. QED BY <1>2, <1>3, <1>4, <1>6, <1>7, <1>8, <1>9, <1>10 DEF Init, TypeOK

\* A step takes the stage to the next.
LEMMA AtFacts ==
  ASSUME NEW s \in DOMAIN After, At(s)
  PROVE  stage = s /\ stage' = After[s] /\ stage' \in DOMAIN After \union {"done"}
BY DEF At, After

\* Every step keeps the state in its type.
LEMMA NextTypeOK == TypeOK /\ [Next]_vars => TypeOK'
<1>. SUFFICES ASSUME TypeOK, [Next]_vars PROVE TypeOK'
  OBVIOUS
<1>. DEFINE Reasons == {Not} \union (Origins \X (0..Len(Rules)))
            Worlds == [health : HealthAnswers \union {Silent}, lapsed : SUBSET DOMAIN Rules,
                       claims : SUBSET ClaimPool, answers : AsideAnswers \union {NoAnswers},
                       gate : Gates \union {NoGate}]
<1>0. Len(Rules) \in Nat /\ DOMAIN Rules = 1..Len(Rules) /\ world \in Worlds
  BY FindingsAssumption DEF TypeOK
<1>s. /\ "health" \in DOMAIN After /\ "reach" \in DOMAIN After /\ "copies" \in DOMAIN After
      /\ "outside" \in DOMAIN After /\ "exclude" \in DOMAIN After /\ "vex" \in DOMAIN After
      /\ "settings" \in DOMAIN After /\ "correlate" \in DOMAIN After
      /\ "recount" \in DOMAIN After /\ "judge" \in DOMAIN After
  BY DEF After
<1>1. ASSUME NEW health \in HealthAnswers \union {Silent}, AskHealth(health) PROVE TypeOK'
  <2>1. rank' \in [Findings -> Ranks]
    <3>1. \A f \in Findings : Prioritize(f, verdict[f], health) \in Ranks
      BY InputsFacts DEF TypeOK
    <3>. QED BY <1>1, <3>1 DEF AskHealth, TypeOK
  <2>2. world' \in Worlds
    BY <1>0, <1>1 DEF AskHealth
  <2>. QED BY <1>1, <1>s, <2>1, <2>2, AtFacts DEF AskHealth, TypeOK
<1>2. CASE Reach
  <2>1. \A f \in Findings : Given(f) \in Verdicts
    BY GivenFacts DEF TypeOK
  <2>2. verdict' \in [Findings -> Verdicts]
    BY <1>2, <2>1 DEF Reach, TypeOK
  <2>3. rank' \in [Findings -> Ranks]
    <3>1. world.health \in HealthAnswers \union {Silent}
      BY <1>0
    <3>2. \A f \in Findings : Prioritize(f, Given(f), world.health) \in Ranks
      BY <2>1, <3>1, InputsFacts
    <3>. QED BY <1>2, <3>2 DEF Reach, TypeOK
  <2>4. present' \in SUBSET Findings
    BY <1>2 DEF Reach, TypeOK
  <2>. QED BY <1>2, <1>s, <2>2, <2>3, <2>4, AtFacts DEF Reach, TypeOK
<1>3. CASE MarkDevCopies
  <2>1. \A f \in Findings : CopiedMarks(f) \in SUBSET Marks
    BY DEF CopiedMarks, TypeOK
  <2>2. marks' \in [Findings -> SUBSET Marks]
    BY <1>3, <2>1 DEF MarkDevCopies, TypeOK
  <2>. QED BY <1>3, <1>s, <2>2, AtFacts DEF MarkDevCopies, TypeOK
<1>4. CASE MarkNonShipping
  <2>1. outside' \in [Findings -> BOOLEAN]
    BY <1>4, FindingsAssumption DEF MarkNonShipping
  <2>. QED BY <1>4, <1>s, <2>1, AtFacts DEF MarkNonShipping, TypeOK
<1>5. ASSUME NEW lapsed \in SUBSET DOMAIN Rules, ApplyExclusions(lapsed) PROVE TypeOK'
  <2>1. \A f \in Findings : Hits(f, DOMAIN Rules \ lapsed) # {}
          => <<"rule", Least(Hits(f, DOMAIN Rules \ lapsed))>> \in Reasons
    <3>. SUFFICES ASSUME NEW f \in Findings, Hits(f, DOMAIN Rules \ lapsed) # {}
                  PROVE  <<"rule", Least(Hits(f, DOMAIN Rules \ lapsed))>> \in Reasons
      OBVIOUS
    <3>. DEFINE hits == Hits(f, DOMAIN Rules \ lapsed)
    <3>1. hits \in SUBSET (1..Len(Rules)) /\ hits \in SUBSET Nat
      BY <1>0 DEF Hits
    <3>. HIDE DEF hits
    <3>2. Least(hits) \in 1..Len(Rules)
      <4>1. hits # {}
        BY DEF hits
      <4>. QED BY <3>1, <4>1, LeastFacts
    <3>3. <<"rule", Least(hits)>> \in Reasons
      BY <1>0, <3>2 DEF Origins
    <3>. QED BY <3>3 DEF hits
  <2>2. supp' \in [Findings -> Reasons]
    BY <1>5, <2>1 DEF ApplyExclusions, TypeOK
  <2>3. world' \in Worlds
    BY <1>0, <1>5 DEF ApplyExclusions
  <2>. QED BY <1>5, <1>s, <2>2, <2>3, AtFacts DEF ApplyExclusions, TypeOK
<1>6. ASSUME NEW claims \in ClaimSets, ApplyVEX(claims) PROVE TypeOK'
  <2>1. <<"vex", 0>> \in Reasons
    BY <1>0 DEF Origins
  <2>2. supp' \in [Findings -> Reasons]
    BY <1>6, <2>1 DEF ApplyVEX, TypeOK
  <2>3. world' \in Worlds
    BY <1>0, <1>6 DEF ApplyVEX, ClaimSets
  <2>. QED BY <1>6, <1>s, <2>2, <2>3, AtFacts DEF ApplyVEX, TypeOK
<1>7. ASSUME NEW answers \in AsideAnswers, ApplySettings(answers) PROVE TypeOK'
  <2>1. \A f : FirstSetting(f, answers) \in Reasons
    BY SettingFacts DEF Origins
  <2>2. supp' \in [Findings -> Reasons]
    BY <1>7, <2>1 DEF ApplySettings, TypeOK
  <2>3. world' \in Worlds
    BY <1>0, <1>7 DEF ApplySettings
  <2>. QED BY <1>7, <1>s, <2>2, <2>3, AtFacts DEF ApplySettings, TypeOK
<1>8. CASE Correlate
  <2>1. \A f \in present : /\ SuppressionIn(CopiesIn(Flaws(Keyed), f)) \in Reasons
                          /\ StrongestOf(CopiesIn(Flaws(Keyed), f)) \in Findings
    <3>1. \A f \in present : /\ CopiesIn(Flaws(Keyed), f) \in SUBSET Findings
                            /\ StrongestOf(CopiesIn(Flaws(Keyed), f)) \in Findings
      BY CopyFacts
    <3>. QED BY <3>1, SuppressionFacts
  <2>2. supp' \in [Findings -> Reasons] /\ under' \in [Findings -> Findings]
    BY <1>8, <2>1 DEF Correlate, TypeOK
  <2>. QED BY <1>8, <1>s, <2>2, AtFacts DEF Correlate, TypeOK
<1>9. CASE Recount
  <2>1. \A f \in present : Strongest({verdict[g] : g \in CopiesIn(Flaws(Keyed), f)}) \in Verdicts
    <3>. TAKE f \in present
    <3>. DEFINE V == {verdict[g] : g \in CopiesIn(Flaws(Keyed), f)}
    <3>1. CopiesIn(Flaws(Keyed), f) \in SUBSET Findings
      BY CopyFacts
    <3>2. V \in SUBSET Verdicts
      BY <3>1 DEF TypeOK
    <3>. HIDE DEF V
    <3>3. Strongest(V) \in Verdicts
      BY <3>2, VerdictFacts DEF Verdicts
    <3>. QED BY <3>3 DEF V
  <2>2. tally' \in [Findings -> Verdicts]
    BY <1>9, <2>1 DEF Recount, TypeOK, Verdicts
  <2>. QED BY <1>9, <1>s, <2>2, AtFacts DEF Recount, TypeOK
<1>10. ASSUME NEW gate \in Gates, Judge(gate) PROVE TypeOK'
  <2>1. world' \in Worlds
    BY <1>0, <1>10 DEF Judge
  <2>2. outcome' \in [Controls -> {"none", "pass", "fail"}]
    BY <1>10 DEF Judge
  <2>. QED BY <1>10, <1>s, <2>1, <2>2, AtFacts DEF Judge, TypeOK
<1>11. CASE UNCHANGED vars
  BY <1>11 DEF vars, TypeOK
<1>. QED BY <1>1, <1>2, <1>3, <1>4, <1>5, <1>6, <1>7, <1>8, <1>9, <1>10, <1>11 DEF Next

-----------------------------------------------------------------------------
(* What the scanners said, the ranks and the verdicts.                     *)

\* What is left of what the scanners said.
ScanInv ==
  /\ present \subseteq scan.reported
  /\ \A f \in Findings : scan.verdict[f] = "none" <=> f \notin Analyzers
  /\ ~Ranked => verdict = scan.verdict /\ present = scan.reported

\* Every rank in the report is the prioritizer's, of what is known by now.
RankInv ==
  /\ stage = "health" => world.health = Silent
  /\ \A f \in present : rank[f] = Prioritize(f, verdict[f], world.health)

\* Where every verdict in the report comes from, and what became of the analyzer's own.
VerdictInv ==
  Ranked =>
    /\ FoldedOnce
    /\ \A a \in Analyzers : verdict[a] = scan.verdict[a]
    /\ \A f \in Others : verdict[f] = "reachable" =>
         \E a \in scan.reported \intersect Analyzers :
           scan.verdict[a] = "reachable" /\ Spot(a) = Spot(f)

\* The steps after the verdicts have moved leave alone what they are about.
Quiet == UNCHANGED <<present, verdict, rank, scan>> /\ world'.health = world.health

\* Which steps touch ranks and verdicts, and where the others are taken.
LEMMA QuietSteps ==
  ASSUME TypeOK, [Next]_vars
  PROVE  \/ \E health \in HealthAnswers \union {Silent} : AskHealth(health)
         \/ Reach
         \/ Quiet /\ Ranked /\ Ranked' /\ stage # "health" /\ stage' # "health"
         \/ Quiet /\ stage' = stage
<1>1. ASSUME NEW s \in DOMAIN After \ {"health", "reach"}, At(s)
      PROVE  Ranked /\ Ranked' /\ stage # "health" /\ stage' # "health"
  BY <1>1 DEF At, After, Ranked
<1>2. CASE MarkDevCopies
  BY <1>1, <1>2 DEF MarkDevCopies, Quiet, After
<1>3. CASE MarkNonShipping
  BY <1>1, <1>3 DEF MarkNonShipping, Quiet, After
<1>4. ASSUME NEW lapsed, ApplyExclusions(lapsed)
      PROVE  Quiet /\ Ranked /\ Ranked' /\ stage # "health" /\ stage' # "health"
  BY <1>1, <1>4 DEF ApplyExclusions, Quiet, After, TypeOK
<1>5. ASSUME NEW claims, ApplyVEX(claims)
      PROVE  Quiet /\ Ranked /\ Ranked' /\ stage # "health" /\ stage' # "health"
  BY <1>1, <1>5 DEF ApplyVEX, Quiet, After, TypeOK
<1>6. ASSUME NEW answers, ApplySettings(answers)
      PROVE  Quiet /\ Ranked /\ Ranked' /\ stage # "health" /\ stage' # "health"
  BY <1>1, <1>6 DEF ApplySettings, Quiet, After, TypeOK
<1>7. CASE Correlate
  BY <1>1, <1>7 DEF Correlate, Quiet, After
<1>8. CASE Recount
  BY <1>1, <1>8 DEF Recount, Quiet, After
<1>9. ASSUME NEW gate, Judge(gate)
      PROVE  Quiet /\ Ranked /\ Ranked' /\ stage # "health" /\ stage' # "health"
  BY <1>1, <1>9 DEF Judge, Quiet, After, TypeOK
<1>10. CASE UNCHANGED vars
  BY <1>10 DEF vars, Quiet
<1>. QED BY <1>2, <1>3, <1>4, <1>5, <1>6, <1>7, <1>8, <1>9, <1>10 DEF Next

\* What the scanners said stays what it was.
LEMMA ScanStep == TypeOK /\ ScanInv /\ [Next]_vars => ScanInv'
<1>. SUFFICES ASSUME TypeOK, ScanInv, [Next]_vars PROVE ScanInv'
  OBVIOUS
<1>1. ASSUME NEW health, AskHealth(health) PROVE ScanInv'
  BY <1>1 DEF AskHealth, At, After, ScanInv, Ranked
<1>2. CASE Reach
  BY <1>2 DEF Reach, At, After, ScanInv, Ranked
<1>3. CASE Quiet /\ Ranked /\ Ranked'
  BY <1>3 DEF Quiet, ScanInv
<1>4. CASE Quiet /\ stage' = stage
  BY <1>4 DEF Quiet, ScanInv, Ranked
<1>. QED BY <1>1, <1>2, <1>3, <1>4, QuietSteps

\* A step that changes what is known of a finding ranks it again.
LEMMA RankStep == TypeOK /\ ScanInv /\ RankInv /\ [Next]_vars => RankInv'
<1>. SUFFICES ASSUME TypeOK, ScanInv, RankInv, [Next]_vars PROVE RankInv'
  OBVIOUS
<1>0. present \in SUBSET Findings
  BY DEF TypeOK
<1>1. ASSUME NEW health \in HealthAnswers \union {Silent}, AskHealth(health) PROVE RankInv'
  <2>1. /\ stage' # "health" /\ world'.health = health
        /\ UNCHANGED <<present, verdict>>
    BY <1>1 DEF AskHealth, At, After, TypeOK
  <2>2. ASSUME NEW f \in present PROVE rank'[f] = Prioritize(f, verdict[f], health)
    <3>1. CASE Report[f].pkg # NoPkg
      BY <1>0, <1>1, <3>1 DEF AskHealth
    <3>2. CASE Report[f].pkg = NoPkg
      <4>1. InputsOf(f, health) = InputsOf(f, world.health)
        BY <3>2 DEF InputsOf
      <4>. QED BY <1>0, <1>1, <3>2, <4>1 DEF AskHealth, RankInv, Prioritize
    <3>. QED BY <3>1, <3>2
  <2>. QED BY <2>1, <2>2 DEF RankInv
<1>2. CASE Reach
  <2>1. stage' # "health" /\ world' = world /\ present' \subseteq present
    BY <1>2 DEF Reach, At, After
  <2>2. stage = "reach" /\ verdict = scan.verdict
    BY <1>2 DEF Reach, At, ScanInv, Ranked
  <2>3. ASSUME NEW f \in present' PROVE rank'[f] = Prioritize(f, verdict'[f], world.health)
    <3>1. f \in present /\ f \in Findings
      BY <1>0, <2>1
    <3>2. CASE f \in Others
      <4>1. verdict'[f] = Given(f)
        BY <1>2, <3>1, <3>2 DEF Reach
      <4>2. rank'[f] = IF Given(f) # "none" THEN Prioritize(f, Given(f), world.health) ELSE rank[f]
        BY <1>2, <3>1, <3>2 DEF Reach
      <4>3. verdict[f] = "none"
        BY <2>2, <3>1, <3>2 DEF Others, ScanInv
      <4>. QED BY <3>1, <4>1, <4>2, <4>3 DEF RankInv
    <3>3. CASE f \notin Others
      <4>1. verdict'[f] = verdict[f] /\ rank'[f] = rank[f]
        BY <1>2, <3>1, <3>3 DEF Reach
      <4>. QED BY <3>1, <4>1 DEF RankInv
    <3>. QED BY <3>2, <3>3
  <2>. QED BY <2>1, <2>3 DEF RankInv
<1>3. CASE Quiet /\ (stage' # "health" \/ stage' = stage)
  BY <1>3 DEF Quiet, RankInv
<1>. QED BY <1>1, <1>2, <1>3, QuietSteps

\* The analyzer's verdicts move: each of its findings is folded into a copy, or none is there.
LEMMA ReachFolds ==
  ASSUME TypeOK, ScanInv, Reach
  PROVE  VerdictInv'
<1>. DEFINE called == scan.reported \intersect Analyzers
            Names(f) == {Report[f].id} \union Aliases(f)
<1>1. /\ verdict = scan.verdict /\ present = scan.reported /\ present \in SUBSET Findings
      /\ scan' = scan /\ verdict \in [Findings -> Verdicts]
  BY DEF Reach, At, ScanInv, Ranked, TypeOK
<1>2. /\ present' = present \ (UNION {FoldedIn(f) : f \in Others})
      /\ \A f \in Findings : verdict'[f] = IF f \in Others THEN Given(f) ELSE verdict[f]
  BY DEF Reach
<1>3. \A f : /\ FoldedIn(f) \subseteq Analyzers \intersect present
             /\ \A b \in FoldedIn(f) : VerdictRank(Given(f)) >= VerdictRank(verdict[b])
             /\ Given(f) # "none" => \E b \in FoldedIn(f) : verdict[b] = Given(f)
  BY <1>1, GivenFacts
<1>4. Others' = Others
  BY <1>2, <1>3 DEF Others
<1>5. called = Analyzers \intersect present
  BY <1>1
<1>6. ASSUME NEW f \in Others, NEW a \in FoldedIn(f)
      PROVE  /\ Spot(f) = Spot(a)
             /\ \E b \in called : Says(b, a, {Report[a].id}) /\ Names(f) \intersect Names(b) # {}
  <2>1. PICK b \in Reaching(f) : a \in Twins(b)
    BY <1>6 DEF FoldedIn
  <2>2. Spot(a) = Spot(b) /\ Report[a].id = Report[b].id /\ b \in called
    BY <1>5, <2>1 DEF Twins, Says, Reaching
  <2>3. \/ Says(b, f, {Report[f].id} \union Aliases(f))
        \/ Spot(b) = Spot(f) /\ Report[f].id \in Aliases(b)
    BY <2>1 DEF Reaching
  <2>4. Spot(b) = Spot(f) /\ Names(f) \intersect Names(b) # {}
    BY <2>3 DEF Says
  <2>. QED BY <2>2, <2>4 DEF Says
<1>7. FoldedOnce'
  <2>1. (scan.reported \ present)' \subseteq Analyzers
    BY <1>1, <1>2, <1>3
  <2>2. ASSUME NEW a \in called, a \notin present'
        PROVE  \E f \in Others, b \in called :
                 /\ Spot(f) = Spot(a)
                 /\ Says(b, a, {Report[a].id}) /\ Names(f) \intersect Names(b) # {}
                 /\ VerdictRank(verdict'[f]) >= VerdictRank(scan.verdict[a])
    <3>1. PICK f \in Others : a \in FoldedIn(f)
      BY <1>2, <1>5, <2>2
    <3>2. verdict'[f] = Given(f)
      BY <1>1, <1>2 DEF Others
    <3>. QED BY <1>1, <1>3, <1>6, <3>1, <3>2
  <2>3. ASSUME NEW a \in called, a \in present', NEW f \in Others, Spot(f) = Spot(a)
        PROVE  /\ Report[a].id \notin Names(f)
               /\ Report[f].id \in Aliases(a) => \E b \in called : Says(b, a, {Report[f].id})
    <3>1. a \notin FoldedIn(f)
      BY <1>2, <2>3
    <3>2. a \notin Reaching(f)
      <4>1. a \in Twins(a)
        BY <1>5 DEF Twins, Says
      <4>. QED BY <3>1, <4>1 DEF FoldedIn
    <3>3. Report[a].id \notin Names(f)
      BY <1>5, <2>3, <3>2 DEF Reaching, Says
    <3>4. ASSUME Report[f].id \in Aliases(a) PROVE \E b \in called : Says(b, a, {Report[f].id})
      <4>1. PICK b \in called : Says(b, f, {Report[f].id} \union Aliases(f)) /\ Report[b].id = Report[f].id
        BY <1>5, <2>3, <3>2, <3>4 DEF Reaching
      <4>. QED BY <2>3, <4>1 DEF Says
    <3>. QED BY <3>3, <3>4
  <2>. QED BY <1>1, <1>4, <2>1, <2>2, <2>3 DEF FoldedOnce
<1>8. \A a \in Analyzers : verdict'[a] = scan.verdict[a]
  BY <1>1, <1>2 DEF Others, Analyzers
<1>9. ASSUME NEW f \in Others, verdict'[f] = "reachable"
      PROVE  \E a \in called : scan.verdict[a] = "reachable" /\ Spot(a) = Spot(f)
  <2>1. verdict'[f] = Given(f)
    BY <1>1, <1>2 DEF Others
  <2>2. PICK b \in FoldedIn(f) : verdict[b] = "reachable"
    BY <1>3, <1>9, <2>1
  <2>3. b \in called /\ Spot(f) = Spot(b)
    BY <1>3, <1>5, <1>6, <2>2
  <2>. QED BY <1>1, <2>2, <2>3
<1>. QED BY <1>1, <1>4, <1>7, <1>8, <1>9 DEF VerdictInv, Spot

\* Once moved, verdicts stay.
LEMMA VerdictStep == TypeOK /\ ScanInv /\ VerdictInv /\ [Next]_vars => VerdictInv'
<1>. SUFFICES ASSUME TypeOK, ScanInv, VerdictInv, [Next]_vars PROVE VerdictInv'
  OBVIOUS
<1>1. ASSUME NEW health, AskHealth(health) PROVE VerdictInv'
  BY <1>1 DEF AskHealth, At, After, VerdictInv, Ranked
<1>2. CASE Reach
  BY <1>2, ReachFolds
<1>3. CASE Quiet /\ Ranked /\ Ranked'
  BY <1>3 DEF Quiet, VerdictInv, FoldedOnce, Others
<1>4. CASE Quiet /\ stage' = stage
  BY <1>4 DEF Quiet, VerdictInv, FoldedOnce, Others, Ranked
<1>. QED BY <1>1, <1>2, <1>3, <1>4, QuietSteps

-----------------------------------------------------------------------------
(* Marks, and the reason each finding is set aside for on its own account. *)

\* The marks in the report are the scanners', and from its step on, the copied ones too.
MarkInv ==
  /\ stage \in {"health", "reach", "copies"} => marks = scan.marks
  /\ stage \notin {"health", "reach", "copies"} =>
       \A f \in present : \A s \in Marks : s \in marks[f] <=> MarkedWith(f, s)
  /\ stage \notin {"health", "reach", "copies", "outside"} =>
       \A f \in present : outside[f] <=> ("path" \in Honours[Report[f].control] /\ Report[f].testPath)

\* The marks follow their two steps and are left alone by the rest.
LEMMA MarkStep == TypeOK /\ MarkInv /\ [Next]_vars => MarkInv'
<1>. SUFFICES ASSUME TypeOK, MarkInv, [Next]_vars PROVE MarkInv'
  OBVIOUS
<1>0. ASSUME UNCHANGED <<present, scan>>
      PROVE  \A f, s : MarkedWith(f, s)' <=> MarkedWith(f, s)
  BY <1>0 DEF MarkedWith, SameCopy
<1>1. ASSUME NEW health, AskHealth(health) PROVE MarkInv'
  BY <1>1 DEF AskHealth, At, After, MarkInv
<1>2. CASE Reach
  BY <1>2 DEF Reach, At, After, MarkInv
<1>3. CASE MarkDevCopies
  <2>1. stage' = "outside" /\ UNCHANGED <<present, scan>> /\ marks = scan.marks /\ present \in SUBSET Findings
    BY <1>3 DEF MarkDevCopies, At, After, MarkInv, TypeOK
  <2>2. ASSUME NEW f \in present, NEW s \in Marks
        PROVE  s \in marks'[f] <=> MarkedWith(f, s)
    <3>1. marks'[f] = CopiedMarks(f)
      BY <1>3, <2>1 DEF MarkDevCopies
    <3>2. s \in CopiedMarks(f) <=> s \in marks[f] \/ (s # "cpe" /\ \E g \in present : SameCopy(f, g) /\ s \in marks[g])
      BY DEF CopiedMarks
    <3>. QED BY <2>1, <3>1, <3>2 DEF MarkedWith, Marks
  <2>. QED BY <1>0, <2>1, <2>2 DEF MarkInv
<1>4. CASE MarkNonShipping
  <2>1. /\ stage = "outside" /\ stage' = "exclude" /\ UNCHANGED <<present, scan, marks>>
        /\ present \in SUBSET Findings
    BY <1>4 DEF MarkNonShipping, At, After, TypeOK
  <2>2. \A f \in present : outside'[f] <=> ("path" \in Honours[Report[f].control] /\ Report[f].testPath)
    BY <1>4, <2>1 DEF MarkNonShipping
  <2>. QED BY <1>0, <2>1, <2>2 DEF MarkInv
<1>5. ASSUME UNCHANGED <<present, scan, marks, outside>>,
             stage' = stage \/ {stage, stage'} \intersect {"health", "reach", "copies", "outside"} = {}
      PROVE  MarkInv'
  BY <1>0, <1>5 DEF MarkInv
<1>6. ASSUME NEW s \in DOMAIN After \ {"health", "reach", "copies", "outside"}, At(s)
      PROVE  {stage, stage'} \intersect {"health", "reach", "copies", "outside"} = {}
  BY <1>6 DEF At, After
<1>7. ASSUME NEW lapsed, ApplyExclusions(lapsed) PROVE MarkInv'
  BY <1>5, <1>6, <1>7 DEF ApplyExclusions, After
<1>8. ASSUME NEW claims, ApplyVEX(claims) PROVE MarkInv'
  BY <1>5, <1>6, <1>8 DEF ApplyVEX, After
<1>9. ASSUME NEW answers, ApplySettings(answers) PROVE MarkInv'
  BY <1>5, <1>6, <1>9 DEF ApplySettings, After
<1>10. CASE Correlate
  BY <1>5, <1>6, <1>10 DEF Correlate, After
<1>11. CASE Recount
  BY <1>5, <1>6, <1>11 DEF Recount, After
<1>12. ASSUME NEW gate, Judge(gate) PROVE MarkInv'
  BY <1>5, <1>6, <1>12 DEF Judge, After
<1>13. CASE UNCHANGED vars
  BY <1>5, <1>13 DEF vars
<1>. QED BY <1>1, <1>2, <1>3, <1>4, <1>7, <1>8, <1>9, <1>10, <1>11, <1>12, <1>13 DEF Next

\* Looking a claim up excuses a finding just when nothing its suppliers said of it, as
\* precisely as they said it, concedes an exposure.
LEMMA ClaimFacts ==
  ASSUME NEW claims \in SUBSET ClaimPool, NEW f, world'.claims = claims
  PROVE  Excused(f, claims) <=> ClaimedAway(f)'
<1>. DEFINE mine  == {c \in claims : c.component \in {Report[f].component, Project} /\ c.id = Report[f].id}
            named == {c \in mine : c.pkg = Report[f].pkg /\ c.pkg # NoPkg}
            bare  == {c \in mine : c.pkg = NoPkg}
            found == IF named # {} THEN named ELSE bare
            yield == {"fixed", "not_affected"}
<1>1. \A c \in found : c.status \in Statuses
  BY FindingsAssumption
<1>2. ClaimedAway(f)' <=> found # {} /\ \A c \in found : c.status \notin {"affected", "under_investigation"}
  BY DEF ClaimedAway
<1>3. Excused(f, claims) <=>
        \E c \in found : c.status \in yield /\ \A d \in found : Concedes(c) >= Concedes(d)
  BY DEF Excused, Lookup
<1>. HIDE DEF found
<1>4. ASSUME NEW c \in found, c.status \in yield, \A d \in found : Concedes(c) >= Concedes(d)
      PROVE  \A d \in found : d.status \notin {"affected", "under_investigation"}
  BY <1>4 DEF Concedes
<1>5. ASSUME found # {}, \A c \in found : c.status \notin {"affected", "under_investigation"}
      PROVE  \E c \in found : c.status \in yield /\ \A d \in found : Concedes(c) >= Concedes(d)
  <2>1. \A c \in found : c.status \in yield
    BY <1>1, <1>5 DEF Statuses
  <2>2. CASE \E c \in found : c.status = "not_affected"
    BY <2>1, <2>2 DEF Concedes
  <2>3. CASE \A c \in found : c.status = "fixed"
    BY <1>5, <2>3 DEF Concedes
  <2>. QED BY <2>1, <2>2, <2>3
<1>. QED BY <1>2, <1>3, <1>4, <1>5

\* The first rule in force that matches a finding is the one its reason names.
LEMMA RuleFacts ==
  ASSUME NEW f, NEW lapsed, Hits(f, DOMAIN Rules \ lapsed) # {}
  PROVE  Least(Hits(f, DOMAIN Rules \ lapsed)) =
           CHOOSE i \in DOMAIN Rules \ lapsed :
             f \in Rules[i] /\ \A j \in 1..(i - 1) : j \in lapsed \/ f \notin Rules[j]
<1>. DEFINE active == DOMAIN Rules \ lapsed
            hits == Hits(f, active)
            First(i) == f \in Rules[i] /\ \A j \in 1..(i - 1) : j \in lapsed \/ f \notin Rules[j]
<1>1. DOMAIN Rules = 1..Len(Rules) /\ Len(Rules) \in Nat
  BY FindingsAssumption
<1>2. hits \in SUBSET Nat /\ hits # {}
  BY <1>1 DEF Hits
<1>3. Least(hits) \in hits /\ \A j \in hits : Least(hits) <= j
  <2>. HIDE DEF hits
  <2>. QED BY <1>2, LeastFacts
<1>4. \A i \in active : i \in hits <=> f \in Rules[i]
  BY DEF Hits
<1>5. Least(hits) \in active
  BY <1>3 DEF Hits
<1>6. First(Least(hits))
  <2>1. f \in Rules[Least(hits)]
    BY <1>3, <1>4, <1>5
  <2>2. ASSUME NEW j \in 1..(Least(hits) - 1), j \notin lapsed, f \in Rules[j] PROVE FALSE
    <3>1. j \in active
      BY <1>1, <1>5, <2>2
    <3>2. Least(hits) <= j
      BY <1>3, <1>4, <2>2, <3>1
    <3>. QED BY <1>1, <1>5, <2>2, <3>2
  <2>. QED BY <2>1, <2>2
<1>7. ASSUME NEW i \in active, First(i) PROVE i = Least(hits)
  <2>1. i \in hits
    BY <1>4, <1>7
  <2>2. Least(hits) <= i
    BY <1>3, <2>1
  <2>3. ~(Least(hits) < i)
    <3>. SUFFICES ASSUME Least(hits) < i PROVE FALSE
      OBVIOUS
    <3>1. Least(hits) \in 1..(i - 1)
      BY <1>1, <1>5
    <3>2. Least(hits) \in lapsed \/ f \notin Rules[Least(hits)]
      BY <1>7, <3>1
    <3>. QED BY <1>4, <1>3, <1>5, <3>2
  <2>. QED BY <1>1, <1>5, <2>2, <2>3
<1>. HIDE DEF hits, First
<1>8. Least(hits) = CHOOSE i \in active : First(i)
  BY <1>5, <1>6, <1>7
<1>. QED BY <1>8 DEF hits, First

\* A rule in force matches the finding.
RuledOut(f) == \E i \in DOMAIN Rules \ world.lapsed : f \in Rules[i]

\* What each step has decided so far, and nothing has been decided twice.
OwnInv ==
  /\ stage \in {"health", "reach", "copies", "outside", "exclude"} =>
       \A f \in present : supp[f] = IF f \in scan.silenced THEN <<"scanner", 0>> ELSE Not
  /\ stage = "vex" =>
       \A f \in present : supp[f] = IF f \in scan.silenced \/ RuledOut(f) THEN OwnReason(f) ELSE Not
  /\ stage = "settings" =>
       \A f \in present : supp[f] =
         IF f \in scan.silenced \/ RuledOut(f) \/ ClaimedAway(f) THEN OwnReason(f) ELSE Not
  /\ stage = "correlate" => \A f \in present : supp[f] = OwnReason(f)
  /\ DecidedOnce

\* A finding's own reason depends on what was read, not on what was decided.
LEMMA OwnSame ==
  ASSUME UNCHANGED <<present, scan>>, world'.lapsed = world.lapsed,
         world'.claims = world.claims, world'.answers = world.answers, NEW f
  PROVE  OwnReason(f)' = OwnReason(f) /\ (RuledOut(f)' <=> RuledOut(f)) /\ (ClaimedAway(f)' <=> ClaimedAway(f))
<1>1. \A s : MarkedWith(f, s)' <=> MarkedWith(f, s)
  BY DEF MarkedWith
<1>2. SetAsideBy(f)' = SetAsideBy(f)
  BY <1>1 DEF SetAsideBy
<1>3. (ClaimedAway(f)' <=> ClaimedAway(f)) /\ (RuledOut(f)' <=> RuledOut(f))
  BY DEF ClaimedAway, RuledOut
<1>. QED BY <1>2, <1>3 DEF OwnReason

\* What of a reason is settled before the claims are read, and before the settings are.
LEMMA ReasonFacts ==
  ASSUME NEW f
  PROVE  /\ f \in scan.silenced => OwnReason(f) = <<"scanner", 0>>
         /\ f \notin scan.silenced /\ RuledOut(f) =>
              OwnReason(f) = <<"rule", Least(Hits(f, DOMAIN Rules \ world.lapsed))>>
         /\ f \notin scan.silenced /\ ~RuledOut(f) /\ ClaimedAway(f) => OwnReason(f) = <<"vex", 0>>
         /\ f \notin scan.silenced /\ ~RuledOut(f) /\ ~ClaimedAway(f) =>
              OwnReason(f) = IF SetAsideBy(f) = {} THEN Not ELSE <<SettingOrder[Least(SetAsideBy(f))], 0>>
         /\ RuledOut(f) <=> Hits(f, DOMAIN Rules \ world.lapsed) # {}
<1>1. RuledOut(f) <=> Hits(f, DOMAIN Rules \ world.lapsed) # {}
  BY DEF RuledOut, Hits
<1>2. ASSUME f \notin scan.silenced, RuledOut(f)
      PROVE  OwnReason(f) = <<"rule", Least(Hits(f, DOMAIN Rules \ world.lapsed))>>
  <2>1. OwnReason(f) = <<"rule", CHOOSE i \in DOMAIN Rules \ world.lapsed :
                   f \in Rules[i] /\ \A j \in 1..(i - 1) : j \in world.lapsed \/ f \notin Rules[j]>>
    BY <1>2 DEF OwnReason, RuledOut
  <2>. QED BY <1>1, <1>2, <2>1, RuleFacts
<1>3. /\ f \in scan.silenced => OwnReason(f) = <<"scanner", 0>>
      /\ f \notin scan.silenced /\ ~RuledOut(f) /\ ClaimedAway(f) => OwnReason(f) = <<"vex", 0>>
      /\ f \notin scan.silenced /\ ~RuledOut(f) /\ ~ClaimedAway(f) =>
           OwnReason(f) = IF SetAsideBy(f) = {} THEN Not ELSE <<SettingOrder[Least(SetAsideBy(f))], 0>>
  BY DEF OwnReason, RuledOut
<1>. QED BY <1>1, <1>2, <1>3

\* Before any decision about copies the shape of the decision does not matter.
LEMMA NotYet ==
  ASSUME stage' \notin {"recount", "judge", "done"}
  PROVE  DecidedOnce'
BY DEF DecidedOnce, Decided

\* Exclusions decide what no scanner silenced.
LEMMA OwnByRule ==
  ASSUME TypeOK, OwnInv, NEW lapsed, ApplyExclusions(lapsed)
  PROVE  OwnInv'
<1>1. /\ stage = "exclude" /\ stage' = "vex" /\ present' = present /\ scan' = scan
      /\ world'.lapsed = lapsed /\ present \in SUBSET Findings
  BY DEF ApplyExclusions, At, After, TypeOK
<1>2. \A f \in present : supp[f] = IF f \in scan.silenced THEN <<"scanner", 0>> ELSE Not
  BY <1>1 DEF OwnInv
<1>3. ASSUME NEW f \in present
      PROVE  supp'[f] = IF f \in scan.silenced \/ RuledOut(f)' THEN OwnReason(f)' ELSE Not
  <2>1. supp'[f] = IF ~Suppressed(f) /\ Hits(f, DOMAIN Rules \ lapsed) # {}
                   THEN <<"rule", Least(Hits(f, DOMAIN Rules \ lapsed))>> ELSE supp[f]
    BY <1>1 DEF ApplyExclusions
  <2>2. Suppressed(f) <=> f \in scan.silenced
    BY <1>2 DEF Suppressed, Not
  <2>3. /\ f \in scan.silenced => OwnReason(f)' = <<"scanner", 0>>
        /\ f \notin scan.silenced /\ RuledOut(f)' =>
              OwnReason(f)' = <<"rule", Least(Hits(f, DOMAIN Rules \ lapsed))>>
        /\ RuledOut(f)' <=> Hits(f, DOMAIN Rules \ lapsed) # {}
    <3>1. RuledOut(f)' <=> Hits(f, DOMAIN Rules \ lapsed) # {}
      BY <1>1 DEF RuledOut, Hits
    <3>2. f \in scan.silenced => OwnReason(f)' = <<"scanner", 0>>
      BY <1>1 DEF OwnReason
    <3>3. ASSUME f \notin scan.silenced, RuledOut(f)'
          PROVE  OwnReason(f)' = <<"rule", Least(Hits(f, DOMAIN Rules \ lapsed))>>
      <4>1. OwnReason(f)' = <<"rule", CHOOSE i \in DOMAIN Rules \ lapsed :
                   f \in Rules[i] /\ \A j \in 1..(i - 1) : j \in lapsed \/ f \notin Rules[j]>>
        BY <1>1, <3>3 DEF OwnReason, RuledOut
      <4>. QED BY <3>1, <3>3, <4>1, RuleFacts
    <3>. QED BY <3>1, <3>2, <3>3
  <2>. QED BY <1>2, <2>1, <2>2, <2>3
<1>. QED BY <1>1, <1>3, NotYet DEF OwnInv

\* Claims decide what neither a scanner nor a rule did.
LEMMA OwnByClaim ==
  ASSUME TypeOK, OwnInv, NEW claims \in ClaimSets, ApplyVEX(claims)
  PROVE  OwnInv'
<1>1. /\ stage = "vex" /\ stage' = "settings" /\ present' = present /\ scan' = scan
      /\ world'.lapsed = world.lapsed /\ world'.claims = claims /\ present \in SUBSET Findings
      /\ claims \in SUBSET ClaimPool
  BY DEF ApplyVEX, At, After, TypeOK, ClaimSets
<1>2. \A f \in present : supp[f] = IF f \in scan.silenced \/ RuledOut(f) THEN OwnReason(f) ELSE Not
  BY <1>1 DEF OwnInv
<1>3. ASSUME NEW f \in present
      PROVE  supp'[f] = IF f \in scan.silenced \/ RuledOut(f)' \/ ClaimedAway(f)' THEN OwnReason(f)' ELSE Not
  <2>1. supp'[f] = IF ~Suppressed(f) /\ Excused(f, claims) THEN <<"vex", 0>> ELSE supp[f]
    BY <1>1 DEF ApplyVEX
  <2>2. (Excused(f, claims) <=> ClaimedAway(f)') /\ (RuledOut(f)' <=> RuledOut(f))
    BY <1>1, ClaimFacts DEF RuledOut
  <2>3. f \in scan.silenced \/ RuledOut(f) => OwnReason(f)' = OwnReason(f) /\ OwnReason(f) # Not
    <3>1. f \in scan.silenced => OwnReason(f)' = OwnReason(f)
      BY <1>1 DEF OwnReason
    <3>2. f \notin scan.silenced /\ RuledOut(f) => OwnReason(f)' = OwnReason(f)
      BY <1>1 DEF OwnReason, RuledOut
    <3>. QED BY <3>1, <3>2, ReasonFacts DEF Not
  <2>4. f \notin scan.silenced /\ ~RuledOut(f) /\ ClaimedAway(f)' => OwnReason(f)' = <<"vex", 0>>
    BY <1>1, <2>2 DEF OwnReason, RuledOut
  <2>. QED BY <1>2, <2>1, <2>2, <2>3, <2>4 DEF Suppressed
<1>. QED BY <1>1, <1>3, NotYet DEF OwnInv

\* Settings decide what is left, the first that covers a finding for all of them.
LEMMA OwnBySetting ==
  ASSUME TypeOK, MarkInv, OwnInv, NEW answers \in AsideAnswers, ApplySettings(answers)
  PROVE  OwnInv'
<1>1. /\ stage = "settings" /\ stage' = "correlate"
      /\ UNCHANGED <<present, scan, marks, outside>>
      /\ world'.lapsed = world.lapsed /\ world'.claims = world.claims /\ world'.answers = answers
      /\ present \in SUBSET Findings
  BY DEF ApplySettings, At, After, TypeOK
<1>2. \A f \in present : supp[f] =
        IF f \in scan.silenced \/ RuledOut(f) \/ ClaimedAway(f) THEN OwnReason(f) ELSE Not
  BY <1>1 DEF OwnInv
<1>3. ASSUME NEW f \in present PROVE supp'[f] = OwnReason(f)'
  <2>1. supp'[f] = IF ~Suppressed(f) THEN FirstSetting(f, answers) ELSE supp[f]
    BY <1>1 DEF ApplySettings
  <2>2. (ClaimedAway(f)' <=> ClaimedAway(f)) /\ (RuledOut(f)' <=> RuledOut(f))
    BY <1>1 DEF RuledOut, ClaimedAway
  <2>3. f \in scan.silenced \/ RuledOut(f) \/ ClaimedAway(f) =>
          OwnReason(f)' = OwnReason(f) /\ OwnReason(f) # Not
    <3>1. f \in scan.silenced => OwnReason(f)' = OwnReason(f)
      BY <1>1 DEF OwnReason
    <3>2. f \notin scan.silenced /\ RuledOut(f) => OwnReason(f)' = OwnReason(f)
      BY <1>1 DEF OwnReason, RuledOut
    <3>3. f \notin scan.silenced /\ ~RuledOut(f) /\ ClaimedAway(f) => OwnReason(f)' = OwnReason(f)
      BY <1>1, <2>2 DEF OwnReason, RuledOut
    <3>. QED BY <3>1, <3>2, <3>3, ReasonFacts DEF Not
  <2>4. ASSUME f \notin scan.silenced, ~RuledOut(f), ~ClaimedAway(f)
        PROVE  OwnReason(f)' = FirstSetting(f, answers)
    <3>. DEFINE which == {i \in DOMAIN SettingOrder : SetsAside(f, SettingOrder[i], answers)}
    <3>1. \A i \in DOMAIN SettingOrder : SettingOrder[i] \in Marks \union {"path"}
      BY DEF SettingOrder, Marks
    <3>2. /\ \A s \in Marks : s \in marks[f] <=> MarkedWith(f, s)
          /\ outside[f] <=> ("path" \in Honours[Report[f].control] /\ Report[f].testPath)
      BY <1>1 DEF MarkInv
    <3>3. \A s : MarkedWith(f, s)' <=> MarkedWith(f, s)
      BY <1>1 DEF MarkedWith, SameCopy
    <3>4. MarkedWith(f, "path") <=> Report[f].testPath
      BY DEF MarkedWith
    <3>5. \A i \in DOMAIN SettingOrder :
            SetsAside(f, SettingOrder[i], answers) <=>
              /\ MarkedWith(f, SettingOrder[i])
              /\ SettingOrder[i] \in Honours[Report[f].control]
              /\ SettingOrder[i] \in answers[Report[f].control, Report[f].component]
      BY <3>1, <3>2, <3>4 DEF SetsAside, Covers, Marks
    <3>6. SetAsideBy(f)' = which
      BY <1>1, <3>3, <3>5 DEF SetAsideBy
    <3>7. FirstSetting(f, answers) = IF which = {} THEN Not ELSE <<SettingOrder[Least(which)], 0>>
      BY DEF FirstSetting
    <3>8. OwnReason(f)' = IF SetAsideBy(f)' = {} THEN Not ELSE <<SettingOrder[Least(SetAsideBy(f)')], 0>>
      BY <1>1, <2>2, <2>4 DEF OwnReason, RuledOut
    <3>. HIDE DEF which
    <3>. QED BY <3>6, <3>7, <3>8
  <2>. QED BY <1>2, <2>1, <2>3, <2>4 DEF Suppressed
<1>. QED BY <1>1, <1>3, NotYet DEF OwnInv

-----------------------------------------------------------------------------
(* Correlation: what is decided about copies, and which of them is counted. *)

\* The copies of a finding's flaw, as correlation sorted them.
Copies(f) == CopiesIn(Flaws(Keyed), f)

\* What correlation knows of the copies of each finding in the report.
LEMMA CopiesSorted ==
  ASSUME TypeOK
  PROVE  /\ Keyed \subseteq present /\ present \subseteq Findings
         /\ \A f \in present :
              /\ f \in Copies(f) /\ Copies(f) \subseteq present
              /\ \A g \in Copies(f) : Copies(g) = Copies(f) /\ Site(g) = Site(f)
              /\ StrongestOf(Copies(f)) \in Copies(f)
         /\ \A f, g \in Keyed :
              /\ Flaw(f) = Flaw(g) => g \in Copies(f)
              /\ Report[f].tool = Report[g].tool /\ g \in Copies(f) => Flaw(f) = Flaw(g)
<1>. DEFINE flaws == Flaws(Keyed)
<1>1. Keyed \in SUBSET Findings /\ present \in SUBSET Findings /\ Keyed \subseteq present
  BY DEF TypeOK, Keyed
<1>2. Sorted(Keyed, flaws)
  BY <1>1, FlawsSorted
<1>3. \A f \in present : StrongestOf(Copies(f)) \in Copies(f)
  BY CopyFacts DEF Copies
<1>. HIDE DEF flaws
<1>4. /\ \A f \in present :
           /\ f \in CopiesIn(flaws, f) /\ CopiesIn(flaws, f) \subseteq present
           /\ \A g \in CopiesIn(flaws, f) :
                CopiesIn(flaws, g) = CopiesIn(flaws, f) /\ Site(g) = Site(f)
      /\ \A f, g \in Keyed :
           /\ Flaw(f) = Flaw(g) => g \in CopiesIn(flaws, f)
           /\ Report[f].tool = Report[g].tool /\ g \in CopiesIn(flaws, f) => Flaw(f) = Flaw(g)
  BY <1>1, <1>2, CopiesFacts
<1>. QED BY <1>1, <1>3, <1>4 DEF Copies, flaws

\* Each finding is counted under a copy of its own flaw, which is counted under itself; the
\* copy an unsuppressed finding is counted under is unsuppressed, and either as urgent and
\* shipped alike, or in shipped code where the finding is not.
CountInv ==
  Decided =>
    /\ \A f \in present : under[f] \in present /\ under[under[f]] = under[f] /\ Site(under[f]) = Site(f)
    /\ FlawsCountedOnce
    /\ \A f \in present : ~Suppressed(f) =>
         /\ ~Suppressed(under[f])
         /\ \/ rank[under[f]].band >= rank[f].band
            \/ outside[f] /\ ~outside[under[f]]
    /\ stage = "recount" =>
         \A f \in present : Copies(f) = {g \in present : under[g] = under[f]}

\* Correlation decides and counts as the invariant says.
LEMMA CountByCorrelation ==
  ASSUME TypeOK, OwnInv, Correlate
  PROVE  OwnInv' /\ CountInv'
<1>1. /\ stage = "correlate" /\ stage' = "recount"
      /\ UNCHANGED <<present, verdict, rank, marks, outside, world, scan>>
      /\ present \in SUBSET Findings
  BY DEF Correlate, At, After, TypeOK
<1>2. \A f \in present : supp[f] = OwnReason(f)
  BY <1>1 DEF OwnInv
<1>3. \A f \in present :
        /\ supp'[f] = IF ~Suppressed(f) THEN SuppressionIn(Copies(f)) ELSE supp[f]
        /\ under'[f] = StrongestOf(Copies(f))
  BY <1>1 DEF Correlate, Copies
<1>4. /\ Keyed \subseteq present
      /\ \A f \in present :
           /\ f \in Copies(f) /\ Copies(f) \subseteq present
           /\ \A g \in Copies(f) : Copies(g) = Copies(f) /\ Site(g) = Site(f)
           /\ StrongestOf(Copies(f)) \in Copies(f)
      /\ \A f, g \in Keyed :
           /\ Flaw(f) = Flaw(g) => g \in Copies(f)
           /\ Report[f].tool = Report[g].tool /\ g \in Copies(f) => Flaw(f) = Flaw(g)
  BY CopiesSorted
<1>5. \A f, g \in present : under'[f] = under'[g] <=> g \in Copies(f)
  <2>1. \A f \in present : under'[f] \in Copies(f) /\ Copies(under'[f]) = Copies(f)
    BY <1>3, <1>4
  <2>2. \A f, g \in present : under'[f] = under'[g] => g \in Copies(f)
    BY <1>4, <2>1
  <2>3. \A f, g \in present : g \in Copies(f) => under'[f] = under'[g]
    BY <1>3, <1>4
  <2>. QED BY <2>2, <2>3
<1>6. \A f \in present : Copies(f) = {g \in present : under'[f] = under'[g]}
  BY <1>4, <1>5
<1>7. Keyed' = Keyed /\ \A f \in present : Copies(f)' = Copies(f)
  <2>1. Keyed' = Keyed
    BY <1>1 DEF Keyed
  <2>. QED BY <2>1 DEF Copies, CopiesIn
<1>8. \A f \in present : under'[f] \in present /\ under'[under'[f]] = under'[f] /\ Site(under'[f]) = Site(f)
  <2>. TAKE f \in present
  <2>1. under'[f] \in Copies(f) /\ under'[f] \in present
    BY <1>3, <1>4
  <2>. QED BY <1>4, <1>5, <2>1
<1>9. FlawsCountedOnce'
  <2>1. \A f \in present : under'[f] \in present /\ under'[under'[f]] = under'[f]
    BY <1>8
  <2>2. \A f, g \in Keyed : /\ Flaw(f) = Flaw(g) => under'[f] = under'[g]
                            /\ Report[f].tool = Report[g].tool /\ under'[f] = under'[g] => Flaw(f) = Flaw(g)
    BY <1>4, <1>5
  <2>. QED BY <1>1, <1>7, <2>1, <2>2 DEF FlawsCountedOnce, Correlated, SameFlaw
<1>10. \A f \in present : ~Suppressed(f)' =>
         /\ ~Suppressed(under[f])'
         /\ \/ rank[under'[f]].band >= rank[f].band
            \/ outside[f] /\ ~outside[under'[f]]
  <2>. SUFFICES ASSUME NEW f \in present, ~Suppressed(f)'
                PROVE  /\ ~Suppressed(under[f])'
                       /\ \/ rank[under'[f]].band >= rank[f].band
                          \/ outside[f] /\ ~outside[under'[f]]
    OBVIOUS
  <2>. DEFINE G == Copies(f)
  <2>1. G \in SUBSET Findings /\ f \in G /\ G \subseteq present /\ G # {}
    BY <1>1, <1>4
  <2>2. ~Suppressed(f) /\ SuppressionIn(G) = Not
    BY <1>3 DEF Suppressed
  <2>3. \A g \in G : Suppressed(g) => BySetting(g)
    <3>. HIDE DEF G
    <3>. QED BY <2>1, <2>2, SuppressionFacts
  <2>4. ~BySetting(f)
    BY <2>2 DEF BySetting, Suppressed, Settings, Not
  <2>5. PICK c : c = under'[f]
    OBVIOUS
  <2>6. c = StrongestOf(G) /\ c \in G /\ Copies(c) = G
    BY <1>3, <1>4, <2>5
  <2>7. /\ BySetting(c) => BySetting(f)
        /\ ~BySetting(f) /\ outside[c] => outside[f]
        /\ ~BySetting(f) /\ (outside[c] <=> outside[f]) => rank[c].band >= rank[f].band
    <3>1. rank \in [Findings -> Ranks] /\ outside \in [Findings -> BOOLEAN]
      BY DEF TypeOK
    <3>. HIDE DEF G
    <3>. QED BY <2>1, <2>6, <3>1, CountedFacts
  <2>8. ~Suppressed(c)
    BY <2>3, <2>4, <2>6, <2>7
  <2>9. supp'[c] = SuppressionIn(G)
    BY <1>3, <2>1, <2>6, <2>8
  <2>10. ~Suppressed(under[f])'
    BY <2>2, <2>5, <2>9 DEF Suppressed
  <2>11. outside[c] \in BOOLEAN /\ outside[f] \in BOOLEAN
    BY <2>1, <2>6 DEF TypeOK
  <2>. QED BY <2>4, <2>5, <2>7, <2>10, <2>11
<1>11. CountInv'
  BY <1>1, <1>6, <1>7, <1>8, <1>9, <1>10 DEF CountInv
<1>12. DecidedOnce'
  <2>. DEFINE own == [f \in present |-> OwnReason(f)]
  <2>1. \A f \in present : OwnReason(f)' = OwnReason(f)
    BY <1>1, OwnSame
  <2>2. own = [f \in present |-> OwnReason(f)]'
    BY <1>1, <2>1
  <2>3. ASSUME NEW f \in present
        PROVE  LET judged == {g \in present : under'[f] = under'[g] /\ own[g][1] \notin Settings \union {"not"}}
               IN  supp'[f] = IF own[f] # Not \/ judged = {} THEN own[f] ELSE own[Least(judged)]
    <3>. DEFINE decided == {g \in Copies(f) : Suppressed(g) /\ ~BySetting(g)}
                judged == {g \in present : under'[f] = under'[g] /\ own[g][1] \notin Settings \union {"not"}}
    <3>1. \A g \in present : own[g] = supp[g]
      BY <1>2
    <3>2. \A g \in present : Suppressed(g) <=> supp[g][1] # "not"
      <4>. TAKE g \in present
      <4>1. supp[g] \in {Not} \union (Origins \X (0..Len(Rules)))
        BY <1>1 DEF TypeOK
      <4>. QED BY <4>1 DEF Suppressed, Not, Origins, Settings
    <3>3. judged = decided
      BY <1>6, <3>1, <3>2 DEF BySetting
    <3>4. SuppressionIn(Copies(f)) = IF decided = {} THEN Not ELSE supp[Least(decided)]
      BY DEF SuppressionIn
    <3>5. decided # {} => Least(decided) \in present
      <4>1. decided \in SUBSET Nat /\ decided \subseteq present
        BY <1>1, <1>4, FindingsAssumption
      <4>. HIDE DEF decided
      <4>. QED BY <4>1, LeastFacts
    <3>6. supp'[f] = IF own[f] # Not \/ decided = {} THEN own[f] ELSE own[Least(decided)]
      BY <1>3, <3>1, <3>4, <3>5 DEF Suppressed
    <3>. QED BY <3>3, <3>6
  <2>. HIDE DEF own
  <2>4. \A f \in present' :
          LET judged == {g \in present' : SameFlaw(f, g)' /\ own[g][1] \notin Settings \union {"not"}}
          IN  supp'[f] = IF own[f] # Not \/ judged = {} THEN own[f] ELSE own[Least(judged)]
    BY <1>1, <2>3 DEF SameFlaw
  <2>5. own \in {[f \in present |-> OwnReason(f)]'}
    BY <2>2
  <2>. QED BY <2>4, <2>5 DEF DecidedOnce
<1>. QED BY <1>1, <1>11, <1>12 DEF OwnInv

\* Decisions stand while what they were taken from and the count do.
LEMMA DecidedSame ==
  ASSUME DecidedOnce, Decided, UNCHANGED <<present, scan, supp, under>>, world'.lapsed = world.lapsed,
         world'.claims = world.claims, world'.answers = world.answers
  PROVE  DecidedOnce'
<1>. DEFINE own == [f \in present |-> OwnReason(f)]
<1>1. own = [f \in present |-> OwnReason(f)]'
  <2>1. \A f \in present : OwnReason(f)' = OwnReason(f)
    BY OwnSame
  <2>. QED BY <2>1
<1>2. \A f \in present :
        LET judged == {g \in present : SameFlaw(f, g) /\ own[g][1] \notin Settings \union {"not"}}
        IN  supp[f] = IF own[f] # Not \/ judged = {} THEN own[f] ELSE own[Least(judged)]
  BY DEF DecidedOnce
<1>. HIDE DEF own
<1>3. \A f \in present' :
        LET judged == {g \in present' : SameFlaw(f, g)' /\ own[g][1] \notin Settings \union {"not"}}
        IN  supp'[f] = IF own[f] # Not \/ judged = {} THEN own[f] ELSE own[Least(judged)]
  BY <1>2 DEF SameFlaw
<1>4. own \in {[f \in present |-> OwnReason(f)]'}
  BY <1>1
<1>. QED BY <1>3, <1>4 DEF DecidedOnce

\* No step decides a finding twice.
LEMMA OwnStep == TypeOK /\ MarkInv /\ OwnInv /\ [Next]_vars => OwnInv'
<1>. SUFFICES ASSUME TypeOK, MarkInv, OwnInv, [Next]_vars PROVE OwnInv'
  OBVIOUS
<1>. DEFINE early == {"health", "reach", "copies", "outside", "exclude"}
<1>0. ASSUME stage \in early, stage' \in early, UNCHANGED <<scan, supp>>, present' \subseteq present
      PROVE  OwnInv'
  BY <1>0, NotYet DEF OwnInv
<1>1. ASSUME NEW health, AskHealth(health) PROVE OwnInv'
  BY <1>0, <1>1 DEF AskHealth, At, After
<1>2. CASE Reach
  BY <1>0, <1>2 DEF Reach, At, After
<1>3. CASE MarkDevCopies
  BY <1>0, <1>3 DEF MarkDevCopies, At, After
<1>4. CASE MarkNonShipping
  BY <1>0, <1>4 DEF MarkNonShipping, At, After
<1>5. ASSUME stage \in {"recount", "judge"}, stage' \in {"judge", "done"}, DecidedOnce' PROVE OwnInv'
  BY <1>5 DEF OwnInv
<1>6. CASE Recount
  <2>1. /\ stage = "recount" /\ stage' = "judge" /\ Decided /\ DecidedOnce
        /\ UNCHANGED <<present, scan, supp, under, world>>
    BY <1>6 DEF Recount, At, After, Decided, OwnInv
  <2>. QED BY <1>5, <2>1, DecidedSame
<1>7. ASSUME NEW gate, Judge(gate) PROVE OwnInv'
  <2>1. /\ stage = "judge" /\ stage' = "done" /\ Decided /\ DecidedOnce
        /\ UNCHANGED <<present, scan, supp, under>> /\ world'.lapsed = world.lapsed
        /\ world'.claims = world.claims /\ world'.answers = world.answers
    BY <1>7 DEF Judge, At, After, Decided, OwnInv, TypeOK
  <2>. QED BY <1>5, <2>1, DecidedSame
<1>8. CASE UNCHANGED vars
  <2>1. UNCHANGED <<stage, present, scan, supp, under, world>>
    BY <1>8 DEF vars
  <2>2. DecidedOnce'
    <3>1. CASE Decided
      BY <2>1, <3>1, DecidedSame DEF OwnInv
    <3>2. CASE ~Decided
      BY <2>1, <3>2 DEF Decided, DecidedOnce
    <3>. QED BY <3>1, <3>2
  <2>3. \A f : OwnReason(f)' = OwnReason(f) /\ (RuledOut(f)' <=> RuledOut(f)) /\ (ClaimedAway(f)' <=> ClaimedAway(f))
    BY <2>1, OwnSame
  <2>. QED BY <2>1, <2>2, <2>3 DEF OwnInv
<1>. QED BY <1>1, <1>2, <1>3, <1>4, <1>6, <1>7, <1>8,
            OwnByRule, OwnByClaim, OwnBySetting, CountByCorrelation DEF Next

\* No step after correlation disturbs the count.
LEMMA CountStep == TypeOK /\ OwnInv /\ CountInv /\ [Next]_vars => CountInv'
<1>. SUFFICES ASSUME TypeOK, OwnInv, CountInv, [Next]_vars PROVE CountInv'
  OBVIOUS
<1>0. ASSUME stage' \notin {"recount", "judge", "done"} PROVE CountInv'
  BY <1>0 DEF CountInv, Decided
<1>1. ASSUME NEW health, AskHealth(health) PROVE CountInv'
  BY <1>0, <1>1 DEF AskHealth, At, After
<1>2. CASE Reach
  BY <1>0, <1>2 DEF Reach, At, After
<1>3. CASE MarkDevCopies
  BY <1>0, <1>3 DEF MarkDevCopies, At, After
<1>4. CASE MarkNonShipping
  BY <1>0, <1>4 DEF MarkNonShipping, At, After
<1>5. ASSUME NEW lapsed, ApplyExclusions(lapsed) PROVE CountInv'
  BY <1>0, <1>5 DEF ApplyExclusions, At, After
<1>6. ASSUME NEW claims, ApplyVEX(claims) PROVE CountInv'
  BY <1>0, <1>6 DEF ApplyVEX, At, After
<1>7. ASSUME NEW answers, ApplySettings(answers) PROVE CountInv'
  BY <1>0, <1>7 DEF ApplySettings, At, After
<1>8. ASSUME Decided, UNCHANGED <<present, supp, under, rank, outside>>, stage' \in {stage, "judge", "done"}
      PROVE  CountInv'
  <2>1. Keyed' = Keyed
    BY <1>8 DEF Keyed
  <2>2. FlawsCountedOnce'
    BY <1>8, <2>1 DEF CountInv, FlawsCountedOnce, Correlated, SameFlaw, Decided
  <2>3. \A f : Copies(f)' = Copies(f)
    BY <2>1 DEF Copies, CopiesIn
  <2>. QED BY <1>8, <2>2, <2>3 DEF CountInv, Suppressed
<1>9. CASE Recount
  BY <1>8, <1>9 DEF Recount, At, After, Decided
<1>10. ASSUME NEW gate, Judge(gate) PROVE CountInv'
  BY <1>8, <1>10 DEF Judge, At, After, Decided
<1>11. CASE UNCHANGED vars
  BY <1>0, <1>8, <1>11 DEF vars, Decided
<1>. QED BY <1>1, <1>2, <1>3, <1>4, <1>5, <1>6, <1>7, <1>9, <1>10, <1>11, CountByCorrelation DEF Next

-----------------------------------------------------------------------------
(* The summary and the gate.                                               *)

\* Each flaw is counted with the strongest verdict of its copies, and every control was
\* judged by the gate the run read.
JudgedInv ==
  /\ stage \in {"judge", "done"} => \A f \in present : under[f] = f =>
       tally[f] = Strongest({verdict[g] : g \in {h \in present : under[h] = f}})
  /\ stage = "done" =>
       /\ world.gate \in Gates
       /\ \A c \in Controls : outcome[c] = IF Fails(world.gate, c) THEN "fail" ELSE "pass"

\* The summary and the gate are computed from what is counted, and stay.
LEMMA JudgedStep == TypeOK /\ CountInv /\ JudgedInv /\ [Next]_vars => JudgedInv'
<1>. SUFFICES ASSUME TypeOK, CountInv, JudgedInv, [Next]_vars PROVE JudgedInv'
  OBVIOUS
<1>0. ASSUME stage' \notin {"judge", "done"} PROVE JudgedInv'
  BY <1>0 DEF JudgedInv
<1>1. ASSUME NEW health, AskHealth(health) PROVE JudgedInv'
  BY <1>0, <1>1 DEF AskHealth, At, After
<1>2. CASE Reach
  BY <1>0, <1>2 DEF Reach, At, After
<1>3. CASE MarkDevCopies
  BY <1>0, <1>3 DEF MarkDevCopies, At, After
<1>4. CASE MarkNonShipping
  BY <1>0, <1>4 DEF MarkNonShipping, At, After
<1>5. ASSUME NEW lapsed, ApplyExclusions(lapsed) PROVE JudgedInv'
  BY <1>0, <1>5 DEF ApplyExclusions, At, After
<1>6. ASSUME NEW claims, ApplyVEX(claims) PROVE JudgedInv'
  BY <1>0, <1>6 DEF ApplyVEX, At, After
<1>7. ASSUME NEW answers, ApplySettings(answers) PROVE JudgedInv'
  BY <1>0, <1>7 DEF ApplySettings, At, After
<1>8. CASE Correlate
  BY <1>0, <1>8 DEF Correlate, At, After
<1>9. CASE Recount
  <2>1. /\ stage = "recount" /\ stage' = "judge" /\ UNCHANGED <<present, verdict, under>>
        /\ \A f \in Findings : tally'[f] =
             IF f \in present /\ under[f] = f THEN Strongest({verdict[g] : g \in Copies(f)}) ELSE "none"
        /\ present \in SUBSET Findings
    BY <1>9 DEF Recount, At, After, Copies, Correlated, TypeOK
  <2>2. \A f \in present : Copies(f) = {g \in present : under[g] = under[f]}
    BY <2>1 DEF CountInv, Decided
  <2>3. ASSUME NEW f \in present, under[f] = f
        PROVE  tally'[f] = Strongest({verdict[g] : g \in {h \in present : under[h] = f}})
    <3>1. Copies(f) = {h \in present : under[h] = f}
      BY <2>2, <2>3
    <3>. QED BY <2>1, <2>3, <3>1
  <2>4. \A f \in present' : under'[f] = f =>
          tally'[f] = Strongest({verdict'[g] : g \in {h \in present' : under'[h] = f}})
    <3>. SUFFICES ASSUME NEW f \in present', under'[f] = f
                  PROVE  tally'[f] = Strongest({verdict'[g] : g \in {h \in present' : under'[h] = f}})
      OBVIOUS
    <3>1. {h \in present' : under'[h] = f} = {h \in present : under[h] = f}
      BY <2>1
    <3>2. {verdict'[g] : g \in {h \in present' : under'[h] = f}} = {verdict[g] : g \in {h \in present : under[h] = f}}
      BY <2>1, <3>1
    <3>. QED BY <2>1, <2>3, <3>2
  <2>. QED BY <2>1, <2>4 DEF JudgedInv
<1>10. ASSUME NEW gate \in Gates, Judge(gate) PROVE JudgedInv'
  <2>1. /\ stage = "judge" /\ stage' = "done" /\ UNCHANGED <<present, verdict, under, tally, supp, rank>>
        /\ world'.gate = gate
        /\ \A c \in Controls : outcome'[c] = IF Fails(gate, c) THEN "fail" ELSE "pass"
    BY <1>10 DEF Judge, At, After, TypeOK
  <2>2. \A c : Fails(world.gate, c)' <=> Fails(gate, c)
    BY <2>1 DEF Fails, Judged, SeverityOf, Suppressed, Correlated
  <2>3. \A c \in Controls : outcome'[c] = IF Fails(world.gate, c)' THEN "fail" ELSE "pass"
    BY <2>1, <2>2
  <2>4. \A f \in present : under[f] = f =>
          tally[f] = Strongest({verdict[g] : g \in {h \in present : under[h] = f}})
    BY <2>1 DEF JudgedInv
  <2>. QED BY <1>10, <2>1, <2>3, <2>4 DEF JudgedInv
<1>11. CASE UNCHANGED vars
  <2>1. UNCHANGED <<stage, present, verdict, under, tally, supp, rank, world, outcome>>
    BY <1>11 DEF vars
  <2>2. \A c : Fails(world.gate, c)' <=> Fails(world.gate, c)
    BY <2>1 DEF Fails, Judged, SeverityOf, Suppressed, Correlated
  <2>. QED BY <2>1, <2>2 DEF JudgedInv
<1>. QED BY <1>1, <1>2, <1>3, <1>4, <1>5, <1>6, <1>7, <1>8, <1>9, <1>10, <1>11 DEF Next

-----------------------------------------------------------------------------
(* The inductive invariant, and what follows from it.                      *)

IInv == TypeOK /\ ScanInv /\ RankInv /\ VerdictInv /\ MarkInv /\ OwnInv /\ CountInv /\ JudgedInv

\* The inductive invariant holds at the start of a run.
LEMMA InitIInv == Init => IInv
<1>. SUFFICES ASSUME Init PROVE IInv
  OBVIOUS
<1>1. TypeOK
  BY InitTypeOK
<1>2. stage = "health" /\ present = scan.reported /\ verdict = scan.verdict
      /\ marks = scan.marks /\ world.health = Silent
  BY DEF Init
<1>3. ScanInv
  <2>1. PICK S \in SUBSET Optional, v \in [Analyzers -> Verdicts \ {"none"}],
             m \in MarksGiven, q \in SUBSET Silenceable :
          scan = [reported |-> Findings \ S, marks |-> m, silenced |-> q,
                  verdict |-> [f \in Findings |-> IF f \in Analyzers THEN v[f] ELSE "none"]]
    BY DEF Init
  <2>2. \A f \in Findings : scan.verdict[f] = IF f \in Analyzers THEN v[f] ELSE "none"
    BY <2>1
  <2>3. \A f \in Findings : scan.verdict[f] = "none" <=> f \notin Analyzers
    BY <2>2
  <2>. QED BY <1>2, <2>3 DEF ScanInv
<1>4. RankInv
  BY <1>1, <1>2 DEF RankInv, Init, TypeOK
<1>5. \A f \in present : supp[f] = IF f \in scan.silenced THEN <<"scanner", 0>> ELSE Not
  BY <1>1 DEF Init, TypeOK
<1>6. OwnInv
  BY <1>2, <1>5 DEF OwnInv, DecidedOnce, Decided
<1>7. VerdictInv /\ MarkInv /\ CountInv /\ JudgedInv
  BY <1>2 DEF VerdictInv, MarkInv, CountInv, JudgedInv, Ranked, Decided
<1>. QED BY <1>1, <1>3, <1>4, <1>6, <1>7 DEF IInv

\* Every step keeps it.
LEMMA NextIInv == IInv /\ [Next]_vars => IInv'
BY NextTypeOK, ScanStep, RankStep, VerdictStep, MarkStep, OwnStep, CountStep, JudgedStep DEF IInv

\* The inductive invariant holds throughout every run.
THEOREM Invariant == Spec => []IInv
BY InitIInv, NextIInv, PTL DEF Spec

\* Every state of the pipeline has its type, whatever is reported, read or answered.
THEOREM TypeCorrect == Spec => []TypeOK
<1>1. IInv => TypeOK
  BY DEF IInv
<1>. QED BY <1>1, Invariant, PTL

\* A rank in the report is never one from before the feeds or the analyzer answered, and
\* what a report and a severity gate read back from it is what its band came from.
THEOREM RanksStayCurrent == Spec => []RanksAreCurrent
<1>1. IInv => RanksAreCurrent
  <2>. SUFFICES ASSUME IInv, NEW f \in present
                PROVE  /\ rank[f] = Prioritize(f, verdict[f], world.health)
                       /\ rank[f].band = PriorityBand[InputsOf(f, world.health).tier][SeverityOf(f)]
    BY DEF RanksAreCurrent
  <2>1. /\ f \in Findings /\ verdict[f] \in Verdicts
        /\ world.health \in HealthAnswers \union {Silent}
    BY DEF IInv, TypeOK
  <2>2. rank[f] = Prioritize(f, verdict[f], world.health)
    BY DEF IInv, RankInv
  <2>3. SeverityOf(f) = Lowered(InputsOf(f, world.health), verdict[f])
    BY <2>1, <2>2, InputsFacts DEF SeverityOf
  <2>. QED BY <2>1, <2>2, <2>3, InputsFacts
<1>. QED BY <1>1, Invariant, PTL

\* The analyzer adds no second finding for what another scanner reported, and what is
\* dropped for it lives on, with at least its exposure, in a finding of another scanner.
THEOREM VerdictsFoldedOnce == Spec => []FoldedOnce
<1>1. IInv => FoldedOnce
  BY DEF IInv, VerdictInv, FoldedOnce
<1>. QED BY <1>1, Invariant, PTL

\* However rules, claims and settings overlap, one of them decides each finding, and only
\* a decision that is no setting's reaches the other copies of the flaw.
THEOREM EachDecidedOnce == Spec => []DecidedOnce
<1>1. IInv => DecidedOnce
  BY DEF IInv, OwnInv
<1>. QED BY <1>1, Invariant, PTL

\* However scanners' identifiers and aliases link findings, correlation counts each flaw
\* once, loses none and joins none that one scanner told apart.
THEOREM FlawsCounted == Spec => []FlawsCountedOnce
<1>1. IInv => FlawsCountedOnce
  BY DEF IInv, CountInv, FlawsCountedOnce
<1>. QED BY <1>1, Invariant, PTL

\* A band gate never passes over an urgent finding that correlation left out of the count,
\* but for one in tests or docs whose copy in shipped code it judged.
THEOREM UrgentFlawsJudged == Spec => []NoUrgentFlawHidden
<1>1. IInv => NoUrgentFlawHidden
  <2>. SUFFICES ASSUME IInv, stage = "done", world.gate.on = "band", NEW f \in present,
                       ~Suppressed(f), rank[f].band >= world.gate.at[Report[f].control],
                       outcome[Report[f].control] = "pass"
                PROVE  outside[f] /\ \E g \in present : SameFlaw(f, g) /\ ~outside[g] /\ ~Suppressed(g)
    BY DEF NoUrgentFlawHidden
  <2>. DEFINE c == Report[f].control
              g == under[f]
              counted == {h \in Judged(c) : ~Correlated(h)}
              bands == {rank[h].band : h \in counted}
  <2>1. /\ present \in SUBSET Findings /\ rank \in [Findings -> Ranks]
        /\ c \in Controls
    BY FindingsAssumption DEF IInv, TypeOK, Field
  <2>2. /\ g \in present /\ under[g] = g /\ Report[g].control = c /\ ~Suppressed(g)
        /\ rank[g].band >= rank[f].band \/ (outside[f] /\ ~outside[g])
    BY DEF IInv, CountInv, Decided, Site
  <2>3. /\ world.gate \in Gates /\ outcome[c] = IF Fails(world.gate, c) THEN "fail" ELSE "pass"
    BY <2>1 DEF IInv, JudgedInv
  <2>4. world.gate.at[c] \in 1..4
    <3>1. world.gate.at \in [Controls -> 0..4] /\ world.gate.at[c] > 0
      BY <2>1, <2>3, FindingsAssumption
    <3>. QED BY <2>1, <3>1
  <2>5. bands \in SUBSET (0..4)
    BY <2>1 DEF Judged, Ranks, Bands
  <2>6. g \in counted
    BY <2>2 DEF Judged, Correlated
  <2>7. ~(Highest(bands) >= world.gate.at[c])
    BY <2>3, <2>4 DEF Fails
  <2>8. rank[g].band \in 0..4 /\ rank[f].band \in 0..4
    BY <2>1, <2>2 DEF Ranks, Bands
  <2>9. Highest(bands) \in 0..4 /\ Highest(bands) >= rank[g].band
    <3>1. rank[g].band \in bands
      BY <2>6
    <3>. HIDE DEF bands
    <3>. QED BY <2>5, <3>1, HighestFacts
  <2>10. ~(rank[g].band >= rank[f].band)
    BY <2>4, <2>7, <2>8, <2>9
  <2>. QED BY <2>2, <2>10 DEF SameFlaw
<1>. QED BY <1>1, Invariant, PTL

\* What the summary counts as reachable is what the analyzer called reachable, no less and
\* no more, once its verdicts have moved and the copies are counted once.
THEOREM ReachableStaysTold == Spec => []ReachableIsTold
<1>1. IInv => ReachableIsTold
  <2>. DEFINE Where(f) == <<Report[f].component, Report[f].place, Report[f].pkg>>
              called   == {a \in scan.reported \intersect Analyzers : scan.verdict[a] = "reachable"}
              told     == {f \in present : ~Correlated(f) /\ tally[f] = "reachable"}
  <2>. SUFFICES ASSUME IInv, stage \in {"judge", "done"}
                PROVE  {Where(a) : a \in called} = {Where(f) : f \in told}
    BY DEF ReachableIsTold
  <2>1. /\ present \in SUBSET Findings /\ verdict \in [Findings -> Verdicts]
        /\ scan.verdict \in [Findings -> Verdicts] /\ scan.reported \in SUBSET Findings
        /\ present \subseteq scan.reported
    BY DEF IInv, TypeOK, ScanInv
  <2>2. /\ FoldedOnce /\ Ranked
        /\ \A a \in Analyzers : verdict[a] = scan.verdict[a]
        /\ \A f \in Others : verdict[f] = "reachable" => \E a \in called : Spot(a) = Spot(f)
    BY DEF IInv, VerdictInv, Ranked
  <2>3. \A f \in present : under[f] \in present /\ under[under[f]] = under[f] /\ Site(under[f]) = Site(f)
    BY DEF IInv, CountInv, Decided
  <2>4. ASSUME NEW f \in present, under[f] = f
        PROVE  /\ tally[f] \in Verdicts
               /\ \A g \in present : under[g] = f => VerdictRank(tally[f]) >= VerdictRank(verdict[g])
               /\ tally[f] = "reachable" => \E g \in present : under[g] = f /\ verdict[g] = "reachable"
    <3>. DEFINE V == {verdict[g] : g \in {h \in present : under[h] = f}}
    <3>1. tally[f] = Strongest(V)
      BY <2>4 DEF IInv, JudgedInv
    <3>2. V \in SUBSET Verdicts
      BY <2>1
    <3>3. \A g \in present : under[g] = f => verdict[g] \in V
      OBVIOUS
    <3>4. \A v \in V : \E g \in present : under[g] = f /\ verdict[g] = v
      OBVIOUS
    <3>. HIDE DEF V
    <3>5. tally[f] \in V \union {"none"} /\ \A w \in V : VerdictRank(tally[f]) >= VerdictRank(w)
      BY <3>1, <3>2, VerdictFacts
    <3>. QED BY <3>2, <3>3, <3>4, <3>5 DEF Verdicts
  <2>5. \A v \in Verdicts : VerdictRank(v) >= VerdictRank("reachable") => v = "reachable"
    BY DEF VerdictRank, Verdicts
  <2>6. \A f \in present : verdict[f] = "reachable" => under[f] \in told
    BY <2>3, <2>4, <2>5 DEF Correlated
  <2>7. \A f, g : (Site(f) = Site(g) \/ Spot(f) = Spot(g)) => Where(f) = Where(g)
    BY DEF Site, Spot
  <2>8. ASSUME NEW a \in called PROVE \E f \in told : Where(f) = Where(a)
    <3>1. CASE a \in present
      <4>1. under[a] \in told
        BY <2>2, <2>6, <3>1
      <4>. QED BY <2>3, <2>7, <3>1, <4>1
    <3>2. CASE a \notin present
      <4>1. PICK f \in Others : Spot(f) = Spot(a) /\ VerdictRank(verdict[f]) >= VerdictRank(scan.verdict[a])
        BY <2>2, <3>2 DEF FoldedOnce
      <4>2. f \in present /\ verdict[f] = "reachable"
        BY <2>1, <2>5, <4>1 DEF Others
      <4>. QED BY <2>3, <2>6, <2>7, <4>1, <4>2
    <3>. QED BY <3>1, <3>2
  <2>9. ASSUME NEW f \in told PROVE \E a \in called : Where(a) = Where(f)
    <3>1. PICK g \in present : under[g] = f /\ verdict[g] = "reachable"
      BY <2>4 DEF Correlated
    <3>2. Where(g) = Where(f)
      BY <2>3, <2>7, <3>1
    <3>3. CASE g \in Analyzers
      BY <2>1, <2>2, <3>1, <3>2, <3>3
    <3>4. CASE g \notin Analyzers
      BY <2>2, <2>7, <3>1, <3>2, <3>4 DEF Others
    <3>. QED BY <3>3, <3>4
  <2>. HIDE DEF Where, called, told
  <2>. QED BY <2>8, <2>9
<1>. QED BY <1>1, Invariant, PTL

\* Judging a run's controls and judging its findings one by one agree, in either vocabulary.
THEOREM GateAgrees == Spec => []GateMatchesFindings
<1>1. IInv => GateMatchesFindings
  <2>. SUFFICES ASSUME IInv, stage = "done", NEW c \in Controls
                PROVE  outcome[c] = "fail" <=>
                         \E f \in present : Report[f].control = c /\ FindingFails(world.gate, f)
    BY DEF GateMatchesFindings
  <2>. DEFINE g == world.gate
              bands == {rank[f].band : f \in {h \in Judged(c) : ~Correlated(h)}}
              sevs  == {SeverityOf(f) : f \in Judged(c)}
  <2>1. /\ present \in SUBSET Findings /\ rank \in [Findings -> Ranks] /\ verdict \in [Findings -> Verdicts]
    BY DEF IInv, TypeOK
  <2>2. g \in Gates /\ outcome[c] = IF Fails(g, c) THEN "fail" ELSE "pass"
    BY DEF IInv, JudgedInv
  <2>3. g.on \in {"band", "severity"} /\ g.at[c] \in 0..4
    <3>1. g.on \in {"band", "severity"} /\ g.at \in [Controls -> 0..4]
      BY <2>2, FindingsAssumption
    <3>. QED BY <3>1
  <2>. HIDE DEF g
  <2>4. bands \in SUBSET (0..4)
    BY <2>1 DEF Judged, Ranks, Bands
  <2>5. sevs \in SUBSET (0..4)
    <3>. SUFFICES ASSUME NEW f \in present PROVE SeverityOf(f) \in 0..4
      BY DEF Judged
    <3>1. rank[f] \in Ranks /\ Report[f].rating \in 1..4
      BY <2>1, FindingsAssumption DEF Severities
    <3>2. rank[f].to \in 0..4 /\ rank[f].rankedAs \in 0..4 /\ rank[f].floor \in 0..4
      BY <3>1 DEF Ranks
    <3>. QED BY <3>1, <3>2 DEF SeverityOf, RankedSeverity, Larger
  <2>6. \A S \in SUBSET (0..4) : g.at[c] > 0 =>
          (Highest(S) >= g.at[c] <=> \E s \in S : s >= g.at[c])
    <3>. TAKE S \in SUBSET (0..4)
    <3>1. Highest(S) \in S \union {0} /\ \A s \in S : Highest(S) >= s
      BY HighestFacts
    <3>2. \A s \in S : s \in 0..4
      OBVIOUS
    <3>3. PICK top : top = Highest(S)
      OBVIOUS
    <3>4. top \in 0..4
      <4>1. CASE top = 0
        BY <4>1
      <4>2. CASE top \in S
        BY <3>2, <4>2
      <4>. QED BY <3>1, <3>3, <4>1, <4>2
    <3>. QED BY <2>3, <3>1, <3>2, <3>3, <3>4
  <2>7. CASE g.on = "severity"
    <3>1. Fails(g, c) <=> g.at[c] > 0 /\ \E s \in sevs : s >= g.at[c]
      BY <2>5, <2>6, <2>7 DEF Fails
    <3>2. (\E s \in sevs : s >= g.at[c]) <=>
            \E f \in present : Report[f].control = c /\ ~Suppressed(f) /\ SeverityOf(f) >= g.at[c]
      BY DEF Judged
    <3>. QED BY <2>2, <2>7, <3>1, <3>2 DEF FindingFails, g
  <2>8. CASE g.on = "band"
    <3>1. Fails(g, c) <=> g.at[c] > 0 /\ \E s \in bands : s >= g.at[c]
      BY <2>4, <2>6, <2>8 DEF Fails
    <3>2. (\E s \in bands : s >= g.at[c]) <=>
            \E f \in present : /\ Report[f].control = c /\ ~Suppressed(f)
                               /\ ~Correlated(f) /\ rank[f].band >= g.at[c]
      BY DEF Judged
    <3>. QED BY <2>2, <2>8, <3>1, <3>2 DEF FindingFails, g
  <2>. QED BY <2>3, <2>7, <2>8
<1>. QED BY <1>1, Invariant, PTL
=============================================================================
