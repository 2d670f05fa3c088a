------------------------------ MODULE Findings ------------------------------
(***************************************************************************)
(* What Engine.Run makes of the findings its scanners reported, once every *)
(* job has joined, and what the gate makes of them: dependency health and  *)
(* reachability rank them again, marks are copied, the descriptor's        *)
(* exclusions, suppliers' claims and the controls' settings set some       *)
(* aside, and the copies several scanners reported of one flaw are counted *)
(* once.  One action per step of that sequence; what a step reads from     *)
(* outside (a feed, today's date, the documents) is chosen when it does.   *)
(*                                                                         *)
(* A finding is its number in the order the steps visit them, and a record *)
(* of what its scanner said.  "place" is its repository or image, "file"   *)
(* its path there, "pkg" its package as the keys compare it, "id" the      *)
(* vulnerability it names (its rule, where that names none).               *)
(***************************************************************************)
EXTENDS Ranking, FiniteSets, Sequences

CONSTANTS
  Report,        \* every finding a scanner may report
  Floor,         \* each control's minimum severity, 0 for none
  Tier,          \* the context tier a control's findings rank at in a component
  Exploit,       \* what the exploitation feeds say of each vulnerability
  HealthAnswers, \* what the dependency source may answer, one health per package
  Rules,         \* config.exclude: the findings each rule matches, in order
  ClaimPool,     \* the claims suppliers' documents may hold
  MaxClaims,     \* bound: the claims they do hold
  Honours,       \* the settings each control has an answer for
  AsideAnswers,  \* the answers descriptors give: which settings set findings aside
  Gates,         \* the policies a run may be judged by
  Optional,      \* the findings that need not be reported
  Silenceable,   \* the findings a scanner may silence itself
  MarksGiven,    \* the marks scanners may give the packages of their findings
  NoPkg,         \* the package of a finding about none
  Project        \* the component of a claim the project declares for everything

Findings   == DOMAIN Report
Controls   == DOMAIN Floor
Field(n)   == {Report[f][n] : f \in Findings}
Packages   == Field("pkg") \ {NoPkg}
Settings   == {"dev", "provided", "cpe", "path"}
Marks      == {"dev", "provided", "cpe"}
Statuses   == {"fixed", "not_affected", "under_investigation", "affected"}
Analyzers  == {f \in Findings : Report[f].analyzer}
SettingOrder == <<"dev", "provided", "cpe", "path">>

ASSUME FindingsAssumption ==
  /\ Len(Report) \in Nat /\ Findings = 1..Len(Report)
  /\ Field("control") = Controls
  /\ \A f \in Findings :
       /\ Report[f].rating \in Severities /\ Report[f].toolOrder \in Nat
       /\ {Report[f].analyzer, Report[f].testPath, Report[f].decorated, Report[f].isVuln} \subseteq BOOLEAN
       /\ Report[f].analyzer => Report[f].pkg # NoPkg
       /\ Len(Report[f].aliases) \in Nat
       /\ DOMAIN Report[f].aliases = 1..Len(Report[f].aliases)
  /\ Floor \in [Controls -> 0..Critical]
  /\ Tier \in [Controls \X Field("component") -> Tiers]
  /\ \A v \in DOMAIN Exploit : Exploit[v] \in Exploits
  /\ DOMAIN Rules = 1..Len(Rules) /\ Len(Rules) \in Nat
  /\ Silenceable \subseteq Findings /\ MarksGiven \subseteq [Findings -> SUBSET Marks]
  /\ Honours \in [Controls -> SUBSET Settings]
  /\ HealthAnswers \subseteq [Packages -> Healths]
  /\ AsideAnswers \subseteq [Controls \X Field("component") -> SUBSET Settings]
  /\ \A c \in ClaimPool : c.status \in Statuses
  /\ \A g \in Gates : g.on \in {"band", "severity"} /\ g.at \in [Controls -> 0..4]
  /\ \A g \in Gates, c \in Controls : g.on = "band" => g.at[c] > 0

VARIABLES
  stage,    \* the step the run takes next
  present,  \* the findings still in the report
  verdict,  \* the reachability verdict each finding carries
  rank,     \* what each finding is stamped with
  marks,    \* the marks on each finding's package
  outside,  \* whether each finding is marked as not in shipped code
  supp,     \* why each finding is suppressed: an origin, and which rule; or Not
  under,    \* the finding each is counted under, itself where it is counted
  tally,    \* the verdict each finding is counted with in the summary
  scan,     \* what the scanners said: what they reported, their verdicts, marks and silences
  world,    \* what the run read: health, lapsed rules, claims, answers and the gate
  outcome   \* the verdict on each control

vars == <<stage, present, verdict, rank, marks, outside, supp, under, tally, scan, world, outcome>>

Not          == <<"not", 0>>
Origins      == {"scanner", "rule", "vex"} \union Settings
Suppressed(f) == supp[f] # Not
BySetting(f) == supp[f][1] \in Settings
Correlated(f) == under[f] # f
Silent       == [p \in Packages |-> "none"]

----------------------------------------------------------------------------
(* Ranking and reachability.                                               *)

\* What the prioritizer is given for a finding.
InputsOf(f, health) ==
  LET r == Report[f]
  IN  [rating  |-> r.rating, floor |-> Floor[r.control], tier |-> Tier[r.control, r.component],
       exploit |-> IF r.id \in DOMAIN Exploit THEN Exploit[r.id] ELSE "none",
       health  |-> IF r.pkg = NoPkg THEN "none" ELSE health[r.pkg]]
Prioritize(f, v, health) == RankOf(InputsOf(f, health), v)

\* Where a verdict applies, and the identifiers a finding is known by.
Spot(f)    == <<Report[f].component, Report[f].place, Report[f].file, Report[f].pkg>>
Aliases(f) == {Report[f].aliases[i] : i \in DOMAIN Report[f].aliases}

VerdictRank(v) == CASE v = "reachable" -> 3 [] v = "unreachable" -> 2 [] v = "unknown" -> 1 [] OTHER -> 0
Strongest(V)   == CHOOSE v \in V \union {"none"} : \A w \in V : VerdictRank(v) >= VerdictRank(w)

Says(a, f, ids) == Spot(a) = Spot(f) /\ Report[a].id \in ids

\* Broken: only the analyzer's own identifier is looked up.
ReachingByOwn(f) ==
  {a \in Analyzers \intersect present : Says(a, f, {Report[f].id} \union Aliases(f))}

\* The analyzer's findings whose verdict reaches another scanner's finding: under its
\* identifier or one it names, or as an alias that the analyzer did not report itself.
Reaching(f) ==
  LET here  == Analyzers \intersect present
      told  == {a \in here : Says(a, f, {Report[f].id} \union Aliases(f))}
      named == {a \in here : Spot(a) = Spot(f) /\ Report[f].id \in Aliases(a)}
  IN  told \union (IF \E a \in told : Report[a].id = Report[f].id THEN {} ELSE named)

\* An analyzer reports one finding per identifier and spot; where it has several, each
\* has the strongest of their verdicts.
Twins(a)    == {b \in Analyzers \intersect present : Says(b, a, {Report[a].id})}
Given(f)    == Strongest({verdict[b] : b \in UNION {Twins(a) : a \in Reaching(f)}})
FoldedIn(f) == UNION {Twins(a) : a \in Reaching(f)}

Others == present \ Analyzers

----------------------------------------------------------------------------
(* Marks, exclusions, claims and settings.                                 *)

SameCopy(f, g) ==
  /\ Report[f].pkg # NoPkg /\ Spot(f) = Spot(g)
  /\ Report[f].control = Report[g].control
\* Broken: the marks reach the copies of one vulnerability only.
CopiedMarksById(f) ==
  marks[f] \union
    ((UNION {marks[g] : g \in {h \in present : SameCopy(f, h) /\ Report[f].id = Report[h].id}}) \ {"cpe"})

CopiedMarks(f) ==
  marks[f] \union ((UNION {marks[g] : g \in {h \in present : SameCopy(f, h)}}) \ {"cpe"})

Least(S) == CHOOSE i \in S : \A j \in S : i <= j
Hits(f, active) == {i \in active : f \in Rules[i]}

\* The claim a component's index holds for a finding: one that names its package before
\* one that names none, and of several the one conceding the most exposure.
Concedes(c) ==
  CASE c.status = "affected" -> 3 [] c.status = "under_investigation" -> 2
    [] c.status = "not_affected" -> 1 [] OTHER -> 0
Lookup(f, claims) ==
  LET mine == {c \in claims : c.component \in {Report[f].component, Project} /\ c.id = Report[f].id}
      named == {c \in mine : c.pkg = Report[f].pkg /\ c.pkg # NoPkg}
      bare  == {c \in mine : c.pkg = NoPkg}
      found == IF named # {} THEN named ELSE bare
  IN  {c \in found : \A d \in found : Concedes(c) >= Concedes(d)}
\* Broken: the index of one component holds every component's claims.
ExcusedAnywhere(f, claims) ==
  \E c \in claims : c.id = Report[f].id /\ c.status \in {"fixed", "not_affected"}

Excused(f, claims) == \E c \in Lookup(f, claims) : c.status \in {"fixed", "not_affected"}

Covers(f, s) == IF s = "path" THEN outside[f] ELSE s \in marks[f]
SetsAside(f, s, answers) ==
  /\ s \in Honours[Report[f].control] /\ Covers(f, s)
  /\ s \in answers[Report[f].control, Report[f].component]
\* Broken: the last setting that covers a finding writes over the others.
LastSetting(f, answers) ==
  LET which == {i \in DOMAIN SettingOrder : SetsAside(f, SettingOrder[i], answers)}
  IN  IF which = {} THEN Not
      ELSE <<SettingOrder[CHOOSE i \in which : \A j \in which : i >= j], 0>>

\* The settings are applied one after another, so the first that covers a finding decides.
FirstSetting(f, answers) ==
  LET which == {i \in DOMAIN SettingOrder : SetsAside(f, SettingOrder[i], answers)}
  IN  IF which = {} THEN Not ELSE <<SettingOrder[Least(which)], 0>>

----------------------------------------------------------------------------
(* Correlation.                                                            *)

\* The flaw a finding correlates on, under an identifier.
FlawAs(f, id) == <<Report[f].control, Report[f].component, Report[f].place, Report[f].pkg, id>>
Flaw(f)       == FlawAs(f, Report[f].id)
Keyed         == {f \in present : Report[f].isVuln /\ Report[f].pkg # NoPkg}

\* The flaws the keyed findings are sorted into, as sets of copies: by key at first.
ByKey(keyed)          == {{g \in keyed : Flaw(g) = Flaw(f)} : f \in keyed}
With(flaws, f)        == CHOOSE G \in flaws : f \in G
ToolsOf(G)            == {Report[g].tool : g \in G}
NamedBy(keyed, f, id) == {g \in keyed : Flaw(g) = FlawAs(f, id)}

\* Broken: the two findings' own scanners are compared, not their flaws'.
JoinByFinding(keyed, flaws, f, id) ==
  LET G == With(flaws, f)
      H == With(flaws, Least(NamedBy(keyed, f, id)))
  IN  IF NamedBy(keyed, f, id) = {} THEN flaws
      ELSE IF Report[f].tool = Report[Least(NamedBy(keyed, f, id))].tool THEN flaws
      ELSE (flaws \ {G, H}) \union {G \union H}

\* Joins the flaws two identifiers name, because a finding names both, unless a scanner
\* reported copies of each.
Join(keyed, flaws, f, id) ==
  LET G == With(flaws, f)
      H == With(flaws, Least(NamedBy(keyed, f, id)))
  IN  IF NamedBy(keyed, f, id) = {} THEN flaws
      ELSE IF ToolsOf(G) \intersect ToolsOf(H) # {} THEN flaws
      ELSE (flaws \ {G, H}) \union {G \union H}

JoinAll(keyed, start, f) ==
  LET joined[i \in 0..Len(Report[f].aliases)] ==
        IF i = 0 THEN start ELSE Join(keyed, joined[i - 1], f, Report[f].aliases[i])
  IN  joined[Len(Report[f].aliases)]
Flaws(keyed) ==
  LET joined[f \in 0..Len(Report)] ==
        IF f = 0 THEN ByKey(keyed)
        ELSE IF f \in keyed THEN JoinAll(keyed, joined[f - 1], f) ELSE joined[f - 1]
  IN  joined[Len(Report)]
\* The copies of a finding's flaw; of one that correlates with nothing, itself.
CopiesIn(flaws, f) == IF f \in Keyed THEN With(flaws, f) ELSE {f}

\* How a copy stands among those of its flaw, most telling first: set aside by no setting,
\* in shipped code, the band, the severity its scanner gave (its score and level with it),
\* the identifier as the advisory writes it, the tool's name.
Standing(f) ==
  <<IF BySetting(f) THEN 0 ELSE 1, IF outside[f] THEN 0 ELSE 1, rank[f].band, Report[f].rating,
    IF Report[f].decorated THEN 0 ELSE 1, -Report[f].toolOrder>>
Precedes(s, t) == \E i \in 1..6 : s[i] > t[i] /\ \A j \in 1..(i - 1) : s[j] = t[j]
\* Broken: the copy most scanners agree on is the first one reported.
FirstOf(G) == Least(G)

StrongestOf(G) ==
  LET standing == [f \in G |-> Standing(f)]
  IN  CHOOSE f \in G : \A g \in G :
        /\ ~Precedes(standing[g], standing[f])
        /\ standing[g] = standing[f] => f <= g

\* Broken: a setting's decision is spread too.
SuppressionInAny(G) ==
  LET decided == {f \in G : Suppressed(f)}
  IN  IF decided = {} THEN Not ELSE supp[Least(decided)]

\* The decision about a flaw that reaches its other copies: the first that is no setting's.
SuppressionIn(G) ==
  LET decided == {f \in G : Suppressed(f) /\ ~BySetting(f)}
  IN  IF decided = {} THEN Not ELSE supp[Least(decided)]

----------------------------------------------------------------------------
(* The gate.                                                               *)

SeverityOf(f) == RankedSeverity(Report[f].rating, rank[f], verdict[f])
Judged(c)     == {f \in present : Report[f].control = c /\ ~Suppressed(f)}
Highest(S)    == CHOOSE s \in S \union {0} : \A t \in S : s >= t
\* Broken: a severity gate leaves the correlated copies out as the counts do.
FailsCounted(g, c) ==
  LET judged == {h \in Judged(c) : ~Correlated(h)}
  IN  /\ g.at[c] > 0
      /\ Highest(IF g.on = "severity" THEN {SeverityOf(f) : f \in judged}
                 ELSE {rank[f].band : f \in judged}) >= g.at[c]

Fails(g, c) ==
  /\ g.at[c] > 0
  /\ IF g.on = "severity" THEN Highest({SeverityOf(f) : f \in Judged(c)}) >= g.at[c]
     ELSE Highest({rank[f].band : f \in {h \in Judged(c) : ~Correlated(h)}}) >= g.at[c]

\* norn's test of one finding, which part of a run is judged by.
FindingFails(g, f) ==
  /\ ~Suppressed(f) /\ g.at[Report[f].control] > 0
  /\ IF g.on = "severity" THEN SeverityOf(f) >= g.at[Report[f].control]
     ELSE ~Correlated(f) /\ rank[f].band >= g.at[Report[f].control]

----------------------------------------------------------------------------
(* The steps, in order.                                                    *)

After == [health |-> "reach", reach |-> "copies", copies |-> "outside", outside |-> "exclude",
          exclude |-> "vex", vex |-> "settings", settings |-> "correlate",
          correlate |-> "recount", recount |-> "judge", judge |-> "done"]
At(s) == stage = s /\ stage' = After[s]

NoAnswers == [x \in Controls \X Field("component") |-> {}]
NoGate    == [on |-> "none", at |-> [c \in Controls |-> 0]]

\* The reports as the jobs left them: ranked before anything is known of the packages.
Init ==
  /\ stage = "health"
  /\ \E S \in SUBSET Optional, v \in [Analyzers -> Verdicts \ {"none"}], m \in MarksGiven, q \in SUBSET Silenceable :
       scan = [reported |-> Findings \ S, marks |-> m, silenced |-> q,
               verdict |-> [f \in Findings |-> IF f \in Analyzers THEN v[f] ELSE "none"]]
  /\ present = scan.reported
  /\ verdict = scan.verdict
  /\ marks = scan.marks
  /\ rank = [f \in Findings |-> Prioritize(f, verdict[f], Silent)]
  /\ outside = [f \in Findings |-> FALSE]
  /\ supp = [f \in Findings |-> IF f \in scan.silenced THEN <<"scanner", 0>> ELSE Not]
  /\ under = [f \in Findings |-> f]
  /\ tally = [f \in Findings |-> "none"]
  /\ world = [health |-> Silent, lapsed |-> {}, claims |-> {}, answers |-> NoAnswers, gate |-> NoGate]
  /\ outcome = [c \in Controls |-> "none"]

\* The dependency source answers, or it is off or fails and nothing changes; every
\* finding about a package is ranked again.
AskHealth(health) ==
  /\ At("health")
  /\ world' = [world EXCEPT !.health = health]
  /\ rank' = [f \in Findings |->
       IF f \in present /\ Report[f].pkg # NoPkg THEN Prioritize(f, verdict[f], health) ELSE rank[f]]
  /\ UNCHANGED <<present, verdict, marks, outside, supp, under, tally, outcome, scan>>

\* Broken: a finding keeps the rank it had before the verdict.
ReachUnranked ==
  /\ At("reach")
  /\ verdict' = [f \in Findings |-> IF f \in Others THEN Given(f) ELSE verdict[f]]
  /\ present' = present \ (UNION {FoldedIn(f) : f \in Others})
  /\ UNCHANGED <<rank, marks, outside, supp, under, tally, world, outcome, scan>>

\* The analyzer's verdicts move onto the findings of other scanners, which are ranked
\* again, and its own findings stay only where no other scanner's took their verdict.
Reach ==
  /\ At("reach")
  /\ verdict' = [f \in Findings |-> IF f \in Others THEN Given(f) ELSE verdict[f]]
  /\ rank' = [f \in Findings |->
       IF f \in Others /\ Given(f) # "none" THEN Prioritize(f, Given(f), world.health) ELSE rank[f]]
  /\ present' = present \ (UNION {FoldedIn(f) : f \in Others})
  /\ UNCHANGED <<marks, outside, supp, under, tally, world, outcome, scan>>

MarkDevCopies ==
  /\ At("copies")
  /\ marks' = [f \in Findings |-> IF f \in present THEN CopiedMarks(f) ELSE marks[f]]
  /\ UNCHANGED <<present, verdict, rank, outside, supp, under, tally, world, outcome, scan>>

MarkNonShipping ==
  /\ At("outside")
  /\ outside' = [f \in Findings |->
       f \in present /\ "path" \in Honours[Report[f].control] /\ Report[f].testPath]
  /\ UNCHANGED <<present, verdict, rank, marks, supp, under, tally, world, outcome, scan>>

\* Broken: the rule noted is the one after the one that matched.
ApplyExclusionsNext(lapsed) ==
  /\ At("exclude")
  /\ world' = [world EXCEPT !.lapsed = lapsed]
  /\ supp' = [f \in Findings |->
       LET hits == Hits(f, DOMAIN Rules \ lapsed)
       IN  IF f \in present /\ ~Suppressed(f) /\ hits # {} THEN <<"rule", Least(hits) + 1>> ELSE supp[f]]
  /\ UNCHANGED <<present, verdict, rank, marks, outside, under, tally, outcome, scan>>

\* The rules still in force on the day of the run; the first that matches a finding nobody
\* suppressed gives its reason.
ApplyExclusions(lapsed) ==
  /\ At("exclude")
  /\ world' = [world EXCEPT !.lapsed = lapsed]
  /\ supp' = [f \in Findings |->
       LET hits == Hits(f, DOMAIN Rules \ lapsed)
       IN  IF f \in present /\ ~Suppressed(f) /\ hits # {} THEN <<"rule", Least(hits)>> ELSE supp[f]]
  /\ UNCHANGED <<present, verdict, rank, marks, outside, under, tally, outcome, scan>>

ApplyVEX(claims) ==
  /\ At("vex")
  /\ world' = [world EXCEPT !.claims = claims]
  /\ supp' = [f \in Findings |->
       IF f \in present /\ ~Suppressed(f) /\ Excused(f, claims) THEN <<"vex", 0>> ELSE supp[f]]
  /\ UNCHANGED <<present, verdict, rank, marks, outside, under, tally, outcome, scan>>

ApplySettings(answers) ==
  /\ At("settings")
  /\ world' = [world EXCEPT !.answers = answers]
  /\ supp' = [f \in Findings |->
       IF f \in present /\ ~Suppressed(f) THEN FirstSetting(f, answers) ELSE supp[f]]
  /\ UNCHANGED <<present, verdict, rank, marks, outside, under, tally, outcome, scan>>

Correlate ==
  /\ At("correlate")
  /\ \E flaws \in {Flaws(Keyed)} :
       /\ supp' = [f \in Findings |->
            IF f \in present /\ ~Suppressed(f) THEN SuppressionIn(CopiesIn(flaws, f)) ELSE supp[f]]
       /\ under' = [f \in Findings |-> IF f \in present THEN StrongestOf(CopiesIn(flaws, f)) ELSE f]
  /\ UNCHANGED <<present, verdict, rank, marks, outside, tally, world, outcome, scan>>

\* Broken: the summary takes the counted copy's own verdict.
RecountOwn ==
  /\ At("recount")
  /\ tally' = [f \in Findings |-> IF f \in present /\ ~Correlated(f) THEN verdict[f] ELSE "none"]
  /\ UNCHANGED <<present, verdict, rank, marks, outside, supp, under, world, outcome, scan>>

\* Each flaw is counted in the summary under the strongest verdict among its copies.
Recount ==
  /\ At("recount")
  /\ \E flaws \in {Flaws(Keyed)} :
       tally' = [f \in Findings |->
         IF f \in present /\ ~Correlated(f)
         THEN Strongest({verdict[g] : g \in CopiesIn(flaws, f)}) ELSE "none"]
  /\ UNCHANGED <<present, verdict, rank, marks, outside, supp, under, world, outcome, scan>>

Judge(gate) ==
  /\ At("judge")
  /\ world' = [world EXCEPT !.gate = gate]
  /\ outcome' = [c \in Controls |-> IF Fails(gate, c) THEN "fail" ELSE "pass"]
  /\ UNCHANGED <<present, verdict, rank, marks, outside, supp, under, tally, scan>>

ClaimSets == {S \in SUBSET ClaimPool : Cardinality(S) <= MaxClaims}

Next ==
  \/ \E health \in HealthAnswers \union {Silent} : AskHealth(health)
  \/ Reach
  \/ MarkDevCopies
  \/ MarkNonShipping
  \/ \E lapsed \in SUBSET DOMAIN Rules : ApplyExclusions(lapsed)
  \/ \E claims \in ClaimSets : ApplyVEX(claims)
  \/ \E answers \in AsideAnswers : ApplySettings(answers)
  \/ Correlate
  \/ Recount
  \/ \E gate \in Gates : Judge(gate)

Spec == Init /\ [][Next]_vars

----------------------------------------------------------------------------
(* Properties.                                                             *)

\* The type of the state.
TypeOK ==
  /\ stage \in DOMAIN After \union {"done"}
  /\ present \in SUBSET Findings
  /\ verdict \in [Findings -> Verdicts]
  /\ rank \in [Findings -> Ranks]
  /\ marks \in [Findings -> SUBSET Marks]
  /\ outside \in [Findings -> BOOLEAN]
  /\ supp \in [Findings -> {Not} \union (Origins \X (0..Len(Rules)))]
  /\ under \in [Findings -> Findings]
  /\ tally \in [Findings -> Verdicts]
  /\ scan \in [reported : SUBSET Findings, verdict : [Findings -> Verdicts],
               marks : [Findings -> SUBSET Marks], silenced : SUBSET Findings]
  /\ world \in [health : HealthAnswers \union {Silent}, lapsed : SUBSET DOMAIN Rules, claims : SUBSET ClaimPool,
                answers : AsideAnswers \union {NoAnswers}, gate : Gates \union {NoGate}]
  /\ outcome \in [Controls -> {"none", "pass", "fail"}]

Ranked     == stage \notin {"health", "reach"}
Decided    == stage \in {"recount", "judge", "done"}
SameFlaw(f, g) == under[f] = under[g]

\* One rank for what is known at the end: no finding keeps a band from before the feeds or
\* the analyzer answered, and the severity read back from its stamp is the one its band
\* was computed from (reband, and RankedSeverity against the prioritizer).
RanksAreCurrent ==
  Ranked => \A f \in present :
    /\ rank[f] = Prioritize(f, verdict[f], world.health)
    /\ rank[f].band = PriorityBand[InputsOf(f, world.health).tier][SeverityOf(f)]

\* The analyzer adds no noise and loses nothing (applyReachability): a finding of its that
\* is dropped lives on, with at least its exposure, in one another scanner reported of the
\* same dependency under an identifier it was given; one that is kept, no other reported.
FoldedOnce ==
  Ranked =>
    /\ scan.reported \ present \subseteq Analyzers
    /\ \A a \in scan.reported \intersect Analyzers :
         LET copies == {f \in Others : Spot(f) = Spot(a)}
             Names(f) == {Report[f].id} \union Aliases(f)
         IN  IF a \notin present
             THEN \E f \in copies, b \in scan.reported \intersect Analyzers :
                    /\ Says(b, a, {Report[a].id}) /\ Names(f) \intersect Names(b) # {}
                    /\ VerdictRank(verdict[f]) >= VerdictRank(scan.verdict[a])
             ELSE \A f \in copies :
                    /\ Report[a].id \notin Names(f)
                    /\ Report[f].id \in Aliases(a) =>
                         \E b \in scan.reported \intersect Analyzers : Says(b, a, {Report[f].id})

\* Why a finding is set aside on its own account, from what was read alone: its scanner
\* first, then the descriptor's rules in order, suppliers' claims, then the settings.
ClaimedAway(f) ==
  LET About(c) == c.id = Report[f].id /\ c.component \in {Report[f].component, Project}
                  /\ c.pkg \in {Report[f].pkg, NoPkg}
      about   == {c \in world.claims : About(c)}
      precise == {c \in about : c.pkg # NoPkg}
      heard   == IF precise = {} THEN about ELSE precise
  IN  heard # {} /\ \A c \in heard : c.status \notin {"affected", "under_investigation"}
MarkedWith(f, s) ==
  CASE s = "path" -> Report[f].testPath
    [] s = "cpe" -> "cpe" \in scan.marks[f]
    [] OTHER -> \E g \in present : (g = f \/ SameCopy(f, g)) /\ s \in scan.marks[g]
SetAsideBy(f) ==
  {i \in DOMAIN SettingOrder :
     /\ MarkedWith(f, SettingOrder[i])
     /\ SettingOrder[i] \in Honours[Report[f].control]
     /\ SettingOrder[i] \in world.answers[Report[f].control, Report[f].component]}
OwnReason(f) ==
  IF f \in scan.silenced THEN <<"scanner", 0>>
  ELSE IF \E i \in DOMAIN Rules \ world.lapsed : f \in Rules[i]
  THEN <<"rule", CHOOSE i \in DOMAIN Rules \ world.lapsed :
                   f \in Rules[i] /\ \A j \in 1..(i - 1) : j \in world.lapsed \/ f \notin Rules[j]>>
  ELSE IF ClaimedAway(f) THEN <<"vex", 0>>
  ELSE IF SetAsideBy(f) # {} THEN <<SettingOrder[Least(SetAsideBy(f))], 0>>
  ELSE Not

\* A finding is set aside for one reason, and the step that got there first decided it:
\* its own, however many steps could have; else what was decided about another copy of
\* the flaw, never what a setting said of that copy (applyExclusions to applyCorrelation).
DecidedOnce ==
  Decided =>
    \E own \in {[f \in present |-> OwnReason(f)]} : \A f \in present :
      LET judged == {g \in present : SameFlaw(f, g) /\ own[g][1] \notin Settings \union {"not"}}
      IN  supp[f] = IF own[f] # Not \/ judged = {} THEN own[f] ELSE own[Least(judged)]

\* A flaw is counted once and none is lost: copies of one are counted under one of them,
\* and two flaws one scanner told apart are never counted as one, however other scanners'
\* aliases link them (correlationGroups).
FlawsCountedOnce ==
  Decided =>
    /\ \A f \in present : under[f] \in present /\ ~Correlated(under[f])
    /\ \A f, g \in Keyed :
         /\ Flaw(f) = Flaw(g) => SameFlaw(f, g)
         /\ Report[f].tool = Report[g].tool /\ SameFlaw(f, g) => Flaw(f) = Flaw(g)

\* What correlation leaves out of the count hides nothing a band gate would stop: where a
\* gate passes, an urgent finding nobody set aside is a copy in tests or docs of one in
\* shipped code that was judged (strongestOf before highestPriority).
NoUrgentFlawHidden ==
  stage = "done" /\ world.gate.on = "band" =>
    \A f \in present :
      /\ ~Suppressed(f)
      /\ rank[f].band >= world.gate.at[Report[f].control]
      /\ outcome[Report[f].control] = "pass"
      => outside[f] /\ \E g \in present : SameFlaw(f, g) /\ ~outside[g] /\ ~Suppressed(g)

\* A verdict of reachable is told once the copies are counted, whichever of them carries
\* it, and only where the analyzer gave one (recountReachability).
ReachableIsTold ==
  LET Where(f) == <<Report[f].component, Report[f].place, Report[f].pkg>>
      called   == {a \in scan.reported \intersect Analyzers : scan.verdict[a] = "reachable"}
      told     == {f \in present : ~Correlated(f) /\ tally[f] = "reachable"}
  IN  stage \in {"judge", "done"} => {Where(a) : a \in called} = {Where(f) : f \in told}

\* A control fails exactly when one of its findings does, in either of the gate's
\* vocabularies (Evaluate against FindingFails, which judges part of a run).
GateMatchesFindings ==
  stage = "done" => \A c \in Controls :
    outcome[c] = "fail" <=> \E f \in present : Report[f].control = c /\ FindingFails(world.gate, f)
=============================================================================
