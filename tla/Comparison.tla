----------------------------- MODULE Comparison -----------------------------
(***************************************************************************)
(* The comparison of two scans: pkg/diff, and what draugr diff and         *)
(* draugr scan --base make of it.  Two written reports are refused where   *)
(* they do not hold the same ground; otherwise their findings are paired   *)
(* one to one in four passes, each is told new, fixed, unchanged, moved or *)
(* a decision made or ended, and the new ones are judged.                  *)
(*                                                                         *)
(* A scan is the sequence of its findings.  "spot" is a finding's tool,    *)
(* rule and file, "repo" its repository's identity, "hash" the fingerprint *)
(* of its lines, "severity" the one it is ranked by; severities and bands  *)
(* are the ranks the code compares, 0 for none.  A report holds the part   *)
(* of its scan within the components and down to the band it was written   *)
(* for.                                                                    *)
(***************************************************************************)
EXTENDS Integers, FiniteSets, Sequences

CONSTANTS
  Scans,   \* the scans that may be compared
  Asks,    \* what may be asked: how the reports were written, and how they are judged
  NoHash,  \* the fingerprint of a finding without one
  NoRepo   \* the repository of a finding in none; asked for, all of them

ASSUME ComparisonAssumption ==
  /\ \A s \in Scans :
       /\ Len(s) \in Nat /\ DOMAIN s = 1..Len(s)
       /\ \A i \in DOMAIN s : /\ s[i].line \in Nat /\ s[i].band \in 0..4 /\ s[i].severity \in 0..4
                              /\ s[i].suppressed \in BOOLEAN /\ s[i].correlated \in BOOLEAN
  /\ \A a \in Asks :
       /\ {a.baseBand, a.headBand, a.minBand, a.failOn, a.failBand} \subseteq 0..4
       /\ a.noBase \in BOOLEAN

VARIABLES
  base, head,  \* the scans compared
  ask,         \* what is asked
  stage,       \* the step the comparison takes next
  pass,        \* the pass of the matching
  old, new,    \* the findings of either report that are compared, by index
  pair,        \* the base finding each head finding is, 0 for none
  change,      \* what became of each head finding
  fixed,       \* the base findings told fixed
  tripped,     \* the new findings that met the gate
  exit         \* how the command ended

input == <<base, head, ask>>
vars  == <<base, head, ask, stage, pass, old, new, pair, change, fixed, tripped, exit>>

Stages  == {"read", "match", "judge", "answer", "done", "refused"}
Changes == {"none", "new", "unchanged", "moved", "accepted", "unaccepted"}

Init ==
  /\ base \in Scans /\ head \in Scans /\ ask \in Asks
  /\ stage = "read" /\ pass = 1
  /\ old = {} /\ new = {}
  /\ pair = [h \in DOMAIN head |-> 0]
  /\ change = [h \in DOMAIN head |-> "none"]
  /\ fixed = {} /\ tripped = {} /\ exit = "none"

----------------------------------------------------------------------------
(* Reading the reports.                                                    *)

\* What a report holds of its scan; a finding never banded is kept by every band.
Written(scan, scope, band) ==
  {i \in DOMAIN scan : /\ scan[i].component \in scope
                       /\ scan[i].band = 0 \/ scan[i].band >= band}
BaseHolds == IF ask.noBase THEN {} ELSE Written(base, ask.baseScope, ask.baseBand)
HeadHolds == Written(head, ask.headScope, ask.headBand)

ScopesCompare == ask.baseScope = ask.headScope

\* Narrowed to P4, a report holds what a whole one does.
Narrowing(band) == IF band <= 1 THEN 0 ELSE band

\* Broken: only a head narrower than its base is refused.
HeadCompares == Narrowing(ask.headBand) <= Narrowing(ask.baseBand)

\* A head may be no narrower than its base, and a narrowed base must cover what is
\* judged: the bands the head was narrowed to, or that new findings are shown down to.
BandsCompare ==
  LET b == Narrowing(ask.baseBand)
      h == Narrowing(ask.headBand)
  IN  /\ h <= b
      /\ b = 0 \/ h >= b \/ ask.minBand >= b

Comparable == ask.noBase \/ (BandsCompare /\ ScopesCompare)

SameIdentity(f, g) ==
  f.spot = g.spot /\ f.repo = g.repo /\ f.component = g.component /\ f.message = g.message

\* Broken: a second finding of one identity is a repeat wherever it is.
RepeatsIdentity(f, g) == SameIdentity(f, g)

Repeats(f, g) == SameIdentity(f, g) /\ f.line = g.line /\ f.hash = g.hash
Distinct(scan, S) == {i \in S : \A j \in S : j < i => ~Repeats(scan[j], scan[i])}

Read ==
  /\ stage = "read" /\ Comparable
  /\ stage' = "match"
  /\ old' = Distinct(base, BaseHolds)
  /\ new' = Distinct(head, HeadHolds)
  /\ UNCHANGED <<input, pass, pair, change, fixed, tripped, exit>>

\* A report that cannot be read, or two that cannot be compared, end the command.
Refuse ==
  /\ stage = "read"
  /\ stage' = "refused" /\ exit' = "failed"
  /\ UNCHANGED <<input, pass, old, new, pair, change, fixed, tripped>>

----------------------------------------------------------------------------
(* Pairing.                                                                *)

\* Broken: the component is left out before the message is tried within it.
AlikeAnywhereFirst(n, f, g) ==
  /\ f.spot = g.spot /\ f.repo = g.repo
  /\ n \in {1, 3} => f.component = g.component
  /\ n \in {1, 2} => f.hash # NoHash /\ f.hash = g.hash
  /\ n \in {3, 4} => f.message = g.message

\* What pass n takes for one finding: the fingerprint, then the identity, and both
\* again without the component.
Alike(n, f, g) ==
  /\ f.spot = g.spot /\ f.repo = g.repo
  /\ n \in {1, 2} => f.component = g.component
  /\ n \in {1, 3} => f.hash # NoHash /\ f.hash = g.hash
  /\ n \in {2, 4} => f.message = g.message

Before(scan, i, j) ==
  \/ scan[i].line < scan[j].line
  \/ scan[i].line = scan[j].line /\ i < j

\* Those of S a pass takes before i among the ones it holds for alike: in line order.
AheadOf(n, scan, S, i) == {j \in S : Alike(n, scan[j], scan[i]) /\ Before(scan, j, i)}

Left     == {b \in old : \A h \in new : pair[h] # b}
Unpaired == {h \in new : pair[h] = 0}

\* The head findings of one key take the base findings of that key in turn.
Takes(h, b) ==
  /\ Alike(pass, head[h], base[b])
  /\ Cardinality(AheadOf(pass, head, Unpaired, h)) = Cardinality(AheadOf(pass, base, Left, b))

Match ==
  /\ stage = "match" /\ pass \in 1..4
  /\ pair' = [h \in DOMAIN head |->
                IF h \in Unpaired /\ \E b \in Left : Takes(h, b)
                THEN CHOOSE b \in Left : Takes(h, b) ELSE pair[h]]
  /\ pass' = pass + 1
  /\ UNCHANGED <<input, stage, old, new, change, fixed, tripped, exit>>

----------------------------------------------------------------------------
(* What became of each finding, and the gate on the new ones.              *)

Moved(h) ==
  /\ pair[h] # 0
  /\ head[h].component # base[pair[h]].component
  /\ head[h].suppressed = base[pair[h]].suppressed
WasExcused(h) == pair[h] # 0 /\ base[pair[h]].suppressed

ChangeOf(h) ==
  IF Moved(h) THEN "moved"
  ELSE IF head[h].suppressed THEN IF WasExcused(h) THEN "unchanged" ELSE "accepted"
  ELSE IF pair[h] = 0 THEN "new"
  ELSE IF WasExcused(h) THEN "unaccepted" ELSE "unchanged"

Classify ==
  /\ stage = "match" /\ pass = 5
  /\ stage' = "judge"
  /\ change' = [h \in DOMAIN head |-> IF h \in new THEN ChangeOf(h) ELSE "none"]
  /\ fixed' = {b \in Left : ~base[b].suppressed}
  /\ UNCHANGED <<input, pass, old, new, pair, tripped, exit>>

\* The new findings kept in the comparison.
Shown(f) ==
  /\ f.band = 0 \/ f.band >= ask.minBand
  /\ ask.repo = NoRepo \/ f.repo \in {NoRepo, ask.repo}

MeetsGate(f) ==
  /\ ~f.correlated
  /\ \/ ask.failOn # 0 /\ f.severity >= ask.failOn
     \/ ask.failBand # 0 /\ f.band >= ask.failBand

Judge ==
  /\ stage = "judge"
  /\ stage' = "answer"
  /\ tripped' = {h \in new : change[h] = "new" /\ Shown(head[h]) /\ MeetsGate(head[h])}
  /\ UNCHANGED <<input, pass, old, new, pair, change, fixed, exit>>

\* The comparison is rendered and posted; a failure of either never hides the verdict.
Answer ==
  /\ stage = "answer"
  /\ stage' = "done"
  /\ exit' \in {"failed"} \union (IF tripped # {} THEN {} ELSE {"clean"})
  /\ UNCHANGED <<input, pass, old, new, pair, change, fixed, tripped>>

Next == Read \/ Refuse \/ Match \/ Classify \/ Judge \/ Answer
Spec == Init /\ [][Next]_vars

----------------------------------------------------------------------------
(* Properties.                                                             *)

\* Type: every variable stays in its range.
TypeOK ==
  /\ base \in Scans /\ head \in Scans /\ ask \in Asks
  /\ stage \in Stages /\ pass \in 1..5
  /\ old \subseteq DOMAIN base /\ new \subseteq DOMAIN head
  /\ pair \in [DOMAIN head -> 0..Len(base)]
  /\ change \in [DOMAIN head -> Changes]
  /\ fixed \subseteq old /\ tripped \subseteq new
  /\ exit \in {"none", "clean", "failed"}

\* How well two findings fit, 1 the best: the same lines before the same words, and
\* either in one component before either across two; 5 where they are not one finding.
SameLines(f, g) == f.hash # NoHash /\ f.hash = g.hash
Fit(f, g) ==
  IF f.spot # g.spot \/ f.repo # g.repo \/ ~(SameLines(f, g) \/ f.message = g.message) THEN 5
  ELSE (IF SameLines(f, g) THEN 1 ELSE 2) + (IF f.component = g.component THEN 0 ELSE 2)

HeadFit(h) == IF pair[h] = 0 THEN 5 ELSE Fit(head[h], base[pair[h]])
BaseFit(b) == IF b \in Left THEN 5 ELSE HeadFit(CHOOSE h \in new : pair[h] = b)

\* Once the passes are over the pairing is a stable one: one to one between findings
\* that fit, and no two findings fit each other better than what each was paired with.
\* So none is told both new and fixed, and a loose match never costs an exact one.
StablePairs ==
  pass = 5 =>
    /\ \A h \in new : pair[h] # 0 => pair[h] \in old /\ HeadFit(h) < 5
    /\ \A h, k \in new : pair[h] # 0 /\ pair[h] = pair[k] => h = k
    /\ \A h \in new, b \in old :
         Fit(head[h], base[b]) >= HeadFit(h) \/ Fit(head[h], base[b]) >= BaseFit(b)

\* Where a finding is, and where it is one of several: a file, under one rule of a tool.
Place(f) == <<f.component, f.message, f.line, f.hash>>
Beside(f, scan, S) == {i \in S : scan[i].spot = f.spot /\ scan[i].repo = f.repo}
PlacesOf(scan, S)  == {Place(scan[i]) : i \in S}

\* The findings of S whose place holds nothing a gate would pass over.
Counting(S) ==
  {i \in S : \A j \in S : Place(head[j]) = Place(head[i]) =>
     ~head[j].suppressed /\ Shown(head[j]) /\ MeetsGate(head[j])}

\* A command that ends clean saw no more instances of one flaw in one file that the gate
\* counts than the base already held of it: one more instance of an old flaw is caught.
ExtraInstanceTrips ==
  exit = "clean" =>
    \A h \in HeadHolds :
      Cardinality(PlacesOf(head, Counting(Beside(head[h], head, HeadHolds))))
        <= Cardinality(PlacesOf(base, Beside(head[h], base, BaseHolds)))

\* Findings that would be taken for one another in one component rank alike.
RanksAgree(scan) ==
  \A i, j \in DOMAIN scan : Alike(1, scan[i], scan[j]) \/ Alike(2, scan[i], scan[j])
    => scan[i].band = scan[j].band

\* A scan compared with itself, however either report of it was scoped and narrowed,
\* is refused or shows nothing new, fixed, moved or excused no more: a finding one
\* report left out is never taken for one that came or went.
SameScanIsQuiet ==
  /\ base = head /\ ~ask.noBase /\ RanksAgree(base)
  /\ stage \in {"judge", "answer", "done"}
  => /\ fixed = {} /\ tripped = {}
     /\ \A h \in new : \/ change[h] \in {"unchanged", "accepted"}
                       \/ change[h] = "new" /\ ~Shown(head[h])
=============================================================================
