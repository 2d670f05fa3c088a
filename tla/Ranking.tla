------------------------------ MODULE Ranking ------------------------------
(***************************************************************************)
(* How one finding is ranked: internal/scanpolicy's prioritizer over the   *)
(* signals of pkg/exploit and pkg/dephealth, the verdict of a reachability *)
(* analyzer and the matrices of pkg/prioritization.  Severities, bands and *)
(* context tiers are the ranks the code compares them by.                  *)
(*                                                                         *)
(* The one analyzer Draugr ships follows calls, a method that proves       *)
(* absence, so an unreachable verdict always may lower a severity.         *)
(***************************************************************************)
EXTENDS Integers

Low == 1  Medium == 2  High == 3  Critical == 4
Severities == Low..Critical
Bands      == 1..4   \* P4 to P1, by urgency
Tiers      == 1..4   \* C4 to C1, by concern
Verdicts   == {"none", "unknown", "unreachable", "reachable"}
Exploits   == {"none", "epss", "kev"}
Healths    == {"none", "deprecated", "malicious"}

Larger(a, b)   == IF a >= b THEN a ELSE b
Escalate(s)    == IF s = Critical THEN s ELSE s + 1
Deescalate(s)  == IF s = Low THEN s ELSE s - 1
RankAt(v, s)   == IF v = "unreachable" THEN Deescalate(s) ELSE s
Overruling     == {"epss", "kev", "malicious"}

\* The band of each context tier and severity.
PriorityBand ==
  << <<1, 1, 2, 3>>, <<1, 2, 2, 3>>, <<2, 3, 3, 4>>, <<2, 3, 4, 4>> >>

\* What a signal makes of a severity, and the signal where that raised it.
Raised(s, to, signal) == [sev |-> to, signal |-> IF to = s THEN "none" ELSE signal]
Exploited(s, e) ==
  Raised(s, CASE e = "kev" -> Critical [] e = "epss" -> Escalate(s) [] OTHER -> s, e)
Depended(s, h) ==
  Raised(s, CASE h = "malicious" -> Critical [] h = "deprecated" -> Escalate(s) [] OTHER -> s, h)

\* A finding as the prioritizer sees it: the scanner's rating, the control's minimum
\* severity, its context tier, and what the feeds say of the flaw and of the package.
Inputs == [rating : Severities, floor : 0..Critical, tier : Tiers, exploit : Exploits, health : Healths]

Held(in)      == Larger(in.rating, in.floor)
ByExploit(in) == Exploited(Held(in), in.exploit)
ByHealth(in)  == Depended(Held(in), in.health)

\* A signal about the package is applied only where it raises the finding further, and
\* one that does not overrule the verdict only where the verdict lowers nothing.
HealthApplies(in, v) ==
  /\ ByHealth(in).sev > ByExploit(in).sev
  /\ ByHealth(in).signal \in Overruling \/ RankAt(v, ByExploit(in).sev) = ByExploit(in).sev
Escalation(in, v) == IF HealthApplies(in, v) THEN ByHealth(in) ELSE ByExploit(in)

Overruled(in) ==
  \/ in.exploit = "kev"
  \/ {ByExploit(in).signal, ByHealth(in).signal} \intersect Overruling # {}

Lowered(in, v) ==
  IF Overruled(in) THEN Escalation(in, v).sev ELSE RankAt(v, Escalation(in, v).sev)

\* The rank a finding is stamped with; 0 stands for a field left empty.
Ranks == [band : Bands, to : 0..Critical, rankedAs : 0..Critical, floor : 0..Critical]
RankOf(in, v) ==
  LET esc == Escalation(in, v)
  IN  [band     |-> PriorityBand[in.tier][Lowered(in, v)],
       to       |-> IF esc.signal = "none" THEN 0 ELSE esc.sev,
       rankedAs |-> IF Lowered(in, v) = esc.sev THEN 0 ELSE Lowered(in, v),
       floor    |-> IF Held(in) = in.rating THEN 0 ELSE in.floor]

\* The severity a report prints and a severity gate judges, read back from the stamp.
RankedSeverity(rating, r, v) ==
  IF v = "unreachable" /\ r.rankedAs # 0 THEN r.rankedAs
  ELSE IF r.to # 0 THEN r.to
  ELSE Larger(rating, r.floor)
=============================================================================
