----------------------------- MODULE MCFindings -----------------------------
(***************************************************************************)
(* A small instance for TLC: one dependency of the web component, reported *)
(* by Trivy, Grype and govulncheck under three identifiers and from three  *)
(* manifests, the same dependency of another component, and a secret.      *)
(***************************************************************************)
EXTENDS Findings

CONSTANTS sca, secrets, trivy, grype, govulncheck, gitleaks, web, api,
          repo, mod, toolsMod, testMod, source, jwt, cve, ghsa, goid, key

Dep(tool, order, component, file, id, aliases, rating) ==
  [control |-> sca, tool |-> tool, toolOrder |-> order, component |-> component, place |-> repo,
   file |-> file, pkg |-> jwt, id |-> id, isVuln |-> TRUE, aliases |-> aliases, rating |-> rating,
   analyzer |-> tool = govulncheck, testPath |-> file = testMod, decorated |-> tool = grype]

MCReport == <<
  Dep(trivy, 3, web, mod, cve, <<ghsa>>, High),
  Dep(govulncheck, 1, web, mod, goid, <<ghsa>>, Medium),
  Dep(grype, 2, web, mod, ghsa, <<>>, Critical),
  Dep(trivy, 3, web, testMod, cve, <<>>, Critical),
  Dep(grype, 2, web, toolsMod, cve, <<>>, High),
  Dep(grype, 2, api, mod, cve, <<>>, High),
  [control |-> secrets, tool |-> gitleaks, toolOrder |-> 0, component |-> web, place |-> repo,
   file |-> source, pkg |-> NoPkg, id |-> key, isVuln |-> FALSE, aliases |-> <<>>, rating |-> Low,
   analyzer |-> FALSE, testPath |-> TRUE, decorated |-> FALSE] >>

MCFloor   == [c \in {sca, secrets} |-> IF c = secrets THEN High ELSE 0]
MCTier    == [x \in {sca, secrets} \X {web, api} |-> IF x[1] = secrets \/ x[2] = web THEN 4 ELSE 2]
MCExploit == [v \in {ghsa} |-> "epss"]
MCHealth  == {[p \in {jwt} |-> h] : h \in {"deprecated"}}
MCRules   == <<{3, 7}, {1, 3, 4}>>
MCHonours == [c \in {sca, secrets} |-> IF c = sca THEN Settings ELSE {}]
MCClaims  ==
  {[component |-> web, id |-> cve, pkg |-> NoPkg, status |-> "not_affected"],
   [component |-> web, id |-> cve, pkg |-> jwt, status |-> "affected"],
   [component |-> Project, id |-> ghsa, pkg |-> jwt, status |-> "fixed"]}
Answers(S) == [x \in {sca, secrets} \X {web, api} |-> IF x = <<sca, web>> THEN S ELSE {}]
MCAnswers == {Answers({"dev", "provided"}), Answers({"dev", "provided", "cpe", "path"})}
MCGates   ==
  {[on |-> "band", at |-> [c \in {sca, secrets} |-> 4]],
   [on |-> "severity", at |-> [c \in {sca, secrets} |-> IF c = sca THEN Critical ELSE 0]]}
MCMarks   ==
  {[f \in 1..7 |-> CASE f = 1 -> m[1] [] f = 5 -> m[2] [] OTHER -> {}] :
     m \in {<<{"dev", "provided"}, {}>>, <<{}, {"cpe"}>>}}
=============================================================================
