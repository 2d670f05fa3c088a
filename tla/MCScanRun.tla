----------------------------- MODULE MCScanRun -----------------------------
(***************************************************************************)
(* A plan for TLC in which every way of waiting meets every other: two     *)
(* components share one image scan (jobs 1 and 2) behind a rate limit, two *)
(* jobs use one exclusive resource on different targets (3 and 4), and one *)
(* of those reads after the shared scan's jobs on its target.  The sharers *)
(* are of two controls, as an imported file's or a plugin's jobs may be.   *)
(***************************************************************************)
EXTENDS ScanRun

CONSTANTS trivy, probe, absent, image, host, one, two, images, base, dast, cluster, none, planning

MCNumJobs    == 4
MCScanner    == <<trivy, trivy, probe, probe>>
MCTarget     == <<image, image, image, host>>
MCSource     == [t \in {image, host} |-> t]
MCIdent      == <<1, 1, 3, 4>>
MCComponent  == <<one, two, one, two>>
MCControl    == <<images, base, dast, dast>>
MCDeclarations == {[s \in {trivy, probe} |-> IF s = probe THEN {trivy} ELSE {}]}
MCExclusive  == [s \in {trivy, probe} |-> IF s = probe THEN cluster ELSE none]

\* A smaller plan for liveness and refinement, run through a single slot: a shared
\* scan, two jobs on one exclusive resource, one of which reads after the shared
\* scan's jobs, and a job whose scanner nobody registered; or the two scanners each
\* declared to read after the other.
LiveNumJobs    == 4
LiveScanner    == <<probe, trivy, trivy, absent>>
LiveTarget     == <<image, image, image, host>>
LiveIdent      == <<1, 2, 2, 4>>
LiveComponent  == <<one, one, two, two>>
LiveControl    == <<dast, images, images, dast>>
LiveOrder == [s \in {trivy, probe, absent} |-> IF s = probe THEN {trivy} ELSE {}]
LiveDeclarations == {LiveOrder, [LiveOrder EXCEPT ![trivy] = {probe}]}
LiveExclusive  == [s \in {trivy, probe, absent} |-> IF s = absent THEN none ELSE cluster]

\* One file a component imports into two controls: planImports plans it for each, and
\* what identifies it is its scanner, its path and its contents.
CONSTANTS sarif, file, sast, sca
ImportNumJobs   == 2
ImportScanner   == <<sarif, sarif>>
ImportTarget    == <<file, file>>
ImportSource    == [t \in {file} |-> t]
ImportIdent     == <<1, 1>>
ImportComponent == <<one, one>>
ImportControl   == <<sast, sca>>
ImportDeclarations == {[s \in {sarif} |-> {}]}
ImportExclusive == [s \in {sarif} |-> none]
=============================================================================
