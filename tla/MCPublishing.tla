---------------------------- MODULE MCPublishing ----------------------------
(***************************************************************************)
(* Two servers.  Bounds: at most two attempts, a limit of two ticks,     *)
(* sleeps of at most two.                                                  *)
(***************************************************************************)
EXTENDS Publishing

CONSTANTS s1, s2

MCOrder == <<s1, s2>>

Way(policy, noGate, noPublish, wait, fails, incomplete) ==
  [policy |-> policy, noGate |-> noGate, noPublish |-> noPublish, wait |-> wait,
   fails |-> fails, incomplete |-> incomplete]

(* With and without --policy, without a gate, without waiting, without     *)
(* publishing, and over a scan that failed its gate or did not finish.     *)
MCInvocations ==
  {Way(TRUE, FALSE, FALSE, 2, FALSE, FALSE), Way(FALSE, FALSE, FALSE, 2, FALSE, FALSE),
   Way(TRUE, TRUE, FALSE, 0, TRUE, FALSE), Way(TRUE, FALSE, TRUE, 0, FALSE, TRUE)}

(* Both judge policy, or one only, or one has no address here. *)
MCSettings ==
  {[s \in Servers |-> IF s = s1 THEN kind ELSE "judges"] : kind \in Kinds}
=============================================================================
