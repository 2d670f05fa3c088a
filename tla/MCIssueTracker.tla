--------------------------- MODULE MCIssueTracker ---------------------------
(***************************************************************************)
(* Small instances for TLC: two actions of one control, of which a cap of  *)
(* one leaves the second in the parent's body, in one part or in two.      *)
(***************************************************************************)
EXTENDS IssueTracker

CONSTANTS api, web, upgrade, pin, sca

MCFixOrder  == <<upgrade, pin>>
MCControlOf == [a \in {upgrade, pin} |-> sca]

Passes   == [state |-> "passes", actions |-> {}]
Gone     == [state |-> "gone", actions |-> {}]
Fails(A) == [state |-> "fails", actions |-> A]

Pipeline(parts, overlap, kill, children, verdicts) ==
  [parts |-> parts, split |-> Len(parts) > 1, overlap |-> overlap, kill |-> kill,
   children |-> children, verdicts |-> verdicts]
Changing == {Passes, Fails({upgrade, pin})}

\* In runs that come one at a time: a part whose findings come and go, beside one that may
\* leave the run, and the same part alone while the setting takes each of its values.  And
\* a part alone in runs that overlap.
ComeAndGo == Changing \union {Fails({pin})}
InTurn == Pipeline(<<api, web>>, FALSE, TRUE, {"none", "actions"},
  [p \in {api, web} |-> IF p = api THEN ComeAndGo ELSE {Gone, Fails({pin})}])
Alone  == Pipeline(<<api>>, FALSE, TRUE, {"none", "actions", "controls"},
  [p \in {api} |-> ComeAndGo])
AtOnce == Pipeline(<<api>>, TRUE, FALSE, {"actions"}, [p \in {api} |-> Changing])
MCWorlds == {InTurn, Alone, AtOnce}

OneWorld == {Pipeline(<<api>>, FALSE, FALSE, {"actions"}, [p \in {api} |-> Changing])}
=============================================================================
