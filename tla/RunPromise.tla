----------------------------- MODULE RunPromise -----------------------------
(***************************************************************************)
(* What Engine.Run promises the command that called it, with no goroutine  *)
(* in sight: every planned job ends exactly once, as read, read in part,   *)
(* or unread, or, only in an interrupted run, as abandoned; jobs asking    *)
(* one question get one answer; and the run returns once all have ended.   *)
(***************************************************************************)
CONSTANTS
  Jobs,
  Ident     \* Ident[j]: the question a job asks

VARIABLES
  outcome,      \* how each job ended
  interrupted,
  open          \* the run has not returned

vars == <<outcome, interrupted, open>>

Answers  == {"read", "part", "unread"}
Settled(j) == outcome[j] \in Answers

Init ==
  /\ outcome = [j \in Jobs |-> "pending"]
  /\ interrupted \in BOOLEAN
  /\ open = TRUE

Interrupt ==
  /\ open /\ ~interrupted
  /\ interrupted' = TRUE
  /\ UNCHANGED <<outcome, open>>

Settle(j, answer) ==
  /\ open
  /\ outcome[j] = "pending"
  /\ \A k \in Jobs : Settled(k) /\ Ident[k] = Ident[j] => outcome[k] = answer
  /\ outcome' = [outcome EXCEPT ![j] = answer]
  /\ UNCHANGED <<interrupted, open>>

\* An interrupted run gives up some of what it has not settled.
Abandon ==
  /\ open /\ interrupted
  /\ \E S \in SUBSET {j \in Jobs : outcome[j] = "pending"} :
       outcome' = [j \in Jobs |-> IF j \in S THEN "abandoned" ELSE outcome[j]]
  /\ UNCHANGED <<interrupted, open>>

Return ==
  /\ open
  /\ \A j \in Jobs : outcome[j] # "pending"
  /\ open' = FALSE
  /\ UNCHANGED <<outcome, interrupted>>

Next ==
  \/ Interrupt
  \/ \E j \in Jobs, answer \in Answers : Settle(j, answer)
  \/ Abandon
  \/ Return

Spec == Init /\ [][Next]_vars /\ WF_vars(Return)
=============================================================================
