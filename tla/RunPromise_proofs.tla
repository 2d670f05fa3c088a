------------------------- MODULE RunPromise_proofs -------------------------
(***************************************************************************)
(* What a run tells its caller, for every plan: identical jobs tell one    *)
(* story, every surface is accounted for, the totals agree with the jobs,  *)
(* and each step of the scheduler is a step of RunPromise or a stutter.    *)
(***************************************************************************)
EXTENDS ScanRun_proofs

Recorded == reports \cup failedScans \cup unscanned

\* What a job has recorded: nothing before it ends, but for a scan that failed part way
\* and whose report is still to come; and then what its flight, landed by then, ended as.
StoryOf(j) ==
  /\ pc[j] \notin Ended \cup {"keep"} => j \notin Recorded
  /\ pc[j] = "keep" => /\ j \in failedScans /\ j \notin reports \cup unscanned
                       /\ Flight(j).outcome = "partial"
  /\ pc[j] = "record" => Flight(j).outcome # "pending"
  /\ pc[j] \in {"ask", "lookup", "scan", "await", "record", "keep"} => Scanner[j] \in Registered
  /\ pc[j] = "unknown" => Scanner[j] \notin Registered
  /\ pc[j] \in Ended /\ j \in Recorded =>
       IF Scanner[j] \in Registered
       THEN /\ Flight(j).outcome # "pending"
            /\ j \in reports     <=> Flight(j).outcome \notin {"error", "missing"}
            /\ j \in failedScans <=> Flight(j).outcome \in Failures
            /\ j \in unscanned   <=> Flight(j).outcome \in {"error", "missing"}
       ELSE j \in failedScans /\ j \in unscanned /\ j \notin reports

\* Every job's story, the surfaces that are read, and, until the run is canceled, no job
\* left unlaunched.
StoryInv ==
  /\ ~canceled /\ main # "launching" => \A j \in Jobs : pc[j] # "planned"
  /\ \A j \in Jobs : StoryOf(j)
  /\ \A j \in reports : <<Component[j], Target[j]>> \in examined

Quiet == UNCHANGED <<reports, failedScans, unscanned, examined>>

-----------------------------------------------------------------------------
(* Stories.                                                                 *)

\* A flight that has landed stays as it is, whoever goes on.
LEMMA LandedStays ==
  ASSUME TypeOK, FlightInv, NEW j \in Jobs, Job(j), NEW k \in Jobs, Flight(k).outcome # "pending"
  PROVE  flights'[Ident[k]] = flights[Ident[k]]
<1> USE DEF context, waiting, record, display
<1>1. Ident[k] \in Idents /\ Ident[j] \in Idents
  BY DEF Idents
<1>2. CASE Lead(j)
  BY <1>1, <1>2 DEF Lead, Flight, FlightInv, TypeOK
<1>3. CASE CacheHit(j) \/ ScanFails(j) \/ ScanSucceeds(j)
  <2>1. pc[j] \in {"lookup", "scan"} /\ \E o : Land(j, o)
    BY <1>3 DEF CacheHit, ScanFails, ScanSucceeds, Goto
  <2>2. Flight(j).outcome = "pending"
    BY <2>1 DEF FlightInv, OneScanPerIdentity
  <2> QED BY <1>1, <2>1, <2>2 DEF Land, Flight, TypeOK
<1>4. CASE flights' = flights
  BY <1>4
<1> QED
  BY <1>2, <1>3, <1>4 DEF Job, WaitToRead, TakeResource, BlockOnResource, LeaveResource,
     PassGate, ReserveTurn, TurnComes, LeaveGate, TakeSlot, Follow, Await, CacheMiss,
     UnknownScanner, RecordFailure, RecordReport, Complete, ReleaseSlot, ReleaseResource,
     CloseFinished

\* A job's step records nothing for any other job.
LEMMA OthersRecords ==
  ASSUME NEW j \in Jobs, Job(j), NEW k \in Jobs, k # j
  PROVE  /\ k \in reports' <=> k \in reports
         /\ k \in failedScans' <=> k \in failedScans
         /\ k \in unscanned' <=> k \in unscanned
         /\ examined \subseteq examined'
<1> USE DEF record
<1>1. CASE UnknownScanner(j) \/ RecordFailure(j) \/ RecordReport(j)
  BY <1>1 DEF UnknownScanner, RecordFailure, RecordReport
<1>2. CASE Quiet
  BY <1>2 DEF Quiet
<1> QED
  BY <1>1, <1>2 DEF Job, WaitToRead, TakeResource, BlockOnResource, LeaveResource,
     PassGate, ReserveTurn, TurnComes, LeaveGate, TakeSlot, Lead, Follow, CacheHit, CacheMiss,
     ScanFails, ScanSucceeds, Await, Complete, ReleaseSlot, ReleaseResource, CloseFinished, Quiet

\* The story of the job that moves.
LEMMA OwnStory ==
  ASSUME TypeOK, FlightInv, NEW j \in Jobs, Job(j), StoryOf(j)
  PROVE  StoryOf(j)'
<1> USE DEF context, waiting, record, display
<1>1. Ident[j] \in Idents
  BY DEF Idents
<1>2. \A from, to : Goto(j, from, to) => pc[j] = from /\ pc'[j] = to
  BY DEF Goto, TypeOK
<1>3. ASSUME NEW from, NEW to, Goto(j, from, to), Quiet, flights' = flights,
             from \notin Ended \cup {"keep"},
             to \notin {"record", "keep", "ask", "lookup", "scan", "await", "unknown"}
      PROVE  StoryOf(j)'
  BY <1>2, <1>3 DEF Quiet, StoryOf, Recorded, Flight
<1>4. CASE WaitToRead(j) \/ TakeResource(j) \/ BlockOnResource(j) \/ LeaveResource(j)
  BY <1>3, <1>4 DEF WaitToRead, TakeResource, BlockOnResource, LeaveResource, Ended, Quiet
<1>5. CASE PassGate(j) \/ ReserveTurn(j) \/ TurnComes(j) \/ LeaveGate(j)
  BY <1>3, <1>5 DEF PassGate, ReserveTurn, TurnComes, LeaveGate, Ended, Quiet
<1>6. CASE TakeSlot(j) \/ Lead(j) \/ Follow(j) \/ CacheMiss(j) \/ Await(j)
  <2>1. j \notin Recorded /\ UNCHANGED record
    BY <1>2, <1>6 DEF TakeSlot, Lead, Follow, CacheMiss, Await, StoryOf, Ended
  <2>2. pc'[j] \in {"ask", "lookup", "scan", "await", "record"} => Scanner[j] \in Registered
    BY <1>2, <1>6 DEF TakeSlot, Lead, Follow, CacheMiss, Await, StoryOf
  <2>3. pc'[j] = "unknown" => Scanner[j] \notin Registered
    BY <1>2, <1>6 DEF TakeSlot, Lead, Follow, CacheMiss, Await
  <2>4. pc'[j] = "record" => Flight(j).outcome # "pending" /\ flights' = flights
    BY <1>2, <1>6 DEF TakeSlot, Lead, Follow, CacheMiss, Await
  <2>5. pc'[j] \in {"ask", "lookup", "scan", "await", "record", "unknown"}
    BY <1>2, <1>6 DEF TakeSlot, Lead, Follow, CacheMiss, Await
  <2> QED BY <2>1, <2>2, <2>3, <2>4, <2>5 DEF StoryOf, Recorded, Flight, Ended
<1>7. CASE CacheHit(j) \/ ScanFails(j) \/ ScanSucceeds(j)
  <2>1. pc[j] \in {"lookup", "scan"} /\ pc'[j] = "record" /\ UNCHANGED record
    BY <1>2, <1>7 DEF CacheHit, ScanFails, ScanSucceeds
  <2>2. \E o \in Outcomes : Land(j, o)
    BY <1>7 DEF CacheHit, ScanFails, ScanSucceeds, Outcomes
  <2>3. Flight(j).outcome' # "pending"
    BY <1>1, <2>2 DEF Land, Flight, TypeOK, Outcomes, Failures
  <2> QED BY <2>1, <2>3 DEF StoryOf, Recorded, Flight, Ended
<1>8. CASE UnknownScanner(j)
  BY <1>2, <1>8 DEF UnknownScanner, StoryOf, Recorded, Ended
<1>9. CASE RecordFailure(j)
  BY <1>2, <1>9 DEF RecordFailure, StoryOf, Recorded, Ended, Flight, Failures
<1>10. CASE RecordReport(j)
  BY <1>2, <1>10 DEF RecordReport, StoryOf, Recorded, Ended, Flight, Failures
<1>11. CASE Complete(j) \/ ReleaseSlot(j) \/ ReleaseResource(j) \/ CloseFinished(j)
  BY <1>2, <1>11 DEF Complete, ReleaseSlot, ReleaseResource, CloseFinished, StoryOf, Recorded,
     Ended, Flight
<1> QED BY <1>4, <1>5, <1>6, <1>7, <1>8, <1>9, <1>10, <1>11 DEF Job

LEMMA StepStories ==
  ASSUME TypeOK, LaunchInv, FlightInv, StoryInv, [Next]_vars
  PROVE  StoryInv'
<1> USE DEF context, waiting, record, display
<1>1. CASE Launch
  <2>1. next \in Jobs /\ Goto(next, "planned", "order") /\ UNCHANGED <<record, flights>>
    BY <1>1 DEF Launch, LaunchInv, Goto, Jobs
  <2>2. /\ pc[next] = "planned" /\ pc'[next] = "order"
        /\ \A k \in Jobs : k # next => pc'[k] = pc[k]
    BY <2>1, Moves DEF Stages
  <2>3. main' # "launching" => \A k \in Jobs : pc'[k] # "planned"
    <3>1. main' # "launching" => \A k \in Jobs : k <= next
      BY <1>1 DEF Launch, Jobs
    <3>2. \A k \in Jobs : k <= next /\ k # next => pc[k] # "planned"
      BY <2>1 DEF LaunchInv, Jobs
    <3> QED BY <2>2, <3>1, <3>2
  <2> QED BY <2>1, <2>2, <2>3 DEF StoryInv, StoryOf, Recorded, Flight, Ended
<1>2. CASE Cancel \/ StopLaunching \/ Return \/ Returned \/ UNCHANGED vars
  BY <1>2 DEF Cancel, StopLaunching, Return, Returned, vars, StoryInv, StoryOf, Recorded, Flight
<1>3. ASSUME NEW j \in Jobs, Job(j) PROVE StoryInv'
  <2>1. ASSUME NEW k \in Jobs PROVE StoryOf(k)'
    <3>1. CASE k = j
      BY <1>3, <3>1, OwnStory DEF StoryInv
    <3>2. CASE k # j
      <4>1. pc'[k] = pc[k]
        BY <1>3, <3>2, JobMoves, Moves
      <4>2. Flight(k).outcome # "pending" => flights'[Ident[k]] = flights[Ident[k]]
        BY <1>3, LandedStays
      <4>3. StoryOf(k)
        BY DEF StoryInv
      <4>4. /\ k \in reports' <=> k \in reports
            /\ k \in failedScans' <=> k \in failedScans
            /\ k \in unscanned' <=> k \in unscanned
        BY <1>3, <3>2, OthersRecords
      <4> QED BY <4>1, <4>2, <4>3, <4>4 DEF StoryOf, Recorded, Flight
    <3> QED BY <3>1, <3>2
  <2>2. ASSUME NEW k \in reports' PROVE <<Component[k], Target[k]>> \in examined'
    <3>1. CASE RecordReport(j)
      BY <2>2, <3>1 DEF RecordReport, StoryInv
    <3>2. CASE UNCHANGED <<reports, examined>>
      BY <2>2, <3>2 DEF StoryInv
    <3> QED
      BY <1>3, <3>1, <3>2 DEF Job, WaitToRead, TakeResource, BlockOnResource, LeaveResource,
         PassGate, ReserveTurn, TurnComes, LeaveGate, TakeSlot, Lead, Follow, CacheHit,
         CacheMiss, ScanFails, ScanSucceeds, Await, UnknownScanner, RecordFailure, Complete,
         ReleaseSlot, ReleaseResource, CloseFinished
  <2>3. UNCHANGED <<canceled, main>> /\ \A k \in Jobs : pc[k] # "planned" => pc'[k] # "planned"
    BY <1>3, JobContext, JobMoves, Moves
  <2> QED BY <2>1, <2>2, <2>3 DEF StoryInv
<1> QED BY <1>1, <1>2, <1>3 DEF Next, Main

LEMMA InitStories == Init => StoryInv
BY DEF Init, StoryInv, StoryOf, Recorded, Ended

\* Every reachable state tells a story of each of its jobs.
THEOREM Stories == Spec => []StoryInv
<1>1. IInv /\ StoryInv /\ [Next]_vars => StoryInv'
  BY StepStories DEF IInv
<1> QED BY <1>1, InitStories, Invariance, PTL DEF Spec

\* Identical jobs that went through the scan are reported alike, whichever flew it and
\* whichever only shared it.
THEOREM AnswersShared == Spec => []SharedAnswer
<1>1. TypeOK /\ StoryInv => SharedAnswer
  <2> SUFFICES ASSUME TypeOK, StoryInv, NEW j \in Jobs, NEW k \in Jobs, Ident[j] = Ident[k],
                      pc[j] \in Ended, pc[k] \in Ended,
                      j \in reports \cup failedScans, k \in reports \cup failedScans
               PROVE  /\ j \in reports <=> k \in reports
                      /\ j \in failedScans <=> k \in failedScans
                      /\ j \in unscanned <=> k \in unscanned
    BY DEF SharedAnswer
  <2>1. Scanner[j] = Scanner[k] /\ Flight(j) = Flight(k)
    BY IdentityAssumption DEF Flight
  <2>2. StoryOf(j) /\ StoryOf(k)
    BY DEF StoryInv
  <2> QED BY <2>1, <2>2 DEF StoryOf, Recorded
<1> QED BY <1>1, TypeCorrect, Stories, PTL

\* A run nobody canceled accounts for every surface, whatever failed and whoever shared it.
THEOREM CoverageTold == Spec => []CoverageIsTold
<1>1. IInv /\ StoryInv /\ FailureInv /\ FailureReachesControl => CoverageIsTold
  <2> SUFFICES ASSUME IInv, StoryInv, FailureInv, FailureReachesControl,
                      main = "returned", ~canceled, NEW j \in Jobs
               PROVE  LET surface == <<Component[j], Target[j]>>
                      IN  /\ surface \in examined \cup TrulyUnscanned
                          /\ (\A c \in Controls : ctlErrs[c] = {}) => surface \in examined
    BY DEF CoverageIsTold
  <2>1. pc[j] = "done"
    BY DEF FailureInv, StoryInv
  <2>2. j \in reports \cup failedScans
    BY <2>1 DEF IInv, OrderInv, Ended
  <2>3. j \in reports => <<Component[j], Target[j]>> \in examined
    BY DEF StoryInv
  <2>4. j \in failedScans /\ j \notin reports => j \in unscanned
    BY <2>1 DEF StoryInv, StoryOf, Recorded, Ended, Failures
  <2>5. j \in failedScans => \E k \in Jobs : k \in ctlErrs[Control[k]] /\ Control[k] \in Controls
    BY DEF FailureReachesControl, Controls
  <2> QED BY <2>2, <2>3, <2>4, <2>5 DEF TrulyUnscanned
<1> QED BY <1>1, Invariance, Stories, FailuresTraced, FailuresReported, PTL

-----------------------------------------------------------------------------
(* The refinement: each step of the scheduler is one of RunPromise's, or none. *)

\* How a job with a story ended, from its flight alone.
AnswerOf(j) ==
  CASE Scanner[j] \notin Registered \/ Flight(j).outcome \in {"error", "missing"} -> "unread"
    [] Scanner[j] \in Registered /\ Flight(j).outcome = "partial" -> "part"
    [] OTHER -> "read"

LEMMA EndedAsTold ==
  ASSUME NEW j \in Jobs, StoryOf(j)
  PROVE  OutcomeOf(j) \in Promise!Answers => OutcomeOf(j) = AnswerOf(j)
BY DEF OutcomeOf, StoryOf, Recorded, AnswerOf, Ended, Failures, Promise!Answers

LEMMA EndsAsTold ==
  ASSUME NEW j \in Jobs, StoryOf(j)'
  PROVE  (OutcomeOf(j) \in Promise!Answers)' => OutcomeOf(j)' = AnswerOf(j)'
BY DEF OutcomeOf, StoryOf, Recorded, AnswerOf, Ended, Failures, Promise!Answers

\* A step that leaves every outcome alone is a stutter.
LEMMA Stutters ==
  ASSUME UNCHANGED canceled, (main # "returned") = (main' # "returned"),
         \A k \in Jobs : OutcomeOf(k)' = OutcomeOf(k)
  PROVE  UNCHANGED Promise!vars
BY DEF Promise!vars

\* The outcomes of the other jobs stay when one moves, and so does the rest.
LEMMA OthersOutcomes ==
  ASSUME TypeOK, NEW j \in Jobs, Job(j)
  PROVE  /\ UNCHANGED <<canceled, main>>
         /\ \A k \in Jobs : k # j => OutcomeOf(k)' = OutcomeOf(k)
<1>1. UNCHANGED <<canceled, main>>
  BY JobContext DEF context
<1>2. ASSUME NEW k \in Jobs, k # j PROVE OutcomeOf(k)' = OutcomeOf(k)
  <2>1. pc'[k] = pc[k]
    BY <1>2, JobMoves, Moves
  <2>2. /\ k \in reports' <=> k \in reports
        /\ k \in failedScans' <=> k \in failedScans
    BY <1>2, OthersRecords
  <2> QED BY <1>1, <2>1, <2>2 DEF OutcomeOf
<1> QED BY <1>1, <1>2

\* A job that ends with a record settles, as every job of its identity did before it.
LEMMA RecordedSettles ==
  ASSUME TypeOK, StoryInv, StoryInv', NEW j \in Jobs, Job(j), flights' = flights,
         main # "returned", OutcomeOf(j) = "pending", OutcomeOf(j)' \in Promise!Answers
  PROVE  \E answer \in Promise!Answers : Promise!Settle(j, answer)
<1> DEFINE answer == OutcomeOf(j)'
<1>1. answer = AnswerOf(j)
  BY EndsAsTold DEF StoryInv, AnswerOf, Flight, Promise!Answers
<1>2. ASSUME NEW k \in Jobs, OutcomeOf(k) \in Promise!Answers, Ident[k] = Ident[j]
      PROVE  OutcomeOf(k) = answer
  <2>1. OutcomeOf(k) = AnswerOf(k)
    BY <1>2, EndedAsTold DEF StoryInv
  <2>2. Scanner[k] = Scanner[j] /\ Flight(k) = Flight(j)
    BY <1>2, IdentityAssumption DEF Flight
  <2> QED BY <1>1, <2>1, <2>2 DEF AnswerOf
<1>3. [k \in Jobs |-> OutcomeOf(k)]' = [[k \in Jobs |-> OutcomeOf(k)] EXCEPT ![j] = answer]
  BY OthersOutcomes
<1>4. UNCHANGED <<canceled, main>>
  BY OthersOutcomes
<1>5. Promise!Settle(j, answer)
  BY <1>2, <1>3, <1>4 DEF Promise!Settle, Promise!Settled
<1> QED BY <1>5

\* A job that leaves without a record does so in a canceled run, which gives it up.
LEMMA LeavingAbandons ==
  ASSUME TypeOK, NEW j \in Jobs, Job(j), canceled, main # "returned",
         OutcomeOf(j) = "pending", OutcomeOf(j)' = "abandoned"
  PROVE  Promise!Abandon
<1>1. [k \in Jobs |-> OutcomeOf(k)]' = [k \in Jobs |-> IF k \in {j} THEN "abandoned" ELSE OutcomeOf(k)]
  BY OthersOutcomes
<1>2. {j} \in SUBSET {k \in Jobs : OutcomeOf(k) = "pending"}
  OBVIOUS
<1>3. UNCHANGED <<canceled, main>>
  BY OthersOutcomes
<1> QED BY <1>1, <1>2, <1>3 DEF Promise!Abandon

LEMMA JobKeepsPromise ==
  ASSUME IInv, StoryInv, StoryInv', FailureInv, NEW j \in Jobs, Job(j)
  PROVE  [Promise!Next]_(Promise!vars)
<1> USE DEF context, waiting, record, display
<1>1. TypeOK /\ (\A from, to : Goto(j, from, to) => pc[j] = from /\ pc'[j] = to)
  BY DEF IInv, Goto, TypeOK
<1>2. main # "returned"
  <2>1. pc[j] \notin {"planned", "done"}
    BY <1>1 DEF Job, WaitToRead, TakeResource, BlockOnResource, LeaveResource, PassGate,
       ReserveTurn, TurnComes, LeaveGate, TakeSlot, Lead, Follow, CacheHit, CacheMiss, ScanFails,
       ScanSucceeds, Await, UnknownScanner, RecordFailure, RecordReport, Complete, ReleaseSlot,
       ReleaseResource, CloseFinished
  <2> QED BY <2>1 DEF FailureInv
<1>3. ASSUME OutcomeOf(j)' = OutcomeOf(j) PROVE UNCHANGED Promise!vars
  BY <1>1, <1>3, OthersOutcomes, Stutters
<1>4. CASE WaitToRead(j) \/ TakeResource(j) \/ BlockOnResource(j) \/ PassGate(j) \/ ReserveTurn(j)
  BY <1>1, <1>3, <1>4 DEF WaitToRead, TakeResource, BlockOnResource, PassGate, ReserveTurn,
     OutcomeOf, Ended
<1>5. CASE TurnComes(j) \/ TakeSlot(j) \/ Lead(j) \/ Follow(j) \/ CacheHit(j) \/ CacheMiss(j)
  BY <1>1, <1>3, <1>5 DEF TurnComes, TakeSlot, Lead, Follow, CacheHit, CacheMiss, OutcomeOf, Ended
<1>6. CASE ScanFails(j) \/ ScanSucceeds(j) \/ Await(j)
  BY <1>1, <1>3, <1>6 DEF ScanFails, ScanSucceeds, Await, OutcomeOf, Ended
<1>7. CASE LeaveResource(j) \/ LeaveGate(j)
  <2>1. canceled /\ OutcomeOf(j) = "pending" /\ pc'[j] \in Ended /\ UNCHANGED record
    BY <1>1, <1>7 DEF LeaveResource, LeaveGate, OutcomeOf, Ended
  <2>2. j \notin Recorded
    BY <1>1, <1>7 DEF LeaveResource, LeaveGate, StoryInv, StoryOf, Ended
  <2>3. OutcomeOf(j)' = "abandoned"
    BY <2>1, <2>2 DEF OutcomeOf, Recorded, Ended
  <2> QED BY <1>1, <1>2, <2>1, <2>3, LeavingAbandons DEF Promise!Next
<1>8. CASE UnknownScanner(j) \/ RecordFailure(j) \/ RecordReport(j)
  <2>1. OutcomeOf(j) = "pending" /\ flights' = flights
    BY <1>1, <1>8 DEF UnknownScanner, RecordFailure, RecordReport, OutcomeOf, Ended
  <2>2. pc'[j] = "keep" \/ (pc'[j] = "complete" /\ j \in reports' \cup failedScans')
    BY <1>1, <1>8 DEF UnknownScanner, RecordFailure, RecordReport
  <2>3. OutcomeOf(j)' \in {"pending"} \cup Promise!Answers
    BY <2>2 DEF OutcomeOf, Ended, Promise!Answers
  <2> QED BY <1>1, <1>2, <1>3, <2>1, <2>3, RecordedSettles DEF Promise!Next
<1>9. CASE Complete(j) \/ ReleaseSlot(j) \/ ReleaseResource(j) \/ CloseFinished(j)
  BY <1>1, <1>3, <1>9 DEF Complete, ReleaseSlot, ReleaseResource, CloseFinished, OutcomeOf, Ended
<1> QED BY <1>4, <1>5, <1>6, <1>7, <1>8, <1>9 DEF Job

LEMMA StepKeepsPromise ==
  ASSUME IInv, StoryInv, StoryInv', FailureInv, [Next]_vars
  PROVE  [Promise!Next]_(Promise!vars)
<1> USE DEF context, waiting, record, display
<1>1. CASE Cancel
  <2>1. \A k \in Jobs : OutcomeOf(k)' = OutcomeOf(k)
    BY <1>1 DEF Cancel, OutcomeOf
  <2> QED BY <1>1, <2>1 DEF Cancel, Promise!Next, Promise!Interrupt
<1>2. CASE Launch
  <2>1. next \in Jobs /\ Goto(next, "planned", "order")
    BY <1>2 DEF Launch, IInv, LaunchInv, Goto, Jobs
  <2>2. /\ pc[next] = "planned" /\ pc'[next] = "order"
        /\ \A k \in Jobs : k # next => pc'[k] = pc[k]
    BY <2>1, Moves DEF Stages, IInv
  <2>3. main' # "launching" => \A k \in Jobs : pc'[k] # "planned"
    <3>1. UNCHANGED canceled /\ ~canceled
      BY <1>2 DEF Launch
    <3> QED BY <3>1 DEF StoryInv
  <2>4. \A k \in Jobs : OutcomeOf(k)' = OutcomeOf(k)
    BY <1>2, <2>2, <2>3 DEF Launch, OutcomeOf, Ended
  <2>5. UNCHANGED canceled /\ main # "returned" /\ main' # "returned"
    BY <1>2 DEF Launch
  <2> QED BY <2>4, <2>5, Stutters
<1>3. CASE StopLaunching
  <2> DEFINE S == {k \in Jobs : pc[k] = "planned"}
  <2>1. S \in SUBSET {k \in Jobs : OutcomeOf(k) = "pending"}
    BY <1>3 DEF StopLaunching, OutcomeOf, Ended
  <2>2. \A k \in Jobs : OutcomeOf(k)' = IF k \in S THEN "abandoned" ELSE OutcomeOf(k)
    BY <1>3 DEF StopLaunching, OutcomeOf, Ended
  <2>3. [k \in Jobs |-> OutcomeOf(k)]' = [k \in Jobs |-> IF k \in S THEN "abandoned" ELSE OutcomeOf(k)]
    BY <2>2
  <2>4. canceled /\ UNCHANGED canceled /\ main # "returned" /\ main' # "returned"
    BY <1>3 DEF StopLaunching
  <2> QED BY <2>1, <2>3, <2>4 DEF Promise!Next, Promise!Abandon
<1>4. CASE Return
  <2>1. UNCHANGED canceled /\ main # "returned" /\ main' = "returned"
    BY <1>4 DEF Return
  <2>2. \A k \in Jobs : OutcomeOf(k)' = OutcomeOf(k)
    BY <1>4 DEF Return, OutcomeOf
  <2>3. \A k \in Jobs : pc[k] \in {"planned", "done"}
    BY <1>4 DEF Return, IInv, LaunchInv, TypeOK, Jobs
  <2>4. \A k \in Jobs : OutcomeOf(k) # "pending"
    BY <1>4, <2>3 DEF Return, OutcomeOf, Ended
  <2> QED BY <2>1, <2>2, <2>4 DEF Promise!Next, Promise!Return
<1>5. CASE Returned \/ UNCHANGED vars
  BY <1>5, Stutters DEF Returned, vars, OutcomeOf
<1>6. ASSUME NEW j \in Jobs, Job(j) PROVE [Promise!Next]_(Promise!vars)
  BY <1>6, JobKeepsPromise
<1> QED BY <1>1, <1>2, <1>3, <1>4, <1>5, <1>6 DEF Next, Main

\* The scheduler keeps its promise to its caller, but for returning at all: every job ends
\* once, jobs with one identity alike, and only an interrupted run gives any of them up.
THEOREM PromiseKept == Spec => Promise!Init /\ [][Promise!Next]_(Promise!vars)
<1>1. Init => Promise!Init
  <2> SUFFICES ASSUME Init PROVE Promise!Init
    OBVIOUS
  <2>1. \A j \in Jobs : OutcomeOf(j) = "pending"
    BY DEF Init, OutcomeOf, Ended
  <2>2. canceled \in BOOLEAN /\ main # "returned"
    BY DEF Init
  <2> QED BY <2>1, <2>2 DEF Promise!Init
<1>2. IInv /\ StoryInv /\ StoryInv' /\ FailureInv /\ [Next]_vars => [Promise!Next]_(Promise!vars)
  BY StepKeepsPromise
<1> QED BY <1>1, <1>2, Invariance, Stories, FailuresTraced, PTL DEF Spec

-----------------------------------------------------------------------------
(* The totals: each counter is the number of some jobs, which a step changes  *)
(* by the one job that moves.                                                 *)

Stopped      == {j \in Jobs : pc[j] \in Ended \ {"complete"} /\ j \in reports \cup failedScans}
Flown        == {j \in reports : Flight(j).by = j}
Erring       == errs \cap Jobs
AtStep(S, s) == {j \in S : Step(j) = s}

TotalsInv ==
  /\ \A j \in Jobs : pc[j] = "complete" => j \in reports \cup failedScans
  /\ Erring \subseteq failedScans
  /\ stats.scans + stats.hits + stats.deduped = Cardinality(reports)
  /\ stats.scans + stats.hits = Cardinality(Flown)
  /\ complete = Cardinality(Stopped)
  /\ \A s \in DOMAIN steps : /\ steps[s].running = Cardinality(AtStep(running, s))
                             /\ steps[s].done    = Cardinality(AtStep(Stopped, s))
                             /\ steps[s].failed  = Cardinality(AtStep(Erring, s))

LEMMA OneMore ==
  ASSUME NEW S \in SUBSET Jobs, NEW j \in Jobs, j \notin S
  PROVE  /\ Cardinality(S) \in Nat /\ Cardinality(S \cup {j}) = Cardinality(S) + 1
         /\ \A s : /\ Cardinality(AtStep(S, s)) \in Nat
                   /\ Cardinality(AtStep(S \cup {j}, s)) =
                        Cardinality(AtStep(S, s)) + (IF Step(j) = s THEN 1 ELSE 0)
<1>1. IsFiniteSet(S) /\ \A s : IsFiniteSet(AtStep(S, s))
  BY JobsFinite, FS_Subset DEF AtStep
<1>2. ASSUME NEW s
      PROVE  /\ Step(j) = s => j \notin AtStep(S, s) /\ AtStep(S \cup {j}, s) = AtStep(S, s) \cup {j}
             /\ Step(j) # s => AtStep(S \cup {j}, s) = AtStep(S, s)
  BY DEF AtStep
<1>3. Cardinality(S) \in Nat /\ Cardinality(S \cup {j}) = Cardinality(S) + 1
  BY <1>1, FS_AddElement, FS_CardinalityType
<1>4. ASSUME NEW s
      PROVE  /\ Cardinality(AtStep(S, s)) \in Nat
             /\ Cardinality(AtStep(S \cup {j}, s)) =
                  Cardinality(AtStep(S, s)) + (IF Step(j) = s THEN 1 ELSE 0)
  <2>1. Cardinality(AtStep(S, s)) \in Nat
    BY <1>1, FS_CardinalityType
  <2>2. CASE Step(j) = s
    <3>1. j \notin AtStep(S, s) /\ AtStep(S \cup {j}, s) = AtStep(S, s) \cup {j}
      BY <1>2, <2>2
    <3>2. Cardinality(AtStep(S, s) \cup {j}) = Cardinality(AtStep(S, s)) + 1
      BY <1>1, <3>1, FS_AddElement
    <3> QED BY <2>1, <2>2, <3>1, <3>2
  <2>3. CASE Step(j) # s
    BY <1>2, <2>1, <2>3
  <2> QED BY <2>1, <2>2, <2>3
<1> QED BY <1>3, <1>4

\* Counts that no step of this kind moves.
LEMMA TotalsStay ==
  ASSUME TotalsInv, UNCHANGED <<reports, failedScans, stats, complete, steps, running>>,
         Erring' = Erring, Flown' = Flown, Stopped' = Stopped,
         \A k \in Jobs : pc'[k] = "complete" => k \in reports \cup failedScans
  PROVE  TotalsInv'
BY DEF TotalsInv, AtStep

\* Who flew a recorded report is settled, whoever moves.
LEMMA FlownStays ==
  ASSUME TypeOK, FlightInv, StoryInv, NEW j \in Jobs, Job(j), reports' = reports
  PROVE  Flown' = Flown
<1>1. ASSUME NEW k \in reports PROVE flights'[Ident[k]] = flights[Ident[k]]
  <2>1. k \in Jobs /\ StoryOf(k) /\ k \in Recorded
    BY DEF TypeOK, StoryInv, Recorded
  <2>2. Flight(k).outcome # "pending"
    BY <2>1 DEF StoryOf, Recorded
  <2> QED BY <2>1, <2>2, LandedStays
<1> QED BY <1>1 DEF Flown, Flight

LEMMA JobTotals ==
  ASSUME IInv, StoryInv, TotalsInv, NEW j \in Jobs, Job(j)
  PROVE  TotalsInv'
<1> USE DEF context, waiting, record, display
<1>1. TypeOK /\ FlightInv /\ (\A from, to : Goto(j, from, to) => pc[j] = from /\ pc'[j] = to)
  BY DEF IInv, Goto, TypeOK
<1>2. \A k \in Jobs : k # j => pc'[k] = pc[k]
  BY <1>1, JobMoves, Moves
<1>3. \A k \in Jobs : k # j => /\ k \in reports' <=> k \in reports
                              /\ k \in failedScans' <=> k \in failedScans
  BY OthersRecords
<1>4. running \subseteq Jobs /\ reports \subseteq Jobs /\ Erring \subseteq Jobs /\ Stopped \subseteq Jobs
      /\ Flown \subseteq Jobs
  BY <1>1 DEF TypeOK, Erring, Stopped, Flown
<1>5. j \in running <=> pc[j] \in Slotted \ {"unslot"}
  BY DEF IInv, SlotInv, Within
<1>6. StoryOf(j)
  BY DEF StoryInv
<1>7. Step(j) \in DOMAIN steps /\ DOMAIN steps = {Step(k) : k \in Jobs}
      /\ \A s \in DOMAIN steps : steps[s] \in Counters
  BY <1>1 DEF TypeOK
<1>8. ASSUME UNCHANGED <<reports, failedScans, errs, stats, complete, steps, running>>,
             pc'[j] # "complete", pc[j] \in Ended \ {"complete"} \/ j \notin Recorded,
             pc[j] \in Ended => pc'[j] \in Ended
      PROVE  TotalsInv'
  <2>1. Flown' = Flown /\ Erring' = Erring
    BY <1>1, <1>8, FlownStays DEF Erring
  <2>2. Stopped' = Stopped
    BY <1>2, <1>8 DEF Stopped, Recorded
  <2>3. \A k \in Jobs : pc'[k] = "complete" => k \in reports \cup failedScans
    BY <1>2, <1>8 DEF TotalsInv
  <2> QED BY <1>8, <2>1, <2>2, <2>3, TotalsStay
<1>9. CASE WaitToRead(j) \/ TakeResource(j) \/ BlockOnResource(j) \/ LeaveResource(j) \/ PassGate(j)
  BY <1>1, <1>6, <1>8, <1>9 DEF WaitToRead, TakeResource, BlockOnResource, LeaveResource, PassGate,
     StoryOf, Ended
<1>10. CASE ReserveTurn(j) \/ TurnComes(j) \/ LeaveGate(j) \/ Lead(j) \/ Follow(j) \/ CacheHit(j)
  BY <1>1, <1>6, <1>8, <1>10 DEF ReserveTurn, TurnComes, LeaveGate, Lead, Follow, CacheHit,
     StoryOf, Ended
<1>11. CASE CacheMiss(j) \/ ScanFails(j) \/ ScanSucceeds(j) \/ Await(j)
  BY <1>1, <1>6, <1>8, <1>11 DEF CacheMiss, ScanFails, ScanSucceeds, Await, StoryOf, Ended
<1>12. CASE ReleaseSlot(j) \/ ReleaseResource(j) \/ CloseFinished(j)
  BY <1>1, <1>8, <1>12 DEF ReleaseSlot, ReleaseResource, CloseFinished, Ended
<1>13. CASE TakeSlot(j)
  <2>1. j \notin running /\ running' = running \cup {j}
    BY <1>1, <1>5, <1>13 DEF TakeSlot, Slotted
  <2>2. \A s \in DOMAIN steps :
          /\ steps'[s].running = steps[s].running + (IF Step(j) = s THEN 1 ELSE 0)
          /\ steps'[s].done = steps[s].done /\ steps'[s].failed = steps[s].failed
    BY <1>7, <1>13 DEF TakeSlot, Counters
  <2>3. DOMAIN steps' = DOMAIN steps
    BY <1>13 DEF TakeSlot
  <2>4. \A s \in DOMAIN steps : steps'[s].running = Cardinality(AtStep(running', s))
    <3>1. running \in SUBSET Jobs
      BY <1>4
    <3>2. \A s : Cardinality(AtStep(running \cup {j}, s)) =
                   Cardinality(AtStep(running, s)) + (IF Step(j) = s THEN 1 ELSE 0)
      BY <2>1, <3>1, OneMore
    <3> QED BY <2>1, <2>2, <3>2 DEF TotalsInv
  <2>5. UNCHANGED <<reports, failedScans, errs, stats, complete>>
    BY <1>13 DEF TakeSlot
  <2>6. Flown' = Flown /\ Erring' = Erring
    BY <1>1, <2>5, FlownStays DEF Erring
  <2>7. Stopped' = Stopped
    BY <1>1, <1>2, <1>13, <2>5 DEF TakeSlot, Stopped, Ended
  <2>8. \A k \in Jobs : pc'[k] = "complete" => k \in reports \cup failedScans
    BY <1>1, <1>2, <1>13 DEF TakeSlot, TotalsInv
  <2> QED BY <2>2, <2>3, <2>4, <2>5, <2>6, <2>7, <2>8 DEF TotalsInv, AtStep
<1>14. CASE UnknownScanner(j) \/ RecordFailure(j)
  <2>1. pc[j] \in {"unknown", "record"} /\ pc'[j] \in {"keep", "complete"} /\ j \notin Recorded
    BY <1>1, <1>6, <1>14 DEF UnknownScanner, RecordFailure, StoryOf, Ended
  <2>2. UNCHANGED <<reports, stats, complete, running>> /\ failedScans' = failedScans \cup {j}
    BY <1>14 DEF UnknownScanner, RecordFailure
  <2>3. Flown' = Flown
    BY <1>1, <2>2, FlownStays
  <2>4. Stopped' = Stopped
    BY <1>2, <2>1, <2>2 DEF Stopped, Ended
  <2>5. \A k \in Jobs : pc'[k] = "complete" => k \in reports' \cup failedScans'
    BY <1>2, <2>1, <2>2 DEF TotalsInv
  <2>6. j \notin Erring
    BY <2>1 DEF TotalsInv, Recorded
  <2>7. CASE UNCHANGED <<errs, steps>>
    BY <2>2, <2>3, <2>4, <2>5, <2>7 DEF TotalsInv, AtStep, Erring
  <2>8. CASE CountFailure(j)
    <3>1. Erring' = Erring \cup {j} /\ Erring' \subseteq failedScans'
      BY <2>2, <2>8 DEF CountFailure, Erring, TotalsInv
    <3>2. \A s \in DOMAIN steps :
            /\ steps'[s].failed = steps[s].failed + (IF Step(j) = s THEN 1 ELSE 0)
            /\ steps'[s].done = steps[s].done /\ steps'[s].running = steps[s].running
      BY <1>7, <2>8 DEF CountFailure, Counters
    <3>3. DOMAIN steps' = DOMAIN steps
      BY <2>8 DEF CountFailure
    <3>4. \A s \in DOMAIN steps : steps'[s].failed = Cardinality(AtStep(Erring', s))
      <4>1. Erring \in SUBSET Jobs
        BY <1>4
      <4>2. \A s : Cardinality(AtStep(Erring \cup {j}, s)) =
                     Cardinality(AtStep(Erring, s)) + (IF Step(j) = s THEN 1 ELSE 0)
        BY <2>6, <4>1, OneMore
      <4> QED BY <3>1, <3>2, <4>2 DEF TotalsInv
    <3> QED BY <2>2, <2>3, <2>4, <2>5, <3>1, <3>2, <3>3, <3>4 DEF TotalsInv, AtStep
  <2> QED BY <1>14, <2>7, <2>8 DEF UnknownScanner, RecordFailure
<1>15. CASE RecordReport(j)
  <2>1. pc[j] \in {"record", "keep"} /\ pc'[j] = "complete" /\ j \notin reports
    BY <1>1, <1>6, <1>15 DEF RecordReport, StoryOf, Recorded, Ended
  <2>2. UNCHANGED <<failedScans, errs, complete, steps, running, flights>> /\ reports' = reports \cup {j}
    BY <1>15 DEF RecordReport
  <2>3. Stopped' = Stopped
    BY <1>2, <2>1, <2>2 DEF Stopped, Ended
  <2>4. \A k \in Jobs : pc'[k] = "complete" => k \in reports' \cup failedScans'
    BY <1>2, <2>1, <2>2 DEF TotalsInv
  <2>5. stats.scans \in Nat /\ stats.hits \in Nat /\ stats.deduped \in Nat
    BY <1>1 DEF TypeOK
  <2>6. /\ stats'.scans + stats'.hits + stats'.deduped = stats.scans + stats.hits + stats.deduped + 1
        /\ stats'.scans + stats'.hits = stats.scans + stats.hits + (IF Shared(j) THEN 0 ELSE 1)
    <3>1. CASE Shared(j)
      <4>1. stats' = [stats EXCEPT !.deduped = @ + 1]
        BY <1>15, <3>1 DEF RecordReport
      <4> QED BY <1>1, <2>5, <3>1, <4>1 DEF TypeOK
    <3>2. CASE ~Shared(j) /\ Flight(j).outcome = "cached"
      <4>1. stats' = [stats EXCEPT !.hits = @ + 1]
        BY <1>15, <3>2 DEF RecordReport
      <4> QED BY <1>1, <2>5, <3>2, <4>1 DEF TypeOK
    <3>3. CASE ~Shared(j) /\ Flight(j).outcome # "cached"
      <4>1. stats' = [stats EXCEPT !.scans = @ + 1]
        BY <1>15, <3>3 DEF RecordReport
      <4> QED BY <1>1, <2>5, <3>3, <4>1 DEF TypeOK
    <3> QED BY <3>1, <3>2, <3>3
  <2>7. Cardinality(reports') = Cardinality(reports) + 1
    BY <1>4, <2>1, <2>2, OneMore
  <2>8. Cardinality(Flown') = Cardinality(Flown) + (IF Shared(j) THEN 0 ELSE 1)
    <3>1. CASE Shared(j)
      <4>1. Flown' = Flown
        BY <2>2, <3>1 DEF Flown, Flight, Shared
      <4>2. Cardinality(Flown) \in Nat
        BY <1>4, <2>1, OneMore DEF Flown
      <4> QED BY <3>1, <4>1, <4>2
    <3>2. CASE ~Shared(j)
      <4>1. Flown' = Flown \cup {j} /\ j \notin Flown
        BY <2>1, <2>2, <3>2 DEF Flown, Flight, Shared
      <4> QED BY <1>4, <3>2, <4>1, OneMore
    <3> QED BY <3>1, <3>2
  <2>9. Erring' = Erring
    BY <2>2 DEF Erring
  <2> QED BY <2>2, <2>3, <2>4, <2>5, <2>6, <2>7, <2>8, <2>9 DEF TotalsInv, AtStep
<1>16. CASE Complete(j)
  <2>1. pc[j] = "complete" /\ pc'[j] = "unslot" /\ j \in running /\ running' = running \ {j}
    BY <1>1, <1>5, <1>16 DEF Complete, Slotted
  <2>2. UNCHANGED <<reports, failedScans, errs, stats, flights>> /\ complete' = complete + 1
    BY <1>16 DEF Complete
  <2>3. j \notin Stopped /\ Stopped' = Stopped \cup {j}
    BY <1>2, <2>1, <2>2 DEF Stopped, Ended, TotalsInv
  <2>4. Flown' = Flown /\ Erring' = Erring
    BY <1>1, <2>2, FlownStays DEF Erring
  <2>5. \A k \in Jobs : pc'[k] = "complete" => k \in reports' \cup failedScans'
    BY <1>2, <2>1, <2>2 DEF TotalsInv
  <2>6. complete' = Cardinality(Stopped')
    BY <1>4, <2>2, <2>3, OneMore DEF TotalsInv
  <2>7. \A s \in DOMAIN steps :
          Cardinality(AtStep(running, s)) =
            Cardinality(AtStep(running', s)) + (IF Step(j) = s THEN 1 ELSE 0)
          /\ Cardinality(AtStep(running', s)) \in Nat
    <3>1. running' \in SUBSET Jobs /\ j \notin running' /\ running = running' \cup {j}
      BY <1>4, <2>1
    <3> QED BY <3>1, OneMore
  <2>8. \A s \in DOMAIN steps :
          /\ steps'[s].running = IF Step(j) = s THEN IF steps[s].running > 0 THEN steps[s].running - 1
                                                    ELSE steps[s].running
                                 ELSE steps[s].running
          /\ steps'[s].done = steps[s].done + (IF Step(j) = s THEN 1 ELSE 0)
          /\ steps'[s].failed = steps[s].failed
    BY <1>7, <1>16 DEF Complete, Counters
  <2>9. DOMAIN steps' = DOMAIN steps
    BY <1>16 DEF Complete
  <2>10. \A s \in DOMAIN steps : steps'[s].running = Cardinality(AtStep(running', s))
    BY <2>7, <2>8 DEF TotalsInv
  <2>11. \A s \in DOMAIN steps : steps'[s].done = Cardinality(AtStep(Stopped', s))
    <3>1. Stopped \in SUBSET Jobs
      BY <1>4
    <3>2. \A s : Cardinality(AtStep(Stopped \cup {j}, s)) =
                   Cardinality(AtStep(Stopped, s)) + (IF Step(j) = s THEN 1 ELSE 0)
      BY <2>3, <3>1, OneMore
    <3> QED BY <2>3, <2>8, <3>2 DEF TotalsInv
  <2> QED BY <2>2, <2>4, <2>5, <2>6, <2>8, <2>9, <2>10, <2>11 DEF TotalsInv, AtStep
<1> QED BY <1>9, <1>10, <1>11, <1>12, <1>13, <1>14, <1>15, <1>16 DEF Job

LEMMA StepTotals ==
  ASSUME IInv, StoryInv, TotalsInv, [Next]_vars
  PROVE  TotalsInv'
<1> USE DEF context, waiting, record, display
<1>1. CASE Launch
  <2>1. next \in Jobs /\ Goto(next, "planned", "order")
    BY <1>1 DEF Launch, IInv, LaunchInv, Goto, Jobs
  <2>2. /\ pc[next] = "planned" /\ pc'[next] = "order"
        /\ \A k \in Jobs : k # next => pc'[k] = pc[k]
    BY <2>1, Moves DEF Stages, IInv
  <2>3. UNCHANGED <<record, display, flights>>
    BY <1>1 DEF Launch
  <2>4. Stopped' = Stopped /\ Flown' = Flown /\ Erring' = Erring
    BY <2>2, <2>3 DEF Stopped, Flown, Erring, Flight, Ended
  <2> QED BY <2>2, <2>3, <2>4, TotalsStay DEF TotalsInv
<1>2. CASE Return
  <2>1. Erring' = Erring
    <3>1. Interrupted \notin Jobs
      BY PlanAssumption DEF Interrupted, Jobs
    <3>2. errs' = errs \/ errs' = errs \cup {Interrupted}
      BY <1>2 DEF Return
    <3> QED BY <3>1, <3>2 DEF Erring
  <2>2. Stopped' = Stopped /\ Flown' = Flown
    BY <1>2 DEF Return, Stopped, Flown, Flight
  <2> QED BY <1>2, <2>1, <2>2, TotalsStay DEF Return, TotalsInv
<1>3. CASE Cancel \/ StopLaunching \/ Returned \/ UNCHANGED vars
  <2>1. UNCHANGED <<pc, record, display, flights>>
    BY <1>3 DEF Cancel, StopLaunching, Returned, vars
  <2>2. Stopped' = Stopped /\ Flown' = Flown /\ Erring' = Erring
    BY <2>1 DEF Stopped, Flown, Flight, Erring
  <2> QED BY <2>1, <2>2, TotalsStay DEF TotalsInv
<1>4. ASSUME NEW j \in Jobs, Job(j) PROVE TotalsInv'
  BY <1>4, JobTotals
<1> QED BY <1>1, <1>2, <1>3, <1>4 DEF Next, Main

LEMMA InitTotals == Init => TotalsInv
<1> SUFFICES ASSUME Init PROVE TotalsInv
  OBVIOUS
<1>1. Stopped = {} /\ Flown = {} /\ reports = {} /\ running = {}
  BY DEF Init, Stopped, Flown
<1>2. Erring = {}
  BY DEF Init, Erring, OrderError, Jobs
<1>3. \A s : AtStep({}, s) = {}
  BY DEF AtStep
<1>4. \A s \in DOMAIN steps : steps[s] = [running |-> 0, done |-> 0, failed |-> 0]
  BY DEF Init
<1>5. \A s \in DOMAIN steps : /\ steps[s].running = Cardinality(AtStep(running, s))
                               /\ steps[s].done    = Cardinality(AtStep(Stopped, s))
                               /\ steps[s].failed  = Cardinality(AtStep(Erring, s))
  BY <1>1, <1>2, <1>3, <1>4, FS_EmptySet
<1>6. stats.scans = 0 /\ stats.hits = 0 /\ stats.deduped = 0 /\ complete = 0
  BY DEF Init
<1>7. \A j \in Jobs : pc[j] # "complete"
  BY DEF Init
<1> QED BY <1>1, <1>2, <1>5, <1>6, <1>7, FS_EmptySet DEF TotalsInv

\* What a run counts is what its jobs did, in its result and at every moment on its display.
THEOREM TotalsAgree == Spec => []TotalsAddUp
<1>1. IInv /\ StoryInv /\ TotalsInv => TotalsAddUp
  <2> SUFFICES ASSUME IInv, StoryInv, TotalsInv PROVE TotalsAddUp
    OBVIOUS
  <2>1. TypeOK /\ running = Within(Slotted \ {"unslot"})
    BY DEF IInv, SlotInv
  <2>2. IsFiniteSet(Jobs) /\ Cardinality(Jobs) = NumJobs
    BY PlanAssumption, FS_Interval DEF Jobs
  <2>3. \A S : S \subseteq Jobs => IsFiniteSet(S) /\ Cardinality(S) \in Nat /\ Cardinality(S) <= NumJobs
    BY <2>2, FS_Subset, FS_CardinalityType
  <2>4. Cardinality(Flown) <= Cardinality(Idents)
    <3> DEFINE naming == [j \in Jobs |-> Ident[j]]
    <3>1. IsFiniteSet(Idents)
      <4>1. naming \in Surjection(Jobs, Idents)
        BY DEF Idents, Surjection
      <4> QED BY <2>2, <4>1, FS_Surjection
    <3> DEFINE named == [j \in Flown |-> Ident[j]]
    <3>2. named \in Injection(Flown, Idents)
      BY <2>1 DEF Flown, Flight, Idents, TypeOK, Injection, IsInjective
    <3> QED BY <3>1, <3>2, FS_Injection
  <2>5. StatsAddUp
    BY <2>4 DEF StatsAddUp, TotalsInv
  <2>6. complete + Cardinality(running) <= NumJobs
    <3>1. Stopped \cap running = {} /\ Stopped \subseteq Jobs /\ running \subseteq Jobs
      BY <2>1 DEF Stopped, Within, Slotted, Ended
    <3>2. Cardinality(Stopped \cup running) = Cardinality(Stopped) + Cardinality(running)
      <4>1. IsFiniteSet(Stopped) /\ IsFiniteSet(running)
            /\ Cardinality(Stopped) \in Nat /\ Cardinality(running) \in Nat
        BY <2>3, <3>1
      <4>2. Cardinality(Stopped \cup running) =
              Cardinality(Stopped) + Cardinality(running) - Cardinality(Stopped \cap running)
        BY <4>1, FS_Union
      <4>3. Cardinality(Stopped \cap running) = 0
        BY <3>1, FS_EmptySet
      <4> QED BY <4>1, <4>2, <4>3
    <3> QED BY <2>3, <3>1, <3>2 DEF TotalsInv
  <2>7. ASSUME NEW s \in DOMAIN steps
        PROVE  /\ steps[s].running = Cardinality({j \in running : Step(j) = s})
               /\ steps[s].failed <= steps[s].done + steps[s].running
    <3>1. steps[s].running = Cardinality(AtStep(running, s))
      BY DEF TotalsInv
    <3>2. AtStep(Erring, s) \subseteq AtStep(Stopped, s) \cup AtStep(running, s)
      <4> SUFFICES ASSUME NEW j \in Erring PROVE j \in Stopped \cup running
        BY DEF AtStep
      <4>1. j \in Jobs /\ j \in failedScans /\ StoryOf(j)
        BY DEF TotalsInv, Erring, StoryInv
      <4>2. pc[j] \in Ended \cup {"keep"}
        BY <4>1 DEF StoryOf, Recorded
      <4> QED BY <2>1, <4>1, <4>2 DEF Stopped, Within, Slotted, Ended
    <3>3. /\ IsFiniteSet(AtStep(Stopped, s)) /\ IsFiniteSet(AtStep(running, s))
          /\ AtStep(Erring, s) \subseteq Jobs /\ AtStep(Stopped, s) \subseteq Jobs
          /\ AtStep(running, s) \subseteq Jobs
      BY <2>1, <2>3 DEF AtStep, Stopped, Erring, TypeOK
    <3>4. Cardinality(AtStep(Stopped, s) \cup AtStep(running, s))
            <= Cardinality(AtStep(Stopped, s)) + Cardinality(AtStep(running, s))
      <4> DEFINE S == AtStep(Stopped, s)
                 R == AtStep(running, s)
      <4> HIDE DEF S, R
      <4>1. IsFiniteSet(S) /\ IsFiniteSet(R) /\ Cardinality(S) \in Nat /\ Cardinality(R) \in Nat
        BY <2>3, <3>3 DEF S, R
      <4>2. IsFiniteSet(S \cap R)
        BY <4>1, FS_Intersection
      <4>3. Cardinality(S \cap R) \in Nat
        BY <4>2, FS_CardinalityType
      <4>4. Cardinality(S \cup R) = Cardinality(S) + Cardinality(R) - Cardinality(S \cap R)
        BY <4>1, FS_Union
      <4> QED BY <4>1, <4>3, <4>4 DEF S, R
    <3>5. Cardinality(AtStep(Erring, s)) <= Cardinality(AtStep(Stopped, s) \cup AtStep(running, s))
      BY <3>2, <3>3, FS_Union, FS_Subset
    <3> QED BY <2>3, <3>1, <3>3, <3>4, <3>5 DEF TotalsInv, AtStep
  <2> QED BY <2>5, <2>6, <2>7 DEF TotalsAddUp, DisplayHonest
<1>2. IInv /\ StoryInv /\ TotalsInv /\ [Next]_vars => TotalsInv'
  BY StepTotals
<1> QED BY <1>1, <1>2, InitTotals, Invariance, Stories, PTL DEF Spec
=============================================================================
