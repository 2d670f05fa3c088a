--------------------------- MODULE ScanRun_proofs ---------------------------
(***************************************************************************)
(* What Engine.Run's scheduler guarantees for every plan, registry and     *)
(* number of slots: the inductive invariant behind the safety properties   *)
(* of ScanRun, and those properties as theorems.                           *)
(***************************************************************************)
EXTENDS ScanRun, FiniteSetTheorems, TLAPS

Within(S) == {j \in Jobs : pc[j] \in S}

\* The launching loop: it has a job to launch, and has launched the ones before it.
LaunchInv ==
  /\ main = "launching" => next \in Jobs
  /\ \A j \in Jobs : pc[j] = "planned" <=> j >= next

\* Slots: the count in the semaphore's channel is the number of jobs between the send
\* and the deferred receive, and the display runs the same jobs until they complete.
SlotInv ==
  /\ sem = Cardinality(Within(Slotted))
  /\ running = Within(Slotted \ {"unslot"})

\* Resources: a full lock channel is a job between acquire and release, and only one.
ResourceInv ==
  /\ held = {Resource(j) : j \in {k \in Jobs : Holds(k)}}
  /\ ExclusiveUse

\* Flights: nobody's flight is pending, and who looks up or scans flies alone.
FlightInv ==
  /\ \A i \in Idents : flights[i].by = NoJob => flights[i].outcome = "pending"
  /\ OneScanPerIdentity

\* Orders: a closed channel is a job that is done, and until the run is canceled a
\* job past its wait found every channel closed, and one at its end has recorded.
OrderInv ==
  /\ finished = Within({"done"})
  /\ ~canceled => \A j \in Jobs :
       /\ pc[j] \notin {"planned", "order"} => After(j) \subseteq finished
       /\ pc[j] \in Ended => j \in reports \cup failedScans

IInv == TypeOK /\ LaunchInv /\ SlotInv /\ ResourceInv /\ FlightInv /\ OrderInv

-----------------------------------------------------------------------------
(* Moves of one job.                                                        *)

LEMMA Moves ==
  ASSUME TypeOK, NEW j \in Jobs, NEW from, NEW to \in Stages, Goto(j, from, to)
  PROVE  /\ pc' \in [Jobs -> Stages]
         /\ pc[j] = from /\ pc'[j] = to
         /\ \A k \in Jobs : k # j => pc'[k] = pc[k]
BY DEF Goto, TypeOK

\* A move changes membership of a set of stages for the moving job alone.
LEMMA MovesWithin ==
  ASSUME TypeOK, NEW j \in Jobs, NEW from, NEW to \in Stages, Goto(j, from, to),
         NEW S
  PROVE  /\ from \in S /\ to \in S       => Within(S)' = Within(S)
         /\ from \notin S /\ to \notin S => Within(S)' = Within(S)
         /\ from \notin S /\ to \in S    => j \notin Within(S) /\ Within(S)' = Within(S) \cup {j}
         /\ from \in S /\ to \notin S    => j \in Within(S) /\ Within(S)' = Within(S) \ {j}
BY Moves DEF Within

LEMMA JobsFinite == IsFiniteSet(Jobs) /\ \A S : IsFiniteSet(Within(S))
<1>1. IsFiniteSet(Jobs)
  BY PlanAssumption, FS_Interval DEF Jobs
<1>2. ASSUME NEW S PROVE IsFiniteSet(Within(S))
  BY <1>1, FS_Subset DEF Within
<1> QED BY <1>1, <1>2

-----------------------------------------------------------------------------
(* Types.                                                                   *)

LEMMA InitType == Init => TypeOK
<1> SUFFICES ASSUME Init PROVE TypeOK
  OBVIOUS
<1>1. /\ readsAfter \in Declarations
      /\ main \in {"launching", "joining", "returned"}
      /\ canceled \in BOOLEAN /\ sawCancel \in BOOLEAN
  BY DEF Init
<1>9. next \in 1..(NumJobs + 1)
  BY PlanAssumption DEF Init
<1>8. pc \in [Jobs -> Stages]
  BY DEF Init, Stages
<1>2. /\ finished \subseteq Jobs /\ held \subseteq Resources /\ turns \subseteq Scanners
      /\ sem \in 0..Concurrency
  BY PlanAssumption DEF Init
<1>3. flights \in [Idents -> [by : Jobs \cup {NoJob}, outcome : Outcomes \cup {"pending"}]]
  BY DEF Init
<1>4. cache \subseteq Idents
  BY DEF Init, Idents
<1>5. errs \subseteq Causes /\ ctlErrs \in [Controls -> SUBSET Causes]
  BY PlanAssumption DEF Init, Causes, OrderError
<1>6. /\ missing \subseteq Jobs /\ unscanned \subseteq Jobs /\ failedScans \subseteq Jobs
      /\ examined \subseteq Components \X Targets
      /\ reports \subseteq Jobs /\ running \subseteq Jobs
      /\ complete \in Nat /\ failed \in Nat
  BY DEF Init
<1>7. /\ stats \in [scans : Nat, hits : Nat, deduped : Nat]
      /\ steps \in [{Step(j) : j \in Jobs} -> Counters]
  BY DEF Init, Counters
<1> QED BY <1>1, <1>2, <1>3, <1>4, <1>5, <1>6, <1>7, <1>8, <1>9 DEF TypeOK

LEMMA CountFailureTypes ==
  ASSUME TypeOK, NEW j \in Jobs, CountFailure(j)
  PROVE  /\ errs' \subseteq Causes
         /\ ctlErrs' \in [Controls -> SUBSET Causes]
         /\ failed' \in Nat
         /\ steps' \in [{Step(k) : k \in Jobs} -> Counters]
<1>1. j \in Causes
  BY PlanAssumption DEF Causes, Jobs
<1>2. errs' \subseteq Causes /\ failed' \in Nat
  BY <1>1 DEF TypeOK, CountFailure
<1>3. ctlErrs' \in [Controls -> SUBSET Causes]
  BY <1>1 DEF TypeOK, CountFailure, Controls
<1>4. steps' \in [{Step(k) : k \in Jobs} -> Counters]
  BY DEF TypeOK, CountFailure, Counters
<1> QED BY <1>2, <1>3, <1>4

LEMMA StepTypes ==
  ASSUME TypeOK, LaunchInv, SlotInv, [Next]_vars
  PROVE  TypeOK'
<1> USE DEF context, waiting, record, display
<1>1. CASE Cancel
  BY <1>1 DEF Cancel, TypeOK
<1>2. CASE Launch
  <2>1. next \in Jobs
    BY <1>2 DEF Launch, LaunchInv
  <2>2. next' \in 1..(NumJobs + 1)
    BY <2>1, <1>2, PlanAssumption DEF Launch, Jobs
  <2>3. pc' \in [Jobs -> Stages]
    BY <2>1, <1>2 DEF Launch, TypeOK, Stages
  <2>4. main' \in {"launching", "joining", "returned"}
    BY <1>2 DEF Launch, TypeOK
  <2> QED BY <1>2, <2>2, <2>3, <2>4 DEF Launch, TypeOK
<1>3. CASE StopLaunching
  BY <1>3 DEF StopLaunching, TypeOK
<1>4. CASE Return
  BY <1>4, PlanAssumption DEF Return, TypeOK, Causes, Interrupted
<1>5. ASSUME NEW j \in Jobs, Job(j) PROVE TypeOK'
  <2>1. CASE WaitToRead(j)
    BY <2>1 DEF WaitToRead, Goto, TypeOK, Stages
  <2>2. CASE TakeResource(j)
    BY <2>2 DEF TakeResource, Goto, TypeOK, Stages, Resource, Resources, Scanners
  <2>3. CASE BlockOnResource(j) \/ LeaveResource(j)
    BY <2>3 DEF BlockOnResource, LeaveResource, Goto, TypeOK, Stages
  <2>4. CASE PassGate(j)
    BY <2>4 DEF PassGate, Goto, TypeOK, Stages, Scanners
  <2>5. CASE ReserveTurn(j) \/ TurnComes(j) \/ LeaveGate(j)
    BY <2>5 DEF ReserveTurn, TurnComes, LeaveGate, Goto, TypeOK, Stages
  <2>6. CASE TakeSlot(j)
    BY <2>6, PlanAssumption DEF TakeSlot, Goto, TypeOK, Stages, Counters
  <2>7. CASE Lead(j)
    BY <2>7 DEF Lead, Goto, TypeOK, Stages, Idents
  <2>8. CASE Follow(j) \/ CacheMiss(j) \/ Await(j)
    BY <2>8 DEF Follow, CacheMiss, Await, Goto, TypeOK, Stages
  <2>9. CASE CacheHit(j) \/ ScanFails(j)
    <3>1. PICK outcome \in Outcomes : Land(j, outcome)
      BY <2>9 DEF CacheHit, ScanFails, Outcomes
    <3>2. flights' \in [Idents -> [by : Jobs \cup {NoJob}, outcome : Outcomes \cup {"pending"}]]
      BY <3>1 DEF Land, TypeOK
    <3>3. pc' \in [Jobs -> Stages]
      BY <2>9 DEF CacheHit, ScanFails, Goto, TypeOK, Stages
    <3> QED BY <2>9, <3>2, <3>3 DEF CacheHit, ScanFails, TypeOK
  <2>10. CASE ScanSucceeds(j)
    BY <2>10 DEF ScanSucceeds, Land, Goto, TypeOK, Stages, Idents, Outcomes
  <2>11. CASE UnknownScanner(j)
    <3>1. pc' \in [Jobs -> Stages]
      BY <2>11 DEF UnknownScanner, Goto, TypeOK, Stages
    <3>2. /\ errs' \subseteq Causes
          /\ ctlErrs' \in [Controls -> SUBSET Causes]
          /\ failed' \in Nat
          /\ steps' \in [{Step(k) : k \in Jobs} -> Counters]
      BY <2>11, CountFailureTypes DEF UnknownScanner, TypeOK
    <3>3. missing' \subseteq Jobs /\ unscanned' \subseteq Jobs /\ failedScans' \subseteq Jobs
      BY <2>11 DEF UnknownScanner, TypeOK
    <3> QED BY <2>11, <3>1, <3>2, <3>3 DEF UnknownScanner, TypeOK
  <2>12. CASE RecordFailure(j)
    <3>1. pc' \in [Jobs -> Stages]
      BY <2>12 DEF RecordFailure, Goto, TypeOK, Stages
    <3>2. /\ errs' \subseteq Causes
          /\ ctlErrs' \in [Controls -> SUBSET Causes]
          /\ failed' \in Nat
          /\ steps' \in [{Step(k) : k \in Jobs} -> Counters]
      BY <2>12, CountFailureTypes DEF RecordFailure, TypeOK
    <3>3. missing' \subseteq Jobs /\ unscanned' \subseteq Jobs /\ failedScans' \subseteq Jobs
      BY <2>12 DEF RecordFailure, TypeOK
    <3> QED BY <2>12, <3>1, <3>2, <3>3 DEF RecordFailure, TypeOK
  <2>13. CASE RecordReport(j)
    BY <2>13 DEF RecordReport, Goto, TypeOK, Stages, Components, Targets
  <2>14. CASE Complete(j)
    <3>1. pc' \in [Jobs -> Stages]
      BY <2>14 DEF Complete, Goto, TypeOK, Stages
    <3>2. steps' \in [{Step(k) : k \in Jobs} -> Counters]
      BY <2>14 DEF Complete, TypeOK, Counters
    <3> QED BY <2>14, <3>1, <3>2 DEF Complete, TypeOK
  <2>15. CASE ReleaseSlot(j)
    <3>1. sem > 0
      <4>1. j \in Within(Slotted)
        BY <2>15 DEF ReleaseSlot, Goto, Within, Slotted
      <4> QED BY <4>1, JobsFinite, FS_EmptySet, FS_CardinalityType DEF SlotInv
    <3> QED BY <2>15, <3>1, PlanAssumption DEF ReleaseSlot, Goto, TypeOK, Stages
  <2>16. CASE ReleaseResource(j) \/ CloseFinished(j)
    BY <2>16 DEF ReleaseResource, CloseFinished, Goto, TypeOK, Stages
  <2> QED BY <1>5, <2>1, <2>2, <2>3, <2>4, <2>5, <2>6, <2>7, <2>8, <2>9, <2>10,
             <2>11, <2>12, <2>13, <2>14, <2>15, <2>16 DEF Job
<1>6. CASE Returned \/ UNCHANGED vars
  BY <1>6 DEF Returned, vars, TypeOK
<1> QED BY <1>1, <1>2, <1>3, <1>4, <1>5, <1>6 DEF Next, Main

-----------------------------------------------------------------------------
(* The invariant, part by part.                                             *)

LEMMA InitInvariant == Init => IInv
<1> SUFFICES ASSUME Init PROVE IInv
  OBVIOUS
<1>1. TypeOK
  BY InitType
<1>2. LaunchInv
  BY PlanAssumption DEF Init, LaunchInv, Jobs
<1>3. \A S : "planned" \notin S => Within(S) = {}
  BY DEF Init, Within
<1>4. SlotInv
  BY <1>3, FS_EmptySet DEF Init, SlotInv, Slotted
<1>5. ResourceInv
  BY DEF Init, ResourceInv, ExclusiveUse, Holds, Resourced, Slotted
<1>6. FlightInv
  BY DEF Init, FlightInv, OneScanPerIdentity
<1>7. OrderInv
  BY <1>3 DEF Init, OrderInv, Ended
<1> QED BY <1>1, <1>2, <1>4, <1>5, <1>6, <1>7 DEF IInv

\* Every step of a job is one move of that job, from a stage it has launched to.
LEMMA JobMoves ==
  ASSUME TypeOK, NEW j \in Jobs, Job(j)
  PROVE  \E from, to \in Stages \ {"planned"} : Goto(j, from, to)
<1> USE DEF Stages
<1>1. CASE WaitToRead(j) \/ TakeResource(j) \/ BlockOnResource(j) \/ LeaveResource(j)
  BY <1>1 DEF WaitToRead, TakeResource, BlockOnResource, LeaveResource
<1>2. CASE PassGate(j) \/ ReserveTurn(j) \/ TurnComes(j) \/ LeaveGate(j)
  BY <1>2 DEF PassGate, ReserveTurn, TurnComes, LeaveGate
<1>3. CASE TakeSlot(j) \/ Lead(j) \/ Follow(j) \/ CacheHit(j) \/ CacheMiss(j)
  BY <1>3 DEF TakeSlot, Lead, Follow, CacheHit, CacheMiss
<1>4. CASE ScanFails(j) \/ ScanSucceeds(j) \/ Await(j)
  BY <1>4 DEF ScanFails, ScanSucceeds, Await
<1>5. CASE UnknownScanner(j) \/ RecordFailure(j) \/ RecordReport(j)
  BY <1>5 DEF UnknownScanner, RecordFailure, RecordReport
<1>6. CASE Complete(j) \/ ReleaseSlot(j) \/ ReleaseResource(j) \/ CloseFinished(j)
  BY <1>6 DEF Complete, ReleaseSlot, ReleaseResource, CloseFinished
<1> QED BY <1>1, <1>2, <1>3, <1>4, <1>5, <1>6 DEF Job

\* A job's step leaves the launching loop and the context alone.
LEMMA JobContext ==
  ASSUME NEW j \in Jobs, Job(j)
  PROVE  UNCHANGED context
<1>1. CASE WaitToRead(j) \/ TakeResource(j) \/ BlockOnResource(j) \/ LeaveResource(j)
  BY <1>1 DEF WaitToRead, TakeResource, BlockOnResource, LeaveResource
<1>2. CASE PassGate(j) \/ ReserveTurn(j) \/ TurnComes(j) \/ LeaveGate(j)
  BY <1>2 DEF PassGate, ReserveTurn, TurnComes, LeaveGate
<1>3. CASE TakeSlot(j) \/ Lead(j) \/ Follow(j) \/ CacheHit(j) \/ CacheMiss(j)
  BY <1>3 DEF TakeSlot, Lead, Follow, CacheHit, CacheMiss
<1>4. CASE ScanFails(j) \/ ScanSucceeds(j) \/ Await(j)
  BY <1>4 DEF ScanFails, ScanSucceeds, Await
<1>5. CASE UnknownScanner(j) \/ RecordFailure(j) \/ RecordReport(j)
  BY <1>5 DEF UnknownScanner, RecordFailure, RecordReport
<1>6. CASE Complete(j) \/ ReleaseSlot(j) \/ ReleaseResource(j) \/ CloseFinished(j)
  BY <1>6 DEF Complete, ReleaseSlot, ReleaseResource, CloseFinished
<1> QED BY <1>1, <1>2, <1>3, <1>4, <1>5, <1>6 DEF Job

LEMMA StepLaunch ==
  ASSUME TypeOK, LaunchInv, [Next]_vars
  PROVE  LaunchInv'
<1>1. CASE Launch
  <2>1. next \in Jobs /\ next' = next + 1 /\ pc' = [pc EXCEPT ![next] = "order"]
    BY <1>1 DEF Launch, LaunchInv
  <2>2. main' = "launching" => next' \in Jobs
    BY <2>1, <1>1, PlanAssumption DEF Launch, Jobs
  <2>3. ASSUME NEW j \in Jobs PROVE (pc[j] = "planned" <=> j >= next)'
    <3>1. pc[j] = "planned" <=> j >= next
      BY DEF LaunchInv
    <3>2. CASE j = next
      BY <2>1, <3>2 DEF TypeOK, Jobs
    <3>3. CASE j # next
      BY <2>1, <3>1, <3>3 DEF TypeOK, Jobs
    <3> QED BY <3>2, <3>3
  <2> QED BY <2>2, <2>3 DEF LaunchInv
<1>2. CASE Cancel \/ StopLaunching \/ Return
  BY <1>2 DEF Cancel, StopLaunching, Return, LaunchInv
<1>3. ASSUME NEW j \in Jobs, Job(j) PROVE LaunchInv'
  <2>1. PICK from \in Stages \ {"planned"}, to \in Stages \ {"planned"} : Goto(j, from, to)
    BY <1>3, JobMoves
  <2>2. \A k \in Jobs : (pc'[k] = "planned") <=> (pc[k] = "planned")
    BY <2>1, Moves
  <2> QED BY <2>2, <1>3, JobContext DEF LaunchInv, context
<1>4. CASE Returned \/ UNCHANGED vars
  BY <1>4 DEF Returned, vars, context, LaunchInv
<1> QED BY <1>1, <1>2, <1>3, <1>4 DEF Next, Main

LEMMA StepSlots ==
  ASSUME TypeOK, LaunchInv, SlotInv, [Next]_vars
  PROVE  SlotInv'
<1> DEFINE Shown == Slotted \ {"unslot"}
<1> USE DEF context, waiting, record, display
<1> SUFFICES /\ sem' = Cardinality(Within(Slotted)')
             /\ running' = Within(Shown)'
  BY DEF SlotInv, Within
<1>1. CASE Launch
  <2>1. next \in Jobs /\ pc[next] = "planned" /\ Goto(next, "planned", "order")
    BY <1>1 DEF Launch, LaunchInv, Goto, Jobs
  <2>2. Within(Slotted)' = Within(Slotted) /\ Within(Shown)' = Within(Shown)
    BY <2>1, MovesWithin DEF Slotted, Stages
  <2> QED BY <1>1, <2>2 DEF Launch, SlotInv
<1>2. CASE Cancel \/ StopLaunching \/ Return \/ Returned \/ UNCHANGED vars
  BY <1>2 DEF Cancel, StopLaunching, Return, Returned, vars, SlotInv, Within
<1>3. ASSUME NEW j \in Jobs, Job(j) PROVE SlotInv'
  <2>1. CASE WaitToRead(j) \/ TakeResource(j) \/ BlockOnResource(j) \/ LeaveResource(j)
    <3>1. PICK from \in Stages \ Slotted, to \in Stages \ Slotted : Goto(j, from, to)
      BY <2>1 DEF WaitToRead, TakeResource, BlockOnResource, LeaveResource, Stages, Slotted
    <3>2. Within(Slotted)' = Within(Slotted) /\ Within(Shown)' = Within(Shown)
      BY <3>1, MovesWithin
    <3> QED BY <2>1, <3>2 DEF SlotInv, WaitToRead, TakeResource, BlockOnResource, LeaveResource
  <2>2. CASE \/ PassGate(j) \/ ReserveTurn(j) \/ TurnComes(j) \/ LeaveGate(j)
             \/ ReleaseResource(j) \/ CloseFinished(j)
    <3>1. PICK from \in Stages \ Slotted, to \in Stages \ Slotted : Goto(j, from, to)
      BY <2>2 DEF PassGate, ReserveTurn, TurnComes, LeaveGate, ReleaseResource, CloseFinished,
                  Stages, Slotted
    <3>2. Within(Slotted)' = Within(Slotted) /\ Within(Shown)' = Within(Shown)
      BY <3>1, MovesWithin
    <3> QED BY <2>2, <3>2 DEF SlotInv, PassGate, ReserveTurn, TurnComes, LeaveGate,
                               ReleaseResource, CloseFinished
  <2>3. CASE TakeSlot(j)
    <3>1. PICK to \in Shown : Goto(j, "slot", to)
      BY <2>3 DEF TakeSlot, Slotted
    <3>2. /\ j \notin Within(Slotted) /\ Within(Slotted)' = Within(Slotted) \cup {j}
          /\ Within(Shown)' = Within(Shown) \cup {j}
      BY <3>1, MovesWithin DEF Slotted, Stages
    <3>3. Cardinality(Within(Slotted)') = Cardinality(Within(Slotted)) + 1
      BY <3>2, JobsFinite, FS_AddElement
    <3> QED BY <2>3, <3>2, <3>3 DEF TakeSlot, SlotInv
  <2>4. CASE \/ Lead(j) \/ Follow(j) \/ CacheHit(j) \/ CacheMiss(j)
             \/ ScanFails(j) \/ ScanSucceeds(j) \/ Await(j)
    <3>1. PICK from \in Shown, to \in Shown : Goto(j, from, to)
      BY <2>4 DEF Lead, Follow, CacheHit, CacheMiss, ScanFails, ScanSucceeds, Await, Slotted
    <3>2. Within(Slotted)' = Within(Slotted) /\ Within(Shown)' = Within(Shown)
      BY <3>1, MovesWithin DEF Slotted, Stages
    <3> QED BY <2>4, <3>2 DEF SlotInv, Lead, Follow, CacheHit, CacheMiss, ScanFails,
                               ScanSucceeds, Await
  <2>5. CASE UnknownScanner(j) \/ RecordFailure(j) \/ RecordReport(j)
    <3>1. PICK from \in Shown, to \in Shown : Goto(j, from, to)
      BY <2>5 DEF UnknownScanner, RecordFailure, RecordReport, Slotted
    <3>2. Within(Slotted)' = Within(Slotted) /\ Within(Shown)' = Within(Shown)
      BY <3>1, MovesWithin DEF Slotted, Stages
    <3> QED BY <2>5, <3>2 DEF SlotInv, UnknownScanner, RecordFailure, RecordReport
  <2>6. CASE Complete(j)
    <3>1. Goto(j, "complete", "unslot")
      BY <2>6 DEF Complete
    <3>2. Within(Slotted)' = Within(Slotted) /\ Within(Shown)' = Within(Shown) \ {j}
      BY <3>1, MovesWithin DEF Slotted, Stages
    <3> QED BY <2>6, <3>2 DEF SlotInv, Complete
  <2>7. CASE ReleaseSlot(j)
    <3>1. Goto(j, "unslot", "unlock")
      BY <2>7 DEF ReleaseSlot
    <3>2. /\ j \in Within(Slotted) /\ Within(Slotted)' = Within(Slotted) \ {j}
          /\ Within(Shown)' = Within(Shown)
      BY <3>1, MovesWithin DEF Slotted, Stages
    <3>3. Cardinality(Within(Slotted)') = Cardinality(Within(Slotted)) - 1
      BY <3>2, JobsFinite, FS_RemoveElement
    <3> QED BY <2>7, <3>2, <3>3 DEF ReleaseSlot, SlotInv
  <2> QED BY <1>3, <2>1, <2>2, <2>3, <2>4, <2>5, <2>6, <2>7 DEF Job
<1> QED BY <1>1, <1>2, <1>3 DEF Next, Main, SlotInv

\* Where a step neither enters nor leaves the stages that hold a resource, the same
\* jobs hold the same resources.
LEMMA HoldersStay ==
  ASSUME TypeOK, NEW j \in Jobs, NEW from \in Stages, NEW to \in Stages, Goto(j, from, to),
         from \in Resourced <=> to \in Resourced
  PROVE  \A k \in Jobs : Holds(k)' <=> Holds(k)
BY Moves DEF Holds, Resource

LEMMA StepResources ==
  ASSUME TypeOK, LaunchInv, ResourceInv, [Next]_vars
  PROVE  ResourceInv'
<1> USE DEF context, waiting, record, display
<1>1. ASSUME held' = held, \A k \in Jobs : Holds(k)' <=> Holds(k) PROVE ResourceInv'
  BY <1>1 DEF ResourceInv, ExclusiveUse, Resource
<1>2. CASE Launch
  <2>1. next \in Jobs /\ Goto(next, "planned", "order")
    BY <1>2 DEF Launch, LaunchInv, Goto, Jobs
  <2>2. \A k \in Jobs : Holds(k)' <=> Holds(k)
    BY <2>1, HoldersStay DEF Resourced, Slotted, Stages
  <2> QED BY <1>1, <1>2, <2>2 DEF Launch
<1>3. CASE Cancel \/ StopLaunching \/ Return \/ Returned \/ UNCHANGED vars
  BY <1>1, <1>3 DEF Cancel, StopLaunching, Return, Returned, vars, Holds, Resource
<1>4. ASSUME NEW j \in Jobs, Job(j) PROVE ResourceInv'
  <2>1. CASE TakeResource(j)
    <3>1. PICK from \in {"lock", "blocked"} : Goto(j, from, "gate")
      BY <2>1 DEF TakeResource
    <3>2. \A k \in Jobs : k # j => (Holds(k)' <=> Holds(k))
      BY <3>1, Moves DEF Holds, Resource, Stages
    <3>3. Holds(j)' <=> Resource(j) # NoResource
      BY <3>1, Moves DEF Holds, Resource, Resourced, Stages
    <3>4. \A k \in Jobs : Holds(k) => Resource(k) # Resource(j)
      BY <2>1 DEF TakeResource, ResourceInv
    <3>5. \A k \in Jobs : Resource(k)' = Resource(k)
      BY DEF Resource
    <3>6. ExclusiveUse'
      BY <3>2, <3>3, <3>4, <3>5 DEF ExclusiveUse, ResourceInv
    <3>7. ~Holds(j)
      BY <3>1 DEF Holds, Resourced, Slotted, Goto
    <3>8. held' = {Resource(k) : k \in {l \in Jobs : Holds(l)'}}
      BY <2>1, <3>2, <3>3, <3>7 DEF TakeResource, ResourceInv
    <3> QED BY <3>5, <3>6, <3>8 DEF ResourceInv
  <2>2. CASE ReleaseResource(j)
    <3>1. Goto(j, "unlock", "close")
      BY <2>2 DEF ReleaseResource
    <3>2. \A k \in Jobs : k # j => (Holds(k)' <=> Holds(k))
      BY <3>1, Moves DEF Holds, Resource, Stages
    <3>3. ~Holds(j)' /\ (Holds(j) <=> Resource(j) # NoResource)
      BY <3>1, Moves DEF Holds, Resource, Resourced, Slotted, Stages
    <3>5. \A k \in Jobs : Resource(k)' = Resource(k)
      BY DEF Resource
    <3>6. ExclusiveUse'
      BY <3>2, <3>3, <3>5 DEF ExclusiveUse, ResourceInv
    <3>7. \A k \in Jobs : Holds(k) /\ Resource(k) = Resource(j) => k = j
      BY <3>3 DEF ResourceInv, ExclusiveUse, Holds
    <3>8. held' = {Resource(k) : k \in {l \in Jobs : Holds(l)'}}
      BY <2>2, <3>2, <3>3, <3>7 DEF ReleaseResource, ResourceInv
    <3> QED BY <3>5, <3>6, <3>8 DEF ResourceInv
  <2>3. CASE WaitToRead(j) \/ BlockOnResource(j) \/ LeaveResource(j) \/ CloseFinished(j)
    <3>1. PICK from \in Stages \ Resourced, to \in Stages \ Resourced : Goto(j, from, to)
      BY <2>3 DEF WaitToRead, BlockOnResource, LeaveResource, CloseFinished, Stages, Resourced, Slotted
    <3>2. \A k \in Jobs : Holds(k)' <=> Holds(k)
      BY <3>1, HoldersStay
    <3> QED BY <1>1, <2>3, <3>2 DEF WaitToRead, BlockOnResource, LeaveResource, CloseFinished
  <2>4. CASE PassGate(j) \/ ReserveTurn(j) \/ TurnComes(j) \/ LeaveGate(j) \/ TakeSlot(j)
    <3>1. PICK from \in Resourced, to \in Resourced : Goto(j, from, to)
      BY <2>4 DEF PassGate, ReserveTurn, TurnComes, LeaveGate, TakeSlot, Resourced, Slotted
    <3>2. \A k \in Jobs : Holds(k)' <=> Holds(k)
      BY <3>1, HoldersStay DEF Resourced, Slotted, Stages
    <3> QED BY <1>1, <2>4, <3>2 DEF PassGate, ReserveTurn, TurnComes, LeaveGate, TakeSlot
  <2>5. CASE \/ Lead(j) \/ Follow(j) \/ CacheHit(j) \/ CacheMiss(j)
             \/ ScanFails(j) \/ ScanSucceeds(j) \/ Await(j)
    <3>1. PICK from \in Resourced, to \in Resourced : Goto(j, from, to)
      BY <2>5 DEF Lead, Follow, CacheHit, CacheMiss, ScanFails, ScanSucceeds, Await,
                  Resourced, Slotted
    <3>2. \A k \in Jobs : Holds(k)' <=> Holds(k)
      BY <3>1, HoldersStay DEF Resourced, Slotted, Stages
    <3> QED BY <1>1, <2>5, <3>2 DEF Lead, Follow, CacheHit, CacheMiss, ScanFails, ScanSucceeds, Await
  <2>6. CASE UnknownScanner(j) \/ RecordFailure(j) \/ RecordReport(j) \/ Complete(j) \/ ReleaseSlot(j)
    <3>1. PICK from \in Resourced, to \in Resourced : Goto(j, from, to)
      BY <2>6 DEF UnknownScanner, RecordFailure, RecordReport, Complete, ReleaseSlot,
                  Resourced, Slotted
    <3>2. \A k \in Jobs : Holds(k)' <=> Holds(k)
      BY <3>1, HoldersStay DEF Resourced, Slotted, Stages
    <3> QED BY <1>1, <2>6, <3>2 DEF UnknownScanner, RecordFailure, RecordReport, Complete, ReleaseSlot
  <2> QED BY <1>4, <2>1, <2>2, <2>3, <2>4, <2>5, <2>6 DEF Job
<1> QED BY <1>2, <1>3, <1>4 DEF Next, Main

LEMMA StepFlights ==
  ASSUME TypeOK, LaunchInv, FlightInv, [Next]_vars
  PROVE  FlightInv'
<1> DEFINE Flying(j) == pc[j] \in {"lookup", "scan"}
<1> USE DEF context, waiting, record, display
<1>1. ASSUME flights' = flights, \A k \in Jobs : Flying(k)' => Flying(k) PROVE FlightInv'
  BY <1>1 DEF FlightInv, OneScanPerIdentity, Flight
<1>2. CASE Launch
  <2>1. next \in Jobs /\ Goto(next, "planned", "order")
    BY <1>2 DEF Launch, LaunchInv, Goto, Jobs
  <2>2. \A k \in Jobs : Flying(k)' => Flying(k)
    BY <2>1, Moves DEF Stages
  <2> QED BY <1>1, <1>2, <2>2 DEF Launch
<1>3. CASE Cancel \/ StopLaunching \/ Return \/ Returned \/ UNCHANGED vars
  BY <1>1, <1>3 DEF Cancel, StopLaunching, Return, Returned, vars
<1>4. ASSUME NEW j \in Jobs, Job(j) PROVE FlightInv'
  <2>1. CASE Lead(j)
    <3>1. Goto(j, "ask", "lookup") /\ flights[Ident[j]] = [by |-> NoJob, outcome |-> "pending"]
      BY <2>1 DEF Lead, Flight, FlightInv, TypeOK, Idents
    <3>2. flights'[Ident[j]] = [by |-> j, outcome |-> "pending"]
      BY <2>1, <3>1 DEF Lead, TypeOK, Idents
    <3>3. \A i \in Idents : i # Ident[j] => flights'[i] = flights[i]
      BY <2>1 DEF Lead, TypeOK
    <3>4. \A i \in Idents : flights'[i].by = NoJob => flights'[i].outcome = "pending"
      BY <3>2, <3>3 DEF FlightInv
    <3>5. ASSUME NEW k \in Jobs, k # j, Flying(k)
          PROVE  flights'[Ident[k]] = [by |-> k, outcome |-> "pending"]
      <4>1. flights[Ident[k]] = [by |-> k, outcome |-> "pending"]
        BY <3>5 DEF FlightInv, OneScanPerIdentity, Flight
      <4>2. Ident[k] # Ident[j]
        BY <4>1, <3>1 DEF Jobs, NoJob
      <4> QED BY <4>1, <4>2, <3>3 DEF Idents
    <3>6. OneScanPerIdentity'
      BY <3>1, <3>2, <3>5, Moves DEF OneScanPerIdentity, Flight, Stages
    <3> QED BY <3>4, <3>6 DEF FlightInv
  <2>2. CASE CacheHit(j) \/ ScanFails(j) \/ ScanSucceeds(j)
    <3>1. PICK from \in {"lookup", "scan"} : Goto(j, from, "record")
      BY <2>2 DEF CacheHit, ScanFails, ScanSucceeds
    <3>2. PICK outcome \in Outcomes : Land(j, outcome)
      BY <2>2 DEF CacheHit, ScanFails, ScanSucceeds, Outcomes
    <3>3. flights[Ident[j]] = [by |-> j, outcome |-> "pending"]
      BY <3>1 DEF FlightInv, OneScanPerIdentity, Flight, Goto
    <3>4. flights'[Ident[j]].by = j /\ \A i \in Idents : i # Ident[j] => flights'[i] = flights[i]
      BY <3>2, <3>3 DEF Land, TypeOK, Idents
    <3>5. \A i \in Idents : flights'[i].by = NoJob => flights'[i].outcome = "pending"
      BY <3>4 DEF FlightInv, Jobs, NoJob
    <3>6. ASSUME NEW k \in Jobs, k # j, Flying(k)
          PROVE  flights'[Ident[k]] = [by |-> k, outcome |-> "pending"]
      <4>1. flights[Ident[k]] = [by |-> k, outcome |-> "pending"]
        BY <3>6 DEF FlightInv, OneScanPerIdentity, Flight
      <4>2. Ident[k] # Ident[j]
        BY <4>1, <3>3, <3>6
      <4> QED BY <4>1, <4>2, <3>4 DEF Idents
    <3>7. OneScanPerIdentity'
      BY <3>1, <3>6, Moves DEF OneScanPerIdentity, Flight, Stages
    <3> QED BY <3>5, <3>7 DEF FlightInv
  <2>3. CASE CacheMiss(j)
    <3>1. Goto(j, "lookup", "scan") /\ flights' = flights
      BY <2>3 DEF CacheMiss
    <3>2. \A k \in Jobs : Flying(k)' => Flying(k)
      BY <3>1, Moves DEF Stages
    <3> QED BY <1>1, <3>1, <3>2
  <2>4. CASE WaitToRead(j) \/ TakeResource(j) \/ BlockOnResource(j) \/ LeaveResource(j) \/ PassGate(j)
    <3>1. PICK from \in Stages, to \in Stages \ {"lookup", "scan"} : Goto(j, from, to)
      BY <2>4 DEF WaitToRead, TakeResource, BlockOnResource, LeaveResource, PassGate, Stages
    <3> QED BY <1>1, <2>4, <3>1, Moves
            DEF WaitToRead, TakeResource, BlockOnResource, LeaveResource, PassGate
  <2>5. CASE ReserveTurn(j) \/ TurnComes(j) \/ LeaveGate(j) \/ TakeSlot(j) \/ Follow(j) \/ Await(j)
    <3>1. PICK from \in Stages, to \in Stages \ {"lookup", "scan"} : Goto(j, from, to)
      BY <2>5 DEF ReserveTurn, TurnComes, LeaveGate, TakeSlot, Follow, Await, Stages
    <3> QED BY <1>1, <2>5, <3>1, Moves DEF ReserveTurn, TurnComes, LeaveGate, TakeSlot, Follow, Await
  <2>6. CASE UnknownScanner(j) \/ RecordFailure(j) \/ RecordReport(j)
    <3>1. PICK from \in Stages, to \in Stages \ {"lookup", "scan"} : Goto(j, from, to)
      BY <2>6 DEF UnknownScanner, RecordFailure, RecordReport, Stages
    <3> QED BY <1>1, <2>6, <3>1, Moves DEF UnknownScanner, RecordFailure, RecordReport
  <2>7. CASE Complete(j) \/ ReleaseSlot(j) \/ ReleaseResource(j) \/ CloseFinished(j)
    <3>1. PICK from \in Stages, to \in Stages \ {"lookup", "scan"} : Goto(j, from, to)
      BY <2>7 DEF Complete, ReleaseSlot, ReleaseResource, CloseFinished, Stages
    <3> QED BY <1>1, <2>7, <3>1, Moves DEF Complete, ReleaseSlot, ReleaseResource, CloseFinished
  <2> QED BY <1>4, <2>1, <2>2, <2>3, <2>4, <2>5, <2>6, <2>7 DEF Job
<1> QED BY <1>2, <1>3, <1>4 DEF Next, Main

\* A job records before it ends, unless the run was canceled.
LEMMA EndsRecorded ==
  ASSUME TypeOK, NEW j \in Jobs, Job(j), ~canceled, OrderInv, pc'[j] \in Ended
  PROVE  j \in (reports \cup failedScans)'
<1> USE DEF context, waiting, record, display, Goto, TypeOK, Ended
<1>1. CASE UnknownScanner(j) \/ RecordFailure(j) \/ RecordReport(j)
  BY <1>1 DEF UnknownScanner, RecordFailure, RecordReport
<1>2. CASE Complete(j) \/ ReleaseSlot(j) \/ ReleaseResource(j) \/ CloseFinished(j)
  BY <1>2 DEF Complete, ReleaseSlot, ReleaseResource, CloseFinished, OrderInv
<1>3. CASE WaitToRead(j) \/ TakeResource(j) \/ BlockOnResource(j) \/ LeaveResource(j) \/ PassGate(j)
  BY <1>3 DEF WaitToRead, TakeResource, BlockOnResource, LeaveResource, PassGate
<1>4. CASE ReserveTurn(j) \/ TurnComes(j) \/ LeaveGate(j) \/ TakeSlot(j) \/ Follow(j) \/ Await(j)
  BY <1>4 DEF ReserveTurn, TurnComes, LeaveGate, TakeSlot, Follow, Await
<1>5. CASE Lead(j) \/ CacheHit(j) \/ CacheMiss(j) \/ ScanFails(j) \/ ScanSucceeds(j)
  BY <1>5 DEF Lead, CacheHit, CacheMiss, ScanFails, ScanSucceeds
<1> QED BY <1>1, <1>2, <1>3, <1>4, <1>5 DEF Job

\* Recorded outcomes are never taken back.
LEMMA RecordsGrow ==
  ASSUME [Next]_vars
  PROVE  reports \subseteq reports' /\ failedScans \subseteq failedScans'
<1> USE DEF context, waiting, record, display
<1>1. CASE Cancel \/ Launch \/ StopLaunching \/ Return \/ Returned \/ UNCHANGED vars
  BY <1>1 DEF Cancel, Launch, StopLaunching, Return, Returned, vars
<1>2. ASSUME NEW j \in Jobs, Job(j) PROVE reports \subseteq reports' /\ failedScans \subseteq failedScans'
  <2>1. CASE UnknownScanner(j) \/ RecordFailure(j) \/ RecordReport(j)
    BY <2>1 DEF UnknownScanner, RecordFailure, RecordReport
  <2>2. CASE Complete(j) \/ ReleaseSlot(j) \/ ReleaseResource(j) \/ CloseFinished(j)
    BY <2>2 DEF Complete, ReleaseSlot, ReleaseResource, CloseFinished
  <2>3. CASE WaitToRead(j) \/ TakeResource(j) \/ BlockOnResource(j) \/ LeaveResource(j) \/ PassGate(j)
    BY <2>3 DEF WaitToRead, TakeResource, BlockOnResource, LeaveResource, PassGate
  <2>4. CASE ReserveTurn(j) \/ TurnComes(j) \/ LeaveGate(j) \/ TakeSlot(j) \/ Follow(j) \/ Await(j)
    BY <2>4 DEF ReserveTurn, TurnComes, LeaveGate, TakeSlot, Follow, Await
  <2>5. CASE Lead(j) \/ CacheHit(j) \/ CacheMiss(j) \/ ScanFails(j) \/ ScanSucceeds(j)
    BY <2>5 DEF Lead, CacheHit, CacheMiss, ScanFails, ScanSucceeds
  <2> QED BY <1>2, <2>1, <2>2, <2>3, <2>4, <2>5 DEF Job
<1> QED BY <1>1, <1>2 DEF Next, Main

\* A channel is closed by the step that makes its job done, and by no other.
LEMMA FinishedSteps ==
  ASSUME TypeOK, NEW j \in Jobs, Job(j), finished = Within({"done"})
  PROVE  finished' = Within({"done"})'
<1> USE DEF context, waiting, record, display
<1>1. CASE CloseFinished(j)
  BY <1>1, MovesWithin DEF CloseFinished, Stages
<1>2. ASSUME NEW from \in Stages \ {"done"}, NEW to \in Stages \ {"done"}, Goto(j, from, to),
             finished' = finished
      PROVE  finished' = Within({"done"})'
  BY <1>2, MovesWithin
<1> USE DEF Stages
<1>3. CASE UnknownScanner(j) \/ RecordFailure(j) \/ RecordReport(j)
  BY <1>2, <1>3 DEF UnknownScanner, RecordFailure, RecordReport
<1>4. CASE Complete(j) \/ ReleaseSlot(j) \/ ReleaseResource(j)
  BY <1>2, <1>4 DEF Complete, ReleaseSlot, ReleaseResource
<1>5. CASE WaitToRead(j) \/ TakeResource(j) \/ BlockOnResource(j) \/ LeaveResource(j) \/ PassGate(j)
  BY <1>2, <1>5 DEF WaitToRead, TakeResource, BlockOnResource, LeaveResource, PassGate
<1>6. CASE ReserveTurn(j) \/ TurnComes(j) \/ LeaveGate(j) \/ TakeSlot(j) \/ Follow(j) \/ Await(j)
  BY <1>2, <1>6 DEF ReserveTurn, TurnComes, LeaveGate, TakeSlot, Follow, Await
<1>7. CASE Lead(j) \/ CacheHit(j) \/ CacheMiss(j) \/ ScanFails(j) \/ ScanSucceeds(j)
  BY <1>2, <1>7 DEF Lead, CacheHit, CacheMiss, ScanFails, ScanSucceeds
<1> QED BY <1>1, <1>3, <1>4, <1>5, <1>6, <1>7 DEF Job

LEMMA StepOrders ==
  ASSUME TypeOK, LaunchInv, OrderInv, [Next]_vars
  PROVE  OrderInv'
<1> USE DEF context, waiting, record, display
<1>1. CASE Launch
  <2>1. next \in Jobs /\ Goto(next, "planned", "order") /\ canceled' = canceled
        /\ finished' = finished /\ reports' = reports /\ failedScans' = failedScans
    BY <1>1 DEF Launch, LaunchInv, Goto, Jobs
  <2>2. Within({"done"})' = Within({"done"})
    BY <2>1, MovesWithin DEF Stages
  <2>3. pc'[next] = "order" /\ \A k \in Jobs : k # next => pc'[k] = pc[k]
    BY <2>1, Moves DEF Stages
  <2>4. \A k \in Jobs : After(k)' = After(k)
    BY <1>1 DEF After, CyclicOrder, Launch
  <2> QED BY <2>1, <2>2, <2>3, <2>4 DEF OrderInv, Ended
<1>2. CASE Cancel \/ StopLaunching \/ Return \/ Returned \/ UNCHANGED vars
  BY <1>2 DEF Cancel, StopLaunching, Return, Returned, vars, OrderInv, Within, After, CyclicOrder, Ended
<1>3. ASSUME NEW j \in Jobs, Job(j) PROVE OrderInv'
  <2>1. finished' = Within({"done"})'
    BY <1>3, FinishedSteps DEF OrderInv
  <2>2. canceled' = canceled
    BY <1>3, JobContext
  <2>3. finished \subseteq finished'
    <3>1. PICK from, to \in Stages \ {"planned"} : Goto(j, from, to)
      BY <1>3, JobMoves
    <3>2. from # "done"
      BY <1>3, <3>1 DEF Job, Goto, WaitToRead, TakeResource, BlockOnResource, LeaveResource,
         PassGate, ReserveTurn, TurnComes, LeaveGate, TakeSlot, Follow, Await, Lead, CacheHit,
         CacheMiss, ScanFails, ScanSucceeds, UnknownScanner, RecordFailure, RecordReport,
         Complete, ReleaseSlot, ReleaseResource, CloseFinished
    <3> QED BY <2>1, <3>1, <3>2, MovesWithin DEF OrderInv
  <2>4. ASSUME ~canceled, NEW k \in Jobs, pc'[k] \notin {"planned", "order"}
        PROVE  After(k) \subseteq finished'
    <3>1. CASE pc[k] \notin {"planned", "order"}
      BY <2>3, <2>4, <3>1 DEF OrderInv
    <3>2. CASE pc[k] \in {"planned", "order"}
      <4>1. PICK from \in Stages \ {"planned"}, to \in Stages \ {"planned"} : Goto(j, from, to)
        BY <1>3, JobMoves
      <4>2. k = j /\ pc[j] = "order"
        BY <2>4, <3>2, <4>1, Moves
      <4>3. WaitToRead(j)
        BY <1>3, <4>2 DEF Job, Goto, WaitToRead, TakeResource, BlockOnResource, LeaveResource,
           PassGate, ReserveTurn, TurnComes, LeaveGate, TakeSlot, Follow, Await, Lead, CacheHit,
           CacheMiss, ScanFails, ScanSucceeds, UnknownScanner, RecordFailure, RecordReport,
           Complete, ReleaseSlot, ReleaseResource, CloseFinished
      <4> QED BY <2>3, <2>4, <4>2, <4>3 DEF WaitToRead
    <3> QED BY <3>1, <3>2
  <2>5. ASSUME ~canceled, NEW k \in Jobs, pc'[k] \in Ended
        PROVE  k \in (reports \cup failedScans)'
    <3>1. CASE k = j
      BY <1>3, <2>5, <3>1, EndsRecorded
    <3>2. CASE k # j
      <4>1. PICK from \in Stages \ {"planned"}, to \in Stages \ {"planned"} : Goto(j, from, to)
        BY <1>3, JobMoves
      <4>2. pc[k] \in Ended
        BY <2>5, <3>2, <4>1, Moves
      <4> QED BY <2>5, <4>2, RecordsGrow DEF OrderInv
    <3> QED BY <3>1, <3>2
  <2>6. \A k \in Jobs : After(k)' = After(k)
    <3>1. UNCHANGED readsAfter
      BY <1>3, JobContext
    <3> QED BY <3>1 DEF After, CyclicOrder
  <2> QED BY <2>1, <2>2, <2>4, <2>5, <2>6 DEF OrderInv, Ended
<1> QED BY <1>1, <1>2, <1>3 DEF Next, Main

-----------------------------------------------------------------------------
(* The theorems.                                                            *)

THEOREM Invariance == Spec => []IInv
<1>1. Init => IInv
  BY InitInvariant
<1>2. IInv /\ [Next]_vars => IInv'
  BY StepTypes, StepLaunch, StepSlots, StepResources, StepFlights, StepOrders DEF IInv
<1> QED BY <1>1, <1>2, PTL DEF Spec

\* Every variable of the scheduler stays in its range.
THEOREM TypeCorrect == Spec => []TypeOK
BY Invariance, PTL DEF IInv

\* No plan, order, resource or rate limit lets more jobs run than there are slots.
THEOREM SlotBound == Spec => []SlotsBounded
<1>1. IInv => SlotsBounded
  <2> SUFFICES ASSUME IInv PROVE SlotsBounded
    OBVIOUS
  <2>1. running \subseteq Within(Slotted)
    BY DEF IInv, SlotInv, Within
  <2>2. Cardinality(running) <= Cardinality(Within(Slotted))
    BY <2>1, JobsFinite, FS_Subset
  <2> QED BY <2>2, PlanAssumption DEF SlotsBounded, IInv, SlotInv, TypeOK
<1> QED BY <1>1, Invariance, PTL

\* An exclusive resource is held by one job at a time, whatever else the jobs wait for.
THEOREM ResourceUsedWhole == Spec => []ExclusiveUse
BY Invariance, PTL DEF IInv, ResourceInv

\* In a run nobody canceled, a job starts only after every job it reads after has
\* recorded its outcome and given back what it held.
THEOREM OrderKept == Spec => []ReadersFollow
<1>1. IInv => ReadersFollow
  BY DEF IInv, OrderInv, ReadersFollow, Within, Ended
<1> QED BY <1>1, Invariance, PTL

\* Identical jobs make a single scan.
THEOREM ScannedOnce == Spec => []OneScanPerIdentity
BY Invariance, PTL DEF IInv, FlightInv

-----------------------------------------------------------------------------
(* Failures reach their control.  A job that only shared a failure records no  *)
(* error, and may finish before the job that flew the scan has recorded its    *)
(* own: what holds all along is that the flier will have, by its end.          *)

Flier  == {"lookup", "scan", "record", "keep"} \cup Ended
Asking == {"ask", "lookup", "scan", "await", "record", "keep"}

FailureInv ==
  /\ \A j \in failedScans :
       \/ j \in ctlErrs[Control[j]]
       \/ Flight(j).by # NoJob /\ Flight(j).outcome \in Failures
  /\ \A i \in Idents : LET k == flights[i].by IN
       k # NoJob => /\ Ident[k] = i
                    /\ pc[k] \in Flier
                    /\ flights[i].outcome # "pending" => pc[k] \notin {"lookup", "scan"}
                    /\ flights[i].outcome \in Failures /\ pc[k] \in Ended \cup {"keep"}
                         => k \in ctlErrs[Control[k]]
  /\ main = "returned" => \A j \in Jobs : pc[j] \in {"planned", "done"}

\* A move of a job that flies nothing, or that stays past its record, with nothing
\* recorded by it.
LEMMA QuietMove ==
  ASSUME TypeOK, FailureInv, NEW j \in Jobs, NEW from \in Stages, NEW to \in Stages,
         Goto(j, from, to), main # "returned", main' = main,
         flights' = flights, ctlErrs' = ctlErrs, failedScans' = failedScans,
         \/ from \notin Flier
         \/ from \in Ended \cup {"keep"} /\ to \in Ended
         \/ Flight(j).outcome \notin Failures /\ from = "record" /\ to = "complete"
  PROVE  FailureInv'
<1>1. /\ pc[j] = from /\ pc'[j] = to
      /\ \A k \in Jobs : k # j => pc'[k] = pc[k]
  BY Moves
<1>2. \A k \in failedScans' : \/ k \in (ctlErrs[Control[k]])'
                              \/ (Flight(k).by # NoJob /\ Flight(k).outcome \in Failures)'
  BY DEF FailureInv, Flight
<1>3. ASSUME NEW i \in Idents, flights[i].by # NoJob
      PROVE  LET k == flights[i].by IN
             /\ Ident[k] = i /\ pc'[k] \in Flier
             /\ flights[i].outcome # "pending" => pc'[k] \notin {"lookup", "scan"}
             /\ flights[i].outcome \in Failures /\ pc'[k] \in Ended \cup {"keep"}
                  => k \in ctlErrs[Control[k]]
  <2> DEFINE k == flights[i].by
  <2>1. k \in Jobs /\ Ident[k] = i
    BY <1>3 DEF FailureInv, TypeOK
  <2>2. CASE k # j
    BY <1>1, <1>3, <2>1, <2>2 DEF FailureInv
  <2>3. CASE k = j
    <3>1. from \in Flier
      BY <1>1, <1>3, <2>3 DEF FailureInv
    <3>2. to \in Ended
      BY <3>1 DEF Ended
    <3>3. flights[i].outcome \in Failures => j \in ctlErrs[Control[j]]
      BY <1>1, <1>3, <2>1, <2>3, <3>1 DEF FailureInv, Flight
    <3> QED BY <1>1, <2>1, <2>3, <3>2, <3>3 DEF Flier, Ended
  <2> QED BY <2>2, <2>3
<1> QED BY <1>2, <1>3 DEF FailureInv

LEMMA InitFailures == Init => FailureInv
BY DEF Init, FailureInv

LEMMA StepFailures ==
  ASSUME TypeOK, LaunchInv, FlightInv, FailureInv, [Next]_vars
  PROVE  FailureInv'
<1> USE DEF context, waiting, record, display
<1>1. CASE Launch
  <2>1. next \in Jobs /\ Goto(next, "planned", "order") /\ main = "launching"
        /\ main' \in {"launching", "joining"}
        /\ flights' = flights /\ ctlErrs' = ctlErrs /\ failedScans' = failedScans
    BY <1>1 DEF Launch, LaunchInv, Goto, Jobs
  <2>2. pc'[next] = "order" /\ \A k \in Jobs : k # next => pc'[k] = pc[k]
    BY <2>1, Moves DEF Stages
  <2>3. \A i \in Idents : flights[i].by # NoJob => flights[i].by \in Jobs /\ flights[i].by # next
    BY <2>1 DEF FailureInv, TypeOK, Goto, Flier, Ended
  <2> QED BY <2>1, <2>2, <2>3 DEF FailureInv, Flight
<1>2. CASE Return
  <2>1. \A j \in Jobs : pc[j] \in {"planned", "done"}
    <3> SUFFICES ASSUME NEW j \in Jobs PROVE pc[j] \in {"planned", "done"}
      OBVIOUS
    <3>1. CASE j >= next
      BY <3>1 DEF LaunchInv
    <3>2. CASE ~(j >= next)
      BY <1>2, <3>2 DEF Return, TypeOK, Jobs
    <3> QED BY <3>1, <3>2
  <2> QED BY <1>2, <2>1 DEF Return, FailureInv, Flight
<1>3. CASE Cancel \/ StopLaunching \/ Returned \/ UNCHANGED vars
  BY <1>3 DEF Cancel, StopLaunching, Returned, vars, FailureInv, Flight
<1>4. ASSUME NEW j \in Jobs, Job(j) PROVE FailureInv'
  <2> USE DEF Flier, Ended, Stages
  <2>1. main # "returned" /\ main' = main
    <3>1. PICK from, to \in Stages \ {"planned"} : Goto(j, from, to)
      BY <1>4, JobMoves
    <3>2. pc[j] \notin {"planned", "done"}
      BY <1>4, <3>1 DEF Job, Goto, WaitToRead, TakeResource, BlockOnResource, LeaveResource,
         PassGate, ReserveTurn, TurnComes, LeaveGate, TakeSlot, Follow, Await, Lead, CacheHit,
         CacheMiss, ScanFails, ScanSucceeds, UnknownScanner, RecordFailure, RecordReport,
         Complete, ReleaseSlot, ReleaseResource, CloseFinished
    <3> QED BY <1>4, <3>2, JobContext DEF FailureInv
  <2>2. CASE WaitToRead(j) \/ TakeResource(j) \/ BlockOnResource(j) \/ LeaveResource(j) \/ PassGate(j)
    <3>1. PICK from \in Stages \ Flier, to \in Stages : Goto(j, from, to)
      BY <2>2 DEF WaitToRead, TakeResource, BlockOnResource, LeaveResource, PassGate
    <3> QED BY <2>1, <2>2, <3>1, QuietMove
            DEF WaitToRead, TakeResource, BlockOnResource, LeaveResource, PassGate
  <2>3. CASE ReserveTurn(j) \/ TurnComes(j) \/ LeaveGate(j) \/ TakeSlot(j) \/ Follow(j) \/ Await(j)
    <3>1. PICK from \in Stages \ Flier, to \in Stages : Goto(j, from, to)
      BY <2>3 DEF ReserveTurn, TurnComes, LeaveGate, TakeSlot, Follow, Await
    <3> QED BY <2>1, <2>3, <3>1, QuietMove
            DEF ReserveTurn, TurnComes, LeaveGate, TakeSlot, Follow, Await
  <2>4. CASE Complete(j) \/ ReleaseSlot(j) \/ ReleaseResource(j) \/ CloseFinished(j)
    <3>1. PICK from \in Ended, to \in Ended : Goto(j, from, to)
      BY <2>4 DEF Complete, ReleaseSlot, ReleaseResource, CloseFinished
    <3> QED BY <2>1, <2>4, <3>1, QuietMove
            DEF Complete, ReleaseSlot, ReleaseResource, CloseFinished
  <2>5. CASE RecordReport(j)
    <3>1. \/ Flight(j).outcome \notin Failures /\ Goto(j, "record", "complete")
          \/ Goto(j, "keep", "complete")
      BY <2>5 DEF RecordReport
    <3> QED BY <2>1, <2>5, <3>1, QuietMove DEF RecordReport
  <2>6. CASE Lead(j) \/ CacheMiss(j) \/ CacheHit(j) \/ ScanFails(j) \/ ScanSucceeds(j)
    <3>1. /\ ctlErrs' = ctlErrs /\ failedScans' = failedScans
          /\ \A i \in Idents : i # Ident[j] => flights'[i] = flights[i]
      BY <2>6 DEF Lead, CacheMiss, CacheHit, ScanFails, ScanSucceeds, Land, TypeOK
    <3>i. Ident[j] \in Idents
      BY DEF Idents
    <3>2. /\ flights'[Ident[j]].by = j
          /\ pc'[j] \in {"lookup", "scan", "record"}
          /\ flights'[Ident[j]].outcome # "pending" => pc'[j] = "record"
          /\ flights[Ident[j]].outcome = "pending"
      <4>1. CASE Lead(j)
        <5>1. flights[Ident[j]].outcome = "pending"
          BY <3>i, <4>1 DEF Lead, FlightInv, Flight
        <5>2. /\ flights'[Ident[j]].by = j
              /\ flights'[Ident[j]].outcome = flights[Ident[j]].outcome
              /\ pc'[j] = "lookup"
          BY <3>i, <4>1 DEF Lead, Goto, TypeOK
        <5> QED BY <5>1, <5>2
      <4>2. CASE CacheMiss(j) \/ CacheHit(j) \/ ScanFails(j) \/ ScanSucceeds(j)
        <5>1. pc[j] \in {"lookup", "scan"}
          BY <4>2 DEF CacheMiss, CacheHit, ScanFails, ScanSucceeds, Goto
        <5>2. flights[Ident[j]].by = j /\ flights[Ident[j]].outcome = "pending"
          <6>1. Flight(j) = [by |-> j, outcome |-> "pending"]
            BY <5>1 DEF FlightInv, OneScanPerIdentity
          <6> QED BY <6>1 DEF Flight
        <5>3. CASE CacheMiss(j)
          BY <5>2, <5>3 DEF CacheMiss, Goto, TypeOK
        <5>4. CASE CacheHit(j) \/ ScanFails(j) \/ ScanSucceeds(j)
          <6>1. /\ \E outcome \in Outcomes : Land(j, outcome)
                /\ \E from \in Stages : Goto(j, from, "record")
            BY <5>4 DEF CacheHit, ScanFails, ScanSucceeds, Outcomes
          <6>2. flights'[Ident[j]].by = flights[Ident[j]].by
            BY <3>i, <6>1 DEF Land, TypeOK
          <6>3. pc'[j] = "record"
            BY <6>1 DEF Goto, TypeOK
          <6> QED BY <5>2, <6>2, <6>3
        <5> QED BY <4>2, <5>3, <5>4
      <4> QED BY <2>6, <4>1, <4>2
    <3>3. flights[Ident[j]].outcome = "pending"
      BY <3>2
    <3>4. \A k \in Jobs : k # j => pc'[k] = pc[k]
      BY <2>6 DEF Lead, CacheMiss, CacheHit, ScanFails, ScanSucceeds, Goto, TypeOK
    <3>5. \A k \in failedScans' : \/ k \in (ctlErrs[Control[k]])'
                                  \/ (Flight(k).by # NoJob /\ Flight(k).outcome \in Failures)'
      <4> SUFFICES ASSUME NEW k \in failedScans, k \notin ctlErrs[Control[k]]
                   PROVE  Flight(k)'.by # NoJob /\ Flight(k)'.outcome \in Failures
        BY <3>1
      <4>1. Flight(k).by # NoJob /\ Flight(k).outcome \in Failures /\ k \in Jobs
        BY DEF FailureInv, TypeOK
      <4>2. Ident[k] # Ident[j]
        BY <3>3, <4>1 DEF Flight, Failures
      <4> QED BY <3>1, <4>1, <4>2 DEF Flight, Idents
    <3>6. ASSUME NEW i \in Idents, flights'[i].by # NoJob
          PROVE  LET k == flights'[i].by IN
                 /\ Ident[k] = i /\ pc'[k] \in Flier
                 /\ flights'[i].outcome # "pending" => pc'[k] \notin {"lookup", "scan"}
                 /\ flights'[i].outcome \in Failures /\ pc'[k] \in Ended \cup {"keep"}
                      => k \in ctlErrs[Control[k]]
      <4>1. CASE i = Ident[j]
        BY <3>2, <4>1
      <4>2. CASE i # Ident[j]
        <5>1. flights'[i] = flights[i] /\ flights[i].by \in Jobs /\ flights[i].by # j
          BY <3>1, <3>6, <4>2 DEF FailureInv, TypeOK
        <5> QED BY <3>4, <3>6, <5>1 DEF FailureInv
      <4> QED BY <4>1, <4>2
    <3> QED BY <2>1, <3>1, <3>5, <3>6 DEF FailureInv
  <2>7. CASE UnknownScanner(j) \/ RecordFailure(j)
    <3>1. flights' = flights /\ failedScans' = failedScans \cup {j}
      BY <2>7 DEF UnknownScanner, RecordFailure
    <3>2. \A c \in Controls : ctlErrs[c] \subseteq ctlErrs'[c]
      BY <2>7 DEF UnknownScanner, RecordFailure, CountFailure, TypeOK
    <3>3. \/ j \in ctlErrs'[Control[j]]
          \/ RecordFailure(j) /\ Shared(j) /\ Flight(j).by # NoJob /\ Flight(j).outcome \in Failures
      BY <2>7 DEF UnknownScanner, RecordFailure, CountFailure, TypeOK, Controls, FlightInv,
                  Flight, Failures, Idents
    <3>4. pc[j] \in {"unknown", "record"} /\ pc'[j] \in {"keep", "complete"}
          /\ \A k \in Jobs : k # j => pc'[k] = pc[k]
      BY <2>7 DEF UnknownScanner, RecordFailure, Goto, TypeOK
    <3>5. \A k \in failedScans' : \/ k \in ctlErrs'[Control[k]]
                                  \/ Flight(k).by # NoJob /\ Flight(k).outcome \in Failures
      <4> SUFFICES ASSUME NEW k \in failedScans, k # j
                   PROVE  \/ k \in ctlErrs'[Control[k]]
                          \/ Flight(k).by # NoJob /\ Flight(k).outcome \in Failures
        BY <3>1, <3>3
      <4> QED BY <3>2 DEF FailureInv, TypeOK, Controls
    <3>6. ASSUME NEW i \in Idents, flights[i].by # NoJob
          PROVE  LET k == flights[i].by IN
                 /\ Ident[k] = i /\ pc'[k] \in Flier
                 /\ flights[i].outcome # "pending" => pc'[k] \notin {"lookup", "scan"}
                 /\ flights[i].outcome \in Failures /\ pc'[k] \in Ended \cup {"keep"}
                      => k \in ctlErrs'[Control[k]]
      <4> DEFINE k == flights[i].by
      <4>1. k \in Jobs /\ Ident[k] = i /\ Control[k] \in Controls
        BY <3>6 DEF FailureInv, TypeOK, Controls
      <4>2. CASE k = j
        BY <3>3, <3>4, <4>1, <4>2 DEF Shared, Flight
      <4>3. CASE k # j
        BY <3>2, <3>4, <3>6, <4>1, <4>3 DEF FailureInv
      <4> QED BY <4>2, <4>3
    <3> QED BY <2>1, <3>1, <3>5, <3>6 DEF FailureInv, Flight
  <2> QED BY <1>4, <2>2, <2>3, <2>4, <2>5, <2>6, <2>7 DEF Job
<1> QED BY <1>1, <1>2, <1>3, <1>4 DEF Next, Main

\* Every failure a job recorded can be traced to whoever reported it or has yet to.
LEMMA FailuresTraced == Spec => []FailureInv
<1>1. FailureInv /\ IInv /\ [Next]_vars => FailureInv'
  BY StepFailures DEF IInv
<1> QED BY <1>1, InitFailures, Invariance, PTL DEF Spec

\* Only a job with a scanner asks for a scan, and the error of a scan is recorded by the
\* job that flew it, against its own control alone.
Belongs(j, stage) ==
  /\ stage \in Asking => Scanner[j] \in Registered
  /\ stage = "unknown" => Scanner[j] \notin Registered

TellerInv ==
  /\ \A j \in Jobs : Belongs(j, pc[j])
  /\ \A i \in Idents : flights[i].by # NoJob => Scanner[flights[i].by] \in Registered
  /\ \A c \in Controls : \A k \in ctlErrs[c] \cap Jobs :
       Scanner[k] \in Registered => Flight(k).by = k

LEMMA StepTellers ==
  ASSUME TypeOK, LaunchInv, FlightInv, TellerInv, [Next]_vars
  PROVE  TellerInv'
<1> USE DEF context, waiting, record, display
<1>1. CASE Launch
  <2>1. next \in Jobs /\ Goto(next, "planned", "order") /\ UNCHANGED <<flights, ctlErrs>>
    BY <1>1 DEF Launch, LaunchInv, Goto, Jobs
  <2>2. pc'[next] = "order" /\ \A k \in Jobs : k # next => pc'[k] = pc[k]
    BY <2>1, Moves DEF Stages
  <2> QED BY <2>1, <2>2 DEF TellerInv, Belongs, Asking, Flight
<1>2. CASE Cancel \/ StopLaunching \/ Return \/ Returned \/ UNCHANGED vars
  BY <1>2 DEF Cancel, StopLaunching, Return, Returned, vars, TellerInv, Flight
<1>3. ASSUME NEW j \in Jobs, Job(j) PROVE TellerInv'
  <2>1. PICK from \in Stages, to \in Stages : Goto(j, from, to)
    BY <1>3, JobMoves
  <2>2. pc[j] = from /\ pc'[j] = to /\ \A k \in Jobs : k # j => pc'[k] = pc[k]
    BY <2>1, Moves
  <2>3. Belongs(j, to)
    <3>1. pc \in [Jobs -> Stages] /\ Belongs(j, from)
      BY <2>2 DEF TypeOK, TellerInv
    <3>2. CASE \/ WaitToRead(j) \/ TakeResource(j) \/ BlockOnResource(j) \/ LeaveResource(j)
               \/ PassGate(j) \/ ReserveTurn(j) \/ TurnComes(j) \/ LeaveGate(j)
      <4>1. to \in {"lock", "gate", "blocked", "close", "slot", "turn", "unlock"}
        BY <2>2, <3>1, <3>2 DEF Goto, WaitToRead, TakeResource, BlockOnResource,
           LeaveResource, PassGate, ReserveTurn, TurnComes, LeaveGate
      <4> QED BY <4>1 DEF Belongs, Asking
    <3>3. CASE TakeSlot(j)
      <4>1. to = IF Scanner[j] \in Registered THEN "ask" ELSE "unknown"
        BY <2>2, <3>1, <3>3 DEF Goto, TakeSlot
      <4> QED BY <4>1 DEF Belongs, Asking
    <3>4. CASE \/ Lead(j) \/ Follow(j) \/ CacheHit(j) \/ CacheMiss(j)
               \/ ScanFails(j) \/ ScanSucceeds(j) \/ Await(j)
      <4>1. from \in Asking /\ to \in Asking
        BY <2>2, <3>1, <3>4 DEF Goto, Asking, Lead, Follow, CacheHit, CacheMiss, ScanFails,
           ScanSucceeds, Await
      <4> QED BY <3>1, <4>1 DEF Belongs, Asking
    <3>5. CASE UnknownScanner(j) \/ RecordFailure(j) \/ RecordReport(j)
      <4>1. to = "complete" \/ (from = "record" /\ to = "keep")
        BY <2>2, <3>1, <3>5 DEF Goto, UnknownScanner, RecordFailure, RecordReport
      <4> QED BY <3>1, <4>1 DEF Belongs, Asking
    <3>6. CASE Complete(j) \/ ReleaseSlot(j) \/ ReleaseResource(j) \/ CloseFinished(j)
      <4>1. to \in {"unslot", "unlock", "close", "done"}
        BY <2>2, <3>1, <3>6 DEF Goto, Complete, ReleaseSlot, ReleaseResource, CloseFinished
      <4> QED BY <4>1 DEF Belongs, Asking
    <3> QED BY <1>3, <3>2, <3>3, <3>4, <3>5, <3>6 DEF Job
  <2>4. CASE UNCHANGED <<flights, ctlErrs>>
    BY <2>2, <2>3, <2>4 DEF TellerInv, Flight
  <2>5. CASE Lead(j) \/ CacheHit(j) \/ ScanFails(j) \/ ScanSucceeds(j)
    <3>1. ctlErrs' = ctlErrs /\ from \in Asking
      BY <2>2, <2>5 DEF Lead, CacheHit, ScanFails, ScanSucceeds, Goto, Asking
    <3>2. \A i \in Idents : \/ flights'[i].by = flights[i].by
                             \/ (flights[i].by = NoJob /\ flights'[i].by = j)
      <4>1. CASE Lead(j)
        BY <4>1 DEF Lead, Flight, TypeOK
      <4>2. CASE CacheHit(j) \/ ScanFails(j) \/ ScanSucceeds(j)
        <5>1. PICK outcome : Land(j, outcome)
          BY <4>2 DEF CacheHit, ScanFails, ScanSucceeds
        <5> QED BY <5>1 DEF Land, TypeOK
      <4> QED BY <2>5, <4>1, <4>2
    <3>3. \A k \in Jobs : Flight(k).by = k => Flight(k)'.by = k
      BY <3>2 DEF Flight, Idents, Jobs, NoJob
    <3>4. Scanner[j] \in Registered
      BY <2>2, <3>1 DEF TellerInv, Belongs
    <3> QED BY <2>2, <2>3, <3>1, <3>2, <3>3, <3>4 DEF TellerInv
  <2>6. CASE UnknownScanner(j) \/ RecordFailure(j)
    <3>1. /\ flights' = flights
          /\ \A c \in Controls : ctlErrs'[c] \subseteq ctlErrs[c] \cup {j}
          /\ UnknownScanner(j) \/ Flight(j).by = j \/ ctlErrs' = ctlErrs
      BY <2>6 DEF UnknownScanner, RecordFailure, CountFailure, Shared, TypeOK
    <3>2. CASE UnknownScanner(j)
      <4>1. Scanner[j] \notin Registered
        BY <3>2 DEF UnknownScanner, Goto, TellerInv, Belongs
      <4> QED BY <2>2, <2>3, <3>1, <4>1 DEF TellerInv, Flight
    <3>3. CASE Flight(j).by = j
      BY <2>2, <2>3, <3>1, <3>3 DEF TellerInv, Flight
    <3>4. CASE ctlErrs' = ctlErrs
      BY <2>2, <2>3, <3>1, <3>4 DEF TellerInv, Flight
    <3> QED BY <3>1, <3>2, <3>3, <3>4
  <2> QED
    BY <1>3, <2>4, <2>5, <2>6 DEF Job, WaitToRead, TakeResource, BlockOnResource, LeaveResource,
       PassGate, ReserveTurn, TurnComes, LeaveGate, TakeSlot, Follow, CacheMiss, Await,
       RecordReport, Complete, ReleaseSlot, ReleaseResource, CloseFinished
<1> QED BY <1>1, <1>2, <1>3 DEF Next, Main

\* Whoever recorded the error of a scan is whoever flew it.
LEMMA FailuresToldOnce == Spec => []TellerInv
<1>1. Init => TellerInv
  BY DEF Init, TellerInv, Belongs, Asking, OrderError, Jobs
<1>2. IInv /\ TellerInv /\ [Next]_vars => TellerInv'
  BY StepTellers DEF IInv
<1> QED BY <1>1, <1>2, Invariance, PTL DEF Spec

\* Once the run has returned, a scan that failed jobs has been recorded as one error,
\* against the control of the job that flew it, however many shared it.
THEOREM FailuresReported == Spec => []FailureReachesControl
<1>1. FailureInv /\ TellerInv /\ TypeOK => FailureReachesControl
  <2> SUFFICES ASSUME FailureInv, TellerInv, TypeOK, main = "returned", NEW j \in failedScans
               PROVE  LET told == {k \in Jobs : Ident[k] = Ident[j] /\ k \in ctlErrs[Control[k]]}
                      IN  IF Scanner[j] \in Registered THEN \E k \in told : told = {k}
                                                       ELSE j \in told
    BY DEF FailureReachesControl
  <2> DEFINE told == {k \in Jobs : Ident[k] = Ident[j] /\ k \in ctlErrs[Control[k]]}
  <2>1. j \in Jobs
    BY DEF TypeOK
  <2>2. j \in told \/ (Scanner[j] \in Registered /\ \E k \in told : TRUE)
    <3>1. CASE j \in ctlErrs[Control[j]]
      BY <2>1, <3>1
    <3>2. CASE Flight(j).by # NoJob /\ Flight(j).outcome \in Failures
      <4> DEFINE k == Flight(j).by
      <4>1. k \in Jobs /\ Ident[k] = Ident[j]
        BY <2>1, <3>2 DEF FailureInv, TypeOK, Flight, Idents
      <4>2. pc[k] = "done"
        BY <2>1, <3>2, <4>1 DEF FailureInv, Flight, Flier, Ended, Idents
      <4>3. k \in ctlErrs[Control[k]]
        BY <2>1, <3>2, <4>1, <4>2 DEF FailureInv, Flight, Ended, Idents
      <4>4. Scanner[j] \in Registered
        BY <2>1, <3>2, <4>1, IdentityAssumption DEF TellerInv, Flight, Idents
      <4> QED BY <4>1, <4>3, <4>4
    <3> QED BY <3>1, <3>2 DEF FailureInv
  <2>3. ASSUME Scanner[j] \in Registered, NEW k \in told PROVE k = Flight(j).by
    <3>1. Scanner[k] \in Registered /\ Control[k] \in Controls
      BY <2>1, <2>3, IdentityAssumption DEF Controls
    <3>2. Flight(k).by = k
      BY <3>1 DEF TellerInv
    <3> QED BY <3>2 DEF Flight
  <2>4. CASE Scanner[j] \in Registered
    <3>1. PICK k \in told : TRUE
      BY <2>2
    <3>2. told = {k}
      BY <2>3, <2>4, <3>1
    <3> QED BY <2>4, <3>1, <3>2
  <2>5. CASE Scanner[j] \notin Registered
    BY <2>2, <2>5
  <2> QED BY <2>4, <2>5
<1> QED BY <1>1, FailuresTraced, FailuresToldOnce, TypeCorrect, PTL
=============================================================================
