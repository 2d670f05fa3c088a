------------------------------- MODULE ScanRun -------------------------------
(***************************************************************************)
(* The scheduler of Engine.Run (pkg/engine/engine.go): a launching loop,   *)
(* one goroutine per planned job, and the state they share.  A job waits   *)
(* for the jobs it reads after, takes its scanner's exclusive resource,    *)
(* waits out its scanner's rate limit, takes a concurrency slot, shares or *)
(* performs a scan, records what came of it, and gives everything back.    *)
(* The run's context may be canceled at any moment.                        *)
(*                                                                         *)
(* What a report contains is abstracted to how the scan ended.  Time is    *)
(* abstracted: a timer that is running may fire.                           *)
(*                                                                         *)
(* A definition marked "Broken:" is a mistake this code could have made.   *)
(* Nothing uses it; PROJECT.json names it as the mutant of the definition  *)
(* below it, to show that the property it names would notice.              *)
(***************************************************************************)
EXTENDS Integers, FiniteSets

CONSTANTS
  NumJobs,        \* the plan is jobs 1..NumJobs, in order
  Scanner,        \* Scanner[j]: the scanner a job runs
  Target,         \* Target[j]: the target it reads, paths included
  Source,         \* Source[t]: that target as outcomeKey names it, paths left out
  Ident,          \* Ident[j]: scanner, target and config as one identity
  Component,      \* Component[j]: whose surface the job reads
  Control,        \* Control[j]: the control that planned it
  Registered,     \* the scanners the registry knows
  Declarations,   \* what the scanners may declare: in each, who every scanner reads after
  ReadsAfterRun,  \* the scanners that read after every job of those, on any target
  Exclusive,      \* Exclusive[s]: the resource s uses whole, or NoResource
  NoResource,
  RateLimited,    \* the scanners with a rate limit
  Cacheable,      \* the targets whose results may be cached
  Planning,       \* the pseudo control that planning failures are filed under
  Concurrency     \* how many slots

Jobs       == 1..NumJobs
Scanners   == {Scanner[j]   : j \in Jobs}
Targets    == {Target[j]    : j \in Jobs}
Idents     == {Ident[j]     : j \in Jobs}
Components == {Component[j] : j \in Jobs}
Controls   == {Control[j]   : j \in Jobs} \cup {Planning}
Resources  == {Exclusive[s] : s \in Scanners} \ {NoResource}

\* What an error is about: a job, the order of the scanners, or the interruption.
OrderError  == 0
Interrupted == NumJobs + 1
Causes      == 0..(NumJobs + 1)
NoJob       == 0

ASSUME PlanAssumption ==
  /\ NumJobs \in Nat \ {0}
  /\ Concurrency \in Nat \ {0}
  /\ \A j \in Jobs : Scanner[j] # NoResource

\* Two jobs share an identity only if they run one scanner on one target.  They may
\* be of two controls: one file can be imported into both.
ASSUME IdentityAssumption ==
  \A j, k \in Jobs : Ident[j] = Ident[k] => Scanner[j] = Scanner[k] /\ Target[j] = Target[k]

-----------------------------------------------------------------------------
Resource(j) == IF Scanner[j] \in Registered THEN Exclusive[Scanner[j]] ELSE NoResource
Limited(j)  == Scanner[j] \in Registered \cap RateLimited
Step(j)     == <<Control[j], Scanner[j]>>

\* How a flight ends: a report read from the cache or from a scan, a report of part
\* of the target beside a failure, a failure, or a failure for want of the tool.
Failures == {"partial", "error", "missing"}
Outcomes == {"cached", "scanned"} \cup Failures

VARIABLES
  readsAfter, \* readsAfter[s]: the scanners s reads after
  main,       \* the goroutine that called Run: "launching", "joining", "returned"
  next,       \* the next job it launches
  canceled,   \* the run's context is done
  sawCancel,  \* the launching loop found it done
  pc,         \* where each job's goroutine stands
  finished,   \* the jobs whose finished channel is closed
  held,       \* the exclusive resources somebody holds
  turns,      \* the rate limited scanners whose gate has given a turn
  sem,        \* how many slots are taken
  flights,    \* per identity, the job that flies it and how it ended
  cache,      \* the identities with an entry the cache would serve
  errs,       \* the causes of the error Run returns
  ctlErrs,    \* per control, the causes recorded against it
  missing,    \* the jobs behind a missing-tool entry
  unscanned,  \* the jobs whose target went unread
  failedScans,\* the jobs whose scanner failed
  examined,   \* the components' targets some job read
  reports,    \* the jobs with a report
  stats,      \* Stats.Scans, .CacheHits and .Deduped
  running,    \* the jobs on the progress display
  complete,   \* how many of them have stopped
  failed,     \* how many have failed
  steps       \* per control and scanner, the display's counters

waiting   == <<finished, held, turns, sem>>
record    == <<errs, ctlErrs, missing, unscanned, failedScans, examined, reports, stats>>
display   == <<running, complete, failed, steps>>
context   == <<readsAfter, main, next, canceled, sawCancel>>
vars      == <<context, pc, waiting, flights, cache, record, display>>

\* Broken: only a scanner that names itself is looked for.
SelfOrder == \E s \in Scanners \cap Registered : s \in readsAfter[s]

\* A scanner order is cyclic when some scanners each read after one of themselves.
CyclicOrder ==
  LET declared == Scanners \cap Registered
  IN  \E S \in (SUBSET declared) \ {{}} : \A s \in S : readsAfter[s] \cap S # {}

\* The jobs j waits for; with a cyclic order nothing waits.
After(j) ==
  IF CyclicOrder \/ Scanner[j] \notin Registered THEN {}
  ELSE {d \in Jobs : /\ Scanner[d] \in readsAfter[Scanner[j]]
                     /\ \/ Scanner[j] \in ReadsAfterRun
                        \/ Source[Target[d]] = Source[Target[j]]}

Init ==
  /\ readsAfter \in Declarations
  /\ main = "launching" /\ next = 1
  /\ canceled \in BOOLEAN /\ sawCancel = FALSE
  /\ pc = [j \in Jobs |-> "planned"]
  /\ finished = {} /\ held = {} /\ turns = {} /\ sem = 0
  /\ flights = [i \in Idents |-> [by |-> NoJob, outcome |-> "pending"]]
  /\ cache \in SUBSET {Ident[j] : j \in {k \in Jobs : Target[k] \in Cacheable}}
  /\ errs = IF CyclicOrder THEN {OrderError} ELSE {}
  /\ ctlErrs = [c \in Controls |-> IF CyclicOrder /\ c = Planning THEN {OrderError} ELSE {}]
  /\ missing = {} /\ unscanned = {} /\ failedScans = {} /\ examined = {} /\ reports = {}
  /\ stats = [scans |-> 0, hits |-> 0, deduped |-> 0]
  /\ running = {} /\ complete = 0 /\ failed = 0
  /\ steps = [s \in {Step(j) : j \in Jobs} |-> [running |-> 0, done |-> 0, failed |-> 0]]

-----------------------------------------------------------------------------
(* The caller's side: the signal, the launching loop and the join.          *)

Cancel ==
  /\ main # "returned" /\ ~canceled
  /\ canceled' = TRUE
  /\ UNCHANGED <<readsAfter, main, next, sawCancel, pc, waiting, flights, cache, record, display>>

Launch ==
  /\ main = "launching" /\ ~canceled
  /\ pc' = [pc EXCEPT ![next] = "order"]
  /\ next' = next + 1
  /\ main' = IF next = NumJobs THEN "joining" ELSE main
  /\ UNCHANGED <<readsAfter, canceled, sawCancel, waiting, flights, cache, record, display>>

StopLaunching ==
  /\ main = "launching" /\ canceled
  /\ sawCancel' = TRUE
  /\ main' = "joining"
  /\ UNCHANGED <<readsAfter, next, canceled, pc, waiting, flights, cache, record, display>>

\* Broken: the results are put together without waiting for the jobs.
ReturnUnjoined ==
  /\ main = "joining"
  /\ main' = "returned"
  /\ errs' = errs
  /\ UNCHANGED <<readsAfter, next, canceled, sawCancel, pc, waiting, flights, cache, display,
                 ctlErrs, missing, unscanned, failedScans, examined, reports, stats>>

Return ==
  /\ main = "joining"
  /\ \A j \in 1..(next - 1) : pc[j] = "done"
  /\ main' = "returned"
  /\ errs' = IF sawCancel THEN errs \cup {Interrupted} ELSE errs
  /\ UNCHANGED <<readsAfter, next, canceled, sawCancel, pc, waiting, flights, cache, display,
                 ctlErrs, missing, unscanned, failedScans, examined, reports, stats>>

-----------------------------------------------------------------------------
(* A job's goroutine, up to its slot.                                       *)

Goto(j, from, to) == pc[j] = from /\ pc' = [pc EXCEPT ![j] = to]

\* Broken: only the first of the jobs to wait for is waited for.
WaitForAny(j) ==
  /\ After(j) = {} \/ After(j) \cap finished # {} \/ canceled
  /\ Goto(j, "order", "lock")
  /\ UNCHANGED <<context, waiting, flights, cache, record, display>>

\* waitToRead: on cancelation the job goes on, to find the run canceled.
WaitToRead(j) ==
  /\ After(j) \subseteq finished \/ canceled
  /\ Goto(j, "order", "lock")
  /\ UNCHANGED <<context, waiting, flights, cache, record, display>>

\* acquire, first select: a free resource is taken whether or not the run is canceled.
TakeResource(j) ==
  /\ \/ Goto(j, "lock", "gate")
     \/ Resource(j) # NoResource /\ Goto(j, "blocked", "gate")
  /\ Resource(j) \notin held
  /\ held' = IF Resource(j) = NoResource THEN held ELSE held \cup {Resource(j)}
  /\ UNCHANGED <<context, finished, turns, sem, flights, cache, record, display>>

BlockOnResource(j) ==
  /\ Resource(j) \in held
  /\ Goto(j, "lock", "blocked")
  /\ UNCHANGED <<context, waiting, flights, cache, record, display>>

\* Broken: the release is deferred before the resource is won.
LeaveAndRelease(j) ==
  /\ canceled
  /\ Goto(j, "blocked", "unlock")
  /\ UNCHANGED <<context, waiting, flights, cache, record, display>>

LeaveResource(j) ==
  /\ canceled
  /\ Goto(j, "blocked", "close")
  /\ UNCHANGED <<context, waiting, flights, cache, record, display>>

\* rateGate.wait: a gate's first turn is due at once, and a later one once enough
\* time has passed; otherwise the job reserves a turn and waits for it.
PassGate(j) ==
  /\ Goto(j, "gate", "slot")
  /\ turns' = IF Limited(j) THEN turns \cup {Scanner[j]} ELSE turns
  /\ UNCHANGED <<context, finished, held, sem, flights, cache, record, display>>

ReserveTurn(j) ==
  /\ Limited(j) /\ Scanner[j] \in turns
  /\ Goto(j, "gate", "turn")
  /\ UNCHANGED <<context, waiting, flights, cache, record, display>>

TurnComes(j) ==
  /\ Goto(j, "turn", "slot")
  /\ UNCHANGED <<context, waiting, flights, cache, record, display>>

\* Broken: the slot's release is deferred before the rate limit is waited out.
LeaveGateAndSlot(j) ==
  /\ canceled
  /\ Goto(j, "turn", "unslot")
  /\ UNCHANGED <<context, waiting, flights, cache, record, display>>

LeaveGate(j) ==
  /\ canceled
  /\ Goto(j, "turn", "unlock")
  /\ UNCHANGED <<context, waiting, flights, cache, record, display>>

\* Broken: every job with a goroutine runs at once.
TakeNoSlot(j) ==
  /\ sem' = sem + 1
  /\ Goto(j, "slot", IF Scanner[j] \in Registered THEN "ask" ELSE "unknown")
  /\ running' = running \cup {j}
  /\ steps' = [steps EXCEPT ![Step(j)].running = @ + 1]
  /\ UNCHANGED <<context, finished, held, turns, flights, cache, record, complete, failed>>

\* The send on sem, which cancelation does not interrupt, and the mark on the display.
TakeSlot(j) ==
  /\ sem < Concurrency
  /\ sem' = sem + 1
  /\ Goto(j, "slot", IF Scanner[j] \in Registered THEN "ask" ELSE "unknown")
  /\ running' = running \cup {j}
  /\ steps' = [steps EXCEPT ![Step(j)].running = @ + 1]
  /\ UNCHANGED <<context, finished, held, turns, flights, cache, record, complete, failed>>

-----------------------------------------------------------------------------
(* The scan, shared by the jobs with one identity (sfGroup.do).             *)

Flight(j) == flights[Ident[j]]
Shared(j) == Flight(j).by # j

\* Broken: an identity is forgotten once its scan has ended.
LeadAgain(j) ==
  /\ Flight(j).by = NoJob \/ Flight(j).outcome # "pending"
  /\ flights' = [flights EXCEPT ![Ident[j]].by = j]
  /\ Goto(j, "ask", "lookup")
  /\ UNCHANGED <<context, waiting, cache, record, display>>

Lead(j) ==
  /\ Flight(j).by = NoJob
  /\ flights' = [flights EXCEPT ![Ident[j]].by = j]
  /\ Goto(j, "ask", "lookup")
  /\ UNCHANGED <<context, waiting, cache, record, display>>

Follow(j) ==
  /\ Flight(j).by # NoJob
  /\ Goto(j, "ask", "await")
  /\ UNCHANGED <<context, waiting, flights, cache, record, display>>

Land(j, outcome) == flights' = [flights EXCEPT ![Ident[j]].outcome = outcome]

CacheHit(j) ==
  /\ Target[j] \in Cacheable /\ Ident[j] \in cache
  /\ Goto(j, "lookup", "record")
  /\ Land(j, "cached")
  /\ UNCHANGED <<context, waiting, cache, record, display>>

CacheMiss(j) ==
  /\ ~(Target[j] \in Cacheable /\ Ident[j] \in cache)
  /\ Goto(j, "lookup", "scan")
  /\ UNCHANGED <<context, waiting, flights, cache, record, display>>

ScanFails(j) ==
  /\ Goto(j, "scan", "record")
  /\ \E outcome \in Failures : Land(j, outcome)
  /\ UNCHANGED <<context, waiting, cache, record, display>>

\* A complete report is stored where the job caches; a write that fails is only logged.
ScanSucceeds(j) ==
  /\ Goto(j, "scan", "record")
  /\ Land(j, "scanned")
  /\ cache' \in IF Target[j] \in Cacheable THEN {cache, cache \cup {Ident[j]}} ELSE {cache}
  /\ UNCHANGED <<context, waiting, record, display>>

Await(j) ==
  /\ Flight(j).outcome # "pending"
  /\ Goto(j, "await", "record")
  /\ UNCHANGED <<context, waiting, flights, cache, record, display>>

-----------------------------------------------------------------------------
(* What the job records, each action one section under mu; a report's two   *)
(* sections are one, for only the jobs' end lets anyone read what they write. *)

\* The errors of a job that is the one to report them.
CountFailure(j) ==
  /\ errs' = errs \cup {j}
  /\ ctlErrs' = [ctlErrs EXCEPT ![Control[j]] = @ \cup {j}]
  /\ failed' = failed + 1
  /\ steps' = [steps EXCEPT ![Step(j)].failed = @ + 1]

UnknownScanner(j) ==
  /\ Goto(j, "unknown", "complete")
  /\ CountFailure(j)
  /\ unscanned' = unscanned \cup {j}
  /\ failedScans' = failedScans \cup {j}
  /\ UNCHANGED <<context, waiting, flights, cache, missing, examined, reports, stats,
                 running, complete>>

\* Broken: a job that shared a failure returns before recording anything.
RecordFailureOnce(j) ==
  /\ Flight(j).outcome \in Failures
  /\ Goto(j, "record", IF Flight(j).outcome = "partial" THEN "keep" ELSE "complete")
  /\ IF Shared(j)
     THEN UNCHANGED <<errs, ctlErrs, missing, unscanned, failedScans, failed, steps>>
     ELSE /\ CountFailure(j)
          /\ missing' = IF Flight(j).outcome = "missing" THEN missing \cup {j} ELSE missing
          /\ unscanned' = IF Flight(j).outcome = "partial" THEN unscanned ELSE unscanned \cup {j}
          /\ failedScans' = failedScans \cup {j}
  /\ UNCHANGED <<context, waiting, flights, cache, examined, reports, stats, running, complete>>

\* Broken: what went unread is recorded once, like its error.
RecordUnreadOnce(j) ==
  /\ Flight(j).outcome \in Failures
  /\ Goto(j, "record", IF Flight(j).outcome = "partial" THEN "keep" ELSE "complete")
  /\ IF Shared(j)
     THEN UNCHANGED <<errs, ctlErrs, missing, unscanned, failed, steps>>
     ELSE /\ CountFailure(j)
          /\ missing' = IF Flight(j).outcome = "missing" THEN missing \cup {j} ELSE missing
          /\ unscanned' = IF Flight(j).outcome = "partial" THEN unscanned ELSE unscanned \cup {j}
  /\ failedScans' = failedScans \cup {j}
  /\ UNCHANGED <<context, waiting, flights, cache, examined, reports, stats, running, complete>>

\* Broken: the report of a partial scan is kept without its error.
RecordOutrightFailure(j) ==
  /\ Flight(j).outcome \in Failures
  /\ Goto(j, "record", IF Flight(j).outcome = "partial" THEN "keep" ELSE "complete")
  /\ IF Shared(j) \/ Flight(j).outcome = "partial"
     THEN UNCHANGED <<errs, ctlErrs, missing, failed, steps>>
     ELSE /\ CountFailure(j)
          /\ missing' = IF Flight(j).outcome = "missing" THEN missing \cup {j} ELSE missing
  /\ unscanned' = IF Flight(j).outcome = "partial" THEN unscanned ELSE unscanned \cup {j}
  /\ failedScans' = failedScans \cup {j}
  /\ UNCHANGED <<context, waiting, flights, cache, examined, reports, stats, running, complete>>

\* A shared failure's error is recorded once, by the job that ran the scan; what
\* went unread is recorded by every job.
RecordFailure(j) ==
  /\ Flight(j).outcome \in Failures
  /\ Goto(j, "record", IF Flight(j).outcome = "partial" THEN "keep" ELSE "complete")
  /\ IF Shared(j)
     THEN UNCHANGED <<errs, ctlErrs, missing, failed, steps>>
     ELSE /\ CountFailure(j)
          /\ missing' = IF Flight(j).outcome = "missing" THEN missing \cup {j} ELSE missing
  /\ unscanned' = IF Flight(j).outcome = "partial" THEN unscanned ELSE unscanned \cup {j}
  /\ failedScans' = failedScans \cup {j}
  /\ UNCHANGED <<context, waiting, flights, cache, examined, reports, stats, running, complete>>

\* Broken: a cached report is counted as a hit by every job that shares it.
RecordHitFirst(j) ==
  /\ \/ Flight(j).outcome \notin Failures /\ Goto(j, "record", "complete")
     \/ Goto(j, "keep", "complete")
  /\ examined' = examined \cup {<<Component[j], Target[j]>>}
  /\ reports' = reports \cup {j}
  /\ stats' = CASE Flight(j).outcome = "cached" -> [stats EXCEPT !.hits = @ + 1]
                [] Flight(j).outcome # "cached" /\ Shared(j) -> [stats EXCEPT !.deduped = @ + 1]
                [] OTHER                        -> [stats EXCEPT !.scans = @ + 1]
  /\ UNCHANGED <<context, waiting, flights, cache, errs, ctlErrs, missing, unscanned,
                 failedScans, display>>

\* A report is counted as shared before it is counted as a hit or as a scan.
RecordReport(j) ==
  /\ \/ Flight(j).outcome \notin Failures /\ Goto(j, "record", "complete")
     \/ Goto(j, "keep", "complete")
  /\ examined' = examined \cup {<<Component[j], Target[j]>>}
  /\ reports' = reports \cup {j}
  /\ stats' = CASE Shared(j)                    -> [stats EXCEPT !.deduped = @ + 1]
                [] Flight(j).outcome = "cached" /\ ~Shared(j) -> [stats EXCEPT !.hits = @ + 1]
                [] OTHER                        -> [stats EXCEPT !.scans = @ + 1]
  /\ UNCHANGED <<context, waiting, flights, cache, errs, ctlErrs, missing, unscanned,
                 failedScans, display>>

-----------------------------------------------------------------------------
(* The deferred calls, last deferred first.                                 *)

Complete(j) ==
  /\ Goto(j, "complete", "unslot")
  /\ running' = running \ {j}
  /\ complete' = complete + 1
  /\ steps' = [steps EXCEPT ![Step(j)].running = IF @ > 0 THEN @ - 1 ELSE @,
                            ![Step(j)].done = @ + 1]
  /\ UNCHANGED <<context, waiting, flights, cache, record, failed>>

ReleaseSlot(j) ==
  /\ Goto(j, "unslot", "unlock")
  /\ sem' = sem - 1
  /\ UNCHANGED <<context, finished, held, turns, flights, cache, record, display>>

ReleaseResource(j) ==
  /\ Goto(j, "unlock", "close")
  /\ held' = held \ {Resource(j)}
  /\ UNCHANGED <<context, finished, turns, sem, flights, cache, record, display>>

CloseFinished(j) ==
  /\ Goto(j, "close", "done")
  /\ finished' = finished \cup {j}
  /\ UNCHANGED <<context, held, turns, sem, flights, cache, record, display>>

-----------------------------------------------------------------------------
Main == Launch \/ StopLaunching \/ Return

Job(j) ==
  \/ WaitToRead(j)
  \/ TakeResource(j) \/ BlockOnResource(j) \/ LeaveResource(j)
  \/ PassGate(j) \/ ReserveTurn(j) \/ TurnComes(j) \/ LeaveGate(j)
  \/ TakeSlot(j)
  \/ Lead(j) \/ Follow(j) \/ CacheHit(j) \/ CacheMiss(j)
  \/ ScanFails(j) \/ ScanSucceeds(j) \/ Await(j)
  \/ UnknownScanner(j) \/ RecordFailure(j) \/ RecordReport(j)
  \/ Complete(j) \/ ReleaseSlot(j) \/ ReleaseResource(j) \/ CloseFinished(j)

Returned == main = "returned" /\ UNCHANGED vars

Next == Cancel \/ Main \/ (\E j \in Jobs : Job(j)) \/ Returned

\* The Go scheduler runs every goroutine that can run, a timer that is set fires, and
\* a scan ends: each scanner's process is bounded by a timeout or by the run's context.
Fairness == WF_vars(Main) /\ \A j \in Jobs : WF_vars(Job(j))

Spec == Init /\ [][Next]_vars /\ Fairness

-----------------------------------------------------------------------------
(* Properties.                                                              *)

Stages == {"planned", "order", "lock", "blocked", "gate", "turn", "slot", "unknown", "ask",
           "lookup", "scan", "await", "record", "keep", "complete", "unslot", "unlock",
           "close", "done"}
Slotted   == {"unknown", "ask", "lookup", "scan", "await", "record", "keep", "complete", "unslot"}
Resourced == Slotted \cup {"gate", "turn", "slot", "unlock"}
Ended     == {"complete", "unslot", "unlock", "close", "done"}
Counters  == [running : Nat, done : Nat, failed : Nat]

\* Type: every variable stays in its range.
TypeOK ==
  /\ readsAfter \in Declarations
  /\ main \in {"launching", "joining", "returned"}
  /\ next \in 1..(NumJobs + 1)
  /\ canceled \in BOOLEAN /\ sawCancel \in BOOLEAN
  /\ pc \in [Jobs -> Stages]
  /\ finished \subseteq Jobs
  /\ held \subseteq Resources
  /\ turns \subseteq Scanners
  /\ sem \in 0..Concurrency
  /\ flights \in [Idents -> [by : Jobs \cup {NoJob}, outcome : Outcomes \cup {"pending"}]]
  /\ cache \subseteq Idents
  /\ errs \subseteq Causes
  /\ ctlErrs \in [Controls -> SUBSET Causes]
  /\ missing \subseteq Jobs /\ unscanned \subseteq Jobs /\ failedScans \subseteq Jobs
  /\ examined \subseteq Components \X Targets
  /\ reports \subseteq Jobs
  /\ stats \in [scans : Nat, hits : Nat, deduped : Nat]
  /\ running \subseteq Jobs
  /\ complete \in Nat /\ failed \in Nat
  /\ steps \in [{Step(j) : j \in Jobs} -> Counters]

\* However many jobs wait on orders, resources and rate limits, no more than the
\* run's concurrency are ever shown running, and each of those holds a slot.
SlotsBounded == Cardinality(running) <= sem /\ sem <= Concurrency

Holds(j) == Resource(j) # NoResource /\ pc[j] \in Resourced

\* A resource a scanner declares Exclusive is held by one job at a time across every
\* target, from before its rate limit until after its slot is free.
ExclusiveUse ==
  \A j, k \in Jobs : j # k /\ Holds(j) /\ Holds(k) => Resource(j) # Resource(k)

\* Until a run is canceled, a job that reads after another goes no further than
\* waiting before that other has recorded its outcome and given everything back.
ReadersFollow ==
  ~canceled => \A j \in Jobs : \A d \in After(j) :
    pc[j] \notin {"planned", "order"} => /\ pc[d] = "done"
                                         /\ d \in reports \cup failedScans

\* An identity is looked up or scanned only by the one job that flies it, and never
\* again once it has landed: identical jobs make a single scan.
OneScanPerIdentity ==
  \A j \in Jobs : pc[j] \in {"lookup", "scan"} => Flight(j) = [by |-> j, outcome |-> "pending"]

\* Identical jobs that went through the scan tell the same story: both have a report
\* or neither has, both failed or neither did, both went unread or neither did.
SharedAnswer ==
  \A j, k \in Jobs :
    /\ Ident[j] = Ident[k]
    /\ \A i \in {j, k} : pc[i] \in Ended /\ i \in reports \cup failedScans
    => \A tally \in {reports, failedScans, unscanned} : j \in tally <=> k \in tally

\* Once the run returns, a scan that failed jobs is recorded as one error, against the
\* control of the job that flew it, whichever that was and however many shared it; a job
\* with no scanner to run records its own.
FailureReachesControl ==
  main = "returned" =>
    \A j \in failedScans :
      LET told == {k \in Jobs : Ident[k] = Ident[j] /\ k \in ctlErrs[Control[k]]}
      IN  IF Scanner[j] \in Registered THEN \E k \in told : told = {k} ELSE j \in told

\* Result.Stats.Unscanned: what went unread by some job of a component and was read
\* by no other job of the same component.
TrulyUnscanned == {<<Component[j], Target[j]>> : j \in unscanned} \ examined

\* A run nobody canceled accounts for every component's every target, as examined or
\* as truly unscanned, and one with no recorded error examined them all.
CoverageIsTold ==
  main = "returned" /\ ~canceled =>
    \A j \in Jobs :
      LET surface == <<Component[j], Target[j]>>
      IN  /\ surface \in examined \cup TrulyUnscanned
          /\ (\A c \in Controls : ctlErrs[c] = {}) => surface \in examined

\* Every report is counted once, as a scan, a cache hit or a shared scan, and no
\* identity is counted as scanned or reused twice.
StatsAddUp ==
  /\ stats.scans + stats.hits + stats.deduped = Cardinality(reports)
  /\ stats.scans + stats.hits <= Cardinality(Idents)

\* A progress snapshot never shows more jobs running than remain, each step shows
\* exactly its own running jobs, and no step shows more failures than jobs tried.
DisplayHonest ==
  /\ complete + Cardinality(running) <= NumJobs
  /\ \A s \in DOMAIN steps :
       /\ steps[s].running = Cardinality({j \in running : Step(j) = s})
       /\ steps[s].failed <= steps[s].done + steps[s].running

\* The numbers a run gives agree with what its jobs did: the totals of its result and
\* the counters of its display, which are changed apart from what they count.
TotalsAddUp == StatsAddUp /\ DisplayHonest

\* Every run returns, canceled or not: no job waits forever for an order, a resource,
\* a turn, a slot or another job's scan.
Termination == <>(main = "returned")

\* The run keeps its promise to the caller (RunPromise).
OutcomeOf(j) ==
  CASE pc[j] = "planned" -> IF main = "launching" THEN "pending" ELSE "abandoned"
    [] pc[j] \in Ended   -> IF j \in failedScans
                            THEN IF j \in reports THEN "part" ELSE "unread"
                            ELSE IF j \in reports THEN "read" ELSE "abandoned"
    [] OTHER             -> "pending"

Promise == INSTANCE RunPromise WITH
  outcome     <- [j \in Jobs |-> OutcomeOf(j)],
  interrupted <- canceled,
  open        <- main # "returned"

KeepsPromise == Promise!Spec

\* What internal/cli/scan.go says of the error it drops: every failure Run joins into
\* its error is also recorded against a control.
EveryErrorHasAControl ==
  main = "returned" => \A cause \in errs : \E c \in Controls : cause \in ctlErrs[c]

\* What engine.go says of Result.Incomplete, by which every report decides whether a
\* control is in error: an error is recorded against a control when a job of it failed.
EveryFailedControlSaysSo ==
  main = "returned" => \A j \in failedScans : ctlErrs[Control[j]] # {}
=============================================================================
