------------------------------ MODULE Checkouts ------------------------------
(***************************************************************************)
(* What a repository job of a run reads: the commit its cache key names    *)
(* (Engine.commitOf, revisionKey), the checkout it shares with the other   *)
(* scanners of the run (internal/git.Pool), and the entry it leaves on     *)
(* disk for later runs (pkg/cache.Local).  The branch may move at any      *)
(* moment, a run may be killed at any moment, and the cache outlives it.   *)
(*                                                                         *)
(* Every job has an identity of its own: the jobs that share one are one   *)
(* job here, as ScanRun's flights make them.  An entry's age is abstracted *)
(* to the choice to miss, and a report to the commit its scanner read.     *)
(*                                                                         *)
(* A definition marked "Broken:" is a mistake this code could have made.   *)
(* Nothing uses it; PROJECT.json names it as the mutant of the definition  *)
(* below it, to show that the property it names would notice.              *)
(***************************************************************************)
EXTENDS Naturals

CONSTANTS
  Jobs,
  Commits,
  Pin,         \* Pin[j]: the commit j's revision is, or Branch
  Branch,      \* a revision that names whatever the branch points at
  Scope,       \* Scope[j]: the paths j's component is made of, or Whole
  Whole,
  Subtree,     \* Subtree[c][s]: the tree that the paths s are at commit c
  HistoryJobs, \* the jobs whose scanner reads the commit history
  Local,       \* the repository is on this machine, and its trees can be named
  MaxRuns,     \* bound: how many runs use the cache
  Unasked, Unknown, NoEntry, Torn, NoReport, Failed

ASSUME CheckoutAssumption ==
  /\ MaxRuns \in Nat \ {0}
  /\ Local \in BOOLEAN
  /\ HistoryJobs \subseteq Jobs
  /\ \A j \in Jobs : Pin[j] \in Commits \cup {Branch}
  /\ Branch \notin Commits
  /\ {Unasked, Unknown, NoEntry, Torn, NoReport, Failed} \cap Commits = {}
  /\ NoEntry # Torn /\ Torn \notin {NoReport, Failed}
  /\ NoReport # Failed /\ Unasked # Unknown

-----------------------------------------------------------------------------
\* All a job's scanner sees of a commit: its history, the whole of it, or its paths.
Sees(j, c) ==
  IF j \in HistoryJobs \/ Scope[j] = Whole THEN <<Whole, c>> ELSE <<Scope[j], Subtree[c][Scope[j]]>>

\* What a cache key ends in.  A remote repository's trees cannot be named.
RevisionKey(j, c) == IF Local THEN Sees(j, c) ELSE <<Whole, c>>

CacheKeys == {<<j, RevisionKey(j, c)>> : j \in Jobs, c \in Commits}

\* Two scanners share a checkout of one revision and scope, if neither or both ask
\* for history.
PoolKey(j) == <<Pin[j], Scope[j], j \in HistoryJobs>>
PoolKeys   == {PoolKey(j) : j \in Jobs}

VARIABLES
  head,    \* the commit the branch points at
  run,     \* how many runs have begun
  pc,      \* where each job of the run stands
  memo,    \* the commit the run has found the branch to name
  asks,    \* how many times this run asked
  pool,    \* per checkout, its state and the commit it holds
  clones,  \* per checkout, how many times this run made it
  name,    \* the commit each job's cache key is made of
  cache,   \* the entries on disk, each the commit its scanner read
  report,  \* the commit each job's report is about
  reused   \* the jobs whose report came from the cache

process == <<memo, asks, pool, clones, name, report, reused>>
vars    == <<head, run, pc, process, cache>>

Absent == [state |-> "absent", commit |-> Unknown]

EachJob(value)      == [j \in Jobs |-> value]
EachCheckout(value) == [k \in PoolKeys |-> value]

Init ==
  /\ head \in Commits
  /\ run = 1
  /\ cache = [k \in CacheKeys |-> NoEntry]
  /\ pc = EachJob("start") /\ name = EachJob(Unknown) /\ report = EachJob(NoReport)
  /\ pool = EachCheckout(Absent) /\ clones = EachCheckout(0)
  /\ memo = Unasked /\ asks = 0 /\ reused = {}

Goto(j, from, to) == pc[j] = from /\ pc' = [pc EXCEPT ![j] = to]

-----------------------------------------------------------------------------
(* The commit a job's cache key names.                                      *)

Push ==
  /\ \E c \in Commits \ {head} : head' = c
  /\ UNCHANGED <<run, pc, process, cache>>

\* Broken: a revision nobody could resolve is cached under whatever was last known.
NameAnyway(j) ==
  /\ Goto(j, "start", "lookup")
  /\ IF Pin[j] # Branch
     THEN /\ name' = [name EXCEPT ![j] = Pin[j]]
          /\ UNCHANGED <<memo, asks>>
     ELSE /\ memo' \in IF memo = Unasked THEN {head, Unknown} ELSE {memo}
          /\ asks' = IF memo = Unasked THEN asks + 1 ELSE asks
          /\ name' = [name EXCEPT ![j] = IF memo' = Unknown THEN head ELSE memo']
  /\ UNCHANGED <<head, run, pool, clones, cache, report, reused>>

\* Broken: a revision that could not be resolved is asked about again by the next job.
NameAfresh(j) ==
  /\ IF Pin[j] # Branch
     THEN /\ name' = [name EXCEPT ![j] = Pin[j]]
          /\ UNCHANGED <<memo, asks>>
     ELSE /\ memo' \in IF memo \in {Unasked, Unknown} THEN {head, Unknown} ELSE {memo}
          /\ asks' = IF memo \in {Unasked, Unknown} THEN asks + 1 ELSE asks
          /\ name' = [name EXCEPT ![j] = memo']
  /\ Goto(j, "start", IF name'[j] = Unknown THEN "fetch" ELSE "lookup")
  /\ UNCHANGED <<head, run, pool, clones, cache, report, reused>>

\* commitOf, one section under revisionsMu.  The answer is remembered for the run, a
\* failure to get one as well, and a job without one is not cached.
Name(j) ==
  /\ IF Pin[j] # Branch
     THEN /\ name' = [name EXCEPT ![j] = Pin[j]]
          /\ UNCHANGED <<memo, asks>>
     ELSE /\ memo' \in IF memo = Unasked THEN {head, Unknown} ELSE {memo}
          /\ asks' = IF memo = Unasked THEN asks + 1 ELSE asks
          /\ name' = [name EXCEPT ![j] = memo']
  /\ Goto(j, "start", IF name'[j] = Unknown THEN "fetch" ELSE "lookup")
  /\ UNCHANGED <<head, run, pool, clones, cache, report, reused>>

Entry(j) == <<j, RevisionKey(j, name[j])>>

\* Broken: whatever reading an entry comes to is served.
HitAnything(j) ==
  /\ Goto(j, "lookup", "ended")
  /\ report' = [report EXCEPT ![j] = cache[Entry(j)]]
  /\ reused' = reused \cup {j}
  /\ UNCHANGED <<head, run, memo, asks, pool, clones, name, cache>>

Hit(j) ==
  /\ Goto(j, "lookup", "ended")
  /\ cache[Entry(j)] \in Commits
  /\ report' = [report EXCEPT ![j] = cache[Entry(j)]]
  /\ reused' = reused \cup {j}
  /\ UNCHANGED <<head, run, memo, asks, pool, clones, name, cache>>

\* Absent, unreadable or expired.
Miss(j) ==
  /\ Goto(j, "lookup", "fetch")
  /\ UNCHANGED <<head, run, process, cache>>

-----------------------------------------------------------------------------
(* The checkout (Pool.Checkout): whoever asks first makes it.               *)

\* Broken: a checkout is entered in the pool only once it has been made.
FetchUnseen(j) ==
  LET k == PoolKey(j) IN
  /\ Goto(j, "fetch", "clone")
  /\ pool[k].state \in {"absent", "cloning"}
  /\ pool' = [pool EXCEPT ![k].state = "cloning"]
  /\ clones' = [clones EXCEPT ![k] = @ + 1]
  /\ UNCHANGED <<head, run, memo, asks, name, cache, report, reused>>

Fetch(j) ==
  LET k == PoolKey(j) IN
  /\ Goto(j, "fetch", "clone")
  /\ pool[k].state = "absent"
  /\ pool' = [pool EXCEPT ![k].state = "cloning"]
  /\ clones' = [clones EXCEPT ![k] = @ + 1]
  /\ UNCHANGED <<head, run, memo, asks, name, cache, report, reused>>

\* Broken: the clone is scanned as it came, its revision never checked out.
CloneHead(j) ==
  /\ Goto(j, "clone", "fetch")
  /\ \E made \in {[state |-> "ready", commit |-> head], [state |-> "failed", commit |-> Unknown]} :
       pool' = [pool EXCEPT ![PoolKey(j)] = made]
  /\ UNCHANGED <<head, run, memo, asks, clones, name, cache, report, reused>>

\* Broken: a clone that fails leaves those waiting for it to wait.
CloneSilently(j) ==
  LET commit == IF Pin[j] = Branch THEN head ELSE Pin[j] IN
  /\ Goto(j, "clone", "fetch")
  /\ \E made \in {[state |-> "ready", commit |-> commit], [state |-> "cloning", commit |-> Unknown]} :
       pool' = [pool EXCEPT ![PoolKey(j)] = made]
  /\ UNCHANGED <<head, run, memo, asks, clones, name, cache, report, reused>>

\* The clone holds what the branch points at by now, whatever the key names.
Clone(j) ==
  LET commit == IF Pin[j] = Branch THEN head ELSE Pin[j] IN
  /\ Goto(j, "clone", "fetch")
  /\ \E made \in {[state |-> "ready", commit |-> commit], [state |-> "failed", commit |-> Unknown]} :
       pool' = [pool EXCEPT ![PoolKey(j)] = made]
  /\ UNCHANGED <<head, run, memo, asks, clones, name, cache, report, reused>>

ShareFailure(j) ==
  /\ pool[PoolKey(j)].state = "failed"
  /\ Goto(j, "fetch", "ended")
  /\ report' = [report EXCEPT ![j] = Failed]
  /\ UNCHANGED <<head, run, memo, asks, pool, clones, name, cache, reused>>

-----------------------------------------------------------------------------
(* The scan and the entry it leaves.                                        *)

\* The checkout, once made, stays as it is until the run has ended: a job takes it and
\* scans it in one step.
ScanSucceeds(j) ==
  /\ pool[PoolKey(j)].state = "ready"
  /\ Goto(j, "fetch", IF name[j] = Unknown THEN "ended" ELSE "store")
  /\ report' = [report EXCEPT ![j] = pool[PoolKey(j)].commit]
  /\ UNCHANGED <<head, run, memo, asks, pool, clones, name, cache, reused>>

ScanFails(j) ==
  /\ pool[PoolKey(j)].state = "ready"
  /\ Goto(j, "fetch", "ended")
  /\ report' = [report EXCEPT ![j] = Failed]
  /\ UNCHANGED <<head, run, memo, asks, pool, clones, name, cache, reused>>

\* A write that fails is logged: the entry is as it was, or cut off part way.
Store(j) ==
  /\ Goto(j, "store", "ended")
  /\ \E entry \in {report[j], cache[Entry(j)], Torn} : cache' = [cache EXCEPT ![Entry(j)] = entry]
  /\ UNCHANGED <<head, run, process>>

-----------------------------------------------------------------------------
(* One run after another.                                                   *)

\* A new process remembers nothing but what is on disk.
Anew ==
  /\ run < MaxRuns
  /\ run' = run + 1
  /\ pc' = EachJob("start") /\ name' = EachJob(Unknown) /\ report' = EachJob(NoReport)
  /\ pool' = EachCheckout(Absent) /\ clones' = EachCheckout(0)
  /\ memo' = Unasked /\ asks' = 0 /\ reused' = {}
  /\ UNCHANGED head

\* The pool is closed once every job has ended, and goes with its process.
NextRun ==
  /\ \A j \in Jobs : pc[j] = "ended"
  /\ Anew
  /\ UNCHANGED cache

\* The process is killed; an entry it was writing may be cut off part way.
Kill ==
  /\ Anew
  /\ \E S \in SUBSET {Entry(j) : j \in {i \in Jobs : pc[i] = "store"}} :
       cache' = [k \in CacheKeys |-> IF k \in S THEN Torn ELSE cache[k]]

Job(j) ==
  \/ Name(j) \/ Hit(j) \/ Miss(j)
  \/ Fetch(j) \/ Clone(j) \/ ShareFailure(j)
  \/ ScanSucceeds(j) \/ ScanFails(j) \/ Store(j)

Done == run = MaxRuns /\ (\A j \in Jobs : pc[j] = "ended") /\ UNCHANGED vars

Next == Push \/ (\E j \in Jobs : Job(j)) \/ NextRun \/ Kill \/ Done

\* A goroutine that can run does, and a clone, a scan and a question to a remote end:
\* each is a process or a request that its context bounds.
Fairness == \A j \in Jobs : WF_vars(Job(j))

Spec == Init /\ [][Next]_vars /\ Fairness

-----------------------------------------------------------------------------
(* Properties.                                                              *)

\* Type: every variable stays in its range; in particular no report is an entry that a
\* kill or a full disk cut off.
TypeOK ==
  /\ head \in Commits
  /\ run \in 1..MaxRuns
  /\ pc \in [Jobs -> {"start", "lookup", "fetch", "clone", "store", "ended"}]
  /\ memo \in Commits \cup {Unasked, Unknown}
  /\ asks \in Nat
  /\ pool \in [PoolKeys -> [state : {"absent", "cloning", "ready", "failed"},
                            commit : Commits \cup {Unknown}]]
  /\ clones \in [PoolKeys -> Nat]
  /\ name \in [Jobs -> Commits \cup {Unknown}]
  /\ cache \in [CacheKeys -> Commits \cup {NoEntry, Torn}]
  /\ report \in [Jobs -> Commits \cup {NoReport, Failed}]
  /\ reused \subseteq Jobs

\* Jobs that read one checkout read one commit, however the branch moves meanwhile.
SharersAgree ==
  \A j, k \in Jobs : PoolKey(j) = PoolKey(k) /\ {report[j], report[k]} \subseteq Commits
    => report[j] = report[k] \/ j \in reused \/ k \in reused

\* A job whose revision is a commit reports on that commit, or on another that looks
\* the same to it, from the cache or not, whatever earlier runs did or left undone.
PinnedIsPinned ==
  \A j \in Jobs : Pin[j] # Branch /\ report[j] \in Commits => Sees(j, report[j]) = Sees(j, Pin[j])

\* However many jobs need them, a run asks once what the branch names and makes each
\* checkout once, when asking or cloning fails as well.
RemoteAskedOnce == asks <= 1 /\ \A k \in PoolKeys : clones[k] <= 1

\* While a run does not know what the branch names, it neither serves nor leaves an
\* entry for a job that follows the branch.
UnresolvedIsUncached ==
  [][\A j \in Jobs :
       Pin[j] = Branch /\ memo = Unknown /\ run' = run =>
         /\ j \notin reused' \ reused
         /\ \A k \in CacheKeys : k[1] = j => cache'[k] = cache[k]]_vars

\* No job waits forever for another's question or checkout: a run that is not killed
\* ends, every job with a report or a failure.
JobsEnd == [](\A j \in Jobs : <>(pc[j] = "ended" /\ report[j] # NoReport))

\* WithRevisionResolver: a cache entry is keyed on what was scanned.
KeyedOnWhatWasScanned ==
  \A j \in Jobs, c \in Commits :
    LET scanned == cache[<<j, RevisionKey(j, c)>>]
    IN  scanned \in Commits => Sees(j, scanned) = Sees(j, c)

\* Pool: one checkout per run removes the possibility that two controls report on
\* different commits of one branch.
OneCommitPerRun ==
  \A j, k \in Jobs \ reused :
    Pin[j] = Branch /\ Pin[k] = Branch /\ {report[j], report[k]} \subseteq Commits
      => report[j] = report[k]
=============================================================================
