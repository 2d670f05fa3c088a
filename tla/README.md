# Draugr, in TLA+

Draugr reads a descriptor of a project, plans scan jobs for the components and
controls it names, runs external scanners over repositories, images and hosts,
puts their findings together, decides whether they fail the build, and publishes
the result.  These modules model the parts of it whose correctness depends on
order, sharing, failure and cancelation, check them with TLC on small instances,
and prove most of their safety properties with TLAPS for every value of the
constants.

Everything here is translated from the code.  `PROJECT.json` says, definition by
definition, which lines each one stands for (`map`), which run checks each
property, which plausible mistake in the code each property would notice
(`mutants`; in the modules these are the definitions marked `Broken:`), what can
go wrong in this code that a test would hardly reach (`hazards`), and where a run
disagrees with something the repository says of itself (`findings`).

## The system

| Part | State it keeps | Operations | Talks to |
|---|---|---|---|
| Engine scheduler (`pkg/engine`) | one record of the run under one mutex, a slot channel, a channel per job, a lock per exclusive resource, a gate per rate limited scanner, a flight per identity | `Run`, and one goroutine per job | scanners, cache, resolver; its caller reads the result |
| Checkouts (`internal/git`) | per run, one entry per checkout | `Pool.Checkout`, `Close`, `ResolveTree` | git, remotes; scanners share what it returns |
| Result cache (`pkg/cache`) | one file per key, outliving the run | `Get`, `Put` | read and written inside a flight |
| Scanners (`internal/scanners`, `internal/toolexec`) | none | `Scan` | external processes |
| Planning (`pkg/engine/scope.go`, `modules.go`; controllers) | none | descriptor to jobs | the scheduler |
| Finding pipeline (`pkg/engine/engine.go`, `pkg/sarif`, `pkg/vex`, `pkg/prioritization`, `internal/scanpolicy`) | the reports, and on each finding its rank, verdict, marks and suppression | ask about dependencies, apply reachability, mark, exclude, apply VEX and settings, correlate, recount | runs after the join |
| Verdict (`pkg/norn`) and gates (`internal/cli`) | none | findings to pass or fail, alone or against a base | scan command |
| Diff (`pkg/diff`, `internal/cli/diff.go`) | none | refuse, match, classify and judge two reports | gates, reports |
| Issue publishers (`pkg/publish`) | items on a remote service | open, update, close | a forge, over a retrying and pacing transport |
| Policy publishers (`pkg/publish/draugr_api.go`, `policy_wait.go`) | runs on draugr-api servers | pre-flight, deliver, await | servers, over the retrying transport |
| Scan command (`internal/cli/scan.go`, `root.go`) | the sequence of the above and the exit code | `runScan`, interrupt handling | everything |
| Descriptor, configuration, reports, tools, feeds, MCP, login, scaffolding | files | conversions and I/O | |

What makes each part correct, and what is hard about it:

* **Scheduler.**  Hard: goroutines that wait for one another in four different
  ways (order, resource, rate limit, slot) and share scans, records and a
  display; a signal that may cancel the run in the middle of any wait.  Correct:
  it always returns; slots and resources are never oversubscribed; readers follow
  what they read; identical jobs are one scan; no failure is lost, above all not
  for a job that only shared it; coverage and counts describe what happened.
* **Checkouts and cache.**  Hard: a branch that moves while a run resolves and
  clones it, an entry written in place by a process that may be killed, entries
  that outlive what they describe.  Correct: sharers read one tree, a pinned job
  reads its commit, remotes are asked once, no entry is served that was cut off
  or whose key means nothing.
* **Finding pipeline.**  Hard: ten passes that rank, suppress, merge and count in
  order, over copies of a finding from several scanners under several
  identifiers.  Correct: every rank is of what is known by then, each finding is
  set aside by the first decision about it and by none made about another, each
  flaw is counted once, and what is not counted hides nothing a gate would stop.
* **Diff and its gate.**  Hard: findings that moved, doubled or changed their
  words, in reports narrowed or scoped differently.  Correct: the pairing is one
  no two findings could better, one more instance of an old flaw is new, and
  what a report left out is not taken for a change.
* **Issue publishers.**  Hard: an API that refuses, limits and loses answers, in
  the middle of a sequence of writes the next run must recognise.  Correct: later
  runs converge to one item per subject.
* **Policy publishers and the command.**  Hard: a run recorded by a server whose
  answer was lost, verdicts that come late or never, under one limit for several
  servers and a context that may end.  Correct: a server that could not say is
  never a pass, a run is recorded once, and the wait ends.

## What is modelled

### `ScanRun`: the scheduler of `Engine.Run`

The caller's goroutine is `main` and `next` (`Launch`, `StopLaunching`,
`Return`); every job's goroutine is a position in `pc` and the actions below,
each one atomic section of the code: between two lock operations, or up to the
next point where the goroutine can block.  `Cancel` is the signal.

| Position | Code | Actions |
|---|---|---|
| `order` | `waitToRead` | `WaitToRead` |
| `lock`, `blocked` | `exclusiveLocks.acquire`: the attempt, then the select with the context | `TakeResource`, `BlockOnResource`, `LeaveResource` |
| `gate`, `turn` | `rateGate.wait`: the reservation, then the timer | `PassGate`, `ReserveTurn`, `TurnComes`, `LeaveGate` |
| `slot` | `sem <- struct{}{}`, and the mark on the display | `TakeSlot` |
| `unknown` | a scanner nobody registered | `UnknownScanner` |
| `ask`, `await` | `sfGroup.do` | `Lead`, `Follow`, `Await` |
| `lookup`, `scan` | the closure given to it: the cache, the scan, the store | `CacheHit`, `CacheMiss`, `ScanFails`, `ScanSucceeds` |
| `record`, `keep` | what the job records, the second for the report of a partial scan | `RecordFailure`, `RecordReport` |
| `complete`, `unslot`, `unlock`, `close` | the deferred calls, last deferred first | `Complete`, `ReleaseSlot`, `ReleaseResource`, `CloseFinished` |

The variables are `Run`'s own: `finished`, `held` (the lock channels), `turns`
(gates that have given a turn), `sem`, `flights` (the `sfGroup`), `errs`,
`ctlErrs`, `missing`, `unscanned`, `failedScans`, `examined`, `reports`, `stats`,
and the display's `running`, `complete`, `failed`, `steps`.  Errors are
represented by what they are about, so that who recorded one can be told; the
lists are sets, since each job appends to each at most once.

What the scanners declare to read after is chosen from `Declarations` when the run
begins (`readsAfter`).  With a cyclic declaration (`CyclicOrder`, the condition
`readsAfterCycle` searches for) nobody waits for anybody (`After`), and the
problem is filed under planning.

Abstracted: what a report holds (only how its scan ended); time (a timer that was
set may fire, and a gate that has given no turn lets a job through at once); the
cache (which identities it would serve: its keys are `Checkouts`' subject).

### `RunPromise`: what the caller may rely on

Every planned job ends once, as read, read in part, unread or, only in an
interrupted run, abandoned; jobs with one identity get one answer; the run
returns once all have ended.  `ScanRun!KeepsPromise` maps each job's position and
records onto that outcome, and the scheduler is checked to implement it,
liveness included.

### `Checkouts`: what a repository job reads, and leaves for later runs

`Name` is `Engine.commitOf` (a section under `revisionsMu`, its answer remembered
for the run), `Hit` and `Miss` the read of the entry, `Fetch`, `Clone` and
`ShareFailure` the pool's `sync.Once` per key, `ScanSucceeds` and `ScanFails` the
scan of the shared checkout, `Store` the write of the entry.  `RevisionKey` is
what the cache key ends in: a commit, or for a component of a local repository
the identity of its paths' trees.  `Push` moves the branch at any moment.
`NextRun` and `Kill` begin another process with nothing but what is on disk; a
killed or failed write leaves the old entry, the new one or one cut off part way,
for `Put` writes in place.

A job stands for all the jobs with its identity, which `ScanRun` shows to be one
scan.  An entry's expiry is the choice to miss.

### `Ranking` and `Findings`: what a run makes of what its scanners said

`Ranking` is one finding's rank as operators: the two signals that may raise a
severity, the rule for which of them is applied under an unreachable verdict
(`HealthApplies`, `Overruled`, `Lowered`: `scanpolicy.PrioritizerWith`), the
matrix of context tier and severity, the stamp left on the finding (`RankOf`) and
what reports and gates read back from it (`RankedSeverity`).

`Findings` is the sequence `Engine.Run` takes the merged reports through, one
action per step, and the gate after it:

| `stage` | Code | Action |
|---|---|---|
| `health` | `applyDepHealth` | `AskHealth` |
| `reach` | `applyReachability`: verdicts move onto other scanners' findings, and an analyzer's that were heard are dropped | `Reach` |
| `copies` | marks copied between copies of a dependency | `MarkDevCopies` |
| `outside` | non-shipping paths | `MarkNonShipping` |
| `exclude`, `vex`, `settings` | descriptor rules still in force; suppliers' claims by component; the controls' settings in order | `ApplyExclusions`, `ApplyVEX`, `ApplySettings` |
| `correlate` | `applyCorrelation`: flaws joined alias by alias, a strongest copy, decisions spread | `Correlate` |
| `recount` | `recountReachability` | `Recount` |
| `judge` | `norn.Evaluate` over every control | `Judge` |

A finding is its number in the order the steps visit them, with a record of what
its scanner said; a copy's identity is that record's `place`, `file`, `pkg`, `id`
and `aliases`.  What a step reads from outside, such as a feed's answer, the rules
that have lapsed today, the claims in the documents or the gate, is chosen when
the step is taken.  Joining flaws is order dependent in the code and therefore
here (`JoinAll`, `Flaws`, as recursive functions).

Abstracted: how identifiers, paths and packages are normalised before they are
compared (two findings share a key or not); how a rule or a claim matches (which
findings each does); the messages; what is reported about rules and claims that
matched nothing.

### `Publishing`: the servers at both ends of a scan

The pre-flight (`CheckOrgPolicy` and `Checked` per server, then `RequirePolicy`,
`RefuseRun` or `Scan`), delivery (`PostRun`, `RunPosted`, `EvidencePut`,
`RunCompleted`), the wait for the servers' verdicts under one limit
(`SettledAlready`, `AskPolicy`, `DecidedNow`, `PendingStill`, `Limited`,
`WontSay`, `RunOut`, `Abandon`, `PollAgain`, then `Judge`), and the command's end
(`Report`, `ReportFails`), whose `Outcome` is the order in which `runScan` looks
at its reasons to fail.

Every one of these requests goes through one retrying client: `Answered`,
`Refused`, `Unheard`, `Resend`, `Ended`.  `WorthRetrying` is `retry.go`'s rule, by
verb and by what came back; `Over` is the context a request is made under, which
the sleep between attempts does not look at.  `Unheard` covers a lost answer and
a proxy's 502 to 504, and in both the server may have acted.  The server is
external: `Acts`, `Says` and `Decides` let it do whatever the client's reading of
an answer distinguishes, and nothing obliges it to answer.

`waited` counts ticks from the start of the wait, the only part of the command a
deadline bounds.  Delivery requests have no timeout of their own.

### `IssueTracker`: the items a run keeps on GitHub

A run of an issue publisher lists the open items that carry its marker (`Start`),
and from that list alone decides, part by part, which requests bring them in line
with its verdict.  `Plans` is that decision: `KeepFamily` for a failing part with
children, `KeepOpen` without, `ClosePassing`, and the closing of a split part that
left the run.  A plan is a set of requests, each with its turn: the stage of the code
it is sent in, its place there (a unit's in fix order, a field's in the order of its
map or of its name) and the item it is about.  What is sent next is what is `Due`,
and parts are taken up (`Jobs`, `Take`) the same way.  The actions send the requests
one by one: `CloseItem` (a comment, then the state), `CreateParent`, `CreateChild`,
`LinkChild`, `RewriteParent`, `Update`
(bodies, titles and labels that no property is about, but whose failure stops
what follows).  `StopCreating` is the budget that would not cover the next child.
Each request may be refused (`Refuse`), or applied and its answer lost (`Answer`),
which is also what `createIssue` makes of metadata GitHub dropped; either ends the
part (`Abandon`) but not the run, except that a child that could not be linked is
closed first (`CloseUnlinked`).  A create goes through the client of `retry.go`,
which sends again what was answered 502, 503 or 504 and has no key to tell the forge
that it is the same: `Resend` is a create the forge performed and a proxy answered so.
The run learns of the last item alone and goes on.  `Kill` ends the process between two requests and
`CloseByHand` is whoever triages the items.

An item is its marker (`part`, `field`), its state, the actions its body `lists`
and the parent it is linked `under`.  A part is *clean* in a run if no request for
it failed, or was performed and sent again, and nobody else touched its items; this
records what happened and decides nothing.  The variable `world` is the pipeline the entry is in, one of
`Worlds`: the parts it covers, whether runs overlap or are killed, the values
`children:` takes and what a run may find.

Abstracted: the pages of the list (read as one); the retries inside a request that
do no more than the request did once (a lookup, a close, a link or a rewrite, and a
create that was truly not processed); the comment and the state of one
closing, which fail together; the wait budget (a choice at each child).

### `Comparison`: two scans, and the gate on what is new

`draugr diff`, and the comparison `draugr scan --base` makes.  `Read` accepts two
reports that hold the same ground (`ScopesCompare`, `BandsCompare`) and drops
exact repeats; `Refuse` ends the command otherwise.  `Match` is one of the four
passes of `matchFindings`, each taking the base findings of a key in line order
for the head findings of that key.  `Classify` says what became of each finding,
`Judge` narrows the new ones and puts them to the gate, and `Answer` renders, posts
and exits.  A report is `Written` from its scan by its scope and band, so that a
scan can be compared with a narrower report of itself.

Abstracted: message, lines and location to what two findings share of them;
sorting and counting for display.

## What the runs check

| Run | Instance | Shows |
|---|---|---|
| `scan_run` | 4 jobs, 2 slots: two components and two controls sharing an image scan behind a rate limit, two jobs on one exclusive resource, one of them reading after the shared jobs | types; slots; exclusivity; order; one scan per identity; identical jobs tell one story; each scan that failed is recorded once, against the control of the job that flew it; coverage is accounted for; totals and display agree with the jobs |
| `scan_run_live` | 4 jobs, 1 slot: a reader planned before what it reads, all on one resource, a scanner nobody registered, and an order or a cycle declared; no cache | every run returns; the run keeps `RunPromise` |
| `scan_run_interrupted` | the same, in order | a violation: a canceled run's error is about no control |
| `scan_run_imported` | one file imported into two controls, 2 slots | a violation: of two controls that asked for a file nobody could read, one has no error |
| `checkouts` | 3 jobs, 2 commits, 2 runs: two jobs sharing a checkout of the branch, one pinned and scoped to a component's paths; local repository | types; sharers agree; pinned jobs read their commit; the remote is asked once; what was not resolved is not cached; every job of a run ends |
| `checkouts_moved` | 2 jobs, 3 commits, 1 run: a scanner of the branch and one of a component | a violation: an entry is stored under a commit that was not scanned |
| `checkouts_apart` | 2 jobs, 2 commits, 1 run: a scanner that reads history and one that does not | a violation: one run reports on two commits of one branch |
| `findings` | 7 findings, three of them optional: one dependency under three identifiers from three manifests, its analyzer's verdict, another component's copy, a secret; every feed, rule, claim, setting and gate chosen | types; ranks are current; verdicts fold once; each finding is decided once; each flaw counted once; nothing urgent hides in what is not counted; the reachable are told; the gate agrees with the findings |
| `publishing` | 2 servers, 4 invocations (with and without `--policy`, without a gate, without publishing, of a failed or an incomplete scan), 3 settings of the servers | types; a clean exit was decided; a failure told stands; a run is recorded once; one limit for all; the wait ends |
| `issue_tracker` | 2 actions of one control and a cap of one child. `InTurn`: 2 parts, 3 runs in turn, children for actions or none; `Alone`: 1 of these parts, any of the three values of `children`; in both one request failing, create sent again, run killed or item closed by hand. `AtOnce`: 1 part, 3 runs that may overlap, one request failing, create sent again or item closed by hand | types; nothing piles up beyond what one create sent twice leaves, and no more actions have children than the cap allows; a part nothing disturbed mirrors the verdict; duplicates never close the last; children close first |
| `issue_tracker_linked` | 1 part, 2 runs in turn, one request failing | a violation: a child no parent shows |
| `comparison` | every two scans of up to four of 7 findings, and two with exact repeats, compared in 9 ways | the pairing is stable; one more instance of an old flaw trips the gate; a scan compared with itself is quiet |

**Bounds.**  Most of the state is finite of itself; what is not is bounded by a
constant, named in its module.

* *Scheduler.*  Four jobs are the least in which a shared scan, a reader of it,
  and a contender for the reader's resource meet; two slots let one job hold a
  slot while another waits, and one slot is the case the code's comments fear.
  Two scanners are enough for a cycle.
* *Checkouts.*  `MaxRuns` is two: enough for an entry to be written by one run and
  read by the other, and a third would meet nothing the second did not, since a
  run inherits only the cache.  Two commits let a branch move, and
  `checkouts_moved` needs a third so that two of them can be the same to a
  component.
* *Findings.*  The instance's feed may call a package deprecated.  That it calls one
  malicious only adds a way to raise and to overrule, and is left to the proofs, which
  hold for any feed.  Three scanners of one flaw are the least in which aliases join two
  findings only through a third; one more copy in another component and one in
  another manifest keep apart what must not be joined.  Three claims, of which a
  run holds at most two, hold a claim for the component, for the project and one
  that affirms the flaw.  Two rules overlap in one finding.
* *Publishing.*  Two attempts (`Attempts`) give a request a failure and a retry; a
  limit of two ticks with a question every tick lets a verdict come first, last
  and too late, and a limit of zero is the code's own way not to wait.
  `MaxRetryAfter` is zero and `MaxBackoff` two, so that one wait between attempts
  can cross the whole limit.  `RunOutcomes` leaves out the refusal of a run, which
  the verdict treats as it treats a failure; the pre-flight meets it.
* *Tracker.*  `NumRuns` is three: two to overlap or to disturb one another and one
  to find what they left; nothing but the items passes from run to run.
  `MaxTrouble` bounds what goes wrong to one event, at any request of any run, in
  either part.  `Attempts` is two, a create and the one resend that a single event
  leaves room for; the code allows two resends.  One child under the cap and one over
  it is the least in which cap,
  budget and body disagree.
* *Comparison.*  Four findings of a scan let every pass compete with each other
  one for one finding; the seven differ in each thing a pass looks at (component,
  message, lines, line number, repository) and in each thing a gate does.

**Fairness.**  *Scheduler and checkouts*: weak fairness of the launching loop and
of each job.  A job's actions are what its goroutine does when it can run, and the
Go scheduler runs it; a timer that was set fires; a clone, a scan or a question to
a remote ends because each runs under a context with a timeout.  The blocking
sends (a slot, a lock) would in general need strong fairness; they do not here
because every job that holds one ends, and each job takes each once, so that a
slot once free stays free for the jobs that remain.  The signal, the branch and
the kill have no fairness: they need not happen.  *Publishing*: weak fairness of
the client's own steps while it waits, and strong fairness of `Tick`, for an
answer that names a wait of zero lets the client ask again without time having to
pass, and the clock runs whatever the client does.  No server is held to
answering or to deciding; that the wait ends then rests on the deadline alone.
The other modules claim no liveness.

**Findings.**

* `Engine.Run` records an interruption in its joined error only, and `runScan`
  drops that error because it believes each part of it to be recorded against a
  control as well (`scan_run_interrupted`).
* Jobs with one identity fly one scan, and an error is recorded against the control of
  the job that flew it.  The comment says "a control when a job of it failed"
  (`engine.go:906`), and reports read from it which controls are in error.  An identity
  is a hash of scanner, target and configuration: a file imported into two controls has
  one, and when it cannot be read one of the two controls shows no error
  (`scan_run_imported`).  The run still fails.
* The commit in a cache key is resolved before the clone and by another question
  to the remote.  If the branch moves in between, the entry describes another
  commit than its key names, and a later run at that commit is served it
  (`checkouts_moved`).
* The pool is said to remove the possibility that two controls report on
  different code.  It shares checkouts of one revision, scope and depth: a
  history scanner and a tree scanner, or two components, clone for themselves
  (`checkouts_apart`).
* A child whose creation ended in an error although GitHub created it is neither
  linked nor closed, and the next run keeps it by its marker and never links it
  (`issue_tracker_linked`).  The same property fails without any error when runs
  overlap: the oldest child is kept, and may be linked to the parent that the
  next run closes as a duplicate.

**Observed while modelling, and not checked by a run.**

*Findings.*
Correlation spreads a suppression made by a scanner itself to other scanners'
copies, and counts each both as suppressed and as silenced
(`engine.go:591`, `1751`).
A deprecated package is said never to be applied and then undone
(`scanpolicy.go:79`), but for a low finding it is: raised to medium, lowered back.
A supplier's claim that matches only findings already set aside is not marked as
used, and so may be reported as matching nothing.

*Policy servers.*
The pre-flight is satisfied when any server answered, while the wait, said to
combine answers the same way (`policy_wait.go:43`), needs every one of them.
The sleep between attempts does not look at the context, so the limit can be
overrun by one backoff; `OneLimit` says exactly this much.
A verdict received as the limit expires is discarded.
A run that was recorded and answered by a proxy's error is sent again, answered as
a duplicate, and counted as published without the evidence; with `--policy` the
server has the last word, without it the command may exit clean.
A failure told while other parts are pending is dropped if the server then refuses
to say more; without `--policy` the gate passes, and `FailureStands` leaves this
case out.
`pollPolicy` looks only at `Pending` and not at whatever else leaves an answer
undecided.
A retried job is said to be recognised as the same run (`runKeyFor`), which the
attempt number in the key of some CI systems prevents (`ci.go:97`).
Delivery requests have no timeout, so of the command only the wait is claimed to
end.
A comment or an item created and answered by a proxy's 502, 503 or 504 is created
again, although `retry.go:33` holds that such an answer means it was not.  Two items
are then open after a run that was told of one; the next run finds both by the marker
and closes the newer.  Of a child, that is the one that was linked: the one kept is
never shown under the parent.

*Two scans.*
The gate on new findings leaves correlated copies out of its severity test, and
the gate of one run judges them.
A second scanner's copy of a flaw is said not to be new to gate on, but if the new
copy is the stronger it takes the count and is.
Two reports both narrowed to P1 are compared under a threshold of P2, below which
neither holds anything, although `comparableBands` is there "so a gate never
silently judges a band other than the one configured".
With a narrowed base a finding that is ranked anew, or moves to a component of
another tier, reads as new: `SameScanIsQuiet` therefore asks that findings taken
for one another rank alike (`RanksAgree`).
Only what is new is narrowed: a suppressed finding the base left out is told as
accepted in this change, and `SameScanIsQuiet` allows it.

*Tracker.*
The children of a split part that left the run are closed before its item, but a
child that could not be closed does not keep the item open, as it does for a part
that passes; the next run finds the child by its marker and closes it.

## What is proved

Every theorem holds for every value of the constants that satisfies the module's
assumption, and rests on nothing else.  The argument has one shape throughout: the
property is not inductive, an invariant `IInv` of named parts is, each part has a
lemma that every step preserves it, with one step per action that disturbs it, and
the property follows from the invariant.

**`ScanRun_proofs`**, the scheduler for every plan, registry, number of slots and
every interleaving:

| Theorem | Says |
|---|---|
| `Invariance` | `IInv` holds in every reachable state |
| `TypeCorrect` | `TypeOK` |
| `SlotBound` | `SlotsBounded` |
| `ResourceUsedWhole` | `ExclusiveUse` |
| `OrderKept` | `ReadersFollow` |
| `ScannedOnce` | `OneScanPerIdentity` |
| `FailuresReported` | `FailureReachesControl` |

The assumptions are `PlanAssumption` (there is a job and a slot, and no scanner
is called "no resource") and `IdentityAssumption`: two jobs share an identity only
if they agree on scanner and target.  The code's identity is a hash of scanner,
target and configuration; it does not name the control, and `planImports` plans one
file under whichever controls import it, so nothing is assumed about controls.

`IInv` adds, per subject, what ties the state to the positions: the launching loop
has launched exactly the jobs before `next` (`LaunchInv`); the semaphore counts the
jobs between the send and the deferred receive, and the display shows those not yet
complete (`SlotInv`); a full lock channel is one job between `acquire` and
`release` (`ResourceInv`); a flight whose leader looks up or scans is pending, and
flown by that leader alone (`FlightInv`); a closed channel is a job that is done,
and before a cancelation a job past its wait found them all closed and a job at its
end has recorded (`OrderInv`).  Slots need the cardinality of a set that one move
changes by one job (`MovesWithin`), and order needs that records only grow.
Two invariants carry the argument for failures.  `FailureInv`: whenever a job that
shared a failing scan is in the records, the job that flew it is, or has yet to record
the error itself, and the join waits for it.  `TellerInv`: of the jobs that have a
scanner, only one that flew its scan is in a control's errors.  Together a failed scan
is told once and by the job that flew it, which is all the code promises:
`scan_run_imported` shows what the control of a job that shared it does not say.

**`RunPromise_proofs`**, what the scheduler tells its caller, for every plan:

| Theorem | Says |
|---|---|
| `Stories` | what a job's records say agrees with its position and with how its scan ended |
| `AnswersShared` | `SharedAnswer` |
| `CoverageTold` | `CoverageIsTold` |
| `TotalsAgree` | `TotalsAddUp` |
| `PromiseKept` | the initial states and every step are `RunPromise`'s, or stutter |

`StoryInv` says of each job, by position, which records it is in: none before it
recorded, those its flight's outcome asks for after.  As a flight that landed never
changes (`LandedStays`), identical jobs tell one story, and the abstract outcome of
a job changes once.  `TotalsInv` says what each counter is the number of: `complete`
of the jobs that stopped, the scans and hits of the reports whose job flew its own
scan, a step's counters of the running, the stopped and the erring jobs of that
step; every step of a job moves each set by at most that job (`OneMore`).

**`Checkouts_proofs`**, for any jobs, commits and number of runs:

| Theorem | Says |
|---|---|
| `CheckoutInvariance` | its `IInv` holds in every reachable state |
| `CheckoutTypes` | `TypeOK` |
| `SharedTree` | `SharersAgree` |
| `PinnedRead` | `PinnedIsPinned` |
| `AskedOnce` | `RemoteAskedOnce` |
| `NamelessUncached` | `UnresolvedIsUncached`, of every step |

from `CheckoutAssumption` (the special values are none of the commits).  The
invariant says what the names are made of (`NameInv`: the run asked once exactly
if it has an answer, and the branch's jobs go by that one answer), who makes a
checkout (`PoolInv`: one job at a time, and a pinned one at its commit), what a
report that was not reused is about (`ReportInv`: the commit of a checkout that is
ready, and so will not be made again), and what a pinned job's entries are about
(`CacheInv`).  The last survives from run to run because two commits with one key
look the same to the job (`KeysTellApart`).  For a job that follows the branch
nothing like `CacheInv` holds, as `checkouts_moved` shows.

**`Findings_proofs`**, for any report, rules, claims, settings, feeds and gate:

| Theorem | Says |
|---|---|
| `Invariant`, `TypeCorrect` | `IInv`; `TypeOK` |
| `RanksStayCurrent` | `RanksAreCurrent` |
| `VerdictsFoldedOnce` | `FoldedOnce` |
| `EachDecidedOnce` | `DecidedOnce` |
| `FlawsCounted` | `FlawsCountedOnce` |
| `UrgentFlawsJudged` | `NoUrgentFlawHidden` |
| `ReachableStaysTold` | `ReachableIsTold` |
| `GateAgrees` | `GateMatchesFindings` |

from `FindingsAssumption` (findings are well formed, and an analyzer's names a
package).  The invariant follows the stages: what the run started from (`ScanInv`),
what ranks are of (`RankInv`), where verdicts moved and what was dropped
(`VerdictInv`), who set marks (`MarkInv`), who decided (`OwnInv`), how flaws are
partitioned and which copy counts (`CountInv`), what was judged (`JudgedInv`).  The
steps that visit findings in order are recursive functions of natural numbers.
What such a function yields cannot be had by the library's induction, whose rule
takes an operator; it is had from the least natural number at which the claim would
fail.

**`Publishing_proofs`**, for any servers, invocations, number of attempts and
lengths of waits:

| Theorem | Says |
|---|---|
| `PublishingInvariant`, `PublishingTypes` | `IInv`; `TypeOK` |
| `CleanExitsAreDecided` | `CleanExitIsDecided` |
| `FailuresStand` | `FailureStands` |
| `RunsAreRecordedOnce` | `RecordedOnce` |
| `OneLimitForAll` | `OneLimit` |

from `PublishingAssumption` (servers are listed once, there is an attempt, an
interval and a backoff).  The invariant says where in the list the command stands
(`ShapeInv`), that what it holds of a server is true of it (`TruthInv`), when its
evidence is there (`EvidenceInv`), what delivery left (`DeliveredInv`), what each
settled server said last (`SettledInv`), what the verdict joins (`VerdictInv`) and
how far the clock is (`LimitInv`).

**`Comparison_proofs`**, for scans of any length and whatever is asked:

| Theorem | Says |
|---|---|
| `ComparisonInvariant`, `ComparisonTypes` | `IInv`; `TypeOK` |
| `PairingIsStable` | `StablePairs` |
| `ExtraInstancesTrip` | `ExtraInstanceTrips` |
| `SameScansAreQuiet` | `SameScanIsQuiet` |

from `ComparisonAssumption`.  The invariant says the findings held are the scans'
(`ShapeInv`), pairs are one to one and alike (`PairInv`), after each pass no two
findings it would have paired are both free, and none was taken by a worse one
(`StableInv`), verdicts follow the pairs (`VerdictInv`), and a scan met with itself
is paired as far as what it holds allows (`SelfInv`).  What a pass takes, one base
finding at a time, is again argued from the least place at which it could go wrong;
`ExtraInstanceTrips` counts by an injection from the head's instances to the base's.

**`IssueTracker_proofs`**, for any worlds, actions, cap, number of runs and of
mishaps:

| Theorem | Says |
|---|---|
| `TypesHold` | `TypeOK` |
| `DuplicatesHold` | `DuplicatesKeepTheOldest` |
| `ChildrenFirst` | `ChildrenCloseFirst`, of every step |
| `NothingPiles` | `NothingPilesUp` |

from `TrackerAssumption` (a request is sent at least once, parts are listed once, no
action is named as a control, a
part leaves only a split entry).  Lemmas say what each plan holds and leaves out
(`FamilyMembers`, `FamilyClears`, `OtherMembers`), and `Effects` what a step may do to
an item and to what a run has left: an item closes by a due request, by hand or
because it was not linked; it is created by a due request, which then is no longer one
of the run's, or is one that was sent once more; and a run goes on with its requests,
drops them, sends one again, or takes up a new part.  The
invariants are about requests still to be sent.  `DuplicateInv`: a duplicate to be
closed has an older item, so the oldest of its kind never closes as one.
`ChildrenInv`: while an item is to close as passing, each child its run listed that
is still open is to close in an earlier stage.  `PilesInv`: with one run active, it
listed every open item of the parts it has not come to (`Aware`), creates items only
of the part it is at (`Apart`), and of what it will create there are no more, beside
those that will have closed by then, than its create was sent times, which is fewer
than `Attempts` (`Careful`); the actions whose children will stay and those whose are
to come are together within the cap, because places in the fix order tell units apart
(`CapLeavesRoom`).

**`TrackerMirrors_proofs`**, for the same worlds and mishaps:

| Theorem | Says |
|---|---|
| `MirrorsHold` | `Mirrors` |

This is what the tracker is for, and its invariant follows a run through every part.
A part counts for a run only while nothing disturbed it: no other run was active, no
request for it failed, nobody closed an item of it (`Undisturbed`).  Such a part is in
one of four states (`InLine`).  It passes or left, and each item of it still open was
listed and will be closed, by a request or by a job to come (`Cleared`).  It fails and
the run has yet to come to it, and the list the run took still holds (`Known`).  It
fails and the run is at it (`Going`): what will be open once the requests that are left
have closed what they name (`Rest`) is one child for each that was kept or has been
made and none besides; each child to come is asked for once, with a rewrite after it;
and the parent is either to be opened with the body its children will leave, or is the
one the run knows, whose body is the one last read until the rewrite.  Or the run has
been there, and the part is as the verdict says (`Mirrored`).  Coming to a part turns
the second into the third, because of what every plan closes and leaves (`FailingPlan`,
`ComesGoing`, `ComesCleared`); a request keeps the third (`WorkGoing`) or takes the part
out of account (`Leaves`); with no request left the third is the fourth (`GoingDone`);
and what is done about one part leaves the items of the others as they were (`Spared`),
since every request names items of the part the run is at (`Own`).  TLC checked this
invariant, `MirrorInv`, with the bounds of `issue_tracker` before it was proved.

Every invariant and action property the passing runs check is stated by a theorem.
Only checked by TLC are liveness and fairness: `Termination`, `JobsEnd`, `AwaitEnds`
and the liveness half of `KeepsPromise`, which are beyond this proof system.

## What is not modelled, and why

Most of this repository's lines turn one representation into another: some forty
adapters parse what a tool printed, descriptors and configuration are loaded, merged
and validated, results are rendered as text, HTML, SARIF and comments, tools are
downloaded and verified.  A test with a table says more about such code than a model
can.  What is modelled is the code in which order, sharing, failure or a combination
of decisions can go wrong, which is a small share of the lines.  Of that code the
following is left out:

* Of the scheduler: prewarming, an empty plan and planning errors (sequential,
  before the first goroutine), evidence and aggregation after the join, and the
  length of a rate limit's interval: the gate's clock would multiply every state of
  the scheduler by the times its jobs arrive at.
* Of checkouts and cache: freezing, pruning and cleaning trees (file system);
  Mend's scanners, which clone for themselves; two processes over one cache at
  once; `ResolveTree` failing for a path, which falls back to the commit; jobs
  widened to a whole module.
* Of the finding pipeline: what is reported about rules and claims that matched
  nothing, and the totals and wording of summaries.
* Of the gates: which of the two verdicts `scan --base` exits with, and the caveat
  gate.
* Of the policy publishers: the reasons and links in answers, login and tokens.
* Of the other publishers: the sticky comment and the uploads, each two or three
  requests over the transport modelled in `Publishing`; the paced client that
  creates issues.
* Of the issue publishers: GitLab's and Azure's ways to link a child and to close
  a duplicate, which parts a run has (`issue_scope.go`), texts, titles and labels,
  items reopened by hand, a `maxChildren` that changes between runs, and how the
  client under a request waits and what budget it has.
* Scanners' and controllers' own logic, report formats, descriptor parsing,
  installation, login and scaffolding: conversions and I/O, listed in
  `PROJECT.json` as not modelled.

## Plan

The modules were written in the order of what matters most for a build that relies
on Draugr: the scheduler, checkouts and cache, the tracker, the finding pipeline, the
policy servers, and the comparison of two scans; each with its proofs.  What remains,
in order:

1. `RateGate` with a clock, apart from the scheduler: turns are an interval apart and
   none is given twice.
2. `scan --base`: the verdict of one run composed with the gate on what is new.
3. The comment publisher over `Publishing`'s client: one comment per change, while
   runs overlap and answers are lost.
4. The paced client under `IssueTracker`, so that a request there is a refinement of
   what the client sends.

## Running

    tlc -workers 2 -config ScanRun.cfg MCScanRun.tla
    tlc -workers 2 -config Checkouts.cfg MCCheckouts.tla
    tlc -workers 2 -config Findings.cfg MCFindings.tla
    tlc -workers 2 -config Publishing.cfg MCPublishing.tla
    tlc -workers 2 -config IssueTracker.cfg MCIssueTracker.tla
    tlc -workers 2 -config Comparison.cfg MCComparison.tla
    tlapm ScanRun_proofs.tla

and likewise for the other configurations and the other `_proofs` modules;
`PROJECT.json` lists the configurations under `runs`.  `scan_run_interrupted`,
`scan_run_imported`, `checkouts_moved`, `checkouts_apart` and `issue_tracker_linked`
are expected to find a violation.
