----------------------------- MODULE Publishing -----------------------------
(***************************************************************************)
(* The two ends of `draugr scan` that talk to draugr-api servers.  Before  *)
(* any tool runs, each server is asked what the organization's policy      *)
(* makes of the descriptor.  Once the scan is done the run is delivered to *)
(* each server (post the run, upload its evidence, say it landed), the     *)
(* servers' verdicts are awaited under one limit, the report is written,   *)
(* the other publishers run, and the command decides how it exits.         *)
(*                                                                         *)
(* Every request goes through the retrying client, which sends a refused   *)
(* one again; the network may lose an answer, or a proxy put its own in    *)
(* place of it, after the server acted on the request.  The server itself  *)
(* is external: what it answers is taken from how this code reads it.      *)
(*                                                                         *)
(* Time is counted in ticks and only while the verdicts are awaited, the   *)
(* one part a deadline bounds.                                             *)
(***************************************************************************)
EXTENDS Integers, Sequences, FiniteSets

CONSTANTS
  Order,          \* the draugr-api publishers, in descriptor order
  Invocations,    \* the ways the command is run, and what the scan found
  Settings,       \* which servers judge policy, judge none, or have no address
  Attempts,       \* how often one request is sent at most
  PollInterval,   \* ticks between two questions about a run's policy
  MaxBackoff,     \* the longest wait between two attempts
  MaxRetryAfter,  \* bound: the longest Retry-After a limited answer names
  RunOutcomes     \* bound: what a server may make of a run

Servers == {Order[i] : i \in 1..Len(Order)}
Kinds   == {"judges", "plain", "skipped"}

\* What an outcome does to the run, weakest first.
None == 0
Fail == 1
Refuse == 2
Outcomes == {None, Fail, Refuse}

Invocation == [policy : BOOLEAN, noGate : BOOLEAN, noPublish : BOOLEAN, wait : Nat,
               fails : BOOLEAN, incomplete : BOOLEAN]

ASSUME PublishingAssumption ==
  /\ Order \in Seq(Servers) /\ Len(Order) > 0
  /\ \A i, j \in 1..Len(Order) : Order[i] = Order[j] => i = j
  /\ Invocations \subseteq Invocation
  /\ Settings \subseteq [Servers -> Kinds]
  /\ Attempts \in Nat \ {0} /\ PollInterval \in Nat \ {0}
  /\ MaxBackoff \in Nat \ {0} /\ MaxRetryAfter \in Nat
  /\ None \in RunOutcomes /\ RunOutcomes \subseteq Outcomes

VARIABLES
  run,       \* this invocation
  server,    \* what each server is and holds
  stage,     \* how far the command has got
  next,      \* the publisher whose turn it is, past the last when none is
  at,        \* what the client is doing about it
  request,   \* the request in hand: its verb and which attempt it is on
  reply,     \* what came back, once the transport gives it up
  timer,     \* ticks left of the sleep the client is in
  waited,    \* ticks since the runs were delivered
  canceled,  \* the command's context has ended
  org,       \* what the pre-flight learned
  told,      \* per server, the run's policy as last told
  check,     \* per server, what the wait made of it
  verdict,   \* "pass" or "fail"
  failed,    \* some publishing failed
  exit       \* how the command ended

client == <<stage, next, at, request, reply, timer, org, told, check, verdict, failed, exit>>
vars == <<run, server, client, waited, canceled>>

(* Nothing is known: no answer, no verdict. *)
Unsaid    == [outcome |-> None, pending |-> FALSE, said |-> FALSE]
Unchecked == [checked |-> FALSE, pending |-> FALSE, outcome |-> None]
NoCheck   == [checked |-> TRUE, pending |-> FALSE, outcome |-> None]
Checks    == [checked : BOOLEAN, pending : BOOLEAN, outcome : Outcomes]

Current == Order[next]
Last == Len(Order)
Larger(a, b) == IF b > a THEN b ELSE a

-----------------------------------------------------------------------------
(* The retrying client: a request is in flight, between attempts, or       *)
(* answered.                                                               *)

(* A refused request was not processed and is sent again; one that never   *)
(* came back only when it reads.                                           *)
WorthRetrying(verb, seen) ==
  \/ seen \in {"limited", "unavailable"}
  \/ seen = "lost" /\ verb = "poll"

Expired == waited >= run.wait

\* Broken: the request is made under the caller's context alone.
OverByCaller(verb) == canceled

Over(verb) == canceled \/ (verb = "poll" /\ Expired)

\* Broken: each attempt is a run of its own to the server.
KeyOfAttempt(attempt) == attempt

(* The idempotency key is set on the request once, whatever the attempt. *)
RunKeyFor(attempt) == 1

Recorded(s) == RunKeyFor(request.attempt) \in server[s].runs

(* A run as a server has it once it took the post. *)
WithRun(state, key, o, p, held) ==
  [kind |-> state.kind, runs |-> state.runs \union {key}, evidence |-> held,
   complete |-> held, outcome |-> o, pending |-> p]

(* The server acts on a request that reached it.  A new run is judged, as  *)
(* far as its descriptor allows, as it is recorded, and evidence the       *)
(* server already holds needs no upload.                                   *)
Acts(s) ==
  \/ /\ request.verb = "post" /\ ~Recorded(s)
     /\ \E o \in RunOutcomes, p \in BOOLEAN, held \in BOOLEAN :
          /\ server[s].kind # "judges" => o = None /\ ~p
          /\ server' = [server EXCEPT ![s] = WithRun(@, RunKeyFor(request.attempt), o, p, held)]
  \/ request.verb = "post" /\ Recorded(s) /\ UNCHANGED server
  \/ request.verb = "put" /\ server' = [server EXCEPT ![s].evidence = TRUE]
  \/ request.verb = "complete" /\ server' = [server EXCEPT ![s].complete = TRUE]
  \/ request.verb \in {"check", "poll"} /\ UNCHANGED server

Uploads == {"none", "duplicate", "held", "url"}
Reply(seen, upload, outcome, pending) ==
  [seen |-> seen, upload |-> upload, outcome |-> outcome, pending |-> pending]
NoReply == Reply("ended", "none", None, FALSE)

(* What a good answer may say once the server acted: where the evidence of *)
(* a new run goes, and the policy's outcome so far, which the pre-flight   *)
(* asks of a descriptor and not of a run.                                  *)
Says(s, upload, outcome, pending) ==
  /\ upload \in IF request.verb # "post" THEN {"none"}
                ELSE IF Recorded(s) THEN {"duplicate"}
                ELSE IF server'[s].complete THEN {"held"} ELSE {"url", "none"}
  /\ IF request.verb = "check" THEN ~pending
     ELSE outcome = server'[s].outcome /\ pending = server'[s].pending

Send(verb) ==
  at' = "flight" /\ request' = [verb |-> verb, attempt |-> 1] /\ reply' = NoReply /\ timer' = 0

Idle ==
  at' = "idle" /\ request' = [verb |-> "none", attempt |-> 1] /\ reply' = NoReply /\ timer' = 0

\* Broken: a Retry-After is waited out however long it is.
BackoffsAsked == 0..MaxBackoff + 1

(* The server's Retry-After up to a cap, or a delay of the client's own. *)
Backoffs == 0..MaxBackoff

\* Broken: one attempt too many.
AttemptsLeftInclusive == request.attempt <= Attempts

AttemptsLeft == request.attempt < Attempts

(* The transport hands an answer to its caller, or waits to send the       *)
(* request again.                                                          *)
Arrives(answer) ==
  IF AttemptsLeft /\ WorthRetrying(request.verb, answer.seen)
  THEN /\ at' = "backoff" /\ UNCHANGED <<request, reply>>
       /\ timer' \in IF request.verb = "poll" THEN Backoffs ELSE {0}
  ELSE at' = "answered" /\ reply' = answer /\ UNCHANGED <<request, timer>>

InFlight == at = "flight" /\ ~Over(request.verb)
command == <<run, stage, next, canceled, org, told, check, verdict, failed, exit>>

(* The server acts on the request and its answer comes back.  A server     *)
(* that judges no policy has no answer to a check.                         *)
Answered ==
  /\ InFlight /\ ~(request.verb = "check" /\ server[Current].kind = "plain")
  /\ Acts(Current)
  /\ \E upload \in Uploads, outcome \in Outcomes, pending \in BOOLEAN :
       /\ Says(Current, upload, outcome, pending)
       /\ Arrives(Reply("ok", upload, outcome, pending))
  /\ UNCHANGED <<command, waited>>

(* The server refuses the request, for good or for now. *)
Refused ==
  /\ InFlight
  /\ \E seen \in {"refused", "limited"} : Arrives(Reply(seen, "none", None, FALSE))
  /\ UNCHANGED <<command, waited, server>>

(* A proxy answers 502, 503 or 504, or nothing comes back at all: the      *)
(* server may have acted on the request all the same.                      *)
Unheard ==
  /\ InFlight
  /\ \E seen \in {"unavailable", "lost"} : Arrives(Reply(seen, "none", None, FALSE))
  /\ Acts(Current) \/ UNCHANGED server
  /\ UNCHANGED <<command, waited>>

Resend ==
  /\ at = "backoff" /\ timer = 0 /\ ~Over(request.verb)
  /\ at' = "flight" /\ request' = [request EXCEPT !.attempt = @ + 1]
  /\ UNCHANGED <<command, waited, server, reply, timer>>

(* The caller's context ends the request in flight.  A wait between two    *)
(* attempts runs to its end first.                                         *)
Ended ==
  /\ at \in {"flight", "backoff"} /\ timer = 0 /\ Over(request.verb)
  /\ at' = "answered" /\ reply' = NoReply
  /\ UNCHANGED <<command, waited, server, request, timer>>

-----------------------------------------------------------------------------
(* The pre-flight: each server in turn; a server that could not be asked   *)
(* is a reason and not a verdict.                                          *)

Asks == ~run.noPublish \/ run.policy

CheckOrgPolicy ==
  /\ stage = "preflight" /\ next <= Last /\ at = "idle"
  /\ IF server[Current].kind = "skipped"
     THEN next' = next + 1 /\ UNCHANGED <<at, request, reply, timer>>
     ELSE Send("check") /\ UNCHANGED next
  /\ UNCHANGED <<run, server, stage, waited, canceled, org, told, check, verdict, failed, exit>>

Checked ==
  /\ at = "answered" /\ request.verb = "check"
  /\ org' = IF reply.seen # "ok" THEN org
            ELSE [org EXCEPT !.checked = TRUE, !.outcome = Larger(@, reply.outcome)]
  /\ next' = next + 1 /\ Idle
  /\ UNCHANGED <<run, server, stage, waited, canceled, told, check, verdict, failed, exit>>

Exit(how) == exit' = how /\ stage' = "done"
scanning == <<run, server, at, request, reply, timer, waited, canceled, org, told, check, failed>>

AllAsked == stage = "preflight" /\ next > Last

(* --policy needs the check to have run. *)
RequirePolicy ==
  /\ AllAsked /\ run.policy /\ ~org.checked
  /\ Exit("unchecked")
  /\ UNCHANGED <<scanning, next, verdict>>

(* A refusal stops the command before any tool runs. *)
RefuseRun ==
  /\ AllAsked /\ (run.policy => org.checked) /\ org.outcome = Refuse
  /\ Exit("refused")
  /\ UNCHANGED <<scanning, next, verdict>>

(* The scan runs: its findings, what it could not run and the pre-flight   *)
(* make its verdict.                                                       *)
Scan ==
  /\ AllAsked /\ (run.policy => org.checked) /\ org.outcome # Refuse
  /\ verdict' = IF run.fails \/ run.incomplete \/ org.outcome = Fail THEN "fail" ELSE "pass"
  /\ stage' = IF run.noPublish THEN "report" ELSE "deliver"
  /\ next' = 1
  /\ UNCHANGED <<scanning, exit>>

-----------------------------------------------------------------------------
(* Judge, first half: the run to every server, before any is waited on.    *)

Judging == {s \in Servers : told[s].said}

(* A server is dealt with, well or not, and the next has its turn.         *)
Delivered(ok, policy) ==
  /\ failed' = (failed \/ ~ok)
  /\ told' = [told EXCEPT ![Current] =
       IF ok /\ server[Current].kind = "judges"
       THEN [outcome |-> policy.outcome, pending |-> policy.pending, said |-> TRUE]
       ELSE Unsaid]
  /\ next' = next + 1

delivering == <<run, server, stage, waited, canceled, org, check, verdict, exit>>

PostRun ==
  /\ stage = "deliver" /\ next <= Last /\ at = "idle"
  /\ IF server[Current].kind = "skipped"
     THEN Delivered(TRUE, Unsaid) /\ UNCHANGED <<at, request, reply, timer>>
     ELSE Send("post") /\ UNCHANGED <<next, told, failed>>
  /\ UNCHANGED delivering

(* A run the server had already, or one whose evidence it holds, needs no  *)
(* more; one with nowhere to send the evidence failed.                     *)
RunPosted ==
  /\ at = "answered" /\ request.verb = "post"
  /\ IF reply.seen = "ok" /\ reply.upload = "url"
     THEN /\ Send("put") /\ UNCHANGED <<next, failed>>
          /\ told' = [told EXCEPT ![Current].outcome = reply.outcome,
                                  ![Current].pending = reply.pending]
     ELSE Idle /\ Delivered(reply.seen = "ok" /\ reply.upload # "none", reply)
  /\ UNCHANGED delivering

EvidencePut ==
  /\ at = "answered" /\ request.verb = "put"
  /\ IF reply.seen = "ok" THEN Send("complete") /\ UNCHANGED <<next, told, failed>>
     ELSE Idle /\ Delivered(FALSE, Unsaid)
  /\ UNCHANGED delivering

RunCompleted ==
  /\ at = "answered" /\ request.verb = "complete"
  /\ Idle /\ Delivered(reply.seen = "ok", told[Current])
  /\ UNCHANGED delivering

(* The limit starts once every server has the run. *)
StartWaiting ==
  /\ stage = "deliver" /\ next > Last
  /\ stage' = "await" /\ next' = 1
  /\ UNCHANGED <<run, server, at, request, reply, timer, waited, canceled,
                 org, told, check, verdict, failed, exit>>

-----------------------------------------------------------------------------
(* Judge, second half: each server's verdict, under one limit.             *)

awaiting == <<run, server, waited, canceled, org, verdict, exit>>

(* What a server is asked no more about: its last word, pending where time *)
(* ran out before it was whole, or nothing where it would not say.         *)
Settle(result) ==
  /\ check' = [check EXCEPT ![Current] = result]
  /\ next' = next + 1
  /\ Idle /\ UNCHANGED <<awaiting, stage, failed>>

Word(policy, pending) == [checked |-> TRUE, pending |-> pending, outcome |-> policy.outcome]

Turn == stage = "await" /\ next <= Last /\ at = "idle"

(* An answer with nothing pending is final and asks nothing, and a server  *)
(* that said nothing of policy has nothing pending.                        *)
SettledAlready ==
  /\ Turn /\ ~told[Current].pending
  /\ Settle(Word(told[Current], FALSE)) /\ UNCHANGED told

AskPolicy ==
  /\ Turn /\ told[Current].pending /\ ~Expired
  /\ Send("poll")
  /\ UNCHANGED <<awaiting, stage, next, failed, check, told>>

Polled == at = "answered" /\ request.verb = "poll"
Woken  == at = "asleep" /\ (timer = 0 \/ Over("poll"))

(* The caller's context ended: nothing of what the servers said is kept.   *)
Abandon ==
  /\ (Polled \/ Woken) /\ canceled
  /\ stage' = "report" /\ next' = 1 /\ failed' = TRUE
  /\ told' = [s \in Servers |-> Unsaid] /\ check' = [s \in Servers |-> NoCheck]
  /\ Idle /\ UNCHANGED awaiting

(* The limit is looked at before the answer is, and what was decided by    *)
(* the answer before is all there is.                                      *)
RunOut ==
  /\ \/ (Polled \/ Woken) /\ ~canceled
     \/ Turn /\ told[Current].pending
  /\ Expired
  /\ Settle(Word(told[Current], TRUE)) /\ UNCHANGED told

WontSay ==
  /\ Polled /\ ~Over("poll") /\ reply.seen \notin {"ok", "limited"}
  /\ Settle(Unchecked) /\ UNCHANGED told

Told ==
  told' = [told EXCEPT ![Current].outcome = reply.outcome, ![Current].pending = reply.pending]

DecidedNow ==
  /\ Polled /\ ~Over("poll") /\ reply.seen = "ok" /\ ~reply.pending
  /\ Told /\ Settle(Word(reply, FALSE))

Sleep(ticks) ==
  /\ at' = "asleep" /\ timer' \in ticks /\ reply' = NoReply
  /\ UNCHANGED <<awaiting, request, stage, next, failed, check>>

PendingStill ==
  /\ Polled /\ ~Over("poll") /\ reply.seen = "ok" /\ reply.pending
  /\ Told /\ Sleep({PollInterval})

(* A limited answer names its own delay, or none. *)
Limited ==
  /\ Polled /\ ~Over("poll") /\ reply.seen = "limited"
  /\ Sleep((0..MaxRetryAfter) \union {PollInterval}) /\ UNCHANGED told

PollAgain ==
  /\ Woken /\ ~Over("poll")
  /\ Send("poll")
  /\ UNCHANGED <<awaiting, stage, next, failed, check, told>>

\* Broken: what the servers that answered said is lost with the one that did not.
CombinedIfChecked ==
  LET ran == {check[s] : s \in Judging}
      outcomes == {c.outcome : c \in ran} \union {None}
      checked == \A c \in ran : c.checked
  IN  [checked |-> checked, pending |-> checked /\ \E c \in ran : c.pending,
       outcome |-> IF checked THEN CHOOSE o \in outcomes : \A other \in outcomes : other <= o
                   ELSE None]

(* One check for several servers: checked only where every one answered,   *)
(* and the strongest of what those said.                                   *)
Combined ==
  LET ran == {check[s] : s \in Judging}
      answered == {c \in ran : c.checked}
      outcomes == {c.outcome : c \in answered} \union {None}
  IN  [checked |-> ran = answered,
       pending |-> \E c \in answered : c.pending,
       outcome |-> CHOOSE o \in outcomes : \A other \in outcomes : other <= o]

Judge ==
  /\ stage = "await" /\ next > Last
  /\ stage' = "report" /\ next' = 1
  /\ verdict' = IF Combined.outcome # None THEN "fail" ELSE verdict
  /\ UNCHANGED <<run, server, at, request, reply, timer, waited, canceled,
                 org, told, check, failed, exit>>

-----------------------------------------------------------------------------
(* The end of the command: the report and the other publishers, then the   *)
(* first of the reasons there are to fail.                                 *)

\* Broken: a verdict that did not come in time is let by.
RunPolicyUnchecked == Judging # {} /\ ~Combined.checked

RunPolicyMissing == Judging # {} /\ (~Combined.checked \/ Combined.pending)

(* Why the command fails, where it does: the first reason is the one it    *)
(* exits with.  --no-gate sets the verdict aside and nothing else.         *)
Outcome(unpublished) ==
  IF run.incomplete THEN "incomplete"
  ELSE IF verdict = "fail" /\ ~run.noGate THEN "gate"
  ELSE IF run.policy /\ RunPolicyMissing THEN "undecided"
  ELSE IF unpublished THEN "publish" ELSE "clean"

reporting == <<run, server, next, at, request, reply, timer, waited, canceled,
               org, told, check, verdict>>

(* A report that cannot be rendered or written ends the command there. *)
ReportFails ==
  /\ stage = "report"
  /\ Exit("unwritten") /\ UNCHANGED <<reporting, failed>>

Report ==
  /\ stage = "report"
  /\ \E unpublished \in IF run.noPublish THEN {FALSE} ELSE BOOLEAN :
       /\ failed' = (failed \/ unpublished)
       /\ Exit(Outcome(failed \/ unpublished))
  /\ UNCHANGED reporting

-----------------------------------------------------------------------------
(* The world around the command.                                           *)

(* A server reads a run's evidence in its own time, and then decides what  *)
(* it left pending; settings it has decided stay so.                       *)
Decides(s) ==
  /\ stage \in {"deliver", "await"} /\ server[s].complete /\ server[s].pending
  /\ \E o \in {o \in RunOutcomes : o >= server[s].outcome}, p \in BOOLEAN :
       server' = [server EXCEPT ![s] = [@ EXCEPT !.outcome = o, !.pending = p]]
  /\ UNCHANGED <<client, run, waited, canceled>>

Cancel ==
  /\ stage \in {"deliver", "await"} /\ ~canceled
  /\ canceled' = TRUE
  /\ UNCHANGED <<client, run, server, waited>>

(* Time passes while a request is out or the client sleeps, and past the   *)
(* limit only in a wait between two attempts, which nothing cuts short.    *)
Tick ==
  /\ stage = "await"
  /\ \/ at = "flight" /\ ~canceled /\ ~Expired
     \/ at = "asleep" /\ timer > 0 /\ ~canceled /\ ~Expired
     \/ at = "backoff" /\ timer > 0
  /\ waited' = waited + 1
  /\ timer' = IF at = "flight" THEN timer ELSE timer - 1
  /\ UNCHANGED <<run, server, stage, next, at, request, reply, canceled,
                 org, told, check, verdict, failed, exit>>

-----------------------------------------------------------------------------
Init ==
  /\ run \in Invocations
  /\ \E kind \in Settings :
       server = [s \in Servers |-> [kind |-> kind[s], runs |-> {}, evidence |-> FALSE,
                                    complete |-> FALSE, outcome |-> None, pending |-> FALSE]]
  /\ stage = "preflight" /\ next = (IF Asks THEN 1 ELSE Last + 1)
  /\ at = "idle" /\ request = [verb |-> "none", attempt |-> 1] /\ reply = NoReply /\ timer = 0
  /\ waited = 0 /\ canceled = FALSE
  /\ org = [checked |-> FALSE, outcome |-> None]
  /\ told = [s \in Servers |-> Unsaid] /\ check = [s \in Servers |-> NoCheck]
  /\ verdict = "pass" /\ failed = FALSE /\ exit = "running"

Transport == Answered \/ Refused \/ Unheard \/ Resend \/ Ended
Preflight == CheckOrgPolicy \/ Checked \/ RequirePolicy \/ RefuseRun \/ Scan
Delivery  == PostRun \/ RunPosted \/ EvidencePut \/ RunCompleted \/ StartWaiting
Await     == \/ SettledAlready \/ AskPolicy \/ Abandon \/ RunOut \/ WontSay
             \/ DecidedNow \/ PendingStill \/ Limited \/ PollAgain \/ Judge
Closing   == ReportFails \/ Report
Done == stage = "done" /\ UNCHANGED vars

Next ==
  \/ Transport \/ Preflight \/ Delivery \/ Await \/ Closing
  \/ Tick \/ Cancel \/ Done \/ \E s \in Servers : Decides(s)

(* The program takes its own steps, and time passes however it spends it.  *)
(* No server is held to answering, nor to deciding anything.               *)
Fairness == WF_vars(Await \/ Resend \/ Ended) /\ SF_vars(Tick)
Spec == Init /\ [][Next]_vars /\ Fairness

-----------------------------------------------------------------------------
(* Every variable holds what the code can put there. *)
TypeOK ==
  /\ run \in Invocations
  /\ server \in [Servers -> [kind : Kinds, runs : SUBSET (1..Attempts), evidence : BOOLEAN,
                             complete : BOOLEAN, outcome : Outcomes, pending : BOOLEAN]]
  /\ stage \in {"preflight", "deliver", "await", "report", "done"}
  /\ next \in 1..Last + 1
  /\ at \in {"idle", "flight", "backoff", "answered", "asleep"}
  /\ request \in [verb : {"none", "check", "post", "put", "complete", "poll"}, attempt : 1..Attempts]
  /\ reply \in [seen : {"ok", "refused", "limited", "unavailable", "lost", "ended"},
                 upload : Uploads,
                 outcome : Outcomes, pending : BOOLEAN]
  /\ timer \in Nat /\ waited \in Nat /\ canceled \in BOOLEAN /\ failed \in BOOLEAN
  /\ org \in [checked : BOOLEAN, outcome : Outcomes]
  /\ told \in [Servers -> [outcome : Outcomes, pending : BOOLEAN, said : BOOLEAN]]
  /\ check \in [Servers -> Checks]
  /\ verdict \in {"pass", "fail"}
  /\ exit \in {"running", "unchecked", "refused", "unwritten", "incomplete", "gate",
               "undecided", "publish", "clean"}

(* A command that was told to require the policy and ends well ends with   *)
(* every server that recorded the run having decided all of it, and, but   *)
(* for --no-gate, with none of them failing it: whatever was lost, limited *)
(* or refused on the way, no verdict is taken for granted.                 *)
CleanExitIsDecided ==
  (exit = "clean" /\ run.policy) =>
    \A s \in Servers : server[s].runs # {} /\ server[s].kind = "judges" =>
      ~server[s].pending /\ (run.noGate \/ server[s].outcome = None)

(* A failure a server told the command of fails it, whatever the other     *)
(* servers said or did not say and however little time was left; only a    *)
(* server that later would not say is read as having said nothing.         *)
FailureStands ==
  (exit = "clean" /\ ~run.noGate) =>
    /\ org.outcome = None
    /\ \A s \in Servers : told[s].outcome # None => ~check[s].checked

(* A server records a run once, however often it was sent, is told it is   *)
(* complete only when its evidence landed, and has it if nothing failed.   *)
RecordedOnce ==
  /\ \A s \in Servers : Cardinality(server[s].runs) <= 1
  /\ \A s \in Servers : server[s].complete => server[s].evidence
  /\ (exit = "clean" /\ ~run.noPublish) =>
       \A s \in Servers : server[s].kind # "skipped" => server[s].runs # {}

(* The wait for the verdicts is the limit the caller set for all of them,  *)
(* and at most the rest of one wait between attempts more.                 *)
OneLimit == waited <= run.wait + MaxBackoff - 1

(* The wait ends, whether or not any server ever answers or decides. *)
AwaitEnds == stage = "await" ~> stage # "await"
=============================================================================
