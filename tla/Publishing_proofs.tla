-------------------------- MODULE Publishing_proofs --------------------------
(***************************************************************************)
(* What the publishing end of a scan guarantees for every list of servers, *)
(* every number of attempts and every limit: the inductive invariant       *)
(* behind the safety properties of Publishing, and those as theorems.      *)
(***************************************************************************)
EXTENDS Publishing, FiniteSetTheorems, TLAPS

\* A server this stage is done with, and one whose answer about a run the command holds.
Dealt(s) == \E i \in 1..Last : i < next /\ Order[i] = s
Known(s) == told[s].said \/ (request.verb \in {"put", "complete"} /\ s = Current)
Landed   == at = "answered" /\ reply.seen = "ok"

\* Which request belongs to which stage; between two servers there is none.
ShapeInv ==
  /\ at = "idle" <=> request.verb = "none"
  /\ at # "idle" => next <= Last
  /\ request.verb = "check" => stage = "preflight"
  /\ request.verb \in {"post", "put", "complete"} => stage = "deliver"
  /\ request.verb = "poll" => stage = "await"
  /\ at = "asleep" => request.verb = "poll"
  /\ at = "backoff" => AttemptsLeft
  /\ exit = "running" <=> stage # "done"

\* What the command holds of a server's verdict is true of the server: an answer with
\* nothing pending is the server's last, and none is held of a run it does not have.
Truth(s) ==
  /\ Known(s) => server[s].runs # {}
  /\ Known(s) /\ ~told[s].pending => ~server[s].pending /\ server[s].outcome = told[s].outcome
  /\ ~Known(s) => told[s] = Unsaid
  /\ Landed /\ request.verb \in {"post", "poll"} /\ s = Current =>
       /\ server[s].runs # {}
       /\ ~reply.pending => ~server[s].pending /\ server[s].outcome = reply.outcome
  /\ request.verb = "poll" /\ s = Current => told[s].said
TruthInv == \A s \in Servers : Truth(s)

\* Evidence lands before its run is called complete, and one key makes one run.
Evidence(s) ==
  /\ server[s].runs \subseteq {1}
  /\ server[s].complete => server[s].evidence
  /\ request.verb = "complete" \/ (Landed /\ request.verb = "put")
       => (s = Current => server[s].evidence)
EvidenceInv == \A s \in Servers : Evidence(s)

\* Unless something failed, a server that was dealt with has the run, and one that judges
\* it has said so.  A command that publishes nothing leaves nothing anywhere.
DeliveredInv ==
  /\ \A s \in Servers :
       (/\ \/ stage = "await" \/ (stage = "deliver" /\ Dealt(s))
           \/ stage \in {"report", "done"} /\ ~run.noPublish /\ exit \notin {"unchecked", "refused"}
        /\ ~failed /\ server[s].kind # "skipped")
       => server[s].runs # {} /\ (server[s].kind = "judges" => told[s].said)
  /\ stage = "preflight" \/ run.noPublish => \A s \in Servers : server[s].runs = {}
  /\ run.noPublish => stage \notin {"deliver", "await"}

\* What a server was settled with is what it last said.
SettledInv ==
  \A s \in Judging :
    ((stage = "await" /\ Dealt(s)) \/ stage \in {"report", "done"}) /\ check[s].checked =>
      check[s].outcome = told[s].outcome /\ (~check[s].pending => ~told[s].pending)

\* A failure the command knows of is its verdict, and it exits by that verdict.
VerdictInv ==
  /\ stage \in {"report", "done"} =>
       \A s \in Judging : check[s].checked /\ check[s].outcome # None => verdict = "fail"
  /\ stage \in {"deliver", "await", "report"} \/ exit \notin {"running", "unchecked", "refused"} =>
       org.outcome # Refuse /\ (org.outcome = Fail => verdict = "fail")
  /\ exit = "clean" =>
       /\ stage = "done" /\ ~failed
       /\ verdict = "pass" \/ run.noGate
       /\ run.policy => \A s \in Judging : check[s].checked /\ ~check[s].pending

\* A wait between attempts starts within the limit.
LimitInv ==
  /\ OneLimit
  /\ at = "backoff" /\ request.verb = "poll" => waited + timer <= run.wait + MaxBackoff - 1

IInv == /\ TypeOK /\ ShapeInv /\ TruthInv /\ EvidenceInv /\ DeliveredInv
        /\ SettledInv /\ VerdictInv /\ LimitInv

-----------------------------------------------------------------------------
(* The servers in their order, and what one attempt does to one of them.   *)

LEMMA OrderFacts ==
  /\ Last \in Nat \ {0}
  /\ \A i \in 1..Last : Order[i] \in Servers
  /\ \A s \in Servers : \E i \in 1..Last : Order[i] = s
  /\ \A i, j \in 1..Last : Order[i] = Order[j] => i = j
BY PublishingAssumption DEF Last, Servers

LEMMA Turns ==
  ASSUME TypeOK, next <= Last
  PROVE  next \in 1..Last /\ Current \in Servers
BY OrderFacts DEF TypeOK, Current

ServerState == [kind : Kinds, runs : SUBSET (1..Attempts), evidence : BOOLEAN,
                complete : BOOLEAN, outcome : Outcomes, pending : BOOLEAN]
ReplyState == [seen : {"ok", "refused", "limited", "unavailable", "lost", "ended"},
               upload : Uploads, outcome : Outcomes, pending : BOOLEAN]

\* A server that acts on a request keeps what it had, and the others keep everything: only
\* the first post of a run gives it one, with the verdict it then starts from.
Kept(s) ==
  /\ server'[s].kind = server[s].kind
  /\ server[s].runs \subseteq server'[s].runs /\ server'[s].runs \subseteq {1}
  /\ server[s].runs # {} => /\ server'[s].outcome = server[s].outcome
                            /\ server'[s].pending = server[s].pending
                            /\ server[s].evidence => server'[s].evidence
  /\ server'[s].complete => server'[s].evidence
  /\ server'[s].runs # server[s].runs => s = Current /\ request.verb = "post"

LEMMA ActsFacts ==
  ASSUME TypeOK, TruthInv, EvidenceInv, NEW c \in Servers, c = Current,
         Acts(c) \/ UNCHANGED server
  PROVE  /\ server' \in [Servers -> ServerState]
         /\ \A s \in Servers : Kept(s)
         /\ Acts(c) => /\ request.verb = "post" => server'[c].runs # {}
                       /\ request.verb = "put" => server'[c].evidence
<1>1. server \in [Servers -> ServerState] /\ 1 \in 1..Attempts
  BY PublishingAssumption DEF TypeOK, ServerState
<1>2. ASSUME request.verb = "post", ~Recorded(c), NEW o \in RunOutcomes, NEW p \in BOOLEAN,
             NEW held \in BOOLEAN,
             server' = [server EXCEPT ![c] = WithRun(@, RunKeyFor(request.attempt), o, p, held)]
      PROVE  /\ server' \in [Servers -> ServerState]
             /\ \A s \in Servers : Kept(s)
             /\ server'[c].runs # {}
  <2>. DEFINE new == WithRun(server[c], 1, o, p, held)
  <2>1. server[c].runs = {} /\ o \in Outcomes
    BY <1>2, PublishingAssumption DEF EvidenceInv, Evidence, Recorded, RunKeyFor
  <2>2. server' = [server EXCEPT ![c] = new]
    BY <1>2 DEF RunKeyFor
  <2>3. new \in ServerState /\ new.runs = {1} /\ new.kind = server[c].kind
        /\ new.evidence = held /\ new.complete = held
    BY <1>1, <2>1 DEF ServerState, WithRun
  <2>. HIDE DEF new
  <2>4. server' \in [Servers -> ServerState] /\ server'[c] = new
        /\ \A s \in Servers : s # c => server'[s] = server[s]
    BY <1>1, <2>2, <2>3
  <2>. QED BY <1>2, <2>1, <2>3, <2>4 DEF Kept, EvidenceInv, Evidence
<1>3. CASE request.verb = "put" /\ server' = [server EXCEPT ![c].evidence = TRUE]
  <2>1. server' \in [Servers -> ServerState] /\ server'[c] = [server[c] EXCEPT !.evidence = TRUE]
    <3>1. [server[c] EXCEPT !.evidence = TRUE] \in ServerState
      BY <1>1 DEF ServerState
    <3>. HIDE DEF ServerState
    <3>. QED BY <1>1, <1>3, <3>1
  <2>2. \A s \in Servers : s # c => server'[s] = server[s]
    BY <1>1, <1>3
  <2>3. server'[c].evidence /\ \A s \in Servers : Kept(s)
    BY <1>1, <2>1, <2>2 DEF ServerState, Kept, EvidenceInv, Evidence
  <2>. QED BY <1>3, <2>1, <2>3
<1>4. CASE request.verb = "complete" /\ server' = [server EXCEPT ![c].complete = TRUE]
  <2>1. server' \in [Servers -> ServerState] /\ server'[c] = [server[c] EXCEPT !.complete = TRUE]
    <3>1. [server[c] EXCEPT !.complete = TRUE] \in ServerState
      BY <1>1 DEF ServerState
    <3>. HIDE DEF ServerState
    <3>. QED BY <1>1, <1>4, <3>1
  <2>2. \A s \in Servers : s # c => server'[s] = server[s]
    BY <1>1, <1>4
  <2>3. server[c].evidence
    BY <1>4 DEF EvidenceInv, Evidence
  <2>4. \A s \in Servers : Kept(s)
    BY <1>1, <2>1, <2>2, <2>3 DEF ServerState, Kept, EvidenceInv, Evidence
  <2>. QED BY <1>4, <2>1, <2>4
<1>5. ASSUME UNCHANGED server
      PROVE  server' \in [Servers -> ServerState] /\ \A s \in Servers : Kept(s)
  BY <1>1, <1>5 DEF Kept, EvidenceInv, Evidence
<1>6. CASE ~Acts(c)
  BY <1>5, <1>6
<1>7. CASE Acts(c) /\ request.verb = "post"
  <2>1. CASE Recorded(c)
    BY <1>5, <1>7, <2>1 DEF Acts, Recorded
  <2>2. CASE ~Recorded(c)
    BY <1>2, <1>7, <2>2 DEF Acts
  <2>. QED BY <2>1, <2>2
<1>8. CASE Acts(c) /\ request.verb # "post"
  <2>1. CASE request.verb \in {"put", "complete"}
    BY <1>3, <1>4, <1>8, <2>1 DEF Acts
  <2>2. CASE request.verb \notin {"put", "complete"}
    BY <1>5, <1>8, <2>2 DEF Acts
  <2>. QED BY <2>1, <2>2
<1>. QED BY <1>6, <1>7, <1>8

-----------------------------------------------------------------------------
(* Every step keeps the types.                                             *)

\* What the transport hands up, or keeps for the next attempt.
LEMMA ArrivesType ==
  ASSUME TypeOK, NEW answer \in ReplyState, Arrives(answer)
  PROVE  /\ at' \in {"backoff", "answered"} /\ request' = request
         /\ reply' \in ReplyState /\ timer' \in Nat
         /\ at' = "answered" => reply' = answer
BY PublishingAssumption DEF TypeOK, Arrives, Backoffs, ReplyState

LEMMA CombinedFacts ==
  ASSUME TypeOK
  PROVE  /\ Combined.outcome \in Outcomes
         /\ Combined.checked <=> \A s \in Judging : check[s].checked
         /\ \A s \in Judging : check[s].checked =>
              /\ check[s].outcome <= Combined.outcome
              /\ ~Combined.pending => ~check[s].pending
<1>. DEFINE ran == {check[s] : s \in Judging}
            answered == {c \in ran : c.checked}
            outcomes == {c.outcome : c \in answered} \union {None}
<1>1. outcomes \subseteq Outcomes /\ None \in outcomes
  BY DEF TypeOK, Checks, Judging, Outcomes, None
<1>2. \E o \in outcomes : \A other \in outcomes : other <= o
  <2>. HIDE DEF outcomes
  <2>. QED BY <1>1 DEF Outcomes, None, Fail, Refuse
<1>3. /\ Combined.outcome = CHOOSE o \in outcomes : \A other \in outcomes : other <= o
      /\ Combined.checked <=> ran = answered
      /\ Combined.pending <=> \E c \in answered : c.pending
  BY DEF Combined
<1>4. /\ Combined.outcome \in outcomes
      /\ \A other \in outcomes : other <= Combined.outcome
  <2>. HIDE DEF outcomes
  <2>. QED BY <1>2, <1>3
<1>5. Combined.checked <=> \A s \in Judging : check[s].checked
  BY <1>3
<1>6. ASSUME NEW s \in Judging, check[s].checked
      PROVE  check[s].outcome \in outcomes /\ check[s] \in answered
  BY <1>6
<1>. QED BY <1>1, <1>3, <1>4, <1>5, <1>6

RequestState == [verb : {"none", "check", "post", "put", "complete", "poll"}, attempt : 1..Attempts]
ToldState == [outcome : Outcomes, pending : BOOLEAN, said : BOOLEAN]

\* What is done with the request in hand, and with the servers, has its type.
LEMMA RequestType ==
  /\ \A verb \in {"check", "post", "put", "complete", "poll"} : Send(verb) =>
       at' = "flight" /\ request' \in RequestState /\ reply' \in ReplyState /\ timer' \in Nat
  /\ Idle => at' = "idle" /\ request' \in RequestState /\ reply' \in ReplyState /\ timer' \in Nat
<1>1. 1 \in 1..Attempts
  BY PublishingAssumption
<1>2. NoReply \in ReplyState
  BY DEF NoReply, Reply, ReplyState, Outcomes, None, Uploads
<1>3. \A verb \in {"none", "check", "post", "put", "complete", "poll"} :
        [verb |-> verb, attempt |-> 1] \in RequestState
  BY <1>1 DEF RequestState
<1>. QED BY <1>2, <1>3 DEF Send, Idle

LEMMA DeliveredType ==
  ASSUME TypeOK, NEW ok \in BOOLEAN, NEW policy,
         policy.outcome \in Outcomes, policy.pending \in BOOLEAN, Delivered(ok, policy),
         next <= Last
  PROVE  next' \in 1..Last + 1 /\ failed' \in BOOLEAN /\ told' \in [Servers -> ToldState]
<1>1. next' \in 1..Last + 1 /\ failed' \in BOOLEAN
  BY OrderFacts DEF TypeOK, Delivered
<1>2. [outcome |-> policy.outcome, pending |-> policy.pending, said |-> TRUE] \in ToldState
      /\ Unsaid \in ToldState
  BY DEF ToldState, Unsaid, Outcomes
<1>3. told \in [Servers -> ToldState]
  BY DEF TypeOK, ToldState
<1>. QED BY <1>1, <1>2, <1>3 DEF Delivered

\* A step of the delivery, and one of the wait, leave the rest of the state as it was.
LEMMA DeliveringTyped ==
  ASSUME TypeOK, UNCHANGED delivering,
         next' \in 1..Last + 1, failed' \in BOOLEAN, told' \in [Servers -> ToldState],
         at' \in {"idle", "flight"}, request' \in RequestState, reply' \in ReplyState, timer' \in Nat
  PROVE  TypeOK'
<1>1. /\ run' = run /\ server' = server /\ stage' = stage /\ waited' = waited
      /\ canceled' = canceled /\ org' = org /\ check' = check /\ verdict' = verdict /\ exit' = exit
  BY DEF delivering
<1>. QED BY <1>1 DEF TypeOK, ToldState, RequestState, ReplyState

LEMMA AwaitingTyped ==
  ASSUME TypeOK, UNCHANGED awaiting, stage' = stage, failed' = failed,
         next' \in 1..Last + 1, check' \in [Servers -> Checks], told' \in [Servers -> ToldState],
         at' \in {"idle", "flight", "asleep"}, request' \in RequestState, reply' \in ReplyState,
         timer' \in Nat
  PROVE  TypeOK'
<1>1. /\ run' = run /\ server' = server /\ waited' = waited
      /\ canceled' = canceled /\ org' = org /\ verdict' = verdict /\ exit' = exit
  BY DEF awaiting
<1>. QED BY <1>1 DEF TypeOK, ToldState, RequestState, ReplyState

LEMMA ToldType ==
  ASSUME TypeOK, Told
  PROVE  told' \in [Servers -> ToldState]
<1>1. told' = [told EXCEPT ![Current].outcome = reply.outcome, ![Current].pending = reply.pending]
  BY DEF Told
<1>2. told \in [Servers -> ToldState] /\ reply.outcome \in Outcomes /\ reply.pending \in BOOLEAN
  BY DEF TypeOK, ToldState
<1>. QED BY <1>1, <1>2 DEF ToldState

LEMMA TypeInit == Init => TypeOK
<1>. SUFFICES ASSUME Init PROVE TypeOK
  OBVIOUS
<1>1. \A s \in Servers : server[s] \in ServerState
  <2>1. PICK kind \in Settings :
          server = [s \in Servers |-> [kind |-> kind[s], runs |-> {}, evidence |-> FALSE,
                                     complete |-> FALSE, outcome |-> None, pending |-> FALSE]]
    BY DEF Init
  <2>2. \A s \in Servers : kind[s] \in Kinds
    BY PublishingAssumption
  <2>. QED BY <2>1, <2>2 DEF ServerState, Outcomes
<1>2. server \in [Servers -> ServerState]
  BY <1>1 DEF Init
<1>3. next \in 1..Last + 1
  BY OrderFacts DEF Init
<1>4. request \in RequestState
  BY PublishingAssumption DEF Init, RequestState
<1>5. reply \in ReplyState
  BY DEF Init, NoReply, Reply, ReplyState, Outcomes, None, Uploads
<1>6. told \in [Servers -> ToldState] /\ check \in [Servers -> Checks]
      /\ org \in [checked : BOOLEAN, outcome : Outcomes]
  BY DEF Init, ToldState, Unsaid, NoCheck, Checks, Outcomes
<1>. QED BY <1>2, <1>3, <1>4, <1>5, <1>6
     DEF Init, TypeOK, ServerState, RequestState, ReplyState, ToldState

LEMMA TypeStep == IInv /\ [Next]_vars => TypeOK'
<1>. SUFFICES ASSUME TypeOK, ShapeInv, TruthInv, EvidenceInv, [Next]_vars PROVE TypeOK'
  BY DEF IInv
<1>0. /\ Last \in Nat \ {0} /\ 1 \in 1..Attempts /\ NoReply \in ReplyState
      /\ Unsaid \in ToldState /\ {Unchecked, NoCheck} \subseteq Checks
  BY OrderFacts, PublishingAssumption
     DEF NoReply, Reply, ReplyState, ToldState, Unsaid, Unchecked, NoCheck, Checks, Outcomes, None,
         Uploads
<1>. USE DEF ToldState, RequestState
<1>1. ASSUME Transport PROVE TypeOK'
  <2>1. CASE Answered \/ Refused \/ Unheard
    <3>1. next <= Last /\ Current \in Servers
      BY <2>1, Turns DEF Answered, Refused, Unheard, InFlight, ShapeInv
    <3>2. server' \in [Servers -> ServerState]
      BY <2>1, <3>1, ActsFacts DEF Answered, Refused, Unheard
    <3>3. PICK answer \in ReplyState : Arrives(answer)
      BY <2>1 DEF Answered, Refused, Unheard, Reply, ReplyState, Uploads, Outcomes, None
    <3>4. /\ at' \in {"backoff", "answered"} /\ request' = request
          /\ reply' \in ReplyState /\ timer' \in Nat
      BY <3>3, ArrivesType
    <3>5. UNCHANGED <<command, waited>>
      BY <2>1 DEF Answered, Refused, Unheard
    <3>. QED BY <3>2, <3>4, <3>5 DEF command, TypeOK, ServerState, ReplyState
  <2>2. CASE Resend
    BY <2>2, PublishingAssumption DEF Resend, command, TypeOK, ShapeInv, AttemptsLeft
  <2>3. CASE Ended
    BY <1>0, <2>3 DEF Ended, command, TypeOK, ReplyState
  <2>. QED BY <1>1, <2>1, <2>2, <2>3 DEF Transport
<1>2. ASSUME Preflight PROVE TypeOK'
  <2>1. CASE CheckOrgPolicy
    BY <1>0, <2>1, RequestType DEF CheckOrgPolicy, TypeOK, ReplyState
  <2>2. CASE Checked
    <3>1. org' \in [checked : BOOLEAN, outcome : Outcomes]
      <4>1. Larger(org.outcome, reply.outcome) \in Outcomes
        BY DEF Larger, TypeOK
      <4>. QED BY <2>2, <4>1 DEF Checked, TypeOK
    <3>2. next' \in 1..Last + 1
      BY <1>0, <2>2 DEF Checked, TypeOK, ShapeInv
    <3>. QED BY <2>2, <3>1, <3>2, RequestType DEF Checked, TypeOK, ReplyState
  <2>3. CASE RequirePolicy \/ RefuseRun \/ Scan
    BY <1>0, <2>3 DEF RequirePolicy, RefuseRun, Scan, AllAsked, Exit, scanning, TypeOK
  <2>. QED BY <1>2, <2>1, <2>2, <2>3 DEF Preflight
<1>3. ASSUME Delivery PROVE TypeOK'
  <2>1. CASE PostRun
    <3>1. Unsaid.outcome \in Outcomes /\ Unsaid.pending \in BOOLEAN
      BY <1>0
    <3>2. Delivered(TRUE, Unsaid) =>
            next' \in 1..Last + 1 /\ failed' \in BOOLEAN /\ told' \in [Servers -> ToldState]
      BY <2>1, <3>1, DeliveredType DEF PostRun
    <3>3. next \in 1..Last + 1 /\ failed \in BOOLEAN /\ told \in [Servers -> ToldState]
          /\ at = "idle" /\ request \in RequestState /\ reply \in ReplyState /\ timer \in Nat
      BY <2>1 DEF PostRun, TypeOK, ReplyState
    <3>4. UNCHANGED delivering
      BY <2>1 DEF PostRun
    <3>5. CASE server[Current].kind = "skipped"
      <4>1. Delivered(TRUE, Unsaid) /\ UNCHANGED <<at, request, reply, timer>>
        BY <2>1, <3>5, Zenon DEF PostRun
      <4>. QED BY <3>2, <3>3, <3>4, <4>1, DeliveringTyped
    <3>6. CASE server[Current].kind # "skipped"
      <4>1. Send("post") /\ UNCHANGED <<next, told, failed>>
        BY <2>1, <3>6, Zenon DEF PostRun
      <4>. QED BY <3>3, <3>4, <4>1, RequestType, DeliveringTyped
    <3>. QED BY <3>5, <3>6
  <2>2. CASE RunPosted
    <3>1. next <= Last /\ reply.outcome \in Outcomes /\ reply.pending \in BOOLEAN
      BY <2>2 DEF RunPosted, TypeOK, ShapeInv
    <3>2. CASE reply.seen = "ok" /\ reply.upload = "url"
      <4>1. told' \in [Servers -> ToldState]
        <5>1. told' = [told EXCEPT ![Current].outcome = reply.outcome,
                                   ![Current].pending = reply.pending]
          BY <2>2, <3>2 DEF RunPosted
        <5>2. told \in [Servers -> ToldState]
          BY DEF TypeOK
        <5>. QED BY <3>1, <5>1, <5>2
      <4>2. next' \in 1..Last + 1 /\ failed' \in BOOLEAN /\ Send("put") /\ UNCHANGED delivering
        BY <2>2, <3>2 DEF RunPosted, TypeOK
      <4>. QED BY <4>1, <4>2, RequestType, DeliveringTyped
    <3>3. CASE ~(reply.seen = "ok" /\ reply.upload = "url")
      <4>1. next' \in 1..Last + 1 /\ failed' \in BOOLEAN /\ told' \in [Servers -> ToldState]
        BY <2>2, <3>1, <3>3, DeliveredType DEF RunPosted
      <4>2. Idle /\ UNCHANGED delivering
        BY <2>2, <3>3 DEF RunPosted
      <4>. QED BY <4>1, <4>2, RequestType, DeliveringTyped
    <3>. QED BY <3>2, <3>3
  <2>3. CASE EvidencePut
    <3>1. Unsaid.outcome \in Outcomes /\ Unsaid.pending \in BOOLEAN
      BY <1>0
    <3>2. Delivered(FALSE, Unsaid) =>
            next' \in 1..Last + 1 /\ failed' \in BOOLEAN /\ told' \in [Servers -> ToldState]
      BY <2>3, <3>1, DeliveredType DEF EvidencePut, ShapeInv
    <3>3. next \in 1..Last + 1 /\ failed \in BOOLEAN /\ told \in [Servers -> ToldState]
      BY DEF TypeOK
    <3>4. UNCHANGED delivering
      BY <2>3 DEF EvidencePut
    <3>5. CASE reply.seen = "ok"
      <4>1. Send("complete") /\ UNCHANGED <<next, told, failed>>
        BY <2>3, <3>5, Zenon DEF EvidencePut
      <4>. QED BY <3>3, <3>4, <4>1, RequestType, DeliveringTyped
    <3>6. CASE reply.seen # "ok"
      <4>1. Idle /\ Delivered(FALSE, Unsaid)
        BY <2>3, <3>6, Zenon DEF EvidencePut
      <4>. QED BY <3>2, <3>4, <4>1, RequestType, DeliveringTyped
    <3>. QED BY <3>5, <3>6
  <2>4. CASE RunCompleted
    <3>1. next <= Last /\ Current \in Servers
      BY <2>4, Turns DEF RunCompleted, ShapeInv
    <3>2. told[Current].outcome \in Outcomes /\ told[Current].pending \in BOOLEAN
      BY <3>1 DEF TypeOK
    <3>3. next' \in 1..Last + 1 /\ failed' \in BOOLEAN /\ told' \in [Servers -> ToldState]
      BY <2>4, <3>1, <3>2, DeliveredType DEF RunCompleted
    <3>4. Idle /\ UNCHANGED delivering
      BY <2>4 DEF RunCompleted
    <3>. QED BY <3>3, <3>4, RequestType, DeliveringTyped
  <2>5. CASE StartWaiting
    BY <1>0, <2>5 DEF StartWaiting, TypeOK
  <2>. QED BY <1>3, <2>1, <2>2, <2>3, <2>4, <2>5 DEF Delivery
<1>4. ASSUME Await PROVE TypeOK'
  <2>. USE DEF awaiting, Turn, Polled, Woken
  <2>0. ASSUME NEW result \in Checks, Settle(result), next <= Last,
               told' \in [Servers -> [outcome : Outcomes, pending : BOOLEAN, said : BOOLEAN]]
        PROVE  TypeOK'
    <3>0. check' = [check EXCEPT ![Current] = result] /\ next' = next + 1
      BY <2>0 DEF Settle
    <3>1. check' \in [Servers -> Checks] /\ next' \in 1..Last + 1
      <4>1. check \in [Servers -> Checks] /\ next \in 1..Last + 1
        BY DEF TypeOK
      <4>2. check' \in [Servers -> Checks]
        BY <3>0, <4>1
      <4>3. next' \in 1..Last + 1
        BY <1>0, <2>0, <3>0, <4>1
      <4>. QED BY <4>2, <4>3
    <3>2. /\ request' \in RequestState /\ reply' \in ReplyState /\ timer' \in Nat
          /\ at' = "idle"
      BY <2>0, RequestType DEF Settle
    <3>3. UNCHANGED <<awaiting, stage, failed>>
      BY <2>0 DEF Settle
    <3>. QED BY <2>0, <3>1, <3>2, <3>3, AwaitingTyped
  <2>1. CASE SettledAlready \/ RunOut
    <3>1. Current \in Servers /\ next <= Last
      BY <2>1, Turns DEF SettledAlready, RunOut, ShapeInv
    <3>2. \A p \in BOOLEAN : Word(told[Current], p) \in Checks
      BY <3>1 DEF Word, Checks, TypeOK
    <3>. QED BY <2>0, <2>1, <3>1, <3>2 DEF SettledAlready, RunOut, TypeOK
  <2>2. CASE WontSay
    BY <1>0, <2>0, <2>2 DEF WontSay, TypeOK, ShapeInv
  <2>3. CASE DecidedNow
    <3>1. Word(reply, FALSE) \in Checks
      BY DEF Word, Checks, TypeOK
    <3>2. told' \in [Servers -> [outcome : Outcomes, pending : BOOLEAN, said : BOOLEAN]]
      BY <2>3, ToldType DEF DecidedNow
    <3>. QED BY <2>0, <2>3, <3>1, <3>2 DEF DecidedNow, ShapeInv
  <2>4. CASE AskPolicy \/ PollAgain
    BY <1>0, <2>4, RequestType DEF AskPolicy, PollAgain, TypeOK, ReplyState
  <2>5. CASE Abandon
    BY <1>0, <2>5, RequestType DEF Abandon, TypeOK, ReplyState
  <2>6. CASE PendingStill \/ Limited
    <3>1. told' \in [Servers -> ToldState]
      <4>1. Told \/ UNCHANGED told
        BY <2>6 DEF PendingStill, Limited
      <4>2. told \in [Servers -> ToldState]
        BY DEF TypeOK
      <4>. QED BY <4>1, <4>2, ToldType
    <3>2. PICK ticks \in SUBSET Nat : Sleep(ticks)
      BY <2>6, PublishingAssumption DEF PendingStill, Limited
    <3>. QED BY <1>0, <3>1, <3>2 DEF Sleep, TypeOK, ReplyState
  <2>7. CASE Judge
    BY <1>0, <2>7 DEF Judge, TypeOK
  <2>. QED BY <1>4, <2>1, <2>2, <2>3, <2>4, <2>5, <2>6, <2>7 DEF Await
<1>5. ASSUME Closing PROVE TypeOK'
  BY <1>5 DEF Closing, ReportFails, Report, Exit, Outcome, reporting, TypeOK
<1>6. ASSUME Tick PROVE TypeOK'
  BY <1>6 DEF Tick, TypeOK
<1>7. ASSUME Cancel PROVE TypeOK'
  BY <1>7 DEF Cancel, client, TypeOK
<1>8. ASSUME NEW s \in Servers, Decides(s) PROVE TypeOK'
  <2>1. PICK o \in Outcomes, p \in BOOLEAN :
          server' = [server EXCEPT ![s] = [@ EXCEPT !.outcome = o, !.pending = p]]
    BY <1>8, PublishingAssumption DEF Decides
  <2>2. server' \in [Servers -> ServerState]
    <3>1. server \in [Servers -> ServerState]
      BY DEF TypeOK, ServerState
    <3>2. [server[s] EXCEPT !.outcome = o, !.pending = p] \in ServerState
      BY <3>1 DEF ServerState
    <3>. QED BY <2>1, <3>1, <3>2
  <2>. QED BY <1>8, <2>2 DEF Decides, client, TypeOK, ServerState
<1>9. CASE UNCHANGED vars
  BY <1>9 DEF vars, client, TypeOK
<1>. QED BY <1>1, <1>2, <1>3, <1>4, <1>5, <1>6, <1>7, <1>8, <1>9 DEF Next, Done

-----------------------------------------------------------------------------
(* Requests keep to their stage.                                           *)

LEMMA ShapeInit == Init => ShapeInv
BY DEF Init, ShapeInv

LEMMA ShapeStep == IInv /\ [Next]_vars => ShapeInv'
<1>. SUFFICES ASSUME TypeOK, ShapeInv, [Next]_vars PROVE ShapeInv'
  BY DEF IInv
<1>0. /\ request.verb \in {"none", "check", "post", "put", "complete", "poll"}
      /\ stage \in {"preflight", "deliver", "await", "report", "done"}
      /\ next \in Nat /\ Last \in Nat
  BY OrderFacts DEF TypeOK
<1>1. ASSUME Transport PROVE ShapeInv'
  <2>1. CASE Answered \/ Refused \/ Unheard
    <3>1. PICK answer : Arrives(answer)
      BY <2>1 DEF Answered, Refused, Unheard
    <3>. QED BY <2>1, <3>1
             DEF Answered, Refused, Unheard, Arrives, AttemptsLeft, InFlight, command, ShapeInv
  <2>2. CASE Resend
    BY <2>2 DEF Resend, command, ShapeInv
  <2>3. CASE Ended
    BY <2>3 DEF Ended, command, ShapeInv
  <2>. QED BY <1>1, <2>1, <2>2, <2>3 DEF Transport
<1>2. ASSUME Preflight PROVE ShapeInv'
  <2>1. CASE CheckOrgPolicy
    BY <2>1 DEF CheckOrgPolicy, Send, ShapeInv
  <2>2. CASE Checked
    BY <2>2 DEF Checked, Idle, ShapeInv
  <2>3. CASE RequirePolicy \/ RefuseRun \/ Scan
    BY <1>0, <2>3 DEF RequirePolicy, RefuseRun, Scan, AllAsked, Exit, scanning, ShapeInv
  <2>. QED BY <1>2, <2>1, <2>2, <2>3 DEF Preflight
<1>3. ASSUME Delivery PROVE ShapeInv'
  <2>1. CASE PostRun
    <3>1. CASE server[Current].kind = "skipped"
      BY <2>1, <3>1 DEF PostRun, delivering, ShapeInv
    <3>2. CASE server[Current].kind # "skipped"
      BY <2>1, <3>2 DEF PostRun, Send, delivering, ShapeInv
    <3>. QED BY <3>1, <3>2
  <2>2. CASE RunPosted
    BY <1>0, <2>2 DEF RunPosted, Send, Idle, delivering, ShapeInv
  <2>3. CASE EvidencePut
    <3>1. CASE reply.seen = "ok"
      BY <2>3, <3>1 DEF EvidencePut, Send, delivering, ShapeInv
    <3>2. CASE reply.seen # "ok"
      BY <2>3, <3>2 DEF EvidencePut, Idle, delivering, ShapeInv
    <3>. QED BY <3>1, <3>2
  <2>4. CASE RunCompleted
    BY <1>0, <2>4 DEF RunCompleted, Idle, delivering, ShapeInv
  <2>5. CASE StartWaiting
    BY <1>0, <2>5 DEF StartWaiting, ShapeInv
  <2>. QED BY <1>3, <2>1, <2>2, <2>3, <2>4, <2>5 DEF Delivery
<1>4. ASSUME Await PROVE ShapeInv'
  <2>. USE DEF awaiting, Turn, Polled, Woken, ShapeInv
  <2>1. CASE SettledAlready \/ RunOut \/ WontSay \/ DecidedNow
    <3>1. stage = "await" /\ \E result : Settle(result)
      BY <2>1 DEF SettledAlready, RunOut, WontSay, DecidedNow
    <3>. QED BY <3>1 DEF Settle, Idle
  <2>2. CASE AskPolicy \/ PollAgain
    BY <1>0, <2>2 DEF AskPolicy, PollAgain, Send
  <2>3. CASE Abandon
    BY <2>3 DEF Abandon, Idle
  <2>4. CASE PendingStill \/ Limited
    BY <2>4 DEF PendingStill, Limited, Sleep
  <2>5. CASE Judge
    BY <1>0, <2>5 DEF Judge
  <2>. QED BY <1>4, <2>1, <2>2, <2>3, <2>4, <2>5 DEF Await
<1>5. ASSUME Closing PROVE ShapeInv'
  BY <1>0, <1>5 DEF Closing, ReportFails, Report, Exit, Outcome, reporting, ShapeInv
<1>6. ASSUME Tick PROVE ShapeInv'
  BY <1>6 DEF Tick, ShapeInv, AttemptsLeft
<1>7. CASE Cancel \/ UNCHANGED vars
  BY <1>7 DEF Cancel, vars, client, ShapeInv, AttemptsLeft
<1>8. ASSUME NEW s \in Servers, Decides(s) PROVE ShapeInv'
  BY <1>8 DEF Decides, client, ShapeInv, AttemptsLeft
<1>. QED BY <1>1, <1>2, <1>3, <1>4, <1>5, <1>6, <1>7, <1>8 DEF Next, Done

-----------------------------------------------------------------------------
(* What is held of the servers stays true of them, and evidence lands      *)
(* before a run is called complete.                                        *)

LEMMA TruthInit == Init => TruthInv /\ EvidenceInv
BY DEF Init, TruthInv, Truth, Known, Landed, EvidenceInv, Evidence, Unsaid

\* A step between two requests, or to one about no run, changes nothing of it.
LEMMA TruthKept ==
  ASSUME TruthInv, UNCHANGED <<told, server>>, request.verb \notin {"put", "complete"},
         request'.verb \notin {"put", "complete", "poll"}, at' # "answered"
  PROVE  TruthInv'
BY DEF TruthInv, Truth, Known, Landed, Unsaid

\* An attempt, whatever comes of it.
LEMMA TruthOfAttempts ==
  ASSUME TypeOK, ShapeInv, TruthInv, EvidenceInv, Answered \/ Refused \/ Unheard
  PROVE  TruthInv' /\ EvidenceInv'
<1>1. next <= Last /\ Current \in Servers
  BY Turns DEF Answered, Refused, Unheard, InFlight, ShapeInv
<1>2. /\ \A s \in Servers : Kept(s)
      /\ Acts(Current) => /\ request.verb = "post" => server'[Current].runs # {}
                          /\ request.verb = "put" => server'[Current].evidence
  BY <1>1, ActsFacts DEF Answered, Refused, Unheard
<1>3. UNCHANGED <<told, next, request>> /\ at = "flight"
  BY DEF Answered, Refused, Unheard, command, Arrives, InFlight
<1>4. Landed' => /\ Acts(Current)
                 /\ request.verb \in {"post", "poll"} =>
                      /\ reply'.outcome = server'[Current].outcome
                      /\ reply'.pending = server'[Current].pending
  <2>1. CASE Answered
    <3>1. PICK upload \in Uploads, outcome \in Outcomes, pending \in BOOLEAN :
            /\ Says(Current, upload, outcome, pending)
            /\ Arrives(Reply("ok", upload, outcome, pending))
      BY <2>1 DEF Answered
    <3>2. Landed' => reply' = Reply("ok", upload, outcome, pending)
      BY <3>1 DEF Arrives, Landed
    <3>. QED BY <2>1, <3>1, <3>2 DEF Answered, Says, Reply
  <2>2. CASE Refused \/ Unheard
    <3>1. PICK seen \in {"refused", "limited", "unavailable", "lost"} :
            Arrives(Reply(seen, "none", None, FALSE))
      BY <2>2 DEF Refused, Unheard
    <3>2. ~Landed'
      BY <3>1 DEF Arrives, Landed, Reply
    <3>. QED BY <3>2
  <2>. QED BY <2>1, <2>2
<1>5. ASSUME NEW s \in Servers PROVE Truth(s)'
  <2>1. Kept(s) /\ Truth(s) /\ Known(s)' = Known(s) /\ Current' = Current
    BY <1>2, <1>3, <1>5 DEF TruthInv, Known, Current
  <2>2. Known(s) => server'[s].runs # {} /\ server'[s].outcome = server[s].outcome
                    /\ server'[s].pending = server[s].pending
    BY <2>1 DEF Kept, Truth
  <2>3. Landed' /\ request.verb \in {"post", "poll"} /\ s = Current => server'[s].runs # {}
    BY <1>2, <1>4, <2>1, <2>2 DEF Truth, Known
  <2>. QED BY <1>3, <1>4, <2>1, <2>2, <2>3 DEF Truth
<1>6. ASSUME NEW s \in Servers PROVE Evidence(s)'
  <2>1. Kept(s) /\ Evidence(s) /\ Truth(s) /\ Current' = Current
    BY <1>2, <1>3, <1>6 DEF TruthInv, EvidenceInv, Current
  <2>2. request.verb = "complete" /\ s = Current => server'[s].evidence
    BY <2>1 DEF Kept, Evidence, Truth, Known
  <2>. QED BY <1>2, <1>3, <1>4, <2>1, <2>2 DEF Kept, Evidence
<1>. QED BY <1>5, <1>6 DEF TruthInv, EvidenceInv

\* The answer in hand becomes what is known of a server, or is dropped.
LEMMA TruthOfDelivered ==
  ASSUME TypeOK, TruthInv, next <= Last, UNCHANGED server,
         request'.verb = "none", at' = "idle",
         NEW ok \in BOOLEAN, NEW policy, Delivered(ok, policy),
         ok => /\ server[Current].runs # {}
               /\ ~policy.pending => /\ ~server[Current].pending
                                     /\ server[Current].outcome = policy.outcome
         \/ server[Current].kind # "judges"
  PROVE  TruthInv'
<1>. SUFFICES ASSUME NEW s \in Servers PROVE Truth(s)'
  BY DEF TruthInv
<1>1. told \in [Servers -> ToldState] /\ Current \in Servers
  BY Turns DEF TypeOK, ToldState
<1>2. CASE s # Current
  BY <1>1, <1>2 DEF Delivered, TruthInv, Truth, Known, Landed
<1>3. CASE s = Current
  <2>1. CASE ok /\ server[Current].kind = "judges"
    <3>1. told'[s] = [outcome |-> policy.outcome, pending |-> policy.pending, said |-> TRUE]
      BY <1>1, <1>3, <2>1 DEF Delivered
    <3>. QED BY <1>3, <2>1, <3>1 DEF Truth, Known, Landed
  <2>2. CASE ~(ok /\ server[Current].kind = "judges")
    <3>1. told'[s] = Unsaid
      BY <1>1, <1>3, <2>2 DEF Delivered
    <3>. QED BY <3>1 DEF Truth, Known, Landed, Unsaid
  <2>. QED BY <2>1, <2>2
<1>. QED BY <1>2, <1>3

\* Once every server had its turn the client is idle.
LEMMA AllHadTheirTurn ==
  ASSUME TypeOK, ShapeInv, next > Last
  PROVE  at = "idle" /\ request.verb = "none"
BY OrderFacts DEF TypeOK, ShapeInv

LEMMA TruthOfDelivery ==
  ASSUME TypeOK, ShapeInv, TruthInv, Delivery
  PROVE  TruthInv'
<1>1. told \in [Servers -> ToldState] /\ UNCHANGED server
  BY DEF TypeOK, ToldState, Delivery, PostRun, RunPosted, EvidencePut, RunCompleted, StartWaiting,
         delivering
<1>2. at # "idle" => next <= Last /\ Current \in Servers
  BY Turns DEF ShapeInv
<1>3. CASE PostRun
  <2>1. CASE server[Current].kind = "skipped"
    <3>1. Delivered(TRUE, Unsaid) /\ request'.verb = "none" /\ at' = "idle" /\ next <= Last
      BY <1>3, <2>1 DEF PostRun, ShapeInv
    <3>. QED BY <1>1, <2>1, <3>1, TruthOfDelivered
  <2>2. CASE server[Current].kind # "skipped"
    BY <1>1, <1>3, <2>2, TruthKept DEF PostRun, Send, ShapeInv
  <2>. QED BY <2>1, <2>2
<1>4. CASE RunPosted
  <2>1. /\ request.verb = "post" /\ at = "answered"
        /\ reply.seen = "ok" =>
             /\ server[Current].runs # {}
             /\ ~reply.pending => /\ ~server[Current].pending
                                  /\ server[Current].outcome = reply.outcome
    BY <1>2, <1>4 DEF RunPosted, TruthInv, Truth, Landed
  <2>2. CASE reply.seen = "ok" /\ reply.upload = "url"
    <3>1. /\ told' = [told EXCEPT ![Current].outcome = reply.outcome,
                                  ![Current].pending = reply.pending]
          /\ request'.verb = "put" /\ at' = "flight" /\ next' = next
      BY <1>4, <2>2 DEF RunPosted, Send
    <3>2. /\ told'[Current].outcome = reply.outcome /\ told'[Current].pending = reply.pending
          /\ \A s \in Servers : s # Current => told'[s] = told[s]
      BY <1>1, <1>2, <2>1, <3>1 DEF ToldState
    <3>3. ASSUME NEW s \in Servers PROVE Truth(s)'
      <4>1. CASE s = Current
        BY <1>1, <2>1, <2>2, <3>1, <3>2, <4>1 DEF Truth, Known, Landed, Current
      <4>2. CASE s # Current
        BY <1>1, <2>1, <3>1, <3>2, <4>2 DEF TruthInv, Truth, Known, Landed, Current
      <4>. QED BY <4>1, <4>2
    <3>. QED BY <3>3 DEF TruthInv
  <2>3. CASE ~(reply.seen = "ok" /\ reply.upload = "url")
    <3>1. /\ Delivered(reply.seen = "ok" /\ reply.upload # "none", reply)
          /\ request'.verb = "none" /\ at' = "idle"
      BY <1>4, <2>3 DEF RunPosted, Idle
    <3>2. (reply.seen = "ok" /\ reply.upload # "none") \in BOOLEAN
      OBVIOUS
    <3>. QED BY <1>1, <1>2, <2>1, <3>1, <3>2, TruthOfDelivered
  <2>. QED BY <2>2, <2>3
<1>5. CASE EvidencePut
  <2>1. CASE reply.seen = "ok"
    <3>1. /\ UNCHANGED <<told, next>> /\ request.verb = "put"
          /\ request'.verb = "complete" /\ at' = "flight"
      BY <1>5, <2>1 DEF EvidencePut, Send
    <3>. QED BY <1>1, <3>1 DEF TruthInv, Truth, Known, Landed, Current
  <2>2. CASE reply.seen # "ok"
    <3>1. Delivered(FALSE, Unsaid) /\ Idle /\ at = "answered"
      BY <1>5, <2>2, Zenon DEF EvidencePut
    <3>2. request'.verb = "none" /\ at' = "idle"
      BY <3>1 DEF Idle
    <3>. QED BY <1>1, <1>2, <3>1, <3>2, TruthOfDelivered
  <2>. QED BY <2>1, <2>2
<1>6. CASE RunCompleted
  <2>1. /\ Delivered(reply.seen = "ok", told[Current]) /\ request.verb = "complete"
        /\ request'.verb = "none" /\ at' = "idle" /\ at = "answered"
    BY <1>6 DEF RunCompleted, Idle
  <2>2. /\ server[Current].runs # {}
        /\ ~told[Current].pending => /\ ~server[Current].pending
                                     /\ server[Current].outcome = told[Current].outcome
    BY <1>2, <2>1 DEF TruthInv, Truth, Known
  <2>3. (reply.seen = "ok") \in BOOLEAN
    OBVIOUS
  <2>. QED BY <1>1, <1>2, <2>1, <2>2, <2>3, TruthOfDelivered
<1>7. CASE StartWaiting
  BY <1>7, AllHadTheirTurn, TruthKept DEF StartWaiting
<1>. QED BY <1>3, <1>4, <1>5, <1>6, <1>7 DEF Delivery

LEMMA TruthOfAwait ==
  ASSUME TypeOK, ShapeInv, TruthInv, Await
  PROVE  TruthInv'
<1>. USE DEF awaiting, Turn, Polled, Woken
<1>1. told \in [Servers -> ToldState] /\ UNCHANGED server
  BY DEF TypeOK, ToldState, Await, SettledAlready, AskPolicy, Abandon, RunOut, WontSay, DecidedNow,
         PendingStill, Limited, PollAgain, Judge, Settle, Sleep
<1>2. at # "idle" => next <= Last /\ Current \in Servers
  BY Turns DEF ShapeInv
<1>3. stage = "await" /\ request.verb \in {"none", "poll"}
  BY DEF Await, SettledAlready, AskPolicy, Abandon, RunOut, WontSay, DecidedNow,
         PendingStill, Limited, PollAgain, Judge, ShapeInv, TypeOK
<1>4. CASE SettledAlready \/ RunOut \/ WontSay
  <2>1. UNCHANGED <<told, server>> /\ \E result : Settle(result)
    BY <1>1, <1>4 DEF SettledAlready, RunOut, WontSay
  <2>2. request'.verb = "none" /\ at' = "idle"
    BY <2>1 DEF Settle, Idle
  <2>. QED BY <1>3, <2>1, <2>2, TruthKept
<1>8. CASE Judge
  BY <1>8, AllHadTheirTurn, TruthKept DEF Judge
<1>5. CASE AskPolicy \/ PollAgain \/ Limited
  <2>1. /\ UNCHANGED <<told, next>> /\ at' # "answered" /\ request'.verb = "poll"
        /\ next <= Last
    BY <1>2, <1>5 DEF AskPolicy, PollAgain, Limited, Send, Sleep, ShapeInv
  <2>2. told[Current].said
    <3>1. CASE AskPolicy
      BY <1>3, <2>1, <3>1, Turns DEF AskPolicy, TruthInv, Truth, Known, Unsaid, ShapeInv
    <3>2. CASE PollAgain \/ Limited
      BY <1>2, <3>2 DEF PollAgain, Limited, TruthInv, Truth, ShapeInv
    <3>. QED BY <1>5, <3>1, <3>2
  <2>. QED BY <1>1, <1>3, <2>1, <2>2 DEF TruthInv, Truth, Known, Landed, Current
<1>6. CASE Abandon
  <2>1. /\ told' = [s \in Servers |-> Unsaid] /\ request'.verb = "none" /\ at' = "idle"
    BY <1>6 DEF Abandon, Idle
  <2>. QED BY <2>1 DEF TruthInv, Truth, Known, Landed, Unsaid
<1>7. CASE DecidedNow \/ PendingStill
  <2>1. /\ Told /\ reply.seen = "ok" /\ request.verb = "poll" /\ at = "answered"
        /\ at' # "answered"
        /\ \/ request'.verb = "none"
           \/ request'.verb = "poll" /\ UNCHANGED next
    <3>1. CASE DecidedNow
      BY <3>1 DEF DecidedNow, Settle, Idle
    <3>2. CASE PendingStill
      BY <3>2 DEF PendingStill, Sleep
    <3>. QED BY <1>7, <3>1, <3>2
  <2>2. /\ told'[Current].outcome = reply.outcome /\ told'[Current].pending = reply.pending
        /\ told'[Current].said = told[Current].said
        /\ \A s \in Servers : s # Current => told'[s] = told[s]
    BY <1>1, <1>2, <2>1 DEF Told, ToldState
  <2>3. ASSUME NEW s \in Servers PROVE Truth(s)'
    <3>1. CASE s = Current
      BY <1>1, <1>2, <2>1, <2>2, <3>1 DEF TruthInv, Truth, Known, Landed, Current
    <3>2. CASE s # Current
      BY <1>1, <2>1, <2>2, <3>2 DEF TruthInv, Truth, Known, Landed, Current
    <3>. QED BY <3>1, <3>2
  <2>. QED BY <2>3 DEF TruthInv
<1>. QED BY <1>4, <1>5, <1>6, <1>7, <1>8 DEF Await

LEMMA TruthStep == IInv /\ [Next]_vars => TruthInv'
<1>. SUFFICES ASSUME TypeOK, ShapeInv, TruthInv, EvidenceInv, [Next]_vars PROVE TruthInv'
  BY DEF IInv
<1>1. ASSUME Transport PROVE TruthInv'
  <2>1. CASE Resend \/ Ended
    <3>1. UNCHANGED <<told, server, next>> /\ request'.verb = request.verb /\ ~Landed'
      BY <2>1 DEF Resend, Ended, command, Landed, NoReply, Reply, TypeOK
    <3>. QED BY <3>1 DEF TruthInv, Truth, Known, Current
  <2>. QED BY <1>1, <2>1, TruthOfAttempts DEF Transport
<1>2. ASSUME Preflight PROVE TruthInv'
  <2>1. UNCHANGED <<told, server>> /\ request.verb \in {"none", "check"}
    BY <1>2 DEF Preflight, CheckOrgPolicy, Checked, RequirePolicy, RefuseRun, Scan, AllAsked, Exit,
                scanning, ShapeInv, TypeOK
  <2>2. request'.verb \in {"none", "check"} /\ at' # "answered"
    BY <1>2, AllHadTheirTurn DEF Preflight, CheckOrgPolicy, Checked, RequirePolicy, RefuseRun, Scan, AllAsked, Exit,
                scanning, ShapeInv, Send, Idle
  <2>. QED BY <2>1, <2>2, TruthKept
<1>3. ASSUME Closing PROVE TruthInv'
  <2>1. UNCHANGED <<told, server, request, next, at, reply>>
    BY <1>3 DEF Closing, ReportFails, Report, reporting
  <2>. QED BY <2>1 DEF TruthInv, Truth, Known, Landed, Current
<1>4. CASE Tick \/ Cancel \/ UNCHANGED vars
  <2>1. UNCHANGED <<told, server, request, next, at, reply>>
    BY <1>4 DEF Tick, Cancel, vars, client
  <2>. QED BY <2>1 DEF TruthInv, Truth, Known, Landed, Current
<1>5. ASSUME NEW c \in Servers, Decides(c) PROVE TruthInv'
  <2>1. UNCHANGED <<told, request, next, at, reply>> /\ server[c].pending
    BY <1>5 DEF Decides, client
  <2>2. /\ \A s \in Servers : s # c => server'[s] = server[s]
        /\ server'[c].runs = server[c].runs
    BY <1>5 DEF Decides, TypeOK
  <2>. QED BY <2>1, <2>2 DEF TruthInv, Truth, Known, Landed, Current
<1>. QED BY <1>1, <1>2, <1>3, <1>4, <1>5, TruthOfDelivery, TruthOfAwait DEF Next, Done

LEMMA EvidenceStep == IInv /\ [Next]_vars => EvidenceInv'
<1>. SUFFICES ASSUME TypeOK, ShapeInv, TruthInv, EvidenceInv, [Next]_vars PROVE EvidenceInv'
  BY DEF IInv
<1>1. CASE Answered \/ Refused \/ Unheard
  BY <1>1, TruthOfAttempts
<1>2. ASSUME UNCHANGED server, request'.verb # "complete", ~(Landed /\ request.verb = "put")'
      PROVE  EvidenceInv'
  BY <1>2 DEF EvidenceInv, Evidence
<1>3. CASE Resend \/ Ended
  <2>1. UNCHANGED <<server, next>> /\ request'.verb = request.verb /\ ~Landed'
    BY <1>3 DEF Resend, Ended, command, Landed, NoReply, Reply, TypeOK
  <2>. QED BY <2>1 DEF EvidenceInv, Evidence, Current
<1>4. CASE Preflight
  BY <1>2, <1>4, AllHadTheirTurn
     DEF Preflight, CheckOrgPolicy, Checked, RequirePolicy, RefuseRun, Scan, AllAsked, Exit,
         scanning, Send, Idle, ShapeInv, Landed
<1>5. CASE PostRun \/ RunPosted \/ RunCompleted \/ StartWaiting
  <2>1. UNCHANGED server /\ request'.verb # "complete" /\ at' # "answered"
    <3>1. CASE PostRun
      <4>1. \/ UNCHANGED <<at, request>> /\ at = "idle" /\ request.verb = "none"
            \/ Send("post")
        BY <3>1 DEF PostRun, ShapeInv
      <4>. QED BY <3>1, <4>1 DEF PostRun, delivering, Send
    <3>2. CASE RunPosted \/ RunCompleted
      BY <3>2 DEF RunPosted, RunCompleted, delivering, Send, Idle
    <3>3. CASE StartWaiting
      BY <3>3, AllHadTheirTurn DEF StartWaiting
    <3>. QED BY <1>5, <3>1, <3>2, <3>3
  <2>. QED BY <1>2, <2>1 DEF Landed
<1>6. CASE EvidencePut
  <2>1. UNCHANGED server /\ at = "answered" /\ request.verb = "put" /\ at' # "answered"
    BY <1>6 DEF EvidencePut, delivering, Send, Idle
  <2>2. request'.verb = "complete" => Landed /\ next' = next
    <3>1. CASE reply.seen = "ok"
      BY <1>6, <3>1 DEF EvidencePut, Landed
    <3>2. CASE reply.seen # "ok"
      BY <1>6, <3>2 DEF EvidencePut, Idle
    <3>. QED BY <3>1, <3>2
  <2>. QED BY <2>1, <2>2 DEF EvidenceInv, Evidence, Landed, Current
<1>7. CASE Await
  <2>1. UNCHANGED server /\ request'.verb \in {"none", "poll"}
    <3>1. CASE SettledAlready \/ RunOut \/ WontSay \/ DecidedNow
      <4>1. \E result : Settle(result)
        BY <3>1 DEF SettledAlready, RunOut, WontSay, DecidedNow
      <4>. QED BY <4>1 DEF Settle, Idle, awaiting
    <3>2. CASE AskPolicy \/ PollAgain \/ Abandon
      BY <3>2 DEF AskPolicy, PollAgain, Abandon, Send, Idle, awaiting
    <3>3. CASE PendingStill \/ Limited
      BY <3>3 DEF PendingStill, Limited, Sleep, Polled, awaiting
    <3>4. CASE Judge
      BY <3>4, AllHadTheirTurn DEF Judge
    <3>. QED BY <1>7, <3>1, <3>2, <3>3, <3>4 DEF Await
  <2>. QED BY <1>2, <2>1
<1>8. CASE Closing \/ Tick \/ Cancel \/ UNCHANGED vars
  <2>1. UNCHANGED <<server, request, at, reply, next>>
    BY <1>8 DEF Closing, ReportFails, Report, reporting, Tick, Cancel, client, vars
  <2>. QED BY <2>1 DEF EvidenceInv, Evidence, Landed, Current
<1>9. ASSUME NEW c \in Servers, Decides(c) PROVE EvidenceInv'
  <2>1. UNCHANGED <<request, next, at, reply>>
    BY <1>9 DEF Decides, client
  <2>2. \A s \in Servers :
          /\ server'[s].runs = server[s].runs /\ server'[s].complete = server[s].complete
          /\ server'[s].evidence = server[s].evidence
    BY <1>9 DEF Decides, TypeOK
  <2>. QED BY <2>1, <2>2 DEF EvidenceInv, Evidence, Landed, Current
<1>. QED BY <1>1, <1>3, <1>4, <1>5, <1>6, <1>7, <1>8, <1>9 DEF Next, Transport, Delivery, Done

-----------------------------------------------------------------------------
(* The wait keeps to its limit.                                            *)

\* What the command was asked to do, it is asked throughout.
LEMMA RunKept == [Next]_vars => run' = run
<1>. SUFFICES ASSUME [Next]_vars PROVE run' = run
  OBVIOUS
<1>1. CASE Transport
  BY <1>1 DEF Transport, Answered, Refused, Unheard, Resend, Ended, command
<1>2. CASE Preflight
  BY <1>2 DEF Preflight, CheckOrgPolicy, Checked, RequirePolicy, RefuseRun, Scan, scanning
<1>3. CASE Delivery
  BY <1>3 DEF Delivery, PostRun, RunPosted, EvidencePut, RunCompleted, StartWaiting, delivering
<1>4. CASE Await
  <2>1. CASE SettledAlready \/ RunOut \/ WontSay \/ DecidedNow
    BY <2>1 DEF SettledAlready, RunOut, WontSay, DecidedNow, Settle, awaiting
  <2>2. CASE AskPolicy \/ PollAgain \/ Abandon
    BY <2>2 DEF AskPolicy, PollAgain, Abandon, awaiting
  <2>3. CASE PendingStill \/ Limited \/ Judge
    BY <2>3 DEF PendingStill, Limited, Sleep, Judge, awaiting
  <2>. QED BY <1>4, <2>1, <2>2, <2>3 DEF Await
<1>5. CASE Closing
  BY <1>5 DEF Closing, ReportFails, Report, reporting
<1>6. CASE Tick \/ Cancel \/ UNCHANGED vars
  BY <1>6 DEF Tick, Cancel, vars
<1>7. CASE \E s \in Servers : Decides(s)
  BY <1>7 DEF Decides
<1>. QED BY <1>1, <1>2, <1>3, <1>4, <1>5, <1>6, <1>7 DEF Next, Done

LEMMA LimitInit == Init => LimitInv
BY PublishingAssumption DEF Init, LimitInv, OneLimit, Invocation

LEMMA LimitStep == IInv /\ [Next]_vars => LimitInv'
<1>. SUFFICES ASSUME TypeOK, ShapeInv, LimitInv, [Next]_vars PROVE LimitInv'
  BY DEF IInv
<1>0. /\ waited \in Nat /\ timer \in Nat /\ run.wait \in Nat /\ MaxBackoff \in Nat \ {0}
      /\ run' = run
  <2>1. waited \in Nat /\ timer \in Nat /\ run.wait \in Nat /\ MaxBackoff \in Nat \ {0}
    BY PublishingAssumption DEF TypeOK, Invocation
  <2>. QED BY <2>1, RunKept
<1>1. ASSUME waited' = waited, at' # "backoff" PROVE LimitInv'
  BY <1>0, <1>1 DEF LimitInv, OneLimit
<1>2. CASE Answered \/ Refused \/ Unheard
  <2>1. /\ waited' = waited /\ request' = request
        /\ request.verb = "poll" => waited < run.wait
        /\ at' = "backoff" /\ request.verb = "poll" => timer' \in 0..MaxBackoff
    <3>1. InFlight /\ waited' = waited /\ \E answer : Arrives(answer)
      BY <1>2 DEF Answered, Refused, Unheard
    <3>. QED BY <1>0, <3>1 DEF InFlight, Over, Expired, Arrives, Backoffs
  <2>. QED BY <1>0, <2>1 DEF LimitInv, OneLimit
<1>3. CASE Resend \/ Ended
  BY <1>1, <1>3 DEF Resend, Ended
<1>4. CASE Preflight \/ Delivery
  <2>1. waited' = waited /\ at' # "backoff"
    BY <1>4, AllHadTheirTurn
       DEF Preflight, CheckOrgPolicy, Checked, RequirePolicy, RefuseRun, Scan, AllAsked, scanning,
           Delivery, PostRun, RunPosted, EvidencePut, RunCompleted, StartWaiting, delivering,
           Send, Idle
  <2>. QED BY <1>1, <2>1
<1>5. CASE Await
  <2>1. waited' = waited /\ at' # "backoff"
    <3>1. CASE SettledAlready \/ RunOut \/ WontSay \/ DecidedNow
      <4>1. \E result : Settle(result)
        BY <3>1 DEF SettledAlready, RunOut, WontSay, DecidedNow
      <4>. QED BY <4>1 DEF Settle, Idle, awaiting
    <3>2. CASE AskPolicy \/ PollAgain \/ Abandon
      BY <3>2 DEF AskPolicy, PollAgain, Abandon, Send, Idle, awaiting
    <3>3. CASE PendingStill \/ Limited
      BY <3>3 DEF PendingStill, Limited, Sleep, awaiting
    <3>4. CASE Judge
      BY <3>4, AllHadTheirTurn DEF Judge
    <3>. QED BY <1>5, <3>1, <3>2, <3>3, <3>4 DEF Await
  <2>. QED BY <1>1, <2>1
<1>6. CASE Tick
  <2>1. at = "backoff" => request.verb = "poll" /\ timer > 0
    BY <1>6 DEF Tick, TypeOK, ShapeInv
  <2>2. at # "backoff" => waited < run.wait
    BY <1>0, <1>6 DEF Tick, Expired
  <2>3. /\ waited' = waited + 1 /\ at' = at
        /\ at = "backoff" => timer' = timer - 1
    BY <1>6 DEF Tick
  <2>. QED BY <1>0, <2>1, <2>2, <2>3 DEF LimitInv, OneLimit
<1>7. CASE Closing \/ Cancel \/ UNCHANGED vars \/ \E s \in Servers : Decides(s)
  <2>1. UNCHANGED <<waited, timer, at, request>>
    BY <1>7 DEF Closing, ReportFails, Report, reporting, Cancel, vars, client, Decides
  <2>. QED BY <1>0, <2>1 DEF LimitInv, OneLimit
<1>. QED BY <1>2, <1>3, <1>4, <1>5, <1>6, <1>7 DEF Next, Transport, Done

-----------------------------------------------------------------------------
(* Every server that was dealt with has the run, unless something failed.  *)

\* A turn more makes the server whose turn it was dealt with, and no other.
LEMMA DealtFacts ==
  ASSUME TypeOK
  PROVE  /\ next' = 1 => \A s \in Servers : ~Dealt(s)'
         /\ next > Last => \A s \in Servers : Dealt(s)
         /\ next' = next => \A s \in Servers : Dealt(s)' = Dealt(s)
         /\ next <= Last /\ next' = next + 1 =>
              \A s \in Servers : Dealt(s)' => Dealt(s) \/ s = Current
         /\ next <= Last => ~Dealt(Current)
<1>1. next \in Nat /\ Last \in Nat
  BY OrderFacts DEF TypeOK
<1>2. next' = 1 => \A s \in Servers : ~Dealt(s)'
  BY DEF Dealt
<1>3. next > Last => \A s \in Servers : Dealt(s)
  BY <1>1, OrderFacts DEF Dealt
<1>4. next <= Last /\ next' = next + 1 =>
        \A s \in Servers : Dealt(s)' => Dealt(s) \/ s = Current
  BY <1>1 DEF Dealt, Current
<1>5. next <= Last => ~Dealt(Current)
  BY <1>1, OrderFacts, Turns DEF Dealt, Current
<1>6. next' = next => \A s \in Servers : Dealt(s)' = Dealt(s)
  BY DEF Dealt
<1>. QED BY <1>2, <1>3, <1>4, <1>5, <1>6

LEMMA DeliveredInit == Init => DeliveredInv
BY DEF Init, DeliveredInv

LEMMA DeliveredStep == IInv /\ [Next]_vars => DeliveredInv'
<1>. SUFFICES ASSUME TypeOK, ShapeInv, TruthInv, EvidenceInv, DeliveredInv, [Next]_vars
              PROVE  DeliveredInv'
  BY DEF IInv
<1>. USE RunKept
<1>1. CASE Answered \/ Refused \/ Unheard
  <2>1. next <= Last /\ Current \in Servers
    BY <1>1, Turns DEF Answered, Refused, Unheard, InFlight, ShapeInv
  <2>2. \A s \in Servers : Kept(s)
    BY <1>1, <2>1, ActsFacts DEF Answered, Refused, Unheard
  <2>3. UNCHANGED <<next, stage, told, failed, exit>>
    BY <1>1 DEF Answered, Refused, Unheard, command
  <2>4. \A s \in Servers : Dealt(s)' = Dealt(s)
    BY <2>3, DealtFacts
  <2>5. request.verb = "post" => stage = "deliver"
    BY DEF ShapeInv
  <2>. QED BY <2>2, <2>3, <2>4, <2>5 DEF DeliveredInv, Kept
<1>2. ASSUME UNCHANGED <<server, stage, told, failed, exit>>,
             stage = "deliver" => next' = next
      PROVE  DeliveredInv'
  BY <1>2, DealtFacts DEF DeliveredInv
<1>3. CASE Resend \/ Ended
  BY <1>2, <1>3 DEF Resend, Ended, command
<1>4. CASE CheckOrgPolicy \/ Checked
  BY <1>2, <1>4 DEF CheckOrgPolicy, Checked, ShapeInv
<1>5. CASE RequirePolicy \/ RefuseRun
  BY <1>5 DEF RequirePolicy, RefuseRun, AllAsked, Exit, scanning, DeliveredInv
<1>6. CASE Scan
  BY <1>6, DealtFacts DEF Scan, AllAsked, scanning, DeliveredInv
<1>7. CASE Delivery
  <2>1. CASE StartWaiting
    BY <2>1, DealtFacts DEF StartWaiting, DeliveredInv
  <2>2. ASSUME stage = "deliver", next <= Last, UNCHANGED <<server, stage, exit>>,
               NEW ok \in BOOLEAN, NEW policy, Delivered(ok, policy),
               ok /\ server[Current].kind # "skipped" => server[Current].runs # {}
        PROVE  DeliveredInv'
    <3>1. told \in [Servers -> ToldState] /\ Current \in Servers
      BY <2>2, Turns DEF TypeOK, ToldState
    <3>2. /\ \A s \in Servers : s # Current => told'[s] = told[s]
          /\ ok /\ server[Current].kind = "judges" => told'[Current].said
          /\ failed' = (failed \/ ~ok) /\ next' = next + 1
      BY <2>2, <3>1 DEF Delivered
    <3>3. \A s \in Servers : Dealt(s)' => Dealt(s) \/ s = Current
      BY <2>2, <3>2, DealtFacts
    <3>. QED BY <2>2, <3>1, <3>2, <3>3 DEF DeliveredInv
  <2>3. ASSUME stage = "deliver", next <= Last, UNCHANGED <<server, stage, exit, next, failed>>,
               \A s \in Servers : told'[s].said = told[s].said
        PROVE  DeliveredInv'
    BY <2>3, DealtFacts DEF DeliveredInv
  <2>4. CASE PostRun
    <3>1. CASE server[Current].kind = "skipped"
      BY <2>2, <2>4, <3>1 DEF PostRun, delivering
    <3>2. CASE server[Current].kind # "skipped"
      BY <2>3, <2>4, <3>2 DEF PostRun, delivering
    <3>. QED BY <3>1, <3>2
  <2>5. CASE RunPosted
    <3>1. /\ stage = "deliver" /\ next <= Last /\ UNCHANGED <<server, stage, exit>>
          /\ request.verb = "post" /\ at = "answered"
      BY <2>5 DEF RunPosted, delivering, ShapeInv
    <3>2. Current \in Servers /\ (reply.seen = "ok" => server[Current].runs # {})
      BY <3>1, Turns DEF TruthInv, Truth, Landed
    <3>3. CASE reply.seen = "ok" /\ reply.upload = "url"
      <4>1. \A s \in Servers : told'[s].said = told[s].said
        BY <2>5, <3>2, <3>3 DEF RunPosted, TypeOK
      <4>. QED BY <2>3, <2>5, <3>1, <3>3, <4>1 DEF RunPosted
    <3>4. CASE ~(reply.seen = "ok" /\ reply.upload = "url")
      <4>1. Delivered(reply.seen = "ok" /\ reply.upload # "none", reply)
            /\ (reply.seen = "ok" /\ reply.upload # "none") \in BOOLEAN
        BY <2>5, <3>4 DEF RunPosted
      <4>. QED BY <2>2, <3>1, <3>2, <4>1
    <3>. QED BY <3>3, <3>4
  <2>6. CASE EvidencePut
    <3>1. /\ stage = "deliver" /\ next <= Last /\ UNCHANGED <<server, stage, exit>>
      BY <2>6 DEF EvidencePut, delivering, ShapeInv
    <3>2. CASE reply.seen = "ok"
      BY <2>3, <2>6, <3>1, <3>2 DEF EvidencePut
    <3>3. CASE reply.seen # "ok"
      <4>1. Delivered(FALSE, Unsaid)
        BY <2>6, <3>3, Zenon DEF EvidencePut
      <4>. QED BY <2>2, <3>1, <4>1
    <3>. QED BY <3>2, <3>3
  <2>7. CASE RunCompleted
    <3>1. /\ stage = "deliver" /\ next <= Last /\ UNCHANGED <<server, stage, exit>>
          /\ request.verb = "complete"
      BY <2>7 DEF RunCompleted, delivering, ShapeInv
    <3>2. server[Current].runs # {}
      BY <3>1, Turns DEF TruthInv, Truth, Known
    <3>3. Delivered(reply.seen = "ok", told[Current]) /\ (reply.seen = "ok") \in BOOLEAN
      BY <2>7 DEF RunCompleted
    <3>. QED BY <2>2, <3>1, <3>2, <3>3
  <2>. QED BY <1>7, <2>1, <2>4, <2>5, <2>6, <2>7 DEF Delivery
<1>8. CASE Await
  <2>1. ASSUME UNCHANGED <<server, exit>>, stage = "await", stage' \in {"await", "report"},
               (failed' = failed /\ \A s \in Servers : told'[s].said = told[s].said) \/ failed'
        PROVE  DeliveredInv'
    BY <2>1 DEF DeliveredInv
  <2>2. CASE SettledAlready \/ RunOut \/ WontSay
    <3>1. UNCHANGED told /\ stage = "await" /\ \E result : Settle(result)
      BY <2>2 DEF SettledAlready, RunOut, WontSay, Turn, Polled, Woken, ShapeInv
    <3>. QED BY <2>1, <3>1 DEF Settle, awaiting
  <2>3. CASE DecidedNow \/ PendingStill
    <3>1. /\ Told /\ stage = "await" /\ UNCHANGED <<server, exit, stage, failed>>
      BY <2>3 DEF DecidedNow, PendingStill, Settle, Sleep, Polled, awaiting, ShapeInv
    <3>2. \A s \in Servers : told'[s].said = told[s].said
      BY <3>1 DEF Told, TypeOK
    <3>. QED BY <2>1, <3>1, <3>2
  <2>4. CASE AskPolicy \/ PollAgain \/ Limited
    <3>1. UNCHANGED <<server, exit, stage, failed, told>> /\ stage = "await"
      BY <2>4 DEF AskPolicy, PollAgain, Limited, Sleep, Turn, Polled, Woken, awaiting, ShapeInv
    <3>. QED BY <2>1, <3>1
  <2>5. CASE Abandon
    <3>1. UNCHANGED <<server, exit>> /\ stage = "await" /\ stage' = "report" /\ failed'
      BY <2>5 DEF Abandon, Polled, Woken, awaiting, ShapeInv
    <3>. QED BY <2>1, <3>1
  <2>6. CASE Judge
    BY <2>1, <2>6 DEF Judge
  <2>. QED BY <1>8, <2>2, <2>3, <2>4, <2>5, <2>6 DEF Await
<1>9. CASE Closing
  <2>1. /\ UNCHANGED <<server, told>> /\ stage = "report" /\ stage' = "done"
        /\ exit = "running" /\ (~failed' => ~failed)
    <3>1. CASE ReportFails
      BY <3>1 DEF ReportFails, Exit, reporting, ShapeInv
    <3>2. CASE Report
      BY <3>2 DEF Report, Exit, reporting, ShapeInv
    <3>. QED BY <1>9, <3>1, <3>2 DEF Closing
  <2>2. ASSUME NEW s \in Servers, ~run.noPublish, ~failed, server[s].kind # "skipped"
        PROVE  server[s].runs # {} /\ (server[s].kind = "judges" => told[s].said)
    <3>1. stage = "report" /\ exit \notin {"unchecked", "refused"}
      BY <2>1
    <3>. QED BY <2>2, <3>1 DEF DeliveredInv
  <2>3. run.noPublish => \A s \in Servers : server[s].runs = {}
    BY DEF DeliveredInv
  <2>. QED BY <2>1, <2>2, <2>3 DEF DeliveredInv
<1>10. CASE Tick \/ Cancel \/ UNCHANGED vars
  BY <1>2, <1>10 DEF Tick, Cancel, vars, client
<1>11. ASSUME NEW c \in Servers, Decides(c) PROVE DeliveredInv'
  <2>1. UNCHANGED <<stage, next, told, failed, exit>>
    BY <1>11 DEF Decides, client
  <2>2. \A s \in Servers : server'[s].runs = server[s].runs /\ server'[s].kind = server[s].kind
    BY <1>11 DEF Decides, TypeOK
  <2>. QED BY <2>1, <2>2, DealtFacts DEF DeliveredInv
<1>. QED BY <1>1, <1>3, <1>4, <1>5, <1>6, <1>7, <1>8, <1>9, <1>10, <1>11
     DEF Next, Transport, Preflight, Done

-----------------------------------------------------------------------------
(* What the wait settled on is what each server last said, and the verdict *)
(* the command exits by follows from it.                                   *)

\* Nothing is known of a server before the run is sent to it.
LEMMA NoneJudging ==
  ASSUME TypeOK, TruthInv, DeliveredInv, stage = "preflight"
  PROVE  Judging = {}
BY DEF TypeOK, TruthInv, Truth, Known, DeliveredInv, Judging

LEMMA SettledInit == Init => SettledInv /\ VerdictInv
BY DEF Init, SettledInv, VerdictInv, Judging, Unsaid

LEMMA SettledStep == IInv /\ [Next]_vars => SettledInv'
<1>. SUFFICES ASSUME TypeOK, ShapeInv, TruthInv, DeliveredInv, SettledInv, [Next]_vars
              PROVE  SettledInv'
  BY DEF IInv
<1>0. told \in [Servers -> ToldState] /\ check \in [Servers -> Checks]
  BY DEF TypeOK, ToldState
<1>1. ASSUME UNCHANGED <<stage, told, check>>, stage = "await" => next' = next
      PROVE  SettledInv'
  BY <1>1, DealtFacts DEF SettledInv, Judging
<1>2. ASSUME stage' \notin {"await", "report", "done"} PROVE SettledInv'
  BY <1>2 DEF SettledInv
<1>3. CASE Transport
  BY <1>1, <1>3
     DEF Transport, Answered, Refused, Unheard, Resend, Ended, command
<1>4. CASE CheckOrgPolicy \/ Checked
  BY <1>1, <1>4 DEF CheckOrgPolicy, Checked, ShapeInv
<1>5. CASE RequirePolicy \/ RefuseRun \/ Scan
  <2>1. stage = "preflight" /\ UNCHANGED told
    BY <1>5 DEF RequirePolicy, RefuseRun, Scan, AllAsked, scanning
  <2>2. Judging' = {}
    BY <2>1, NoneJudging DEF Judging
  <2>. QED BY <2>2 DEF SettledInv
<1>6. CASE PostRun \/ RunPosted \/ EvidencePut \/ RunCompleted
  BY <1>2, <1>6 DEF PostRun, RunPosted, EvidencePut, RunCompleted, delivering, ShapeInv
<1>7. CASE StartWaiting
  <2>1. stage' = "await" /\ \A s \in Servers : ~Dealt(s)'
    BY <1>7, DealtFacts DEF StartWaiting
  <2>. QED BY <2>1 DEF SettledInv, Judging
<1>8. ASSUME stage = "await", next <= Last, NEW result \in Checks, Settle(result),
             \A s \in Servers : s # Current => told'[s] = told[s],
             result.checked => /\ result.outcome = told'[Current].outcome
                               /\ ~result.pending => ~told'[Current].pending
      PROVE  SettledInv'
  <2>1. /\ check' = [check EXCEPT ![Current] = result] /\ next' = next + 1 /\ stage' = stage
        /\ Current \in Servers
    BY <1>8, Turns DEF Settle
  <2>2. /\ check'[Current] = result
        /\ \A s \in Servers : s # Current => check'[s] = check[s]
    BY <1>0, <2>1
  <2>3. \A s \in Servers : Dealt(s)' => Dealt(s) \/ s = Current
    BY <1>8, <2>1, DealtFacts
  <2>. QED BY <1>8, <2>1, <2>2, <2>3 DEF SettledInv, Judging
<1>9. CASE SettledAlready \/ RunOut
  <2>1. stage = "await" /\ next <= Last /\ UNCHANGED told /\ Current \in Servers
    BY <1>9, Turns DEF SettledAlready, RunOut, Turn, Polled, Woken, ShapeInv
  <2>2. PICK p \in BOOLEAN : Settle(Word(told[Current], p)) /\ (~p => ~told[Current].pending)
    BY <1>9 DEF SettledAlready, RunOut
  <2>3. /\ Word(told[Current], p) \in Checks /\ Word(told[Current], p).outcome = told[Current].outcome
        /\ Word(told[Current], p).pending = p
    BY <1>0, <2>1 DEF Word, Checks, ToldState
  <2>. QED BY <1>8, <2>1, <2>2, <2>3
<1>10. CASE WontSay
  <2>1. stage = "await" /\ next <= Last /\ UNCHANGED told
    BY <1>10 DEF WontSay, Polled, ShapeInv
  <2>2. Settle(Unchecked) /\ Unchecked \in Checks /\ ~Unchecked.checked
    BY <1>10 DEF WontSay, Unchecked, Checks, Outcomes
  <2>. QED BY <1>8, <2>1, <2>2
<1>11. CASE DecidedNow
  <2>1. stage = "await" /\ next <= Last /\ Current \in Servers /\ ~reply.pending
    BY <1>11, Turns DEF DecidedNow, Polled, ShapeInv
  <2>2. /\ told'[Current].outcome = reply.outcome /\ told'[Current].pending = reply.pending
        /\ \A s \in Servers : s # Current => told'[s] = told[s]
    BY <1>0, <1>11, <2>1 DEF DecidedNow, Told, ToldState
  <2>3. /\ Word(reply, FALSE) \in Checks /\ Word(reply, FALSE).outcome = reply.outcome
    BY DEF Word, Checks, TypeOK
  <2>. QED BY <1>8, <1>11, <2>1, <2>2, <2>3 DEF DecidedNow
<1>12. CASE PendingStill
  <2>1. stage = "await" /\ next <= Last /\ Current \in Servers
        /\ UNCHANGED <<stage, next, check>>
    BY <1>12, Turns DEF PendingStill, Polled, Sleep, ShapeInv
  <2>2. \A s \in Servers : s # Current => told'[s] = told[s]
    BY <1>0, <1>12, <2>1 DEF PendingStill, Told
  <2>3. ~Dealt(Current) /\ \A s \in Servers : Dealt(s)' = Dealt(s)
    BY <2>1, DealtFacts
  <2>. QED BY <2>1, <2>2, <2>3 DEF SettledInv, Judging
<1>13. CASE AskPolicy \/ PollAgain \/ Limited
  BY <1>1, <1>13 DEF AskPolicy, PollAgain, Limited, Sleep
<1>14. CASE Abandon
  <2>1. Judging' = {}
    BY <1>14 DEF Abandon, Judging, Unsaid
  <2>. QED BY <2>1 DEF SettledInv
<1>15. CASE Judge
  BY <1>15, DealtFacts DEF Judge, SettledInv, Judging
<1>16. CASE Closing
  <2>1. UNCHANGED <<told, check>> /\ stage = "report"
    BY <1>16 DEF Closing, ReportFails, Report, reporting
  <2>. QED BY <2>1 DEF SettledInv, Judging
<1>17. CASE Tick \/ Cancel \/ UNCHANGED vars \/ \E s \in Servers : Decides(s)
  BY <1>1, <1>17 DEF Tick, Cancel, vars, client, Decides
<1>. QED BY <1>3, <1>4, <1>5, <1>6, <1>7, <1>9, <1>10, <1>11, <1>12, <1>13, <1>14, <1>15, <1>16,
            <1>17 DEF Next, Preflight, Delivery, Await, Done

LEMMA VerdictStep == IInv /\ [Next]_vars => VerdictInv'
<1>. SUFFICES ASSUME TypeOK, ShapeInv, TruthInv, DeliveredInv, VerdictInv, [Next]_vars
              PROVE  VerdictInv'
  BY DEF IInv
<1>. USE RunKept
<1>1. ASSUME UNCHANGED <<stage, org, verdict, exit, failed>>,
             stage \in {"report", "done"} => UNCHANGED <<told, check>>
      PROVE  VerdictInv'
  BY <1>1 DEF VerdictInv, ShapeInv, Judging
<1>2. ASSUME stage = stage', stage \in {"preflight", "deliver", "await"},
             UNCHANGED <<org, verdict, exit>> \/ (stage = "preflight" /\ UNCHANGED exit)
      PROVE  VerdictInv'
  BY <1>2 DEF VerdictInv, ShapeInv
<1>3. CASE Transport
  BY <1>1, <1>3 DEF Transport, Answered, Refused, Unheard, Resend, Ended, command
<1>4. CASE CheckOrgPolicy \/ Checked
  BY <1>2, <1>4 DEF CheckOrgPolicy, Checked, ShapeInv
<1>5. CASE RequirePolicy \/ RefuseRun \/ Scan
  <2>1. stage = "preflight" /\ UNCHANGED <<told, org>>
    BY <1>5 DEF RequirePolicy, RefuseRun, Scan, AllAsked, scanning
  <2>2. Judging' = {}
    BY <2>1, NoneJudging DEF Judging
  <2>3. CASE RequirePolicy \/ RefuseRun
    BY <2>2, <2>3 DEF RequirePolicy, RefuseRun, Exit, VerdictInv
  <2>4. CASE Scan
    BY <2>1, <2>2, <2>4 DEF Scan, VerdictInv, ShapeInv
  <2>. QED BY <1>5, <2>3, <2>4
<1>6. CASE PostRun \/ RunPosted \/ EvidencePut \/ RunCompleted
  BY <1>2, <1>6 DEF PostRun, RunPosted, EvidencePut, RunCompleted, delivering, ShapeInv
<1>7. CASE StartWaiting
  BY <1>7 DEF StartWaiting, VerdictInv, ShapeInv
<1>8. CASE SettledAlready \/ RunOut \/ WontSay \/ DecidedNow
  <2>1. stage = "await" /\ \E result : Settle(result)
    BY <1>8 DEF SettledAlready, RunOut, WontSay, DecidedNow, Turn, Polled, Woken, ShapeInv
  <2>. QED BY <1>2, <2>1 DEF Settle, awaiting
<1>9. CASE AskPolicy \/ PollAgain \/ PendingStill \/ Limited
  <2>1. stage = "await" /\ UNCHANGED <<stage, org, verdict, exit>>
    BY <1>9 DEF AskPolicy, PollAgain, PendingStill, Limited, Turn, Polled, Woken, Sleep, awaiting,
                ShapeInv
  <2>. QED BY <1>2, <2>1
<1>10. CASE Abandon
  <2>1. /\ Judging' = {} /\ stage = "await" /\ stage' = "report"
        /\ UNCHANGED <<org, verdict, exit>>
    BY <1>10 DEF Abandon, Judging, Unsaid, Polled, Woken, awaiting, ShapeInv
  <2>. QED BY <2>1 DEF VerdictInv, ShapeInv
<1>11. CASE Judge
  <2>1. /\ stage = "await" /\ stage' = "report" /\ UNCHANGED <<org, exit, told, check>>
        /\ verdict' = IF Combined.outcome # None THEN "fail" ELSE verdict
    BY <1>11 DEF Judge
  <2>2. ASSUME NEW s \in Judging, check[s].checked, check[s].outcome # None
        PROVE  verdict' = "fail"
    <3>1. check[s].outcome \in Outcomes /\ check[s].outcome <= Combined.outcome
      BY <2>2, CombinedFacts DEF TypeOK, Checks, Judging
    <3>2. Combined.outcome \in Outcomes
      BY CombinedFacts
    <3>3. Combined.outcome # None
      BY <2>2, <3>1, <3>2 DEF Outcomes, None, Fail, Refuse
    <3>. QED BY <2>1, <3>3
  <2>. QED BY <2>1, <2>2 DEF VerdictInv, ShapeInv, Judging
<1>12. CASE ReportFails
  BY <1>12 DEF ReportFails, Exit, reporting, VerdictInv, Judging
<1>13. CASE Report
  <2>1. PICK unpublished \in BOOLEAN :
          /\ failed' = (failed \/ unpublished) /\ exit' = Outcome(failed \/ unpublished)
          /\ stage = "report" /\ stage' = "done"
          /\ UNCHANGED <<org, verdict, told, check>>
    BY <1>13 DEF Report, Exit, reporting
  <2>2. exit' = "clean" =>
          /\ ~failed'
          /\ verdict = "pass" \/ run.noGate
          /\ run.policy => ~RunPolicyMissing
    BY <2>1 DEF Outcome, TypeOK
  <2>3. ~RunPolicyMissing => \A s \in Judging : check[s].checked /\ ~check[s].pending
    BY CombinedFacts DEF RunPolicyMissing
  <2>. QED BY <2>1, <2>2, <2>3 DEF VerdictInv, Judging
<1>14. CASE Tick \/ Cancel \/ UNCHANGED vars \/ \E s \in Servers : Decides(s)
  BY <1>1, <1>14 DEF Tick, Cancel, vars, client, Decides
<1>. QED BY <1>3, <1>4, <1>5, <1>6, <1>7, <1>8, <1>9, <1>10, <1>11, <1>12, <1>13, <1>14
     DEF Next, Preflight, Delivery, Await, Closing, Done

-----------------------------------------------------------------------------
(* The theorems.                                                           *)

\* The parts together hold in every state of every run of the command.
THEOREM PublishingInvariant == Spec => []IInv
<1>1. Init => IInv
  BY TypeInit, ShapeInit, TruthInit, DeliveredInit, SettledInit, LimitInit DEF IInv
<1>2. IInv /\ [Next]_vars => IInv'
  BY TypeStep, ShapeStep, TruthStep, EvidenceStep, DeliveredStep, SettledStep, VerdictStep,
     LimitStep DEF IInv
<1>. QED BY <1>1, <1>2, PTL DEF Spec

\* No sequence of answers, losses and retries makes the client send a request once more than
\* it may, or wait on a server there is none of.
THEOREM PublishingTypes == Spec => []TypeOK
<1>1. IInv => TypeOK
  BY DEF IInv
<1>. QED BY <1>1, PublishingInvariant, PTL

\* For any list of servers: a command that requires the policy and exits well exits after every
\* server that has the run decided all of it, and after none of them failed it.
THEOREM CleanExitsAreDecided == Spec => []CleanExitIsDecided
<1>1. IInv => CleanExitIsDecided
  <2>. SUFFICES ASSUME IInv, exit = "clean", run.policy,
                       NEW s \in Servers, server[s].runs # {}, server[s].kind = "judges"
                PROVE  ~server[s].pending /\ (run.noGate \/ server[s].outcome = None)
    BY DEF CleanExitIsDecided
  <2>1. /\ stage = "done" /\ ~failed /\ (verdict = "pass" \/ run.noGate)
        /\ \A j \in Judging : check[j].checked /\ ~check[j].pending
    BY DEF IInv, VerdictInv
  <2>2. told[s].said
    BY <2>1 DEF IInv, DeliveredInv
  <2>3. /\ check[s].outcome = told[s].outcome /\ ~told[s].pending /\ check[s].checked
    BY <2>1, <2>2 DEF IInv, SettledInv, Judging
  <2>4. ~server[s].pending /\ server[s].outcome = told[s].outcome
    BY <2>2, <2>3 DEF IInv, TruthInv, Truth, Known
  <2>5. verdict = "pass" => check[s].outcome = None
    BY <2>1, <2>2, <2>3 DEF IInv, VerdictInv, Judging
  <2>. QED BY <2>1, <2>3, <2>4, <2>5
<1>. QED BY <1>1, PublishingInvariant, PTL

\* For any list of servers: a failure the command was told of, before the scan or after it, is
\* in its verdict, whatever the other servers did not say.
THEOREM FailuresStand == Spec => []FailureStands
<1>1. IInv => FailureStands
  <2>. SUFFICES ASSUME IInv, exit = "clean", ~run.noGate
                PROVE  /\ org.outcome = None
                       /\ \A s \in Servers : told[s].outcome # None => ~check[s].checked
    BY DEF FailureStands
  <2>1. stage = "done" /\ verdict = "pass"
    BY DEF IInv, VerdictInv
  <2>2. org.outcome = None
    BY <2>1 DEF IInv, TypeOK, VerdictInv, Outcomes
  <2>3. ASSUME NEW s \in Servers, told[s].outcome # None, check[s].checked PROVE FALSE
    <3>1. request.verb \notin {"put", "complete"}
      BY <2>1 DEF IInv, ShapeInv
    <3>2. s \in Judging
      BY <2>3, <3>1 DEF IInv, TruthInv, Truth, Known, Unsaid, Judging
    <3>. QED BY <2>1, <2>3, <3>2 DEF IInv, SettledInv, VerdictInv
  <2>. QED BY <2>2, <2>3
<1>. QED BY <1>1, PublishingInvariant, PTL

\* For any number of attempts: one run is recorded once, its evidence lands before it is called
\* complete, and a publish that succeeded left it at every server.
THEOREM RunsAreRecordedOnce == Spec => []RecordedOnce
<1>1. IInv => RecordedOnce
  <2>. SUFFICES ASSUME IInv PROVE RecordedOnce
    OBVIOUS
  <2>1. ASSUME NEW s \in Servers PROVE Cardinality(server[s].runs) <= 1
    <3>1. server[s].runs = {} \/ server[s].runs = {1}
      BY DEF IInv, EvidenceInv, Evidence
    <3>2. Cardinality({1}) = 1 /\ Cardinality({}) = 0
      BY FS_EmptySet, FS_Singleton
    <3>. QED BY <3>1, <3>2
  <2>2. \A s \in Servers : server[s].complete => server[s].evidence
    BY DEF IInv, EvidenceInv, Evidence
  <2>3. ASSUME exit = "clean", ~run.noPublish, NEW s \in Servers, server[s].kind # "skipped"
        PROVE  server[s].runs # {}
    <3>1. stage = "done" /\ ~failed
      BY <2>3 DEF IInv, VerdictInv
    <3>. QED BY <2>3, <3>1 DEF IInv, DeliveredInv
  <2>. QED BY <2>1, <2>2, <2>3 DEF RecordedOnce
<1>. QED BY <1>1, PublishingInvariant, PTL

\* For any limit, and any number of servers waited on: they share the limit, and one wait between
\* two attempts is all that can overrun it.
THEOREM OneLimitForAll == Spec => []OneLimit
<1>1. IInv => OneLimit
  BY DEF IInv, LimitInv
<1>. QED BY <1>1, PublishingInvariant, PTL
=============================================================================
