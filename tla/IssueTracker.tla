---------------------------- MODULE IssueTracker ----------------------------
(***************************************************************************)
(* pkg/publish's issue tracker against GitHub: a run lists the open items  *)
(* that carry its marker, then closes, opens, links and rewrites them one  *)
(* request at a time until they match its verdict.  Any request may be     *)
(* refused, or applied and its answer lost; one that creates may be        *)
(* applied, answered as not processed and sent again; a run may be killed  *)
(* between two requests; people close items; in some worlds runs overlap.  *)
(*                                                                         *)
(* An item is what its marker and its body say: the part it tracks, the    *)
(* action or control it is a child for (or Parent), the actions its body   *)
(* lists, and the parent GitHub shows it under.  Texts, titles and labels  *)
(* are left out; the requests that write them are kept, for they can fail  *)
(* and stop what follows them.                                             *)
(***************************************************************************)
EXTENDS Integers, FiniteSets, Sequences, FiniteSetsExt, Functions

CONSTANTS
  FixOrder,     \* the actions findings may call for, in fix order
  ControlOf,    \* the control each action belongs to
  MaxChildren,  \* the entry's maxChildren
  Attempts,     \* how many times the client sends a request, the first included
  Worlds,       \* the pipelines the entry may be in, each one of these:
                \*   parts: the parts the entry may cover, in the order of their names
                \*   split: whether it splits, so that a part may leave the run
                \*   overlap: a run may start while another is under way
                \*   kill: runs may be killed
                \*   children: the values the setting takes from run to run
                \*   verdicts: what a run may find of each part
  NumRuns,      \* bound: the runs, numbered in the order they start
  MaxTrouble,   \* bound: requests that fail, runs killed and items closed by hand
  Parent        \* the field of an item that is nobody's child

Runs     == 1..NumRuns
Parts    == UNION {Range(w.parts) : w \in Worlds}
Actions  == Range(FixOrder)
Controls == {ControlOf[a] : a \in Actions}
Fields   == Actions \union Controls
Found    == UNION UNION {Range(w.verdicts) : w \in Worlds}

ASSUME TrackerAssumption ==
  /\ MaxChildren \in Nat \ {0} /\ Attempts \in Nat \ {0}
  /\ FixOrder \in Seq(Actions)
  /\ \A w \in Worlds :
       /\ {w.overlap, w.kill, w.split} \subseteq BOOLEAN
       /\ w.parts \in Seq(Range(w.parts)) \ {<<>>} /\ IsInjective(w.parts)
       /\ w.children \subseteq {"none", "actions", "controls"}
       /\ DOMAIN w.verdicts = Range(w.parts)
       /\ \A v \in UNION Range(w.verdicts) : v.state = "gone" => w.split
  /\ Actions \intersect Controls = {}
  /\ Parent \notin Fields
  /\ NumRuns \in Nat /\ MaxTrouble \in Nat
  /\ \A v \in Found :
       /\ v.state \in {"fails", "passes", "gone"}
       /\ v.actions \subseteq Actions

VARIABLES
  forge,    \* the items ever created, by number
  run,      \* each run of the publisher
  trouble,  \* how many requests failed, runs were killed and items were closed by hand
  world     \* the pipeline the entry is in

vars == <<forge, run, trouble, world>>

States == {"open", "passing", "duplicate", "untracked", "byHand"}
Items  == [part : Parts, field : Fields \union {Parent}, state : States,
           lists : SUBSET Actions, under : Nat]

Numbers      == DOMAIN forge
IsOpen(n)    == forge[n].state = "open"
OpenOf(p, f) == {n \in Numbers : IsOpen(n) /\ forge[n].part = p /\ forge[n].field = f}
OpenKids(p)  == UNION {OpenOf(p, f) : f \in Fields}

----------------------------------------------------------------------------
(* What a run does with one part, from the items it listed.                *)

KindOf(f) == IF f \in Controls THEN "controls" ELSE "actions"

\* The children a part should have, and the actions each of them holds.
Units(kind, acts) == IF kind = "actions" THEN acts ELSE {ControlOf[a] : a \in acts}
Holds(u, acts)    == {a \in acts : u \in {a, ControlOf[a]}}

Place(u, acts)    == Min({i \in DOMAIN FixOrder : FixOrder[i] \in Holds(u, acts)})

\* Broken: the newest item is the one that stays.
Older(S) == S \ {Max(S)}

\* The items a run listed for a part under any of some fields, of which the oldest is the
\* one that stays, and the fields it listed children under.
Listed(r, p, fs) == {n \in DOMAIN run[r].saw : forge[n].part = p /\ forge[n].field \in fs}
Newer(S)         == S \ {Min(S)}

\* The fields of the children it listed, those of the kind the entry wants among them.
KidFields(r, p) == {f \in Fields : Listed(r, p, {f}) # {}}
Same(r, p)      == {f \in KidFields(r, p) : KindOf(f) = run[r].children}

\* A request has its turn: the stage of the work it belongs to, the place in that stage of
\* what it is about, and the step.  What is due is what nothing else comes before.  It
\* also counts how often it was sent before.
Request(op, item, for, turn) ==
  [op |-> op, item |-> item, for |-> for, turn |-> turn, sent |-> 0]
Earlier(t, u) ==
  \E i \in 1..3 : t[i] < u[i] /\ \A j \in 1..(i - 1) : t[j] = u[j]
Due(S) == {q \in S : \A s \in S : ~Earlier(s.turn, q.turn)}

\* Items close in the order of the list; an item that stays is rewritten after that.
CloseAll(S, why, stage, place) == {Request("close", n, why, <<stage, place, n>>) : n \in S}
Touch(stage, place)     == {Request("touch", 0, Parent, <<stage, place, Len(forge) + 1>>)}
OpenParent(stage)       == {Request("openParent", 0, Parent, <<stage, 0, 0>>)}
Rewrite(stage)          == {Request("rewrite", 0, Parent, <<stage, 0, 0>>)}
CreateAll(us, acts, stage) == {Request("child", 0, u, <<stage, Place(u, acts), 0>>) : u \in us}

Acts(r, p)   == run[r].verdict[p].actions
Wanted(r, p) == IF run[r].children = "none" THEN {} ELSE Units(run[r].children, Acts(r, p))

\* Broken: the children that are open are not looked for.
KeptNone(r, p) == {}

\* The children that stay: those of a parent that is open.
Kept(r, p) ==
  IF Listed(r, p, {Parent}) = {} THEN {} ELSE Wanted(r, p) \intersect KidFields(r, p)

\* The children to create: the first of the others that the cap leaves room for.
Lacking(r, p) == Wanted(r, p) \ Kept(r, p)
Before(r, p, u) ==
  {v \in Lacking(r, p) : Place(v, Acts(r, p)) < Place(u, Acts(r, p))}
New(r, p) ==
  {u \in Lacking(r, p) :
     Cardinality(Kept(r, p)) + Cardinality(Before(r, p, u)) < MaxChildren}

\* The actions a parent's body lists: those that have no child.
Body(r, p, have) == Acts(r, p) \ UNION {Holds(u, Acts(r, p)) : u \in have}
Written(r, p)    == Body(r, p, Kept(r, p) \union New(r, p))

\* One child stays for a unit, and is brought up to date.
KeepChild(r, p, u) ==
  LET place == Place(u, Acts(r, p))
  IN  CloseAll(Newer(Listed(r, p, {u})), "duplicate", 4, place) \union Touch(4, place)

\* A failing part with children: children of the other kind close; a parent that is
\* gone is replaced and its children closed, in the order of a map; otherwise its
\* duplicates and the children nobody wants close and the others are kept.  Then what
\* the cap leaves room for is created.
KeepFamily(r, p) ==
  LET parents  == Listed(r, p, {Parent})
      unwanted == Same(r, p) \ Wanted(r, p)
      other    == KidFields(r, p) \ Same(r, p)
      Close(fs, why, order) == UNION {CloseAll(Listed(r, p, {f}), why, 3, order[f]) : f \in fs}
      always   == CloseAll(Listed(r, p, other), "untracked", 1, 0)
                    \union CreateAll(New(r, p), Acts(r, p), 5) \union Rewrite(6)
  IN  IF parents = {}
      THEN {always \union OpenParent(2) \union Close(Same(r, p), "untracked", order) :
              order \in Injection(Same(r, p), 1..Cardinality(Same(r, p)))}
      ELSE {always \union CloseAll(Newer(parents), "duplicate", 2, 0)
              \union Close(unwanted, "passing", order)
              \union (UNION {KeepChild(r, p, u) : u \in Kept(r, p)}) \union Touch(7, 0) :
              order \in Injection(unwanted, 1..Cardinality(unwanted))}

\* A failing part without children: the oldest item stays, or one is opened.
KeepOpen(r, p) ==
  LET parents == Listed(r, p, {Parent})
  IN  CloseAll(Listed(r, p, Fields), "untracked", 1, 0) \union
      IF parents = {} THEN OpenParent(2)
      ELSE CloseAll(Newer(parents), "duplicate", 2, 0) \union Rewrite(6) \union Touch(7, 0)

\* Broken: the items close before their children.
ClosePassingParentFirst(r, p) ==
  CloseAll(Listed(r, p, {Parent}), "passing", 1, 0)
    \union CloseAll(Listed(r, p, Fields), "passing", 2, 0)

\* A passing part: its children close, then its items.
ClosePassing(r, p) ==
  CloseAll(Listed(r, p, Fields), "passing", 1, 0)
    \union CloseAll(Listed(r, p, {Parent}), "passing", 2, 0)

\* What a run does with a part it covers.
KeepPart(r, p) ==
  IF run[r].verdict[p].state = "passes" THEN {ClosePassing(r, p)}
  ELSE IF run[r].children = "none" THEN {KeepOpen(r, p)}
  ELSE KeepFamily(r, p)

\* The requests a run may send for a job: those, or the closing of the children, then of
\* the parents, of a part that left it.
Plans(r, job) ==
  CASE job.what = "keep"        -> KeepPart(r, job.part)
    [] job.what = "goneKids"    -> {CloseAll(Listed(r, job.part, Fields), "untracked", 1, 0)}
    [] job.what = "goneParents" -> {CloseAll(Listed(r, job.part, {Parent}), "untracked", 1, 0)}

\* The parts of a run in turn, then the children and then the parents of those that left.
Jobs(verdict) ==
  LET Gone(i)      == verdict[world.parts[i]].state = "gone"
      Job(i, what, stage) == [part |-> world.parts[i], what |-> what, turn |-> <<stage, i, 0>>]
      all          == DOMAIN world.parts
  IN  {Job(i, "keep", 1) : i \in {j \in all : ~Gone(j)}}
        \union {Job(i, "goneKids", 2) : i \in {j \in all : Gone(j)}}
        \union {Job(i, "goneParents", 3) : i \in {j \in all : Gone(j)}}

----------------------------------------------------------------------------
(* A run's requests.                                                       *)

NoVerdict == [p \in Range(world.parts) |-> [state |-> "gone", actions |-> {}]]
Fresh ==
  [phase |-> "waiting", verdict |-> NoVerdict, children |-> "none", saw |-> <<>>, jobs |-> {},
   part |-> world.parts[1], todo |-> {}, parent |-> 0, body |-> {}, made |-> {}, clean |-> {}]
Ended == [Fresh EXCEPT !.phase = "ended"]

Active(r) == run[r].phase = "active"

Init ==
  /\ world \in Worlds
  /\ forge = <<>>
  /\ run = [r \in Runs |-> Fresh]
  /\ trouble = 0

Trouble == trouble < MaxTrouble /\ trouble' = trouble + 1

\* The run of a publisher begins by listing the open items.  A part is clean for as long
\* as none of the run's requests for it fails and nobody else changes its items.
Start(r) ==
  /\ run[r].phase = "waiting"
  /\ \A s \in Runs : s < r => run[s].phase # "waiting"
  /\ world.overlap \/ \A s \in Runs : ~Active(s)
  /\ \E verdict \in [Range(world.parts) -> Found], children \in world.children :
       /\ \A p \in Range(world.parts) : verdict[p] \in world.verdicts[p]
       /\ run' = [s \in Runs |->
            IF s = r
            THEN [Fresh EXCEPT
                    !.phase = "active", !.verdict = verdict, !.children = children,
                    !.saw = [n \in {m \in Numbers : IsOpen(m)} |-> forge[n].lists],
                    !.jobs = Jobs(verdict),
                    !.clean = IF \E o \in Runs : Active(o) THEN {} ELSE Range(world.parts)]
            ELSE IF run[s].phase = "ended" THEN Ended
            ELSE [run[s] EXCEPT !.clean = {}]]
  /\ UNCHANGED <<forge, trouble>>

\* The list could not be read: the run changes nothing.
ListFails(r) ==
  /\ run[r].phase = "waiting"
  /\ \A s \in Runs : s < r => run[s].phase # "waiting"
  /\ Trouble
  /\ run' = [run EXCEPT ![r] = Ended]
  /\ UNCHANGED forge

\* What a run knows as it takes a job up.
Taken(r, job, plan) ==
  LET parents == Listed(r, job.part, {Parent})
  IN  [run[r] EXCEPT
         !.jobs   = @ \ {job},
         !.part   = job.part,
         !.todo   = plan,
         !.parent = IF parents = {} THEN 0 ELSE Min(parents),
         !.body   = IF parents = {} THEN Written(r, job.part) ELSE run[r].saw[Min(parents)],
         !.made   = {}]

\* The next part of the run, whatever became of the one before it.
Take(r) ==
  /\ Active(r) /\ run[r].todo = {}
  /\ \E job \in Due(run[r].jobs) : \E plan \in Plans(r, job) :
       run' = [run EXCEPT ![r] = Taken(r, job, plan)]
  /\ UNCHANGED <<forge, trouble>>

Finish(r) ==
  /\ Active(r) /\ run[r].todo = {} /\ run[r].jobs = {}
  /\ run' = [run EXCEPT ![r] =
       IF @.clean = {} THEN Ended
       ELSE [Ended EXCEPT !.verdict = run[r].verdict, !.children = run[r].children,
                          !.clean = run[r].clean]]
  /\ UNCHANGED <<forge, trouble>>

Sends(r, q, op) == Active(r) /\ q \in Due(run[r].todo) /\ q.op = op
Done(r, q)      == [run[r] EXCEPT !.todo = @ \ {q}]

\* An error ends the part: what was left to do for it is dropped.  A child that could
\* not be linked is closed first.
Abandon(r, q) ==
  [run[r] EXCEPT !.clean = @ \ {run[r].part},
     !.todo = IF q.op = "link" THEN {Request("unlink", q.item, Parent, q.turn)} ELSE {}]

\* The forge did as asked: the run reads its answer, or the answer does not arrive (or,
\* of a new item, says that GitHub dropped some of its metadata).
Answer(r, q, answered) ==
  \/ run' = [run EXCEPT ![r] = answered] /\ UNCHANGED trouble
  \/ run' = [run EXCEPT ![r] = Abandon(r, q)] /\ Trouble

\* Broken: the body written before the children is left as it was planned.
FinalAsPlanned(r) == Written(r, run[r].part)
Final(r) == Body(r, run[r].part, Kept(r, run[r].part) \union run[r].made)

\* Whether the parent's body may need a write: a new parent's does only when a child it was
\* written without was not created, another's also for what else it says.
MayDiffer(r) == run[r].body # Final(r) \/ Listed(r, run[r].part, {Parent}) # {}

\* The forge, or the client's budget, refuses a request.
Refuse(r) ==
  \E q \in Due(run[r].todo) :
    /\ Active(r)
    /\ q.op = "rewrite" => MayDiffer(r)
    /\ Trouble
    /\ run' = [run EXCEPT ![r] = Abandon(r, q)]
    /\ UNCHANGED forge

Closed(n, why) == [forge EXCEPT ![n].state = IF @ = "open" THEN why ELSE @]

\* A comment, then the item's state.
CloseItem(r) ==
  \E q \in run[r].todo :
    /\ Sends(r, q, "close")
    /\ forge' = Closed(q.item, q.for)
    /\ Answer(r, q, Done(r, q))

NewItem(r, field, lists) ==
  forge' = Append(forge, [part |-> run[r].part, field |-> field, state |-> "open",
                          lists |-> lists, under |-> 0])

\* Broken: the answer that says which item was created is not kept.
CreateParentUnread(r) ==
  \E q \in run[r].todo :
    /\ Sends(r, q, "openParent")
    /\ NewItem(r, Parent, Written(r, run[r].part))
    /\ Answer(r, q, Done(r, q))

CreateParent(r) ==
  \E q \in run[r].todo :
    /\ Sends(r, q, "openParent")
    /\ NewItem(r, Parent, Written(r, run[r].part))
    /\ Answer(r, q, [Done(r, q) EXCEPT !.parent = Len(forge) + 1])

\* A child is created, then linked to its parent by a request of its own.
CreateChild(r) ==
  \E q \in run[r].todo :
    /\ Sends(r, q, "child")
    /\ NewItem(r, q.for, {})
    /\ Answer(r, q, [Done(r, q) EXCEPT
         !.todo = @ \union {Request("link", Len(forge) + 1, Parent, <<0, 0, 0>>)},
         !.made = @ \union {q.for}])

\* The forge created the item, but a proxy answered that it did not (502, 503 or 504): the
\* client sends the same create again.
Resend(r) ==
  \E q \in run[r].todo :
    /\ \/ Sends(r, q, "openParent") /\ NewItem(r, Parent, Written(r, run[r].part))
       \/ Sends(r, q, "child") /\ NewItem(r, q.for, {})
    /\ q.sent + 1 < Attempts
    /\ Trouble
    /\ run' = [run EXCEPT ![r].todo = (@ \ {q}) \union {[q EXCEPT !.sent = @ + 1]},
                          ![r].clean = @ \ {run[r].part}]

LinkChild(r) ==
  \E q \in run[r].todo :
    /\ Sends(r, q, "link")
    /\ forge' = [forge EXCEPT ![q.item].under = run[r].parent]
    /\ Answer(r, q, Done(r, q))

\* Closing the child that was not linked, whose own error is dropped.
CloseUnlinked(r) ==
  \E q \in run[r].todo :
    /\ Sends(r, q, "unlink")
    /\ forge' = Closed(q.item, "untracked")
    /\ Answer(r, q, Done(r, q))

\* The budget does not cover the next child: none of the others is created.
StopCreating(r) ==
  \E q \in run[r].todo :
    /\ Sends(r, q, "child") /\ q.sent = 0
    /\ run' = [run EXCEPT ![r].todo = {s \in @ : s.op # "child"}]
    /\ UNCHANGED <<forge, trouble>>

RewriteParent(r) ==
  \E q \in run[r].todo :
    /\ Sends(r, q, "rewrite") /\ MayDiffer(r)
    /\ forge' = [forge EXCEPT ![run[r].parent].lists = Final(r)]
    /\ Answer(r, q, Done(r, q))

Unchanged(r) ==
  \E q \in run[r].todo :
    /\ Sends(r, q, "rewrite")
    /\ run[r].body = Final(r)
    /\ run' = [run EXCEPT ![r] = Done(r, q)]
    /\ UNCHANGED <<forge, trouble>>

\* A child's body and title, or an item's labels, written when they changed.
Update(r) ==
  \E q \in run[r].todo :
    /\ Sends(r, q, "touch")
    /\ run' = [run EXCEPT ![r] = Done(r, q)]
    /\ UNCHANGED <<forge, trouble>>

\* The process ends between two requests.
Kill(r) ==
  /\ Active(r)
  /\ world.kill /\ Trouble
  /\ run' = [run EXCEPT ![r] = Ended]
  /\ UNCHANGED forge

\* Somebody closes an item.
CloseByHand ==
  /\ Trouble
  /\ \E n \in Numbers :
       /\ IsOpen(n)
       /\ forge' = Closed(n, "byHand")
       /\ run' = [r \in Runs |-> [run[r] EXCEPT !.clean = @ \ {forge[n].part}]]

Step(r) ==
  \/ Start(r) \/ ListFails(r) \/ Take(r) \/ Finish(r) \/ Refuse(r) \/ CloseItem(r)
  \/ CreateParent(r) \/ CreateChild(r) \/ Resend(r) \/ LinkChild(r) \/ CloseUnlinked(r)
  \/ StopCreating(r) \/ RewriteParent(r) \/ Unchanged(r) \/ Update(r) \/ Kill(r)

Next == (CloseByHand \/ \E r \in Runs : Step(r)) /\ UNCHANGED world

Spec == Init /\ [][Next]_vars

----------------------------------------------------------------------------
(* Properties.                                                             *)

\* Every item, run and request has the shape the code gives it.
TypeOK ==
  /\ forge \in Seq(Items)
  /\ \A n \in Numbers : forge[n].under \in {0} \union Numbers
  /\ trouble \in 0..MaxTrouble
  /\ \A r \in Runs :
       /\ run[r].phase \in {"waiting", "active", "ended"}
       /\ run[r].verdict \in [Range(world.parts) -> Found \union Range(NoVerdict)]
       /\ run[r].children \in world.children \union {"none"}
       /\ DOMAIN run[r].saw \subseteq Numbers
       /\ run[r].parent \in {0} \union Numbers
       /\ run[r].body \subseteq Actions
       /\ run[r].made \subseteq Fields
       /\ run[r].clean \subseteq Parts
       /\ \A q \in run[r].todo : q.op = "link" => run[r].parent # 0

\* While runs come one at a time, whatever is refused, lost, sent again or killed, what is
\* open for a part does not grow from run to run: no more items, and no more children for
\* one action or control, than one create may be sent times, and children for no more of
\* those than maxChildren.  What a run cannot tell that it created, or does not know that
\* it created twice, the next one finds by its marker, closes and counts.
NothingPilesUp ==
  ~world.overlap => \A p \in Parts :
    /\ \A f \in Fields \union {Parent} : Cardinality(OpenOf(p, f)) <= Attempts
    /\ Cardinality({f \in Fields : OpenOf(p, f) # {}}) <= MaxChildren

\* The parts a run that ended brought in line, nothing having disturbed it.
Settled(r) == IF run[r].phase = "ended" THEN run[r].clean ELSE {}

\* A run leaves each part that nothing disturbed as its verdict says, whatever earlier
\* runs left and whatever failed in its other parts: no open item for a part that passes
\* or left the run; for one that fails one item, a child at most for each of its actions
\* or controls and none for anything else, and each action in exactly one place, a child
\* or the parent's list.
Mirrors ==
  \A r \in Runs : \A p \in Settled(r) :
    IF run[r].verdict[p].state # "fails"
    THEN OpenOf(p, Parent) \union OpenKids(p) = {}
    ELSE LET have == {u \in Fields : OpenOf(p, u) # {}}
         IN  /\ have \subseteq Wanted(r, p)
             /\ \A u \in have : Cardinality(OpenOf(p, u)) = 1
             /\ \E n \in Numbers :
                  OpenOf(p, Parent) = {n} /\ forge[n].lists = Body(r, p, have)

\* However runs overlap, closing duplicates never leaves a part, an action or a control
\* with none: every item closed as a duplicate has an older one that was not.
DuplicatesKeepTheOldest ==
  \A n \in Numbers : forge[n].state = "duplicate" =>
    \E m \in 1..(n - 1) :
      /\ forge[m].part = forge[n].part /\ forge[m].field = forge[n].field
      /\ forge[m].state # "duplicate"

\* An item closes as passing only after every child its run listed for the part, so a
\* failure in between leaves no open child under a closed parent.
ChildrenCloseFirst ==
  [][\A r \in Runs, n \in Numbers :
       (Active(r) /\ forge[n].field = Parent /\ IsOpen(n) /\ run'[r] # run[r]
          /\ forge'[n].state = "passing")
       => \A k \in DOMAIN run[r].saw \ {n} :
            forge[k].part = forge[n].part /\ forge[k].field # Parent => ~IsOpen(k)]_vars

\* issue_children.go and the design say that each child is shown under its part's parent:
\* after a run that nothing disturbed, every open child is linked to the open parent.
ChildrenAreLinked ==
  \A r \in Runs : \A p \in Settled(r) : \A k \in OpenKids(p) :
    forge[k].under \in OpenOf(p, Parent)
=============================================================================
