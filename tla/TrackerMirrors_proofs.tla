----------------------- MODULE TrackerMirrors_proofs -----------------------
(***************************************************************************)
(* That a run of a tracker leaves each part nothing disturbed as its       *)
(* verdict says, for any actions, parts, cap, number of runs and mishaps.  *)
(*                                                                         *)
(* While a run is alone, each of its parts is in one of four states: it    *)
(* passes or left, and what is open of it is still to be closed; it fails  *)
(* and the run has not come to it, so the list it took still holds; the    *)
(* run is at it, and what its requests will leave is known; or the run     *)
(* has been there, and it is as the verdict says.                          *)
(***************************************************************************)
EXTENDS IssueTracker_proofs

\* A run has yet to come to a part that is in its verdict.
Waits(r, p) == \E j \in run[r].jobs : j.what = "keep" /\ j.part = p

\* What a run does at a part is about that part alone: the items it names are of it; it
\* creates only for a part that fails; it comes once to each part, whose verdict says what
\* for; and a link it takes back has failed the part.
Own(r) ==
  /\ \A q \in run[r].todo :
       /\ q.op \in {"close", "link", "unlink"} => forge[q.item].part = run[r].part
       /\ q.op \in {"openParent", "child"} => run[r].verdict[run[r].part].state = "fails"
       /\ q.op = "unlink" => run[r].part \notin run[r].clean
  /\ run[r].parent # 0 => forge[run[r].parent].part = run[r].part
  /\ \A j \in run[r].jobs : j.what = "keep" <=> run[r].verdict[j.part].state # "gone"
  /\ \A i, j \in run[r].jobs :
       i.what = "keep" /\ j.what = "keep" /\ i.part = j.part => i = j
  /\ run[r].todo # {} => ~Waits(r, run[r].part)

\* A part that passes or is gone: what is still open was listed, and closes by a request
\* or by a job to come.
Handles(j, f) ==
  CASE j.what = "keep"        -> TRUE
    [] j.what = "goneKids"    -> f \in Fields
    [] j.what = "goneParents" -> f = Parent
Cleared(r, p) ==
  \A n \in Numbers : IsOpen(n) /\ forge[n].part = p =>
    /\ n \in DOMAIN run[r].saw
    /\ \/ p = run[r].part /\ Closes(run[r].todo, n)
       \/ \E j \in run[r].jobs : j.part = p /\ Handles(j, forge[n].field)

\* A part that fails and that the run has not come to: its list still holds.
Known(r, p) ==
  \A n \in Numbers : forge[n].part = p =>
    /\ IsOpen(n) <=> n \in DOMAIN run[r].saw
    /\ n \in DOMAIN run[r].saw => run[r].saw[n] = forge[n].lists

\* A part that fails and that the run is at: what its requests will leave.
Rest(p, f, todo) == {n \in OpenOf(p, f) : ~Closes(todo, n)}
Asked(todo, op)  == \E q \in todo : q.op = op
Has(r, p)        == Kept(r, p) \union run[r].made
KidsGo(r, p) ==
  /\ run[r].made \subseteq New(r, p)
  /\ \A f \in Fields : IF f \in Has(r, p) THEN \E n : Rest(p, f, run[r].todo) = {n}
                                          ELSE Rest(p, f, run[r].todo) = {}
AsksGo(r, p) ==
  /\ \A q \in run[r].todo : q.op = "child" =>
       /\ q.for \in New(r, p) \ run[r].made /\ Asked(run[r].todo, "rewrite")
       /\ \A o \in run[r].todo : o.op = "child" /\ o.for = q.for => o = q
  /\ \A q, o \in run[r].todo : q.op \in {"openParent", "rewrite"} /\ o.op = q.op => o = q
ParentGoes(r, p) ==
  IF Asked(run[r].todo, "openParent")
  THEN /\ Rest(p, Parent, run[r].todo) = {} /\ run[r].body = Written(r, p)
       /\ Asked(run[r].todo, "rewrite") \/ New(r, p) = {}
  ELSE /\ run[r].parent \in Numbers /\ Rest(p, Parent, run[r].todo) = {run[r].parent}
       /\ forge[run[r].parent].lists =
            IF Asked(run[r].todo, "rewrite") THEN run[r].body ELSE Body(r, p, Has(r, p))
Going(r, p) == KidsGo(r, p) /\ AsksGo(r, p) /\ ParentGoes(r, p)

\* A part that is as the run's verdict says.
Mirrored(r, p) ==
  IF run[r].verdict[p].state # "fails"
  THEN OpenOf(p, Parent) \union OpenKids(p) = {}
  ELSE LET have == {u \in Fields : OpenOf(p, u) # {}}
       IN  /\ have \subseteq Wanted(r, p)
           /\ \A u \in have : Cardinality(OpenOf(p, u)) = 1
           /\ \E n \in Numbers :
                OpenOf(p, Parent) = {n} /\ forge[n].lists = Body(r, p, have)

InLine(r, p) ==
  IF run[r].verdict[p].state # "fails" THEN Cleared(r, p)
  ELSE IF Waits(r, p) THEN Known(r, p)
  ELSE IF run[r].part = p THEN Going(r, p)
  ELSE Mirrored(r, p)

\* A run that nothing disturbed is the only one, and has its parts in line.
Undisturbed(r) ==
  run[r].clean # {} =>
    /\ \A s \in Runs : Active(s) => s = r
    /\ run[r].phase # "waiting"
    /\ \A p \in run[r].clean :
         IF Active(r) THEN InLine(r, p) ELSE Mirrored(r, p)

MirrorInv == \A r \in Runs : Own(r) /\ Undisturbed(r)

-----------------------------------------------------------------------------
(* What stays as it was.                                                    *)

\* A step leaves a part's items as they were, but for what is shown where.
Spared(p) ==
  \A n \in Numbers' : forge'[n].part = p =>
    n \in Numbers /\ forge'[n].state = forge[n].state /\ forge'[n].lists = forge[n].lists

\* What a run makes of the items it listed depends on nothing that changes.
LEMMA SameList ==
  ASSUME TypeInv, Grown, NEW r \in Runs, NEW p,
         run'[r].verdict = run[r].verdict, run'[r].children = run[r].children,
         run'[r].saw = run[r].saw
  PROVE  /\ \A fs : Listed(r, p, fs)' = Listed(r, p, fs)
         /\ Acts(r, p)' = Acts(r, p) /\ Wanted(r, p)' = Wanted(r, p)
         /\ Kept(r, p)' = Kept(r, p) /\ New(r, p)' = New(r, p)
         /\ \A have : Body(r, p, have)' = Body(r, p, have)
         /\ Written(r, p)' = Written(r, p)
<1>1. DOMAIN run[r].saw \subseteq Numbers
  BY DEF TypeInv, Runners
<1>2. \A fs : Listed(r, p, fs)' = Listed(r, p, fs)
  BY <1>1 DEF Listed, Grown
<1>3. Acts(r, p)' = Acts(r, p) /\ Wanted(r, p)' = Wanted(r, p)
  BY DEF Acts, Wanted
<1>4. KidFields(r, p)' = KidFields(r, p) /\ (Listed(r, p, {Parent}) = {})' = (Listed(r, p, {Parent}) = {})
  BY <1>2 DEF KidFields
<1>5. Kept(r, p)' = Kept(r, p)
  BY <1>3, <1>4 DEF Kept
<1>6. Lacking(r, p)' = Lacking(r, p)
  BY <1>3, <1>5 DEF Lacking
<1>7. \A u : Before(r, p, u)' = Before(r, p, u)
  BY <1>3, <1>6 DEF Before
<1>8. New(r, p)' = New(r, p)
  BY <1>5, <1>6, <1>7 DEF New
<1>9. \A have : Body(r, p, have)' = Body(r, p, have)
  BY <1>3 DEF Body
<1>10. Written(r, p)' = Written(r, p)
  BY <1>5, <1>8, <1>9 DEF Written
<1> QED BY <1>2, <1>3, <1>5, <1>8, <1>9, <1>10

\* The open items of a part that is spared.
LEMMA SameOpen ==
  ASSUME TypeInv, Grown, NEW p, Spared(p)
  PROVE  /\ \A f : OpenOf(p, f)' = OpenOf(p, f)
         /\ OpenKids(p)' = OpenKids(p)
         /\ \A f, todo : Rest(p, f, todo)' = Rest(p, f, todo)
         /\ \A n \in Numbers : forge[n].part = p =>
              forge'[n].lists = forge[n].lists /\ forge'[n].state = forge[n].state
<1>1. \A n \in Numbers : n \in Numbers' /\ forge'[n].part = forge[n].part /\ forge'[n].field = forge[n].field
  BY DEF Grown
<1>2. \A n \in Numbers : forge[n].part = p =>
        forge'[n].lists = forge[n].lists /\ forge'[n].state = forge[n].state
  BY <1>1 DEF Spared
<1>3. \A n \in Numbers' : forge'[n].part = p => n \in Numbers
  BY DEF Spared
<1>4. \A f : OpenOf(p, f)' = OpenOf(p, f)
  BY <1>1, <1>2, <1>3 DEF OpenOf, IsOpen
<1>5. OpenKids(p)' = OpenKids(p)
  BY <1>4 DEF OpenKids
<1>6. \A f, todo : Rest(p, f, todo)' = Rest(p, f, todo)
  BY <1>4 DEF Rest, Closes
<1> QED BY <1>2, <1>4, <1>5, <1>6

LEMMA StaysMirrored ==
  ASSUME TypeInv, Grown, NEW r \in Runs, NEW p \in Range(world.parts), Spared(p),
         run'[r].verdict = run[r].verdict, run'[r].children = run[r].children,
         Mirrored(r, p)
  PROVE  Mirrored(r, p)'
<1>1. /\ \A f : OpenOf(p, f)' = OpenOf(p, f)
      /\ OpenKids(p)' = OpenKids(p)
      /\ \A n \in Numbers : forge[n].part = p => forge'[n].lists = forge[n].lists
  BY SameOpen
<1>2. Acts(r, p)' = Acts(r, p) /\ Wanted(r, p)' = Wanted(r, p)
  BY DEF Acts, Wanted
<1>3. \A have : Body(r, p, have)' = Body(r, p, have)
  BY <1>2 DEF Body
<1>4. CASE run[r].verdict[p].state # "fails"
  BY <1>1, <1>4 DEF Mirrored
<1>5. CASE run[r].verdict[p].state = "fails"
  <2> DEFINE have == {u \in Fields : OpenOf(p, u) # {}}
  <2>1. have' = have
    BY <1>1
  <2>2. PICK n \in Numbers : OpenOf(p, Parent) = {n} /\ forge[n].lists = Body(r, p, have)
    BY <1>5 DEF Mirrored
  <2>3. n \in Numbers' /\ forge'[n].lists = forge[n].lists
    BY <1>1, <2>2 DEF OpenOf, Grown
  <2>4. have \subseteq Wanted(r, p) /\ \A u \in have : Cardinality(OpenOf(p, u)) = 1
    BY <1>5 DEF Mirrored
  <2>5. have' \subseteq Wanted(r, p)' /\ \A u \in have' : Cardinality(OpenOf(p, u)') = 1
    BY <1>1, <1>2, <2>1, <2>4
  <2>6. OpenOf(p, Parent)' = {n} /\ forge'[n].lists = Body(r, p, have)'
    <3> SUFFICES ASSUME NEW h, h = have PROVE OpenOf(p, Parent)' = {n} /\ forge'[n].lists = Body(r, p, have)'
      OBVIOUS
    <3>1. Body(r, p, h)' = Body(r, p, h) /\ have' = h
      BY <1>3, <2>1
    <3> QED BY <1>1, <2>2, <2>3, <3>1
  <2> QED BY <1>5, <2>3, <2>5, <2>6 DEF Mirrored
<1> QED BY <1>4, <1>5

\* What a step of the run, or of another, leaves of a part it did not touch.
LEMMA StaysInLine ==
  ASSUME TypeInv, Grown, NEW r \in Runs, NEW p \in Range(world.parts), Spared(p), Steady(r),
         run[r].part = p =>
           /\ run'[r].todo = run[r].todo /\ run'[r].parent = run[r].parent
           /\ run'[r].body = run[r].body /\ run'[r].made = run[r].made,
         InLine(r, p)
  PROVE  InLine(r, p)'
<1>1. /\ \A f : OpenOf(p, f)' = OpenOf(p, f)
      /\ \A f, todo : Rest(p, f, todo)' = Rest(p, f, todo)
      /\ \A n \in Numbers : forge[n].part = p =>
           forge'[n].lists = forge[n].lists /\ forge'[n].state = forge[n].state
  BY SameOpen
<1>2. /\ run'[r].verdict = run[r].verdict /\ run'[r].children = run[r].children
      /\ run'[r].saw = run[r].saw /\ run'[r].jobs = run[r].jobs /\ run'[r].part = run[r].part
  BY DEF Steady
<1>3. Waits(r, p)' = Waits(r, p)
  BY <1>2 DEF Waits
<1>4. \A n \in Numbers' : forge'[n].part = p =>
        /\ n \in Numbers /\ forge[n].part = p /\ forge'[n].field = forge[n].field
        /\ forge'[n].state = forge[n].state /\ forge'[n].lists = forge[n].lists
  BY DEF Spared, Grown
<1>5. CASE run[r].verdict[p].state # "fails"
  <2>1. Cleared(r, p)
    BY <1>5 DEF InLine
  <2>2. Cleared(r, p)'
    <3> SUFFICES ASSUME NEW n \in Numbers', forge'[n].state = "open", forge'[n].part = p
                 PROVE  /\ n \in DOMAIN run'[r].saw
                        /\ \/ p = run'[r].part /\ Closes(run'[r].todo, n)
                           \/ \E j \in run'[r].jobs : j.part = p /\ Handles(j, forge'[n].field)
      BY DEF Cleared, IsOpen, Closes, Handles
    <3>1. /\ n \in Numbers /\ IsOpen(n) /\ forge[n].part = p /\ forge'[n].field = forge[n].field
      BY <1>4 DEF IsOpen
    <3>2. /\ n \in DOMAIN run[r].saw
          /\ \/ p = run[r].part /\ Closes(run[r].todo, n)
             \/ \E j \in run[r].jobs : j.part = p /\ Handles(j, forge[n].field)
      BY <2>1, <3>1 DEF Cleared
    <3> QED BY <1>2, <3>1, <3>2
  <2> QED BY <1>2, <1>5, <2>2 DEF InLine
<1>6. CASE run[r].verdict[p].state = "fails" /\ Waits(r, p)
  <2>1. Known(r, p)
    BY <1>6 DEF InLine
  <2>2. Known(r, p)'
    BY <1>2, <1>4, <2>1 DEF Known, IsOpen
  <2> QED BY <1>2, <1>3, <1>6, <2>2 DEF InLine
<1>7. CASE run[r].verdict[p].state = "fails" /\ ~Waits(r, p) /\ run[r].part = p
  <2>1. KidsGo(r, p) /\ AsksGo(r, p) /\ ParentGoes(r, p)
    BY <1>7 DEF InLine, Going
  <2>2. /\ run'[r].todo = run[r].todo /\ run'[r].parent = run[r].parent
        /\ run'[r].body = run[r].body /\ run'[r].made = run[r].made
    BY <1>7
  <2>3. /\ Kept(r, p)' = Kept(r, p) /\ New(r, p)' = New(r, p) /\ Written(r, p)' = Written(r, p)
        /\ \A have : Body(r, p, have)' = Body(r, p, have)
    BY <1>2, SameList
  <2>4. Has(r, p)' = Has(r, p)
    BY <2>2, <2>3 DEF Has
  <2> SUFFICES ASSUME NEW todo, todo = run[r].todo, NEW has, has = Has(r, p) PROVE InLine(r, p)'
    OBVIOUS
  <2>5. KidsGo(r, p)'
    <3>1. run[r].made \subseteq New(r, p)
      BY <2>1 DEF KidsGo
    <3>2. \A f \in Fields : IF f \in has THEN \E n : Rest(p, f, todo) = {n} ELSE Rest(p, f, todo) = {}
      BY <2>1 DEF KidsGo
    <3> QED BY <1>1, <2>2, <2>3, <2>4, <3>1, <3>2 DEF KidsGo
  <2>6. AsksGo(r, p)'
    BY <2>1, <2>2, <2>3 DEF AsksGo, Asked
  <2>7. ParentGoes(r, p)'
    <3>1. CASE Asked(todo, "openParent")
      BY <1>1, <2>1, <2>2, <2>3, <3>1 DEF ParentGoes, Asked
    <3>2. CASE ~Asked(todo, "openParent")
      <4>1. /\ run[r].parent \in Numbers /\ Rest(p, Parent, todo) = {run[r].parent}
            /\ forge[run[r].parent].lists =
                 IF Asked(todo, "rewrite") THEN run[r].body ELSE Body(r, p, has)
        BY <2>1, <3>2 DEF ParentGoes
      <4>2. /\ run[r].parent \in Numbers' /\ forge'[run[r].parent].lists = forge[run[r].parent].lists
        BY <1>1, <4>1 DEF Rest, OpenOf, Grown
      <4>3. Rest(p, Parent, todo)' = {run[r].parent} /\ Body(r, p, has)' = Body(r, p, has)
        BY <1>1, <2>3, <4>1
      <4> QED BY <2>2, <2>4, <3>2, <4>1, <4>2, <4>3 DEF ParentGoes, Asked
    <3> QED BY <3>1, <3>2
  <2> QED BY <1>2, <1>3, <1>7, <2>5, <2>6, <2>7 DEF InLine, Going
<1>8. CASE run[r].verdict[p].state = "fails" /\ ~Waits(r, p) /\ run[r].part # p
  <2>1. Mirrored(r, p)
    BY <1>8 DEF InLine
  <2>2. Mirrored(r, p)'
    BY <1>2, <2>1, StaysMirrored
  <2> QED BY <1>2, <1>3, <1>8, <2>2 DEF InLine
<1> QED BY <1>5, <1>6, <1>7, <1>8

\* What a run goes on with is still about the part it is at.
Goes(r) ==
  /\ Steady(r)
  /\ \A q \in run'[r].todo :
       \/ q \in run[r].todo
       \/ /\ q.op \in {"openParent", "child"}
          /\ \E o \in run[r].todo : o.op \in {"openParent", "child"}
       \/ /\ q.op \in {"link", "unlink"}
          /\ q.item \in Numbers' /\ forge'[q.item].part = run[r].part
          /\ q.op = "unlink" => run[r].part \notin run'[r].clean
  /\ \/ run'[r].parent = run[r].parent
     \/ run'[r].parent \in Numbers' /\ forge'[run'[r].parent].part = run[r].part
  /\ run'[r].clean \subseteq run[r].clean
  /\ run[r].todo = {} => run'[r].todo = {}

LEMMA GoesOwn ==
  ASSUME TypeInv, Grown, NEW r \in Runs, Own(r), Goes(r)
  PROVE  Own(r)'
<1>1. /\ run'[r].verdict = run[r].verdict
      /\ run'[r].jobs = run[r].jobs /\ run'[r].part = run[r].part
  BY DEF Goes, Steady
<1>2. \A n \in Numbers : forge'[n].part = forge[n].part
  BY DEF Grown
<1>3. ASSUME NEW q \in run'[r].todo
      PROVE  /\ q.op \in {"close", "link", "unlink"} => forge'[q.item].part = run[r].part
             /\ q.op \in {"openParent", "child"} => run[r].verdict[run[r].part].state = "fails"
             /\ q.op = "unlink" => run[r].part \notin run'[r].clean
  <2>1. CASE q \in run[r].todo
    <3>1. q.op \in {"close", "link", "unlink"} => q.item \in Numbers
      BY <2>1 DEF TypeInv, Sound
    <3> QED BY <1>2, <2>1, <3>1 DEF Own, Goes
  <2>2. CASE q.op \in {"openParent", "child"} /\ q \notin run[r].todo
    <3>1. \E o \in run[r].todo : o.op \in {"openParent", "child"}
      BY <2>2 DEF Goes
    <3> QED BY <2>2, <3>1 DEF Own
  <2>3. CASE q.op \notin {"openParent", "child"} /\ q \notin run[r].todo
    BY <2>3 DEF Goes
  <2> QED BY <2>1, <2>2, <2>3
<1>4. run'[r].parent # 0 => forge'[run'[r].parent].part = run[r].part
  <2>1. run[r].parent \in {0} \union Numbers
    BY DEF TypeInv, Runners
  <2> QED BY <1>2, <2>1 DEF Own, Goes
<1>5. /\ \A j \in run[r].jobs : j.what = "keep" <=> run[r].verdict[j.part].state # "gone"
      /\ \A i, j \in run[r].jobs :
           i.what = "keep" /\ j.what = "keep" /\ i.part = j.part => i = j
      /\ run[r].todo # {} => ~Waits(r, run[r].part)
  BY DEF Own
<1>6. run'[r].todo # {} => ~(\E j \in run'[r].jobs : j.what = "keep" /\ j.part = run'[r].part)
  BY <1>1, <1>5 DEF Goes, Waits
<1> QED BY <1>1, <1>3, <1>4, <1>5, <1>6 DEF Own, Waits

-----------------------------------------------------------------------------
(* What a request does.                                                     *)

\* The items that stay, being open and not to be closed by the run.
Stands(r) ==
  \A n \in Numbers :
    (forge'[n].state = "open" /\ ~Closes(run'[r].todo, n)) <=> (IsOpen(n) /\ ~Closes(run[r].todo, n))

SameLists == \A n \in Numbers : forge'[n].lists = forge[n].lists

Adding(r, n, field, lists) ==
  /\ n \in Nat /\ n \notin Numbers /\ Numbers' = Numbers \union {n}
  /\ forge'[n].part = run[r].part /\ forge'[n].field = field
  /\ forge'[n].state = "open" /\ forge'[n].lists = lists

\* A request that succeeds, by what it is for.
Plain(r, q) ==
  /\ q.op \in {"close", "link", "touch"} /\ Numbers' = Numbers /\ SameLists
  /\ run'[r].todo = run[r].todo \ {q}
  /\ run'[r].parent = run[r].parent /\ run'[r].made = run[r].made
Opens(r, q) ==
  /\ q.op = "openParent" /\ SameLists /\ Adding(r, run'[r].parent, Parent, Written(r, run[r].part))
  /\ run'[r].todo = run[r].todo \ {q} /\ run'[r].made = run[r].made
Bears(r, q) ==
  /\ q.op = "child" /\ SameLists /\ \E n \in Nat : Adding(r, n, q.for, {})
  /\ \E link : link.op = "link" /\ run'[r].todo = (run[r].todo \ {q}) \union {link}
  /\ run'[r].parent = run[r].parent /\ run'[r].made = run[r].made \union {q.for}
Skips(r, q) ==
  /\ q.op = "child" /\ Numbers' = Numbers /\ SameLists
  /\ run'[r].todo = {a \in run[r].todo : a.op # "child"}
  /\ run'[r].parent = run[r].parent /\ run'[r].made = run[r].made
Rewrites(r, q) ==
  /\ q.op = "rewrite" /\ Numbers' = Numbers
  /\ \/ SameLists /\ run[r].body = Final(r)
     \/ \A n \in Numbers : forge'[n].lists = IF n = run[r].parent THEN Final(r) ELSE forge[n].lists
  /\ run'[r].todo = run[r].todo \ {q}
  /\ run'[r].parent = run[r].parent /\ run'[r].made = run[r].made

Works(r) ==
  /\ Stands(r) /\ run'[r].body = run[r].body
  /\ \E q \in Due(run[r].todo) :
       Plain(r, q) \/ Opens(r, q) \/ Bears(r, q) \/ Skips(r, q) \/ Rewrites(r, q)

\* What a request leaves, whatever became of it.
Leaves(r) ==
  /\ Grown /\ Goes(r) /\ Active(r) /\ run[r].todo # {}
  /\ \A s \in Runs \ {r} : run'[s] = run[s]
  /\ \A p : p # run[r].part => Spared(p)
  /\ run[r].part \notin run'[r].clean \/ Works(r)

LEMMA DoneRuns ==
  ASSUME TypeInv, NEW r \in Runs, NEW q \in Due(run[r].todo)
  PROVE  /\ Done(r, q).phase = run[r].phase /\ Done(r, q).verdict = run[r].verdict
         /\ Done(r, q).children = run[r].children /\ Done(r, q).saw = run[r].saw
         /\ Done(r, q).jobs = run[r].jobs /\ Done(r, q).part = run[r].part
         /\ Done(r, q).todo = run[r].todo \ {q} /\ Done(r, q).parent = run[r].parent
         /\ Done(r, q).body = run[r].body /\ Done(r, q).made = run[r].made
         /\ Done(r, q).clean = run[r].clean
         /\ q \in run[r].todo
<1>1. Done(r, q) = [run[r] EXCEPT !.todo = run[r].todo \ {q}] /\ run[r] \in Runners /\ q \in run[r].todo
  BY AfterRequest
<1> QED BY <1>1 DEF Runners

\* A request that failed, or whose answer is lost: the part is not clean any more.
LEMMA AbandonGoes ==
  ASSUME TypeInv, Grown, NEW r \in Runs, Own(r), NEW q \in Due(run[r].todo),
         run'[r] = Abandon(r, q)
  PROVE  Goes(r) /\ run[r].part \notin run'[r].clean
<1>1. Steady(r)
  BY AbandonDrops DEF Drops, Steady
<1>2. q \in run[r].todo /\ Sound(q)
  BY AfterRequest
<1>3. \A a \in run'[r].todo : a.op = "unlink" /\ a.item = q.item /\ q.op = "link"
  BY AfterRequest
<1>4. run[r] \in Runners
  BY DEF TypeInv
<1>5. run'[r].clean = run[r].clean \ {run[r].part} /\ run'[r].parent = run[r].parent
  BY <1>4 DEF Abandon, Runners
<1>6. ASSUME NEW a \in run'[r].todo
      PROVE  a.op = "unlink" /\ a.item \in Numbers' /\ forge'[a.item].part = run[r].part
  <2>1. a.op = "unlink" /\ a.item = q.item /\ q.op = "link"
    BY <1>3
  <2>2. a.item \in Numbers /\ forge[a.item].part = run[r].part
    BY <1>2, <2>1 DEF Sound, Own
  <2> QED BY <2>1, <2>2 DEF Grown
<1> QED BY <1>1, <1>2, <1>5, <1>6 DEF Goes

\* What a run may have known before its requests it knows after one.
LEMMA AnswerLeaves ==
  ASSUME TypeInv, Grown, NEW r \in Runs, Own(r), Active(r), NEW q \in Due(run[r].todo), NEW s,
         Answer(r, q, s), \A p : p # run[r].part => Spared(p),
         run'[r] = s => Goes(r) /\ (run[r].part \notin run'[r].clean \/ Works(r))
  PROVE  Leaves(r)
<1>1. run[r].todo # {}
  BY AfterRequest
<1>2. CASE run' = [run EXCEPT ![r] = s]
  <2>1. run'[r] = s /\ \A t \in Runs \ {r} : run'[t] = run[t]
    BY <1>2 DEF TypeInv
  <2> QED BY <1>1, <2>1 DEF Leaves
<1>3. CASE run' = [run EXCEPT ![r] = Abandon(r, q)]
  <2>1. run'[r] = Abandon(r, q) /\ \A t \in Runs \ {r} : run'[t] = run[t]
    BY <1>3 DEF TypeInv
  <2> QED BY <1>1, <2>1, AbandonGoes DEF Leaves
<1> QED BY <1>2, <1>3 DEF Answer

\* A run that has done with a request.
LEMMA DoneGoes ==
  ASSUME TypeInv, Grown, NEW r \in Runs, NEW q \in Due(run[r].todo), run'[r] = Done(r, q)
  PROVE  /\ Goes(r) /\ run'[r].body = run[r].body /\ run'[r].todo = run[r].todo \ {q}
         /\ run'[r].parent = run[r].parent /\ run'[r].made = run[r].made
BY DoneRuns DEF Goes, Steady

\* An item that closes.
LEMMA CloseLeaves ==
  ASSUME TypeInv, NEW r \in Runs, Own(r), CloseItem(r) \/ CloseUnlinked(r)
  PROVE  Leaves(r)
<1>1. PICK q \in Due(run[r].todo) :
        \E why \in {q.for, "untracked"} :
          /\ q.op \in {"close", "unlink"} /\ (q.op = "close" => why = q.for)
          /\ (q.op = "unlink" => why = "untracked")
          /\ Active(r) /\ forge' = Closed(q.item, why) /\ Answer(r, q, Done(r, q))
  BY DEF CloseItem, CloseUnlinked, Sends
<1>2. q \in run[r].todo /\ Sound(q)
  BY AfterRequest
<1>3. PICK why \in States \ {"open"} : forge' = Closed(q.item, why)
  BY <1>1, <1>2 DEF Sound, Whys, States
<1>4. q.item \in Numbers /\ forge[q.item].part = run[r].part
  BY <1>1, <1>2 DEF Sound, Own
<1>5. /\ Grown /\ Numbers' = Numbers
      /\ \A m \in Numbers :
           /\ forge'[m].lists = forge[m].lists
           /\ forge'[m].state = IF m = q.item /\ forge[m].state = "open" THEN why ELSE forge[m].state
  BY <1>3, <1>4, ClosedItems
<1>6. ASSUME NEW p, p # run[r].part PROVE Spared(p)
  BY <1>4, <1>5, <1>6 DEF Spared, Grown
<1>7. ASSUME run'[r] = Done(r, q)
      PROVE  Goes(r) /\ (run[r].part \notin run'[r].clean \/ Works(r))
  <2>1. /\ Goes(r) /\ run'[r].body = run[r].body /\ run'[r].todo = run[r].todo \ {q}
        /\ run'[r].parent = run[r].parent /\ run'[r].made = run[r].made
    BY <1>5, <1>7, DoneGoes
  <2>2. CASE q.op = "unlink"
    BY <1>2, <2>1, <2>2 DEF Own, Goes
  <2>3. CASE q.op = "close"
    <3>1. \A n \in Numbers : Closes(run'[r].todo, n) => Closes(run[r].todo, n)
      BY <2>1 DEF Closes
    <3>2. \A n \in Numbers \ {q.item} : Closes(run[r].todo, n) => Closes(run'[r].todo, n)
      BY <2>1 DEF Closes
    <3>3. Closes(run[r].todo, q.item) /\ forge'[q.item].state # "open"
      BY <1>2, <1>4, <1>5, <2>3 DEF Closes
    <3>4. Stands(r)
      BY <1>5, <3>1, <3>2, <3>3 DEF Stands, IsOpen
    <3>5. Plain(r, q)
      BY <1>5, <2>1, <2>3 DEF Plain, SameLists
    <3> QED BY <2>1, <3>4, <3>5 DEF Works
  <2> QED BY <1>1, <2>1, <2>2, <2>3
<1> QED BY <1>1, <1>5, <1>6, <1>7, AnswerLeaves

\* What stays when no item closes.
LEMMA NoneCloses ==
  ASSUME \A n \in Numbers : forge'[n].state = forge[n].state, NEW r, NEW q, q.op # "close",
         \/ run'[r].todo = run[r].todo \ {q}
         \/ \E link : link.op = "link" /\ run'[r].todo = (run[r].todo \ {q}) \union {link}
         \/ run'[r].todo = {a \in run[r].todo : a.op # "child"}
  PROVE  Stands(r)
<1>1. \A n : Closes(run'[r].todo, n) <=> Closes(run[r].todo, n)
  BY DEF Closes
<1> QED BY <1>1 DEF Stands, IsOpen

\* An item that is opened.
LEMMA AddLeaves ==
  ASSUME TypeInv, NEW r \in Runs, Own(r), CreateParent(r) \/ CreateChild(r)
  PROVE  Leaves(r)
<1>1. ASSUME NEW field \in Fields \union {Parent}, NEW lists \in SUBSET Actions,
             NewItem(r, field, lists)
      PROVE  /\ Grown /\ Adding(r, Len(forge) + 1, field, lists) /\ SameLists
             /\ \A n \in Numbers : forge'[n].state = forge[n].state
             /\ \A p : p # run[r].part => Spared(p)
  <2>1. /\ Grown /\ Numbers' = Numbers \union {Len(forge) + 1} /\ Len(forge) + 1 \notin Numbers
        /\ Len(forge) + 1 \in Nat
        /\ \A n \in Numbers : forge'[n] = forge[n]
        /\ forge'[Len(forge) + 1] = [part |-> run[r].part, field |-> field, state |-> "open",
                                     lists |-> lists, under |-> 0]
    BY <1>1, CreatedItems
  <2> QED BY <2>1 DEF Adding, SameLists, Spared
<1>2. CASE CreateParent(r)
  <2>1. PICK q \in Due(run[r].todo) :
          /\ Active(r) /\ q.op = "openParent"
          /\ NewItem(r, Parent, Written(r, run[r].part))
          /\ Answer(r, q, [Done(r, q) EXCEPT !.parent = Len(forge) + 1])
    BY <1>2 DEF CreateParent, Sends
  <2>2. Written(r, run[r].part) \in SUBSET Actions
    <3>1. run[r].part \in Range(world.parts)
      BY DEF TypeInv, Runners
    <3> QED BY <3>1, WrittenActions
  <2>3. /\ Grown /\ Adding(r, Len(forge) + 1, Parent, Written(r, run[r].part)) /\ SameLists
        /\ \A n \in Numbers : forge'[n].state = forge[n].state
        /\ \A p : p # run[r].part => Spared(p)
    BY <1>1, <2>1, <2>2
  <2> DEFINE s == [Done(r, q) EXCEPT !.parent = Len(forge) + 1]
  <2>4. /\ s.phase = run[r].phase /\ s.verdict = run[r].verdict
        /\ s.children = run[r].children /\ s.saw = run[r].saw
        /\ s.jobs = run[r].jobs /\ s.part = run[r].part
        /\ s.todo = run[r].todo \ {q} /\ s.parent = Len(forge) + 1
        /\ s.body = run[r].body /\ s.made = run[r].made /\ s.clean = run[r].clean
    <3>1. Done(r, q) = [run[r] EXCEPT !.todo = run[r].todo \ {q}] /\ run[r] \in Runners
      BY AfterRequest
    <3> QED BY <3>1 DEF Runners
  <2> HIDE DEF s
  <2>5. ASSUME run'[r] = s PROVE Goes(r) /\ Works(r)
    <3>1. Steady(r) /\ run'[r].todo = run[r].todo \ {q}
      BY <2>4, <2>5 DEF Steady
    <3>2. run'[r].parent = Len(forge) + 1 /\ Len(forge) + 1 \in Numbers' /\ forge'[Len(forge) + 1].part = run[r].part
      BY <2>3, <2>4, <2>5 DEF Adding
    <3>3. Goes(r)
      BY <2>4, <2>5, <3>1, <3>2 DEF Goes
    <3>4. Opens(r, q)
      BY <2>1, <2>3, <2>4, <2>5 DEF Opens
    <3>5. Stands(r)
      BY <2>1, <2>3, <3>1, NoneCloses
    <3> QED BY <2>4, <2>5, <3>3, <3>4, <3>5 DEF Works
  <2>6. Answer(r, q, s)
    BY <2>1 DEF s
  <2> QED BY <2>1, <2>3, <2>5, <2>6, AnswerLeaves
<1>3. CASE CreateChild(r)
  <2>1. PICK q \in Due(run[r].todo) :
          Active(r) /\ q.op = "child" /\ NewItem(r, q.for, {}) /\ Answer(r, q, Born(r, q))
    BY <1>3 DEF CreateChild, Sends, Born
  <2>2. q.for \in Fields /\ {} \in SUBSET Actions
    BY <2>1, AfterRequest DEF Sound
  <2>3. /\ Grown /\ Adding(r, Len(forge) + 1, q.for, {}) /\ SameLists
        /\ \A n \in Numbers : forge'[n].state = forge[n].state
        /\ \A p : p # run[r].part => Spared(p)
    BY <1>1, <2>1, <2>2
  <2> DEFINE link == Request("link", Len(forge) + 1, Parent, <<0, 0, 0>>)
             s == Born(r, q)
  <2>4. /\ s.phase = run[r].phase /\ s.verdict = run[r].verdict
        /\ s.children = run[r].children /\ s.saw = run[r].saw
        /\ s.jobs = run[r].jobs /\ s.part = run[r].part
        /\ s.todo = (run[r].todo \ {q}) \union {link} /\ s.parent = run[r].parent
        /\ s.body = run[r].body /\ s.made = run[r].made \union {q.for} /\ s.clean = run[r].clean
    <3>1. Done(r, q) = [run[r] EXCEPT !.todo = run[r].todo \ {q}] /\ run[r] \in Runners
      BY AfterRequest
    <3> HIDE DEF link
    <3>2. s = [Done(r, q) EXCEPT !.todo = @ \union {link}, !.made = @ \union {q.for}]
      BY DEF Born, link
    <3> QED BY <3>1, <3>2 DEF Runners
  <2>5. link.op = "link" /\ link.item = Len(forge) + 1
    BY DEF Request
  <2> HIDE DEF s, link
  <2>6. ASSUME run'[r] = s PROVE Goes(r) /\ Works(r)
    <3>1. Steady(r) /\ run'[r].todo = (run[r].todo \ {q}) \union {link}
      BY <2>4, <2>6 DEF Steady
    <3>2. Len(forge) + 1 \in Numbers' /\ forge'[Len(forge) + 1].part = run[r].part
      BY <2>3 DEF Adding
    <3>3. Goes(r)
      <4>1. q \in run[r].todo
        BY AfterRequest
      <4> QED BY <2>4, <2>5, <2>6, <3>1, <3>2, <4>1 DEF Goes
    <3>4. Bears(r, q)
      BY <2>1, <2>3, <2>4, <2>5, <2>6 DEF Bears, Adding
    <3>5. Stands(r)
      BY <2>1, <2>3, <2>5, <3>1, NoneCloses
    <3> QED BY <2>4, <2>6, <3>3, <3>4, <3>5 DEF Works
  <2>7. Answer(r, q, s)
    BY <2>1 DEF s
  <2> QED BY <2>1, <2>3, <2>6, <2>7, AnswerLeaves
<1> QED BY <1>2, <1>3

\* An item whose create is sent again: the part is not clean any more.
LEMMA ResendLeaves ==
  ASSUME TypeInv, NEW r \in Runs, Own(r), Resend(r)
  PROVE  Leaves(r)
<1>1. PICK q \in Due(run[r].todo) :
        /\ Active(r) /\ q.op \in {"openParent", "child"} /\ run' = [run EXCEPT ![r] = Bounced(r, q)]
        /\ Grown /\ Numbers' = Numbers \union {Len(forge) + 1}
        /\ \A n \in Numbers : forge'[n] = forge[n]
        /\ forge'[Len(forge) + 1].part = run[r].part
  BY ResentItems
<1>2. run'[r] = Bounced(r, q) /\ \A s \in Runs \ {r} : run'[s] = run[s]
  BY <1>1 DEF TypeInv
<1>3. q \in run[r].todo
  BY AfterRequest
<1>4. ASSUME NEW p, p # run[r].part PROVE Spared(p)
  BY <1>1, <1>4 DEF Spared
<1>5. /\ Steady(r) /\ run'[r].parent = run[r].parent
      /\ run'[r].todo = (run[r].todo \ {q}) \union {Again(q)} /\ Again(q).op = q.op
      /\ run'[r].clean = run[r].clean \ {run[r].part}
  BY <1>1, <1>2, BouncedRuns DEF Steady
<1>6. Goes(r) /\ run[r].part \notin run'[r].clean
  BY <1>1, <1>3, <1>5 DEF Goes
<1> QED BY <1>1, <1>2, <1>3, <1>4, <1>6 DEF Leaves

\* An item that is linked or rewritten.
LEMMA WriteLeaves ==
  ASSUME TypeInv, NEW r \in Runs, Own(r), LinkChild(r) \/ RewriteParent(r)
  PROVE  Leaves(r)
<1>1. run[r].parent \in {0} \union Numbers /\ run[r].part \in Range(world.parts)
  BY DEF TypeInv, Runners
<1>2. CASE LinkChild(r)
  <2>1. PICK q \in Due(run[r].todo) :
          /\ Active(r) /\ q.op = "link" /\ forge' = [forge EXCEPT ![q.item].under = run[r].parent]
          /\ Answer(r, q, Done(r, q))
    BY <1>2 DEF LinkChild, Sends
  <2>2. q.item \in Numbers
    BY <2>1, AfterRequest DEF Sound
  <2>3. /\ Grown /\ Numbers' = Numbers
        /\ \A n \in Numbers : forge'[n].lists = forge[n].lists /\ forge'[n].state = forge[n].state
    BY <1>1, <2>1, <2>2, LinkedItems
  <2>4. ASSUME NEW p PROVE Spared(p)
    BY <2>3 DEF Spared
  <2>5. ASSUME run'[r] = Done(r, q) PROVE Goes(r) /\ Works(r)
    <3>1. /\ Goes(r) /\ run'[r].body = run[r].body /\ run'[r].todo = run[r].todo \ {q}
          /\ run'[r].parent = run[r].parent /\ run'[r].made = run[r].made
      BY <2>3, <2>5, DoneGoes
    <3>2. Stands(r)
      BY <2>1, <2>3, <3>1, NoneCloses
    <3>3. Plain(r, q)
      BY <2>1, <2>3, <3>1 DEF Plain, SameLists
    <3> QED BY <3>1, <3>2, <3>3 DEF Works
  <2> QED BY <2>1, <2>3, <2>4, <2>5, AnswerLeaves
<1>3. CASE RewriteParent(r)
  <2>1. PICK q \in Due(run[r].todo) :
          /\ Active(r) /\ q.op = "rewrite" /\ forge' = [forge EXCEPT ![run[r].parent].lists = Final(r)]
          /\ Answer(r, q, Done(r, q))
    BY <1>3 DEF RewriteParent, Sends
  <2>2. Final(r) \in SUBSET Actions
    BY <1>1, WrittenActions DEF Final
  <2>3. /\ Grown /\ Numbers' = Numbers
        /\ \A n \in Numbers :
             /\ forge'[n].state = forge[n].state
             /\ forge'[n].lists = IF n = run[r].parent THEN Final(r) ELSE forge[n].lists
    BY <1>1, <2>1, <2>2, RewrittenItems
  <2>4. ASSUME NEW p, p # run[r].part PROVE Spared(p)
    <3> SUFFICES ASSUME NEW n \in Numbers', forge'[n].part = p
                 PROVE  n \in Numbers /\ forge'[n].state = forge[n].state /\ forge'[n].lists = forge[n].lists
      BY DEF Spared
    <3>1. n \in Numbers /\ forge[n].part = p
      BY <2>3 DEF Grown
    <3>2. 0 \notin Numbers
      BY DEF TypeInv, Numbers
    <3>3. n # run[r].parent
      BY <2>4, <3>1, <3>2 DEF Own
    <3> QED BY <2>3, <3>1, <3>3
  <2>5. ASSUME run'[r] = Done(r, q) PROVE Goes(r) /\ Works(r)
    <3>1. /\ Goes(r) /\ run'[r].body = run[r].body /\ run'[r].todo = run[r].todo \ {q}
          /\ run'[r].parent = run[r].parent /\ run'[r].made = run[r].made
      BY <2>3, <2>5, DoneGoes
    <3>2. Stands(r)
      BY <2>1, <2>3, <3>1, NoneCloses
    <3>3. Rewrites(r, q)
      BY <2>1, <2>3, <3>1 DEF Rewrites
    <3> QED BY <3>1, <3>2, <3>3 DEF Works
  <2> QED BY <2>1, <2>3, <2>4, <2>5, AnswerLeaves
<1> QED BY <1>2, <1>3

\* A request that is not sent, or that the forge refuses.
LEMMA SpareLeaves ==
  ASSUME TypeInv, NEW r \in Runs, Own(r),
         Refuse(r) \/ StopCreating(r) \/ Unchanged(r) \/ Update(r)
  PROVE  Leaves(r)
<1>1. forge' = forge
  BY DEF Refuse, StopCreating, Unchanged, Update
<1>2. Grown /\ Numbers' = Numbers /\ SameLists /\ \A n \in Numbers : forge'[n].state = forge[n].state
  BY <1>1, SameItems DEF SameLists
<1>3. ASSUME NEW p PROVE Spared(p)
  BY <1>1, <1>2 DEF Spared
<1>4. ASSUME NEW s, run' = [run EXCEPT ![r] = s]
      PROVE  run'[r] = s /\ \A t \in Runs \ {r} : run'[t] = run[t]
  BY <1>4 DEF TypeInv
<1>5. CASE Refuse(r)
  <2>1. PICK q \in Due(run[r].todo) : Active(r) /\ run' = [run EXCEPT ![r] = Abandon(r, q)]
    BY <1>5 DEF Refuse
  <2>2. run'[r] = Abandon(r, q) /\ \A t \in Runs \ {r} : run'[t] = run[t]
    BY <1>4, <2>1
  <2>3. run[r].todo # {}
    BY AfterRequest
  <2> QED BY <1>2, <1>3, <2>1, <2>2, <2>3, AbandonGoes DEF Leaves
<1>6. CASE StopCreating(r)
  <2> DEFINE todo == {a \in run[r].todo : a.op # "child"}
             s == [run[r] EXCEPT !.todo = todo]
  <2>1. PICK q \in Due(run[r].todo) : Active(r) /\ q.op = "child" /\ run' = [run EXCEPT ![r] = s]
    BY <1>6 DEF StopCreating, Sends
  <2>2. run'[r] = s /\ \A t \in Runs \ {r} : run'[t] = run[t]
    BY <1>4, <2>1
  <2>3. run[r] \in Runners
    BY DEF TypeInv
  <2> HIDE DEF todo
  <2>4. /\ s.phase = run[r].phase /\ s.verdict = run[r].verdict
        /\ s.children = run[r].children /\ s.saw = run[r].saw
        /\ s.jobs = run[r].jobs /\ s.part = run[r].part
        /\ s.todo = todo /\ s.parent = run[r].parent
        /\ s.body = run[r].body /\ s.made = run[r].made /\ s.clean = run[r].clean
    BY <2>3 DEF Runners
  <2> HIDE DEF s
  <2>5. run[r].todo # {}
    BY AfterRequest
  <2>6. Goes(r)
    BY <2>2, <2>4, <2>5 DEF Goes, Steady, todo
  <2>7. Stands(r)
    BY <1>2, <2>1, <2>2, <2>4, NoneCloses DEF todo
  <2>8. Skips(r, q)
    BY <1>2, <2>1, <2>2, <2>4 DEF Skips, todo
  <2> QED BY <1>2, <1>3, <2>1, <2>2, <2>4, <2>5, <2>6, <2>7, <2>8 DEF Leaves, Works
<1>7. CASE Unchanged(r) \/ Update(r)
  <2>1. PICK q \in Due(run[r].todo) :
          /\ Active(r) /\ run' = [run EXCEPT ![r] = Done(r, q)]
          /\ q.op = "touch" \/ (q.op = "rewrite" /\ run[r].body = Final(r))
    BY <1>7 DEF Unchanged, Update, Sends
  <2>2. run'[r] = Done(r, q) /\ \A t \in Runs \ {r} : run'[t] = run[t]
    BY <1>4, <2>1
  <2>3. /\ Goes(r) /\ run'[r].body = run[r].body /\ run'[r].todo = run[r].todo \ {q}
        /\ run'[r].parent = run[r].parent /\ run'[r].made = run[r].made
    BY <1>2, <2>2, DoneGoes
  <2>4. run[r].todo # {}
    BY AfterRequest
  <2>5. Stands(r)
    BY <1>2, <2>1, <2>3, NoneCloses
  <2>6. Plain(r, q) \/ Rewrites(r, q)
    BY <1>2, <2>1, <2>3 DEF Plain, Rewrites
  <2> QED BY <1>2, <1>3, <2>1, <2>2, <2>3, <2>4, <2>5, <2>6 DEF Leaves, Works
<1> QED BY <1>5, <1>6, <1>7

-----------------------------------------------------------------------------
(* A request that succeeds brings its part on.                              *)

\* What the requests of a run will leave of its part, after one of them.
LEMMA RestAfter ==
  ASSUME TypeInv, Grown, NEW r \in Runs, Stands(r), NEW p, p = run[r].part,
         NEW todo, todo = run[r].todo, NEW next, next = run'[r].todo,
         NEW f, NEW n \in Numbers
  PROVE  n \in Rest(p, f, next)' <=> n \in Rest(p, f, todo)
<1>1. n \in Numbers' /\ forge'[n].part = forge[n].part /\ forge'[n].field = forge[n].field
  BY DEF Grown
<1>2. (forge'[n].state = "open" /\ ~Closes(next, n)) <=> (IsOpen(n) /\ ~Closes(todo, n))
  BY DEF Stands
<1>3. n \in Rest(p, f, todo) <=>
        IsOpen(n) /\ ~Closes(todo, n) /\ forge[n].part = p /\ forge[n].field = f
  BY DEF Rest, OpenOf
<1>4. n \in Rest(p, f, next)' <=>
        forge'[n].state = "open" /\ ~Closes(next, n) /\ forge'[n].part = p /\ forge'[n].field = f
  BY <1>1 DEF Rest, OpenOf, IsOpen, Closes
<1> QED BY <1>1, <1>2, <1>3, <1>4

LEMMA RestIn ==
  ASSUME NEW p, NEW f, NEW todo
  PROVE  Rest(p, f, todo) \subseteq Numbers /\ Rest(p, f, todo)' \subseteq Numbers'
BY DEF Rest, OpenOf

LEMMA RestStays ==
  ASSUME TypeInv, Grown, NEW r \in Runs, Stands(r), NEW p, p = run[r].part,
         NEW todo, todo = run[r].todo, NEW next, next = run'[r].todo,
         NEW f, Numbers' = Numbers
  PROVE  Rest(p, f, next)' = Rest(p, f, todo)
<1>1. \A n \in Numbers : n \in Rest(p, f, next)' <=> n \in Rest(p, f, todo)
  BY RestAfter
<1>2. Rest(p, f, next)' \subseteq Numbers /\ Rest(p, f, todo) \subseteq Numbers
  BY RestIn
<1> QED BY <1>1, <1>2

\* The stages of what is due and of what is left.
LEMMA RewriteTurn ==
  ASSUME TypeInv, NEW r \in Runs, NEW q \in Due(run[r].todo), q.op = "rewrite"
  PROVE  \A s \in run[r].todo : s.op \notin {"openParent", "child"}
<1>1. /\ \A s \in run[r].todo : Sound(s) /\ s \in Asks /\ q.turn[1] <= s.turn[1]
      /\ q \in run[r].todo
  BY AfterRequest, DueFirst DEF TypeInv
<1>2. q.turn[1] = 6
  BY <1>1 DEF Sound
<1> QED BY <1>1, <1>2 DEF Sound

\* A part that passes or left.
LEMMA WorkCleared ==
  ASSUME TypeInv, Effects, NEW r \in Runs, Own(r), Leaves(r), Works(r), NEW p, p = run[r].part,
         run[r].verdict[p].state # "fails", Cleared(r, p)
  PROVE  Cleared(r, p)'
<1>1. Grown /\ Steady(r)
  BY DEF Leaves, Goes
<1>2. PICK q \in Due(run[r].todo) :
        Plain(r, q) \/ Opens(r, q) \/ Bears(r, q) \/ Skips(r, q) \/ Rewrites(r, q)
  BY DEF Works
<1>3. q \in run[r].todo
  BY AfterRequest
<1>4. q.op \notin {"openParent", "child"}
  BY <1>3 DEF Own
<1>5. Numbers' = Numbers
  BY <1>2, <1>4 DEF Plain, Opens, Bears, Skips, Rewrites
<1> SUFFICES ASSUME NEW n \in Numbers, forge'[n].state = "open", forge'[n].part = p
             PROVE  /\ n \in DOMAIN run'[r].saw
                    /\ \/ p = run'[r].part /\ Closes(run'[r].todo, n)
                       \/ \E j \in run'[r].jobs : j.part = p /\ Handles(j, forge'[n].field)
  BY <1>5 DEF Cleared, IsOpen, Closes, Handles
<1>6. forge[n].part = p /\ forge'[n].field = forge[n].field
  BY <1>1 DEF Grown
<1>7. IsOpen(n)
  BY DEF Effects, Fate, IsOpen
<1>8. /\ n \in DOMAIN run[r].saw
      /\ \/ p = run[r].part /\ Closes(run[r].todo, n)
         \/ \E j \in run[r].jobs : j.part = p /\ Handles(j, forge[n].field)
  BY <1>6, <1>7 DEF Cleared
<1>9. Closes(run[r].todo, n) => Closes(run'[r].todo, n)
  BY DEF Works, Stands
<1> QED BY <1>1, <1>6, <1>8, <1>9 DEF Steady

\* What a request that succeeds leaves to send.
LEMMA AsksLeft ==
  ASSUME TypeInv, NEW r \in Runs, NEW q \in Due(run[r].todo),
         NEW todo, todo = run[r].todo, NEW next, next = run'[r].todo,
         Plain(r, q) \/ Opens(r, q) \/ Bears(r, q) \/ Skips(r, q) \/ Rewrites(r, q)
  PROVE  /\ q \in todo /\ q \notin next
         /\ \A a \in next : a.op # "link" => a \in todo
         /\ \A a \in todo : a.op \in {"openParent", "rewrite"} /\ a # q => a \in next
         /\ Skips(r, q) => \A a \in next : a.op # "child"
<1>1. q \in todo
  BY AfterRequest
<1>2. CASE \E link : link.op = "link" /\ q.op # "link" /\ next = (todo \ {q}) \union {link}
  BY <1>1, <1>2 DEF Skips
<1>3. CASE next = todo \ {q}
  BY <1>1, <1>3 DEF Skips
<1>4. CASE Skips(r, q)
  BY <1>1, <1>4 DEF Skips
<1>5. Skips(r, q) \/ next = todo \ {q} \/ \E link : link.op = "link" /\ q.op # "link" /\ next = (todo \ {q}) \union {link}
  BY DEF Plain, Opens, Bears, Rewrites
<1>6. Skips(r, q) => \A a \in next : a.op # "child"
  BY DEF Skips
<1> QED BY <1>2, <1>3, <1>4, <1>5, <1>6

\* A part that fails and that the run is at.
LEMMA WorkGoing ==
  ASSUME TypeInv, NEW r \in Runs, Leaves(r), Works(r), NEW p \in Range(world.parts),
         p = run[r].part, Going(r, p)
  PROVE  Going(r, p)'
<1>1. Grown /\ Steady(r)
  BY DEF Leaves, Goes
<1> SUFFICES ASSUME NEW todo, todo = run[r].todo, NEW next, next = run'[r].todo,
                    NEW kept, kept = Kept(r, p), NEW new, new = New(r, p),
                    NEW made, made = run[r].made, NEW born, born = run'[r].made
             PROVE  Going(r, p)'
  OBVIOUS
<1>2. /\ Kept(r, p)' = kept /\ New(r, p)' = new /\ Written(r, p)' = Written(r, p)
      /\ \A have : Body(r, p, have)' = Body(r, p, have)
  BY <1>1, SameList DEF Steady
<1>3. PICK q \in Due(run[r].todo) :
        Plain(r, q) \/ Opens(r, q) \/ Bears(r, q) \/ Skips(r, q) \/ Rewrites(r, q)
  BY DEF Works
<1>4. /\ q \in todo /\ q \notin next
      /\ \A a \in next : a.op # "link" => a \in todo
      /\ \A a \in todo : a.op \in {"openParent", "rewrite"} /\ a # q => a \in next
      /\ Skips(r, q) => \A a \in next : a.op # "child"
  BY <1>3, AsksLeft
<1>5. Stands(r) /\ run'[r].body = run[r].body
  BY DEF Works
<1>6. /\ Numbers' = Numbers => \A f : Rest(p, f, next)' = Rest(p, f, todo)
      /\ \A n, field, lists : Adding(r, n, field, lists) =>
           /\ Rest(p, field, next)' = Rest(p, field, todo) \union {n}
           /\ \A f : f # field => Rest(p, f, next)' = Rest(p, f, todo)
  <2>1. \A a \in next : a.op = "close" => a \in todo
    BY <1>4
  <2>2. ASSUME Numbers' = Numbers, NEW f PROVE Rest(p, f, next)' = Rest(p, f, todo)
    BY <1>1, <1>5, <2>2, RestStays
  <2>3. ASSUME NEW n, NEW field, NEW lists, Adding(r, n, field, lists)
        PROVE  /\ Rest(p, field, next)' = Rest(p, field, todo) \union {n}
               /\ \A f : f # field => Rest(p, f, next)' = Rest(p, f, todo)
    <3>1. \A a \in todo : a.op = "close" => a.item \in Numbers
      BY DEF TypeInv, Sound
    <3>2. ~Closes(next, n)
      BY <2>1, <2>3, <3>1 DEF Closes, Adding
    <3>3. /\ n \in Numbers' /\ forge'[n].part = p /\ forge'[n].field = field
          /\ forge'[n].state = "open" /\ Numbers' = Numbers \union {n} /\ n \notin Numbers
      BY <2>3 DEF Adding
    <3>4. ASSUME NEW f
          PROVE  /\ n \in Rest(p, f, next)' <=> f = field
                 /\ \A m \in Numbers : m \in Rest(p, f, next)' <=> m \in Rest(p, f, todo)
                 /\ Rest(p, f, next)' \subseteq Numbers \union {n}
                 /\ Rest(p, f, todo) \subseteq Numbers
      <4>1. n \in Rest(p, f, next)' <=> f = field
        BY <3>2, <3>3 DEF Rest, OpenOf, IsOpen, Closes
      <4>2. \A m \in Numbers : m \in Rest(p, f, next)' <=> m \in Rest(p, f, todo)
        BY <1>1, <1>5, RestAfter
      <4>3. Rest(p, f, next)' \subseteq Numbers \union {n} /\ Rest(p, f, todo) \subseteq Numbers
        BY <3>3, RestIn
      <4> QED BY <4>1, <4>2, <4>3
    <3>5. Rest(p, field, next)' = Rest(p, field, todo) \union {n}
      BY <3>3, <3>4
    <3>6. ASSUME NEW f, f # field PROVE Rest(p, f, next)' = Rest(p, f, todo)
      BY <3>3, <3>4, <3>6
    <3> QED BY <3>5, <3>6
  <2> QED BY <2>2, <2>3
<1>7. Parent \notin Fields /\ kept \intersect new = {}
  BY TrackerAssumption DEF New, Lacking
<1>8. /\ made \subseteq new
      /\ \A f \in Fields : IF f \in kept \union made THEN \E n : Rest(p, f, todo) = {n}
                                                      ELSE Rest(p, f, todo) = {}
  BY DEF Going, KidsGo, Has
<1>9. /\ \A a \in todo : a.op = "child" =>
           /\ a.for \in new \ made /\ Asked(todo, "rewrite")
           /\ \A o \in todo : o.op = "child" /\ o.for = a.for => o = a
      /\ \A a, o \in todo : a.op \in {"openParent", "rewrite"} /\ o.op = a.op => o = a
  BY DEF Going, AsksGo
<1>10. /\ Asked(todo, "openParent") =>
            /\ Rest(p, Parent, todo) = {} /\ run[r].body = Written(r, p)
            /\ Asked(todo, "rewrite") \/ new = {}
       /\ ~Asked(todo, "openParent") =>
            /\ run[r].parent \in Numbers /\ Rest(p, Parent, todo) = {run[r].parent}
            /\ forge[run[r].parent].lists =
                 IF Asked(todo, "rewrite") THEN run[r].body ELSE Body(r, p, kept \union made)
  BY DEF Going, ParentGoes, Has
<1>11. q.op = "child" => ~Asked(todo, "openParent")
  BY ChildTurn DEF Asked
<1>12. q.op = "rewrite" => \A a \in todo : a.op \notin {"openParent", "child"}
  BY RewriteTurn
<1>13. /\ born \subseteq new
       /\ \A f \in Fields : IF f \in kept \union born THEN \E n : Rest(p, f, next)' = {n}
                                                       ELSE Rest(p, f, next)' = {}
  <2>1. CASE Plain(r, q) \/ Skips(r, q) \/ Rewrites(r, q)
    <3>1. Numbers' = Numbers /\ born = made
      BY <2>1 DEF Plain, Skips, Rewrites
    <3> QED BY <1>6, <1>8, <3>1
  <2>2. CASE Opens(r, q)
    <3>1. born = made /\ Adding(r, run'[r].parent, Parent, Written(r, run[r].part))
      BY <2>2 DEF Opens
    <3>2. \A f \in Fields : Rest(p, f, next)' = Rest(p, f, todo)
      BY <1>6, <1>7, <3>1
    <3> QED BY <1>8, <3>1, <3>2
  <2>3. CASE Bears(r, q)
    <3>1. q.op = "child" /\ born = made \union {q.for}
      BY <2>3 DEF Bears
    <3>2. PICK n \in Nat : Adding(r, n, q.for, {})
      BY <2>3 DEF Bears
    <3>3. q.for \in new \ made /\ q.for \notin kept
      BY <1>4, <1>7, <1>9, <3>1
    <3>4. ASSUME NEW f \in Fields, f # q.for
          PROVE  Rest(p, f, next)' = Rest(p, f, todo) /\ (f \in kept \union born <=> f \in kept \union made)
      <4>1. Rest(p, f, next)' = Rest(p, f, todo)
        BY <1>6, <3>2, <3>4
      <4> QED BY <3>1, <3>4, <4>1
    <3>5. q.for \in Fields => Rest(p, q.for, next)' = {n}
      <4>1. Rest(p, q.for, next)' = Rest(p, q.for, todo) \union {n}
        BY <1>6, <3>2
      <4> QED BY <1>8, <3>3, <4>1
    <3>6. \A f \in Fields : IF f \in kept \union born THEN \E m : Rest(p, f, next)' = {m}
                                                       ELSE Rest(p, f, next)' = {}
      <4>1. ASSUME NEW f \in Fields, f = q.for PROVE f \in kept \union born /\ Rest(p, f, next)' = {n}
        BY <3>1, <3>5, <4>1
      <4>2. ASSUME NEW f \in Fields, f # q.for
            PROVE  IF f \in kept \union born THEN \E m : Rest(p, f, next)' = {m}
                                             ELSE Rest(p, f, next)' = {}
        BY <1>8, <3>4, <4>2
      <4> QED BY <4>1, <4>2
    <3> QED BY <1>8, <3>1, <3>3, <3>6
  <2> QED BY <1>3, <2>1, <2>2, <2>3
<1>14. ASSUME NEW a \in next, a.op = "child"
       PROVE  /\ a.for \in new \ born /\ Asked(next, "rewrite")
              /\ \A o \in next : o.op = "child" /\ o.for = a.for => o = a
  <2>1. a \in todo /\ a # q /\ \A o \in next : o.op = "child" => o \in todo
    BY <1>4, <1>14
  <2>2. /\ a.for \in new \ made /\ Asked(todo, "rewrite")
        /\ \A o \in todo : o.op = "child" /\ o.for = a.for => o = a
    BY <1>9, <1>14, <2>1
  <2>3. Asked(next, "rewrite")
    BY <1>4, <1>12, <1>14, <2>1, <2>2 DEF Asked
  <2>4. a.for \notin born
    <3>1. CASE Bears(r, q)
      BY <1>4, <2>1, <2>2, <3>1 DEF Bears
    <3>2. CASE ~Bears(r, q)
      BY <1>3, <2>2, <3>2 DEF Plain, Opens, Skips, Rewrites
    <3> QED BY <3>1, <3>2
  <2> QED BY <2>1, <2>2, <2>3, <2>4
<1>15. \A a, o \in next : a.op \in {"openParent", "rewrite"} /\ o.op = a.op => o = a
  BY <1>4, <1>9
<1>16. \A op \in {"openParent", "rewrite"} : q.op # op => (Asked(next, op) <=> Asked(todo, op))
  BY <1>4 DEF Asked
<1>17. \A op \in {"openParent", "rewrite"} : q.op = op => Asked(todo, op) /\ ~Asked(next, op)
  BY <1>4, <1>9 DEF Asked
<1>18. Asked(next, "openParent") =>
         /\ Rest(p, Parent, next)' = {} /\ run'[r].body = Written(r, p)
         /\ Asked(next, "rewrite") \/ new = {}
  <2> SUFFICES ASSUME Asked(next, "openParent")
               PROVE  /\ Rest(p, Parent, next)' = {} /\ run'[r].body = Written(r, p)
                      /\ Asked(next, "rewrite") \/ new = {}
    OBVIOUS
  <2>1. Asked(todo, "openParent") /\ q.op # "openParent"
    BY <1>16, <1>17
  <2>2. q.op \notin {"child", "rewrite"}
    BY <1>11, <1>12, <2>1 DEF Asked
  <2>3. Plain(r, q)
    BY <1>3, <2>1, <2>2 DEF Opens, Bears, Skips, Rewrites
  <2>4. Rest(p, Parent, next)' = {}
    BY <1>6, <1>10, <2>1, <2>3 DEF Plain
  <2> QED BY <1>5, <1>10, <1>16, <2>1, <2>2, <2>4
<1>19. ~Asked(next, "openParent") =>
         /\ run'[r].parent \in Numbers' /\ Rest(p, Parent, next)' = {run'[r].parent}
         /\ forge'[run'[r].parent].lists =
              IF Asked(next, "rewrite") THEN run'[r].body ELSE Body(r, p, kept \union born)
  <2> SUFFICES ASSUME ~Asked(next, "openParent")
               PROVE  /\ run'[r].parent \in Numbers' /\ Rest(p, Parent, next)' = {run'[r].parent}
                      /\ forge'[run'[r].parent].lists =
                           IF Asked(next, "rewrite") THEN run'[r].body ELSE Body(r, p, kept \union born)
    OBVIOUS
  <2>1. CASE Opens(r, q)
    <3>1. /\ born = made /\ SameLists /\ q.op = "openParent"
          /\ Adding(r, run'[r].parent, Parent, Written(r, p))
      BY <2>1 DEF Opens
    <3>2. /\ Rest(p, Parent, todo) = {} /\ run[r].body = Written(r, p)
          /\ Asked(todo, "rewrite") \/ new = {}
      BY <1>10, <1>17, <3>1
    <3>3. Rest(p, Parent, next)' = {run'[r].parent}
      BY <1>6, <3>1, <3>2
    <3>4. run'[r].parent \in Numbers' /\ forge'[run'[r].parent].lists = Written(r, p)
      BY <3>1 DEF Adding
    <3>5. ~Asked(next, "rewrite") => Body(r, p, kept \union born) = Written(r, p)
      <4>1. ASSUME ~Asked(next, "rewrite") PROVE new = {} /\ born = {}
        BY <1>8, <1>16, <3>1, <3>2, <4>1
      <4> QED BY <4>1 DEF Written
    <3> QED BY <1>5, <3>2, <3>3, <3>4, <3>5
  <2>2. ASSUME ~Opens(r, q)
        PROVE  /\ q.op # "openParent" /\ run'[r].parent = run[r].parent
               /\ run[r].parent \in Numbers /\ run[r].parent \in Numbers'
               /\ Rest(p, Parent, todo) = {run[r].parent}
               /\ forge[run[r].parent].lists =
                    IF Asked(todo, "rewrite") THEN run[r].body ELSE Body(r, p, kept \union made)
    <3>1. q.op # "openParent" /\ run'[r].parent = run[r].parent
      BY <1>3, <2>2 DEF Plain, Bears, Skips, Rewrites
    <3>2. ~Asked(todo, "openParent")
      BY <1>16, <3>1
    <3> QED BY <1>1, <1>10, <3>1, <3>2 DEF Grown
  <2>3. CASE Plain(r, q) \/ Skips(r, q)
    <3>1. ~Opens(r, q) /\ q.op # "rewrite" /\ Numbers' = Numbers /\ SameLists /\ born = made
      BY <2>3 DEF Plain, Skips, Opens
    <3>2. Asked(next, "rewrite") <=> Asked(todo, "rewrite")
      BY <1>16, <3>1
    <3>3. forge'[run[r].parent].lists = forge[run[r].parent].lists
      BY <2>2, <3>1 DEF SameLists
    <3> QED BY <1>5, <1>6, <2>2, <3>1, <3>2, <3>3
  <2>4. CASE Bears(r, q)
    <3>1. ~Opens(r, q) /\ q.op = "child" /\ SameLists
      BY <2>4 DEF Bears, Opens
    <3>2. PICK n \in Nat : Adding(r, n, q.for, {})
      BY <2>4 DEF Bears
    <3>3. q.for # Parent
      <4>1. Sound(q)
        BY AfterRequest
      <4> QED BY <1>7, <3>1, <4>1 DEF Sound
    <3>4. Rest(p, Parent, next)' = Rest(p, Parent, todo)
      BY <1>6, <3>2, <3>3
    <3>5. Asked(next, "rewrite") /\ Asked(todo, "rewrite")
      BY <1>4, <1>9, <1>16, <3>1
    <3>6. forge'[run[r].parent].lists = forge[run[r].parent].lists
      BY <2>2, <3>1 DEF SameLists
    <3> QED BY <1>5, <2>2, <3>1, <3>4, <3>5, <3>6
  <2>5. CASE Rewrites(r, q)
    <3>1. ~Opens(r, q) /\ q.op = "rewrite" /\ Numbers' = Numbers /\ born = made
      BY <2>5 DEF Rewrites, Opens
    <3>2. Asked(todo, "rewrite") /\ ~Asked(next, "rewrite")
      BY <1>17, <3>1
    <3>3. Final(r) = Body(r, p, kept \union made)
      BY DEF Final
    <3>4. forge'[run[r].parent].lists = Final(r)
      <4>1. forge[run[r].parent].lists = run[r].body /\ run[r].parent \in Numbers
        BY <2>2, <3>1, <3>2
      <4> QED BY <2>5, <4>1 DEF Rewrites, SameLists
    <3> QED BY <1>6, <2>2, <3>1, <3>2, <3>3, <3>4
  <2> QED BY <1>3, <2>1, <2>3, <2>4, <2>5
<1>20. KidsGo(r, p)'
  <2>1. Has(r, p)' = kept \union born
    BY <1>2 DEF Has
  <2> QED BY <1>2, <1>13, <2>1 DEF KidsGo
<1>21. AsksGo(r, p)'
  BY <1>2, <1>14, <1>15 DEF AsksGo, Asked
<1>22. ParentGoes(r, p)'
  <2>1. Has(r, p)' = kept \union born
    BY <1>2 DEF Has
  <2>2. Body(r, p, kept \union born)' = Body(r, p, kept \union born)
    BY <1>2
  <2>3. Body(r, p, Has(r, p))' = Body(r, p, kept \union born)
    BY <2>1, <2>2
  <2>4. /\ Asked(run[r].todo, "openParent")' <=> Asked(next, "openParent")
        /\ Asked(run[r].todo, "rewrite")' <=> Asked(next, "rewrite")
    BY DEF Asked
  <2> QED BY <1>2, <1>18, <1>19, <2>3, <2>4 DEF ParentGoes
<1> QED BY <1>20, <1>21, <1>22 DEF Going

-----------------------------------------------------------------------------
(* What a plan will leave.                                                  *)

\* A plan's requests to open and to rewrite the part's item are one each.
LEMMA PlanAsksOnce ==
  ASSUME TypeInv, NEW r \in Runs, NEW p \in Range(world.parts), NEW plan,
         plan = KeepOpen(r, p) \/ plan \in KeepFamily(r, p)
  PROVE  \A q \in plan : q.op = "rewrite" => q = Request("rewrite", 0, Parent, <<6, 0, 0>>)
<1> SUFFICES ASSUME NEW q \in plan, q.op = "rewrite" PROVE q \in Rewrite(6)
  BY DEF Rewrite
<1>1. \A S, why, stage, place : q \notin CloseAll(S, why, stage, place)
  BY DEF CloseAll, Request
<1>2. /\ \A stage, place : q \notin Touch(stage, place)
      /\ \A stage : q \notin OpenParent(stage)
      /\ \A us, acts, stage : q \notin CreateAll(us, acts, stage)
  BY DEF Touch, OpenParent, CreateAll, Request
<1>3. CASE plan = KeepOpen(r, p)
  BY <1>1, <1>2, <1>3 DEF KeepOpen
<1>4. CASE plan \in KeepFamily(r, p) /\ Listed(r, p, {Parent}) = {}
  <2>1. PICK order \in [Same(r, p) -> Nat] : plan = NewPlan(r, p, order)
    BY <1>4, NewFamily
  <2>2. /\ \A f \in Same(r, p) : q \notin CloseAll(Listed(r, p, {f}), "untracked", 3, order[f])
        /\ q \notin CloseAll(Listed(r, p, KidFields(r, p) \ Same(r, p)), "untracked", 1, 0)
    BY <1>1
  <2>3. q \notin CreateAll(New(r, p), Acts(r, p), 5) /\ q \notin OpenParent(2)
    BY <1>2
  <2> QED BY <2>1, <2>2, <2>3 DEF NewPlan
<1>5. CASE plan \in KeepFamily(r, p) /\ Listed(r, p, {Parent}) # {}
  <2>1. PICK order \in [Same(r, p) \ Wanted(r, p) -> Nat] : plan = OldPlan(r, p, order)
    BY <1>5, OldFamily
  <2>2. \A u \in Kept(r, p) : q \notin KeepChild(r, p, u)
    BY <1>1, <1>2 DEF KeepChild
  <2>3. /\ \A f \in Same(r, p) \ Wanted(r, p) :
             q \notin CloseAll(Listed(r, p, {f}), "passing", 3, order[f])
        /\ q \notin CloseAll(Listed(r, p, KidFields(r, p) \ Same(r, p)), "untracked", 1, 0)
        /\ q \notin CloseAll(Newer(Listed(r, p, {Parent})), "duplicate", 2, 0)
    BY <1>1
  <2>4. q \notin CreateAll(New(r, p), Acts(r, p), 5) /\ q \notin Touch(7, 0)
    BY <1>2
  <2> QED BY <2>1, <2>2, <2>3, <2>4 DEF OldPlan
<1> QED BY <1>3, <1>4, <1>5

\* The plan of a family: what it does not close is one child for each it keeps, and the
\* parent.
LEMMA FamilyLeaves ==
  ASSUME TypeInv, NEW r \in Runs, NEW p \in Range(world.parts), NEW plan \in KeepFamily(r, p)
  PROVE  /\ \A f \in Fields \ Kept(r, p) : \A n \in Listed(r, p, {f}) : Closes(plan, n)
         /\ \A f \in Kept(r, p) : \A n \in Listed(r, p, {f}) :
              Closes(plan, n) <=> n # Min(Listed(r, p, {f}))
         /\ \A n \in Listed(r, p, {Parent}) : Closes(plan, n) <=> n # Min(Listed(r, p, {Parent}))
<1>1. /\ \A n \in Listed(r, p, KidFields(r, p) \ Same(r, p)) : Closes(plan, n)
      /\ Listed(r, p, {Parent}) = {} =>
           \A f \in Same(r, p) : \A n \in Listed(r, p, {f}) : Closes(plan, n)
      /\ Listed(r, p, {Parent}) # {} =>
           /\ \A n \in Newer(Listed(r, p, {Parent})) : Closes(plan, n)
           /\ \A f \in Same(r, p) \ Wanted(r, p) : \A n \in Listed(r, p, {f}) : Closes(plan, n)
           /\ \A u \in Kept(r, p) : \A n \in Newer(Listed(r, p, {u})) : Closes(plan, n)
  BY FamilyClears
<1>2. ASSUME NEW f \in Fields \ Kept(r, p), NEW n \in Listed(r, p, {f}) PROVE Closes(plan, n)
  <2>1. f \in KidFields(r, p)
    BY <1>2 DEF KidFields
  <2>2. CASE f \notin Same(r, p)
    <3>1. n \in Listed(r, p, KidFields(r, p) \ Same(r, p))
      BY <1>2, <2>1, <2>2 DEF Listed
    <3> QED BY <1>1, <3>1
  <2>3. CASE f \in Same(r, p) /\ Listed(r, p, {Parent}) = {}
    BY <1>1, <1>2, <2>3
  <2>4. CASE f \in Same(r, p) /\ Listed(r, p, {Parent}) # {}
    BY <1>1, <1>2, <2>1, <2>4 DEF Kept
  <2> QED BY <2>2, <2>3, <2>4
<1>3. Parent \notin Fields /\ KidFields(r, p) \subseteq Fields /\ Same(r, p) \subseteq Fields
  BY TrackerAssumption DEF KidFields, Same
<1>4. ASSUME NEW u \in Kept(r, p)
      PROVE  u \in Same(r, p) /\ u \in Wanted(r, p) /\ u \in Fields /\ Listed(r, p, {Parent}) # {}
  <2>1. u \in Wanted(r, p) /\ u \in KidFields(r, p) /\ Listed(r, p, {Parent}) # {}
    BY DEF Kept
  <2>2. KindOf(u) = run[r].children /\ u \in Fields
    BY <2>1, WantedKind
  <2> QED BY <2>1, <2>2 DEF Same
<1>5. \A fs : \A n \in Listed(r, p, fs) : forge[n].field \in fs
  BY DEF Listed
<1>6. ASSUME NEW f \in Fields \union {Parent}, f \in Kept(r, p) \/ f = Parent,
             NEW c \in plan, c.op = "close", c.item \in Listed(r, p, {f})
      PROVE  c.item \in Newer(Listed(r, p, {f}))
  <2>1. forge[c.item].field = f /\ Listed(r, p, {Parent}) # {}
    BY <1>4, <1>5, <1>6
  <2>2. \/ c.item \in Listed(r, p, KidFields(r, p) \ Same(r, p))
        \/ c.item \in Newer(Listed(r, p, {Parent}))
        \/ \E g \in Same(r, p) \ Wanted(r, p) : c.item \in Listed(r, p, {g})
        \/ \E u \in Kept(r, p) : c.item \in Newer(Listed(r, p, {u}))
    BY <1>6, <2>1, FamilyMembers DEF Closing
  <2>3. CASE c.item \in Listed(r, p, KidFields(r, p) \ Same(r, p))
    BY <1>3, <1>4, <1>5, <1>6, <2>1, <2>3
  <2>4. CASE c.item \in Newer(Listed(r, p, {Parent}))
    <3>1. c.item \in Listed(r, p, {Parent})
      BY <2>4 DEF Newer
    <3>2. f = Parent
      BY <1>5, <2>1, <3>1
    <3> QED BY <2>4, <3>2
  <2>5. CASE \E g \in Same(r, p) \ Wanted(r, p) : c.item \in Listed(r, p, {g})
    <3>1. PICK g \in Same(r, p) \ Wanted(r, p) : c.item \in Listed(r, p, {g})
      BY <2>5
    <3>2. f = g
      BY <1>5, <2>1, <3>1
    <3> QED BY <1>3, <1>4, <1>6, <3>1, <3>2
  <2>6. CASE \E u \in Kept(r, p) : c.item \in Newer(Listed(r, p, {u}))
    <3>1. PICK u \in Kept(r, p) : c.item \in Newer(Listed(r, p, {u}))
      BY <2>6
    <3>2. c.item \in Listed(r, p, {u})
      BY <3>1 DEF Newer
    <3>3. f = u
      BY <1>5, <2>1, <3>2
    <3> QED BY <3>1, <3>3
  <2> QED BY <2>2, <2>3, <2>4, <2>5, <2>6
<1>7. ASSUME NEW f \in Fields \union {Parent}, f \in Kept(r, p) \/ f = Parent,
             NEW n \in Listed(r, p, {f})
      PROVE  Closes(plan, n) <=> n # Min(Listed(r, p, {f}))
  <2>1. Closes(plan, n) => n # Min(Listed(r, p, {f}))
    BY <1>6, <1>7 DEF Closes, Newer
  <2>2. n # Min(Listed(r, p, {f})) => n \in Newer(Listed(r, p, {f}))
    BY DEF Newer
  <2>3. Listed(r, p, {Parent}) # {}
    BY <1>4, <1>7
  <2> QED BY <1>1, <1>7, <2>1, <2>2, <2>3
<1>8. \A f \in Kept(r, p) : \A n \in Listed(r, p, {f}) : Closes(plan, n) <=> n # Min(Listed(r, p, {f}))
  BY <1>4, <1>7
<1>9. \A n \in Listed(r, p, {Parent}) : Closes(plan, n) <=> n # Min(Listed(r, p, {Parent}))
  BY <1>7
<1> QED BY <1>2, <1>8, <1>9

\* The plan of a part without children, in the same terms.
LEMMA OpenLeaves ==
  ASSUME TypeInv, NEW r \in Runs, NEW p \in Range(world.parts), run[r].children = "none"
  PROVE  /\ Kept(r, p) = {} /\ New(r, p) = {}
         /\ \A f \in Fields : \A n \in Listed(r, p, {f}) : Closes(KeepOpen(r, p), n)
         /\ \A n \in Listed(r, p, {Parent}) :
              Closes(KeepOpen(r, p), n) <=> n # Min(Listed(r, p, {Parent}))
<1>1. Wanted(r, p) = {}
  BY DEF Wanted
<1>2. Kept(r, p) = {} /\ New(r, p) = {}
  BY <1>1 DEF Kept, New, Lacking
<1>3. \A S, why, stage, place : \A n \in S : Closes(CloseAll(S, why, stage, place), n)
  <2> SUFFICES ASSUME NEW S, NEW why, NEW stage, NEW place, NEW n \in S
               PROVE  Closes(CloseAll(S, why, stage, place), n)
    OBVIOUS
  <2>1. Request("close", n, why, <<stage, place, n>>) \in CloseAll(S, why, stage, place)
    BY DEF CloseAll
  <2> QED BY <2>1 DEF Closes, Request
<1>4. \A S, T, n : S \subseteq T /\ Closes(S, n) => Closes(T, n)
  BY DEF Closes
<1>5. ASSUME NEW f \in Fields, NEW n \in Listed(r, p, {f}) PROVE Closes(KeepOpen(r, p), n)
  <2>1. n \in Listed(r, p, Fields)
    BY DEF Listed
  <2>2. CloseAll(Listed(r, p, Fields), "untracked", 1, 0) \subseteq KeepOpen(r, p)
    BY DEF KeepOpen
  <2> QED BY <1>3, <1>4, <2>1, <2>2
<1>6. ASSUME NEW n \in Listed(r, p, {Parent})
      PROVE  Closes(KeepOpen(r, p), n) <=> n # Min(Listed(r, p, {Parent}))
  <2>1. n # Min(Listed(r, p, {Parent})) => Closes(KeepOpen(r, p), n)
    <3> SUFFICES ASSUME n # Min(Listed(r, p, {Parent})) PROVE Closes(KeepOpen(r, p), n)
      OBVIOUS
    <3>1. n \in Newer(Listed(r, p, {Parent}))
      BY DEF Newer
    <3>2. Closes(CloseAll(Newer(Listed(r, p, {Parent})), "duplicate", 2, 0), n)
      BY <1>3, <3>1
    <3>3. CloseAll(Newer(Listed(r, p, {Parent})), "duplicate", 2, 0) \subseteq KeepOpen(r, p)
      BY DEF KeepOpen
    <3> QED BY <1>4, <3>2, <3>3
  <2>2. ASSUME NEW c \in KeepOpen(r, p), c.op = "close", c.item = n
        PROVE  n # Min(Listed(r, p, {Parent}))
    <3>1. n \in Listed(r, p, Fields) \/ n \in Newer(Listed(r, p, {Parent}))
      BY <2>2, OtherMembers DEF Closing
    <3>2. n \notin Listed(r, p, Fields)
      BY TrackerAssumption DEF Listed
    <3> QED BY <3>1, <3>2 DEF Newer
  <2> QED BY <2>1, <2>2 DEF Closes
<1> QED BY <1>2, <1>5, <1>6

-----------------------------------------------------------------------------
(* A run comes to a part, and leaves it.                                    *)

\* What a run comes to a part with.
Comes(r, job, plan) ==
  /\ run[r].todo = {} /\ forge' = forge /\ world' = world
  /\ job \in run[r].jobs /\ plan \in Plans(r, job)
  /\ run'[r].verdict = run[r].verdict /\ run'[r].children = run[r].children
  /\ run'[r].saw = run[r].saw /\ run'[r].clean = run[r].clean
  /\ run'[r].jobs = run[r].jobs \ {job}
  /\ run'[r].part = job.part /\ run'[r].todo = plan /\ run'[r].made = {}
  /\ Listed(r, job.part, {Parent}) = {} =>
       run'[r].parent = 0 /\ run'[r].body = Written(r, job.part)
  /\ Listed(r, job.part, {Parent}) # {} =>
       /\ run'[r].parent = Min(Listed(r, job.part, {Parent}))
       /\ run'[r].body = run[r].saw[Min(Listed(r, job.part, {Parent}))]

\* The plan of a family rewrites the part's item, and opens one when there is none.
LEMMA FamilyAsks ==
  ASSUME TypeInv, NEW r \in Runs, NEW p \in Range(world.parts), NEW plan \in KeepFamily(r, p)
  PROVE  /\ Asked(plan, "rewrite")
         /\ Listed(r, p, {Parent}) = {} => Asked(plan, "openParent")
<1>1. Request("rewrite", 0, Parent, <<6, 0, 0>>) \in Rewrite(6)
  BY DEF Rewrite
<1>2. Request("openParent", 0, Parent, <<2, 0, 0>>) \in OpenParent(2)
  BY DEF OpenParent
<1>3. CASE Listed(r, p, {Parent}) = {}
  <2>1. PICK order \in [Same(r, p) -> Nat] : plan = NewPlan(r, p, order)
    BY <1>3, NewFamily
  <2>2. /\ Request("rewrite", 0, Parent, <<6, 0, 0>>) \in plan
        /\ Request("openParent", 0, Parent, <<2, 0, 0>>) \in plan
    BY <1>1, <1>2, <2>1 DEF NewPlan
  <2> QED BY <2>2 DEF Asked, Request
<1>4. CASE Listed(r, p, {Parent}) # {}
  <2>1. PICK order \in [Same(r, p) \ Wanted(r, p) -> Nat] : plan = OldPlan(r, p, order)
    BY <1>4, OldFamily
  <2>2. Request("rewrite", 0, Parent, <<6, 0, 0>>) \in plan
    BY <1>1, <2>1 DEF OldPlan
  <2> QED BY <1>4, <2>2 DEF Asked, Request
<1> QED BY <1>3, <1>4

\* A plan for a part that fails, whichever it is.
LEMMA FailingPlan ==
  ASSUME TypeInv, NEW r \in Runs, NEW p \in Range(world.parts), NEW plan \in KeepPart(r, p),
         run[r].verdict[p].state = "fails"
  PROVE  /\ \A f \in Fields \ Kept(r, p) : \A n \in Listed(r, p, {f}) : Closes(plan, n)
         /\ \A f \in Kept(r, p) : \A n \in Listed(r, p, {f}) :
              Closes(plan, n) <=> n # Min(Listed(r, p, {f}))
         /\ \A n \in Listed(r, p, {Parent}) : Closes(plan, n) <=> n # Min(Listed(r, p, {Parent}))
         /\ Asked(plan, "openParent") <=> Listed(r, p, {Parent}) = {}
         /\ New(r, p) # {} \/ Listed(r, p, {Parent}) # {} => Asked(plan, "rewrite")
         /\ \A q \in plan : q.op = "child" =>
              /\ q.for \in New(r, p)
              /\ \A o \in plan : o.op = "child" /\ o.for = q.for => o = q
         /\ \A q, o \in plan : q.op \in {"openParent", "rewrite"} /\ o.op = q.op => o = q
<1>2. \/ run[r].children = "none" /\ plan = KeepOpen(r, p)
      \/ plan \in KeepFamily(r, p)
  BY DEF KeepPart
<1>3. /\ \A f \in Fields \ Kept(r, p) : \A n \in Listed(r, p, {f}) : Closes(plan, n)
      /\ \A f \in Kept(r, p) : \A n \in Listed(r, p, {f}) :
           Closes(plan, n) <=> n # Min(Listed(r, p, {f}))
      /\ \A n \in Listed(r, p, {Parent}) : Closes(plan, n) <=> n # Min(Listed(r, p, {Parent}))
  <2>1. CASE run[r].children = "none" /\ plan = KeepOpen(r, p)
    BY <2>1, OpenLeaves
  <2>2. ASSUME plan \in KeepFamily(r, p)
        PROVE  \A f \in Fields \ Kept(r, p) : \A n \in Listed(r, p, {f}) : Closes(plan, n)
    BY <2>2, FamilyLeaves
  <2>3. ASSUME plan \in KeepFamily(r, p)
        PROVE  \A f \in Kept(r, p) : \A n \in Listed(r, p, {f}) :
                 Closes(plan, n) <=> n # Min(Listed(r, p, {f}))
    BY <2>3, FamilyLeaves
  <2>4. ASSUME plan \in KeepFamily(r, p)
        PROVE  \A n \in Listed(r, p, {Parent}) : Closes(plan, n) <=> n # Min(Listed(r, p, {Parent}))
    BY <2>4, FamilyLeaves
  <2> QED BY <1>2, <2>1, <2>2, <2>3, <2>4
<1>4. \A q \in plan :
        /\ q.op = "openParent" => Listed(r, p, {Parent}) = {} /\ q = Request("openParent", 0, Parent, <<2, 0, 0>>)
        /\ q.op = "child" => /\ q.for \in New(r, p)
                             /\ q = Request("child", 0, q.for, <<5, Place(q.for, Acts(r, p)), 0>>)
  <2> DEFINE job == [part |-> p, what |-> "keep", turn |-> <<0, 0, 0>>]
  <2>1. job \in Tasks /\ job.part = p /\ job.what = "keep"
    BY DEF Tasks, Turns
  <2> HIDE DEF job
  <2>2. plan \in Plans(r, job)
    BY <2>1 DEF Plans
  <2>3. ASSUME NEW q \in plan, q.op = "openParent"
        PROVE  Listed(r, p, {Parent}) = {} /\ q = Request("openParent", 0, Parent, <<2, 0, 0>>)
    <3>1. /\ Listed(r, job.part, {Parent}) = {}
          /\ q = Request("openParent", 0, Parent, <<2, 0, 0>>)
      BY <2>1, <2>2, <2>3, PlanCreations
    <3> QED BY <2>1, <3>1
  <2>4. ASSUME NEW q \in plan, q.op = "child"
        PROVE  /\ q.for \in New(r, p)
               /\ q = Request("child", 0, q.for, <<5, Place(q.for, Acts(r, p)), 0>>)
    <3>1. /\ q.for \in New(r, job.part)
          /\ q = Request("child", 0, q.for, <<5, Place(q.for, Acts(r, job.part)), 0>>)
      BY <2>1, <2>2, <2>4, PlanCreations
    <3> QED BY <2>1, <3>1
  <2> QED BY <2>3, <2>4
<1>5. \A q \in plan : q.op = "rewrite" => q = Request("rewrite", 0, Parent, <<6, 0, 0>>)
  BY <1>2, PlanAsksOnce
<1>6. Listed(r, p, {Parent}) = {} => Asked(plan, "openParent")
  <2> SUFFICES ASSUME Listed(r, p, {Parent}) = {} PROVE Asked(plan, "openParent")
    OBVIOUS
  <2>1. CASE plan = KeepOpen(r, p)
    <3>1. Request("openParent", 0, Parent, <<2, 0, 0>>) \in plan
      BY <2>1 DEF KeepOpen, OpenParent
    <3> QED BY <3>1 DEF Request, Asked
  <2>2. CASE plan \in KeepFamily(r, p)
    BY <2>2, FamilyAsks
  <2> QED BY <1>2, <2>1, <2>2
<1>7. New(r, p) # {} \/ Listed(r, p, {Parent}) # {} => Asked(plan, "rewrite")
  <2>1. CASE run[r].children = "none" /\ plan = KeepOpen(r, p)
    <3>1. New(r, p) = {}
      BY <2>1, OpenLeaves
    <3>2. Listed(r, p, {Parent}) # {} => Request("rewrite", 0, Parent, <<6, 0, 0>>) \in plan
      BY <2>1 DEF KeepOpen, Rewrite
    <3> QED BY <3>1, <3>2 DEF Request, Asked
  <2>2. CASE plan \in KeepFamily(r, p)
    BY <2>2, FamilyAsks
  <2> QED BY <1>2, <2>1, <2>2
<1>8. Asked(plan, "openParent") => Listed(r, p, {Parent}) = {}
  BY <1>4 DEF Asked
<1>9. ASSUME NEW q \in plan, q.op = "child"
      PROVE  /\ q.for \in New(r, p)
             /\ \A o \in plan : o.op = "child" /\ o.for = q.for => o = q
  BY <1>4, <1>9
<1>10. \A q, o \in plan : q.op \in {"openParent", "rewrite"} /\ o.op = q.op => o = q
  BY <1>4, <1>5
<1> QED BY <1>3, <1>6, <1>7, <1>8, <1>9, <1>10

\* The list still holds when the run comes to a part that fails: what it will leave of it.
LEMMA ComesGoing ==
  ASSUME TypeInv, NEW r \in Runs, NEW job \in Tasks, NEW plan, Comes(r, job, plan),
         job.what = "keep", run[r].verdict[job.part].state = "fails", Known(r, job.part)
  PROVE  Going(r, job.part)'
<1> DEFINE p == job.part
<1>1. p \in Range(world.parts) /\ run[r].verdict[p].state = "fails" /\ Known(r, p)
  BY DEF Tasks
<1>2. Grown /\ Numbers' = Numbers /\ forge' = forge
  BY SameItems DEF Comes
<1>0. /\ plan \in KeepPart(r, p)
      /\ Listed(r, p, {Parent}) = {} => run'[r].body = Written(r, p)
      /\ Listed(r, p, {Parent}) # {} =>
           /\ run'[r].parent = Min(Listed(r, p, {Parent}))
           /\ run'[r].body = run[r].saw[Min(Listed(r, p, {Parent}))]
  BY DEF Comes, Plans
<1> HIDE DEF p
<1> SUFFICES ASSUME NEW kept, kept = Kept(r, p), NEW new, new = New(r, p),
                    NEW parents, parents = Listed(r, p, {Parent})
             PROVE  Going(r, p)'
  BY DEF p
<1>3. /\ Kept(r, p)' = kept /\ New(r, p)' = new /\ Written(r, p)' = Written(r, p)
  BY <1>2, SameList DEF Comes
<1>4. run'[r].made = {} /\ run'[r].todo = plan
  BY DEF Comes
<1>5. /\ \A f \in Fields \ kept : \A n \in Listed(r, p, {f}) : Closes(plan, n)
      /\ \A f \in kept : \A n \in Listed(r, p, {f}) : Closes(plan, n) <=> n # Min(Listed(r, p, {f}))
      /\ \A n \in parents : Closes(plan, n) <=> n # Min(parents)
  BY <1>0, <1>1, FailingPlan
<1>6. /\ Asked(plan, "openParent") <=> parents = {}
      /\ new # {} \/ parents # {} => Asked(plan, "rewrite")
  <2>1. Asked(plan, "openParent") <=> parents = {}
    BY <1>0, <1>1, FailingPlan
  <2>2. new # {} \/ parents # {} => Asked(plan, "rewrite")
    BY <1>0, <1>1, FailingPlan
  <2> QED BY <2>1, <2>2
<1>7. /\ \A q \in plan : q.op = "child" =>
           /\ q.for \in new
           /\ \A o \in plan : o.op = "child" /\ o.for = q.for => o = q
      /\ \A q, o \in plan : q.op \in {"openParent", "rewrite"} /\ o.op = q.op => o = q
  <2>1. ASSUME NEW q \in plan, q.op = "child"
        PROVE  q.for \in new /\ \A o \in plan : o.op = "child" /\ o.for = q.for => o = q
    BY <1>0, <1>1, <2>1, FailingPlan
  <2>2. \A q, o \in plan : q.op \in {"openParent", "rewrite"} /\ o.op = q.op => o = q
    BY <1>0, <1>1, FailingPlan
  <2> QED BY <2>1, <2>2
<1>8. \A fs : Listed(r, p, fs) \in SUBSET Nat /\ Listed(r, p, fs) \subseteq Numbers
  BY ListedNumbers
<1>9. \A f : OpenOf(p, f) = Listed(r, p, {f})
  <2>1. \A f : \A n \in Listed(r, p, {f}) :
          n \in Numbers /\ n \in DOMAIN run[r].saw /\ forge[n].part = p /\ forge[n].field = f
    BY ListedNumbers
  <2> QED BY <1>1, <2>1 DEF Known, OpenOf, Listed
<1>10. \A f : Rest(p, f, plan)' = {n \in Listed(r, p, {f}) : ~Closes(plan, n)}
  BY <1>2, <1>9 DEF Rest, OpenOf, IsOpen, Closes
<1>11. ASSUME NEW f \in Fields
       PROVE  IF f \in kept THEN \E n : Rest(p, f, plan)' = {n} ELSE Rest(p, f, plan)' = {}
  <2>1. CASE f \notin kept
    BY <1>5, <1>10, <2>1
  <2>2. CASE f \in kept
    <3> DEFINE S == Listed(r, p, {f})
    <3>1. S # {}
      BY <2>2 DEF Kept, KidFields
    <3>2. Min(S) \in S
      BY <1>8, <3>1, Least
    <3>3. Rest(p, f, plan)' = {Min(S)}
      BY <1>5, <1>10, <2>2, <3>2
    <3> QED BY <2>2, <3>3
  <2> QED BY <2>1, <2>2
<1>12. KidsGo(r, p)'
  <2>1. Has(r, p)' = kept
    BY <1>3, <1>4 DEF Has
  <2> QED BY <1>3, <1>4, <1>11, <2>1 DEF KidsGo
<1>13. AsksGo(r, p)'
  <2>1. \A q \in plan : q.op = "child" => q.for \in new \ {} /\ Asked(plan, "rewrite")
    BY <1>6, <1>7
  <2> QED BY <1>3, <1>4, <1>7, <2>1 DEF AsksGo, Asked
<1>14. CASE parents = {}
  <2>1. Rest(p, Parent, plan)' = {}
    BY <1>10, <1>14
  <2>2. run'[r].body = Written(r, p)
    BY <1>0, <1>14
  <2>3. Asked(plan, "openParent") /\ (Asked(plan, "rewrite") \/ new = {})
    BY <1>6, <1>14
  <2>4. ParentGoes(r, p)'
    BY <1>3, <1>4, <2>1, <2>2, <2>3 DEF ParentGoes, Asked
  <2> QED BY <1>12, <1>13, <2>4 DEF Going
<1>15. CASE parents # {}
  <2> DEFINE m == Min(parents)
  <2>1. m \in parents /\ m \in Numbers
    BY <1>8, <1>15, Least
  <2>2. Rest(p, Parent, plan)' = {m}
    <3>1. \A n \in parents : ~Closes(plan, n) <=> n = m
      BY <1>5
    <3>2. Rest(p, Parent, plan)' = {n \in parents : ~Closes(plan, n)}
      BY <1>10
    <3> HIDE DEF m
    <3> QED BY <2>1, <3>1, <3>2
  <2>3. run'[r].parent = m /\ run'[r].body = run[r].saw[m]
    BY <1>0, <1>15
  <2>4. run[r].saw[m] = forge[m].lists
    BY <1>1, <2>1, ListedNumbers DEF Known
  <2>5. ~Asked(plan, "openParent") /\ Asked(plan, "rewrite")
    BY <1>6, <1>15
  <2> HIDE DEF m
  <2>6. ParentGoes(r, p)'
    BY <1>2, <1>4, <2>1, <2>2, <2>3, <2>4, <2>5 DEF ParentGoes, Asked
  <2> QED BY <1>12, <1>13, <2>6 DEF Going
<1> QED BY <1>14, <1>15

\* What a verdict says of a part.
LEMMA Verdicts ==
  ASSUME TypeInv, NEW r \in Runs, NEW p \in Range(world.parts)
  PROVE  run[r].verdict[p].state \in {"fails", "passes", "gone"}
<1>1. run[r].verdict[p] \in Found \union Range(NoVerdict)
  BY DEF TypeInv, Runners
<1>2. \A v \in Range(NoVerdict) : v.state = "gone"
  <2>1. /\ DOMAIN NoVerdict = Range(world.parts)
        /\ \A i \in Range(world.parts) : NoVerdict[i] = [state |-> "gone", actions |-> {}]
    BY DEF NoVerdict
  <2>2. \A v \in Range(NoVerdict) : \E i \in DOMAIN NoVerdict : v = NoVerdict[i]
    BY DEF Range
  <2> QED BY <2>1, <2>2
<1> QED BY <1>1, <1>2, TrackerAssumption

LEMMA ClosesAll ==
  ASSUME NEW S, NEW why, NEW stage, NEW place, NEW n \in S, NEW plan,
         CloseAll(S, why, stage, place) \subseteq plan
  PROVE  Closes(plan, n)
<1>1. Request("close", n, why, <<stage, place, n>>) \in CloseAll(S, why, stage, place)
  BY DEF CloseAll
<1> QED BY <1>1 DEF Closes, Request

\* The plan of a part that does not fail closes what its job is for.
LEMMA ClearingPlan ==
  ASSUME TypeInv, NEW r \in Runs, NEW job \in Tasks, NEW plan \in Plans(r, job), Own(r),
         job \in run[r].jobs, run[r].verdict[job.part].state # "fails",
         NEW f \in Fields \union {Parent}, Handles(job, f), NEW n \in Listed(r, job.part, {f})
  PROVE  Closes(plan, n)
<1> DEFINE p == job.part
<1>1. p \in Range(world.parts) /\ job.what \in {"keep", "goneKids", "goneParents"}
  BY DEF Tasks
<1>2. n \in Listed(r, p, {f})
  OBVIOUS
<1>3. f \in Fields => n \in Listed(r, p, Fields)
  BY <1>2 DEF Listed
<1>4. CASE job.what = "keep"
  <2>1. run[r].verdict[p].state = "passes"
    BY <1>1, <1>4, Verdicts DEF Own
  <2>2. plan = ClosePassing(r, p)
    BY <1>4, <2>1 DEF Plans, KeepPart
  <2>3. /\ CloseAll(Listed(r, p, Fields), "passing", 1, 0) \subseteq plan
        /\ CloseAll(Listed(r, p, {Parent}), "passing", 2, 0) \subseteq plan
    BY <2>2 DEF ClosePassing
  <2>4. CASE f \in Fields
    BY <1>3, <2>3, <2>4, ClosesAll
  <2>5. CASE f = Parent
    BY <1>2, <2>3, <2>5, ClosesAll
  <2> QED BY <2>4, <2>5
<1>5. CASE job.what = "goneKids"
  <2>1. CloseAll(Listed(r, p, Fields), "untracked", 1, 0) \subseteq plan /\ f \in Fields
    BY <1>5 DEF Plans, Handles
  <2> QED BY <1>3, <2>1, ClosesAll
<1>6. CASE job.what = "goneParents"
  <2>1. CloseAll(Listed(r, p, {Parent}), "untracked", 1, 0) \subseteq plan /\ f = Parent
    BY <1>6 DEF Plans, Handles
  <2> QED BY <1>2, <2>1, ClosesAll
<1> QED BY <1>1, <1>4, <1>5, <1>6

\* What the run makes its own by coming to a part.
LEMMA ComesOwn ==
  ASSUME TypeInv, NEW r \in Runs, Own(r), NEW job \in Tasks, NEW plan, Comes(r, job, plan)
  PROVE  Own(r)'
<1> DEFINE p == job.part
<1>1. p \in Range(world.parts) /\ job.what \in {"keep", "goneKids", "goneParents"}
  BY DEF Tasks
<1>2. /\ run'[r].todo = plan /\ run'[r].part = p /\ forge' = forge /\ plan \in Plans(r, job)
      /\ run'[r].verdict = run[r].verdict /\ run'[r].jobs = run[r].jobs \ {job}
      /\ job \in run[r].jobs
  BY DEF Comes
<1>3. ASSUME NEW q \in plan
      PROVE  q.op \notin {"link", "unlink"} /\ (q.op = "close" => forge[q.item].part = p)
  <2>1. q.op \notin {"link", "unlink"}
    BY <1>2, PlanTypes
  <2>2. ASSUME NEW S, NEW why, NEW stage, NEW place, q \in CloseAll(S, why, stage, place)
        PROVE  q.op = "close" /\ q.item \in S
    BY <2>2 DEF CloseAll, Request
  <2>3. ASSUME NEW fs, NEW n \in Listed(r, p, fs) PROVE forge[n].part = p
    BY DEF Listed
  <2>4. ASSUME NEW S, NEW why, NEW stage, Closing(q, S, why, stage),
               \E fs : S \in {Listed(r, p, fs), Newer(Listed(r, p, fs))}
        PROVE  forge[q.item].part = p
    <3>1. PICK fs : S \in {Listed(r, p, fs), Newer(Listed(r, p, fs))}
      BY <2>4
    <3>2. q.item \in Listed(r, p, fs)
      BY <2>4, <3>1 DEF Closing, Newer
    <3> QED BY <2>3, <3>2
  <2> HIDE DEF p
  <2>5. ASSUME plan \in KeepFamily(r, p), q.op = "close" PROVE forge[q.item].part = p
    <3>1. \/ q.item \in Listed(r, p, KidFields(r, p) \ Same(r, p))
          \/ q.item \in Newer(Listed(r, p, {Parent}))
          \/ \E f : q.item \in Listed(r, p, {f})
          \/ \E u : q.item \in Newer(Listed(r, p, {u}))
      BY <1>1, <2>5, FamilyMembers DEF Closing
    <3>2. \E fs : q.item \in Listed(r, p, fs)
      BY <3>1 DEF Newer
    <3> QED BY <2>3, <3>2
  <2>6. CASE plan = KeepOpen(r, p) \/ plan = ClosePassing(r, p)
    BY <1>1, <2>4, <2>6, OtherMembers DEF Closing
  <2>7. CASE \/ plan = CloseAll(Listed(r, p, Fields), "untracked", 1, 0)
             \/ plan = CloseAll(Listed(r, p, {Parent}), "untracked", 1, 0)
    BY <2>2, <2>3, <2>7
  <2>8. \/ plan \in KeepFamily(r, p) \/ plan = KeepOpen(r, p) \/ plan = ClosePassing(r, p)
        \/ plan = CloseAll(Listed(r, p, Fields), "untracked", 1, 0)
        \/ plan = CloseAll(Listed(r, p, {Parent}), "untracked", 1, 0)
    BY <1>2, WhichPlans DEF p
  <2>9. q.op = "close" => forge[q.item].part = p
    BY <2>5, <2>6, <2>7, <2>8
  <2> QED BY <2>1, <2>9
<1>4. ASSUME NEW q \in plan, q.op \in {"openParent", "child"}
      PROVE  run[r].verdict[p].state = "fails"
  <2>1. job.what = "keep"
    BY <1>2, <1>4, PlanCreations
  <2>2. run[r].verdict[p].state # "gone"
    BY <1>2, <2>1 DEF Own
  <2>3. ASSUME run[r].verdict[p].state = "passes" PROVE FALSE
    <3>1. plan = ClosePassing(r, p)
      BY <1>2, <2>1, <2>3 DEF Plans, KeepPart
    <3>2. q.op = "close"
      BY <3>1 DEF ClosePassing, CloseAll, Request
    <3> QED BY <1>4, <3>2
  <2> QED BY <1>1, <2>2, <2>3, Verdicts
<1>5. run'[r].parent # 0 => forge[run'[r].parent].part = p
  <2>1. CASE Listed(r, p, {Parent}) = {}
    BY <2>1 DEF Comes
  <2>2. CASE Listed(r, p, {Parent}) # {}
    <3>1. run'[r].parent = Min(Listed(r, p, {Parent}))
      BY <2>2 DEF Comes
    <3>2. Min(Listed(r, p, {Parent})) \in Listed(r, p, {Parent})
      BY <2>2, ListedNumbers, Least
    <3> QED BY <3>1, <3>2 DEF Listed
  <2> QED BY <2>1, <2>2
<1>6. ASSUME NEW j \in run[r].jobs \ {job}, j.what = "keep", j.part = p PROVE FALSE
  <2>1. job.what = "keep"
    BY <1>2, <1>6 DEF Own
  <2> QED BY <1>2, <1>6, <2>1 DEF Own
<1>7. /\ \A j \in run[r].jobs : j.what = "keep" <=> run[r].verdict[j.part].state # "gone"
      /\ \A i, j \in run[r].jobs :
           i.what = "keep" /\ j.what = "keep" /\ i.part = j.part => i = j
  BY DEF Own
<1> HIDE DEF p
<1>8. ~Waits(r, run[r].part)'
  BY <1>2, <1>6 DEF Waits
<1> QED BY <1>2, <1>3, <1>4, <1>5, <1>7, <1>8 DEF Own

\* When nothing is left to do for a part that fails, it is as the verdict says.
LEMMA GoingDone ==
  ASSUME TypeInv, NEW r \in Runs, NEW p \in Range(world.parts), Going(r, p), run[r].todo = {},
         run[r].verdict[p].state = "fails"
  PROVE  Mirrored(r, p)
<1>1. \A f : Rest(p, f, run[r].todo) = OpenOf(p, f)
  BY DEF Rest, Closes
<1>2. Has(r, p) \subseteq Wanted(r, p) /\ Wanted(r, p) \subseteq Fields
  BY WantedUnits DEF Going, KidsGo, Has, Kept, New, Lacking
<1>3. \A f \in Fields : IF f \in Has(r, p) THEN \E n : OpenOf(p, f) = {n} ELSE OpenOf(p, f) = {}
  BY <1>1 DEF Going, KidsGo
<1>4. {u \in Fields : OpenOf(p, u) # {}} = Has(r, p)
  BY <1>2, <1>3
<1>5. ASSUME NEW u \in Has(r, p) PROVE Cardinality(OpenOf(p, u)) = 1
  <2>1. PICK n : OpenOf(p, u) = {n}
    BY <1>2, <1>3
  <2> QED BY <2>1, FS_Singleton
<1>6. ~Asked(run[r].todo, "openParent") /\ ~Asked(run[r].todo, "rewrite")
  BY DEF Asked
<1>7. /\ run[r].parent \in Numbers /\ OpenOf(p, Parent) = {run[r].parent}
      /\ forge[run[r].parent].lists = Body(r, p, Has(r, p))
  BY <1>1, <1>6 DEF Going, ParentGoes
<1> QED BY <1>2, <1>4, <1>5, <1>7 DEF Mirrored

\* A part that passes or left stays in line when the run comes to it, or to another.
LEMMA ComesCleared ==
  ASSUME TypeInv, NEW r \in Runs, Own(r), NEW job \in Tasks, NEW plan, Comes(r, job, plan),
         NEW p \in Range(world.parts), run[r].verdict[p].state # "fails", Cleared(r, p)
  PROVE  Cleared(r, p)'
<1>1. /\ run[r].todo = {} /\ forge' = forge /\ run'[r].saw = run[r].saw
      /\ job \in run[r].jobs /\ plan \in Plans(r, job)
      /\ run'[r].jobs = run[r].jobs \ {job} /\ run'[r].part = job.part /\ run'[r].todo = plan
  BY DEF Comes
<1> SUFFICES ASSUME NEW n \in Numbers, IsOpen(n), forge[n].part = p
             PROVE  /\ n \in DOMAIN run[r].saw
                    /\ \/ p = job.part /\ Closes(plan, n)
                       \/ \E j \in run[r].jobs \ {job} : j.part = p /\ Handles(j, forge[n].field)
  BY <1>1, SameItems DEF Cleared, IsOpen, Closes, Handles
<1>2. n \in DOMAIN run[r].saw /\ ~Closes(run[r].todo, n)
  BY <1>1 DEF Cleared, Closes
<1>3. PICK j \in run[r].jobs : j.part = p /\ Handles(j, forge[n].field)
  BY <1>2 DEF Cleared
<1>4. CASE j # job
  BY <1>2, <1>3, <1>4
<1>5. CASE j = job
  <2> DEFINE f == forge[n].field
  <2>1. f \in Fields \union {Parent}
    <3>1. forge[n] \in Items
      BY DEF TypeInv, Numbers
    <3> QED BY <3>1 DEF Items
  <2>2. n \in Listed(r, job.part, {f}) /\ Handles(job, f)
    BY <1>2, <1>3, <1>5 DEF Listed
  <2>3. run[r].verdict[job.part].state # "fails" /\ job.part = p
    BY <1>3, <1>5
  <2> HIDE DEF f
  <2>4. Closes(plan, n)
    BY <1>1, <2>1, <2>2, <2>3, ClearingPlan
  <2> QED BY <1>2, <2>3, <2>4
<1> QED BY <1>4, <1>5

\* The parts of a run stay in line when it comes to one.
LEMMA ComesInLine ==
  ASSUME TypeInv, NEW r \in Runs, Own(r), NEW job \in Tasks, NEW plan, Comes(r, job, plan),
         NEW p \in Range(world.parts), InLine(r, p)
  PROVE  InLine(r, p)'
<1>1. /\ run[r].todo = {} /\ forge' = forge /\ job \in run[r].jobs
      /\ run'[r].verdict = run[r].verdict /\ run'[r].children = run[r].children
      /\ run'[r].saw = run[r].saw
      /\ run'[r].jobs = run[r].jobs \ {job} /\ run'[r].part = job.part
  BY DEF Comes
<1>2. Grown /\ Numbers' = Numbers /\ Spared(p)
  BY <1>1, SameItems DEF Spared
<1>3. CASE run[r].verdict[p].state # "fails"
  <2>1. Cleared(r, p)'
    BY <1>3, ComesCleared DEF InLine
  <2> QED BY <1>1, <1>3, <2>1 DEF InLine
<1>4. CASE run[r].verdict[p].state = "fails" /\ p = job.part
  <2>1. job.what = "keep"
    BY <1>1, <1>4 DEF Own
  <2>2. Waits(r, p)
    BY <1>1, <1>4, <2>1 DEF Waits
  <2>3. Known(r, job.part) /\ run[r].verdict[job.part].state = "fails"
    BY <1>4, <2>2 DEF InLine
  <2>4. Going(r, job.part)'
    BY <2>1, <2>3, ComesGoing
  <2>5. \A j \in run[r].jobs : j.what = "keep" /\ j.part = p => j = job
    BY <1>1, <1>4, <2>1 DEF Own
  <2>6. ~Waits(r, p)'
    BY <1>1, <2>5 DEF Waits
  <2>7. Going(r, p)'
    BY <1>4, <2>4
  <2> QED BY <1>1, <1>4, <2>6, <2>7 DEF InLine
<1>5. CASE run[r].verdict[p].state = "fails" /\ p # job.part
  <2>1. Waits(r, p)' <=> Waits(r, p)
    BY <1>1, <1>5 DEF Waits
  <2>2. CASE Waits(r, p)
    <3>1. Known(r, p)'
      BY <1>1, <1>2, <1>5, <2>2 DEF InLine, Known, IsOpen
    <3> QED BY <1>1, <1>5, <2>1, <2>2, <3>1 DEF InLine
  <2>3. CASE ~Waits(r, p)
    <3>1. Going(r, p) => Mirrored(r, p)
      BY <1>1, <1>5, GoingDone
    <3>2. Mirrored(r, p)
      BY <1>5, <2>3, <3>1 DEF InLine
    <3>3. Mirrored(r, p)'
      BY <1>1, <1>2, <3>2, StaysMirrored
    <3> QED BY <1>1, <1>5, <2>1, <2>3, <3>3 DEF InLine
  <2> QED BY <2>2, <2>3
<1> QED BY <1>3, <1>4, <1>5

-----------------------------------------------------------------------------
(* Every step keeps every run in line.                                      *)

\* A run that goes on as it was, while nothing is done about its parts.
LEMMA IdleOwn ==
  ASSUME TypeInv, Grown, NEW r \in Runs, Own(r), Steady(r), run'[r].todo = run[r].todo,
         run'[r].parent = run[r].parent, run'[r].clean \subseteq run[r].clean
  PROVE  Own(r)'
<1>1. Goes(r)
  BY DEF Goes
<1> QED BY <1>1, GoesOwn

\* A run that has ended, or has yet to begin, has nothing of its own.
LEMMA EmptyOwn ==
  ASSUME TypeInv, NEW r \in Runs, run'[r].todo = {}, run'[r].jobs = {}, run'[r].parent = 0
  PROVE  Own(r)'
BY DEF Own, Waits

\* A request: what the run did about the part it is at, and about the others.
LEMMA LeavesInLine ==
  ASSUME TypeInv, Effects, NEW r \in Runs, Own(r), Leaves(r),
         NEW p \in run'[r].clean, p \in Range(world.parts), InLine(r, p)
  PROVE  InLine(r, p)'
<1>1. Grown /\ Steady(r) /\ Goes(r) /\ run[r].todo # {}
  BY DEF Leaves, Goes
<1>2. CASE p # run[r].part
  <2>1. Spared(p)
    BY <1>2 DEF Leaves
  <2> QED BY <1>1, <1>2, <2>1, StaysInLine
<1>3. CASE p = run[r].part
  <2>1. Works(r)
    BY <1>3 DEF Leaves
  <2>2. /\ run'[r].verdict = run[r].verdict /\ run'[r].jobs = run[r].jobs
        /\ run'[r].part = run[r].part
    BY <1>1 DEF Steady
  <2>3. CASE run[r].verdict[p].state # "fails"
    <3>1. Cleared(r, p)
      BY <2>3 DEF InLine
    <3>2. Cleared(r, p)'
      BY <1>3, <2>1, <2>3, <3>1, WorkCleared
    <3> QED BY <2>2, <2>3, <3>2 DEF InLine
  <2>4. CASE run[r].verdict[p].state = "fails"
    <3>1. ~Waits(r, p)
      BY <1>1, <1>3 DEF Own
    <3>2. Going(r, p)
      BY <1>3, <2>4, <3>1 DEF InLine
    <3>3. Going(r, p)'
      BY <1>3, <2>1, <3>2, WorkGoing
    <3>4. ~Waits(r, p)'
      BY <2>2, <3>1 DEF Waits
    <3> QED BY <1>3, <2>2, <2>4, <3>3, <3>4 DEF InLine
  <2> QED BY <2>3, <2>4
<1> QED BY <1>2, <1>3

\* A request leaves every run in line: the one that sends it, and the others.
LEMMA RequestMirrors ==
  ASSUME TypeInv, MirrorInv, Effects, NEW r \in Runs, Leaves(r)
  PROVE  MirrorInv'
<1>1. Grown /\ Steady(r) /\ Goes(r) /\ Active(r) /\ \A s \in Runs \ {r} : run'[s] = run[s]
  BY DEF Leaves, Goes
<1>2. \A s \in Runs : Own(s) /\ Undisturbed(s)
  BY DEF MirrorInv
<1>3. Own(r)' /\ Active(r)'
  BY <1>1, <1>2, GoesOwn DEF Active, Steady
<1>4. ASSUME NEW s \in Runs \ {r} PROVE Own(s)' /\ Undisturbed(s)'
  <2>1. run'[s] = run[s] /\ Own(s) /\ Undisturbed(s) /\ s # r
    BY <1>1, <1>2
  <2>2. Own(s)'
    BY <1>1, <2>1, IdleOwn DEF Steady
  <2>3. run[s].clean = {}
    BY <1>1, <2>1 DEF Undisturbed
  <2> QED BY <2>1, <2>2, <2>3 DEF Undisturbed
<1>5. ASSUME run'[r].clean # {} PROVE Undisturbed(r)'
  <2>1. run'[r].clean \subseteq run[r].clean /\ run'[r].phase = run[r].phase
    BY <1>1 DEF Goes, Steady
  <2>2. /\ \A s \in Runs : Active(s) => s = r
        /\ run[r].phase # "waiting"
        /\ \A p \in run[r].clean : InLine(r, p)
    BY <1>1, <1>2, <1>5, <2>1 DEF Undisturbed
  <2>3. \A s \in Runs : Active(s)' => s = r
    BY <1>1, <2>2 DEF Active
  <2>4. run[r].clean \subseteq Range(world.parts)
    BY DEF TypeInv, Runners
  <2>5. \A p \in run'[r].clean : InLine(r, p)'
    BY <1>2, <2>1, <2>2, <2>4, LeavesInLine
  <2> QED BY <1>3, <2>1, <2>2, <2>3, <2>5 DEF Undisturbed
<1>6. run'[r].clean = {} => Undisturbed(r)'
  BY DEF Undisturbed
<1>7. \A s \in Runs : Own(s)' /\ Undisturbed(s)'
  BY <1>3, <1>4, <1>5, <1>6
<1> QED BY <1>7 DEF MirrorInv

LEMMA TakeMirrors ==
  ASSUME TypeInv, MirrorInv, NEW r \in Runs, Take(r), world' = world
  PROVE  MirrorInv'
<1>1. /\ Active(r) /\ run[r].todo = {} /\ forge' = forge
      /\ \E job \in Tasks : \E plan \in Plans(r, job) :
           /\ Comes(r, job, plan) /\ run' = [run EXCEPT ![r] = Taken(r, job, plan)]
           /\ run'[r].phase = "active" /\ run'[r].clean = run[r].clean
  <2>1. PICK job \in Due(run[r].jobs) : \E plan \in Plans(r, job) :
              /\ job \in run[r].jobs /\ job \in Tasks
              /\ run' = [run EXCEPT ![r] = Taken(r, job, plan)]
              /\ run'[r].phase = "active" /\ run'[r].verdict = run[r].verdict
              /\ run'[r].children = run[r].children /\ run'[r].saw = run[r].saw
              /\ run'[r].jobs = run[r].jobs \ {job} /\ run'[r].part = job.part
              /\ run'[r].todo = plan /\ run'[r].made = {} /\ run'[r].clean = run[r].clean
              /\ (Listed(r, job.part, {Parent}) = {} => run'[r].parent = 0
                   /\ run'[r].body = Written(r, job.part))
              /\ (Listed(r, job.part, {Parent}) # {} =>
                   /\ run'[r].parent = Min(Listed(r, job.part, {Parent}))
                   /\ run'[r].body = run[r].saw[Min(Listed(r, job.part, {Parent}))])
    BY TakenRuns
  <2>2. Active(r) /\ run[r].todo = {} /\ forge' = forge
    BY TakenRuns
  <2> QED BY <2>1, <2>2 DEF Comes
<1>2. PICK job \in Tasks : \E plan \in Plans(r, job) :
        /\ Comes(r, job, plan) /\ run' = [run EXCEPT ![r] = Taken(r, job, plan)]
        /\ run'[r].phase = "active" /\ run'[r].clean = run[r].clean
  BY <1>1
<1>3. PICK plan \in Plans(r, job) :
        /\ Comes(r, job, plan) /\ run' = [run EXCEPT ![r] = Taken(r, job, plan)]
        /\ run'[r].phase = "active" /\ run'[r].clean = run[r].clean
  BY <1>2
<1>4. Grown /\ \A s \in Runs \ {r} : run'[s] = run[s]
  BY <1>1, <1>3, SameItems DEF TypeInv
<1>5. \A s \in Runs : Own(s) /\ Undisturbed(s)
  BY DEF MirrorInv
<1>6. Own(r)' /\ Active(r)'
  BY <1>3, <1>5, ComesOwn DEF Active
<1>7. ASSUME NEW s \in Runs \ {r} PROVE Own(s)' /\ Undisturbed(s)'
  <2>1. run'[s] = run[s] /\ Own(s) /\ Undisturbed(s) /\ s # r
    BY <1>4, <1>5
  <2>2. Own(s)'
    BY <1>4, <2>1, IdleOwn DEF Steady
  <2>3. run[s].clean = {}
    BY <1>1, <2>1 DEF Undisturbed
  <2> QED BY <2>1, <2>2, <2>3 DEF Undisturbed
<1>8. Undisturbed(r)'
  <2> SUFFICES ASSUME run[r].clean # {} PROVE Undisturbed(r)'
    BY <1>3 DEF Undisturbed
  <2>1. /\ \A s \in Runs : Active(s) => s = r
        /\ \A p \in run[r].clean : InLine(r, p)
    BY <1>1, <1>5 DEF Undisturbed
  <2>2. \A s \in Runs : Active(s)' => s = r
    BY <1>4, <2>1 DEF Active
  <2>3. run[r].clean \subseteq Range(world.parts)
    BY DEF TypeInv, Runners
  <2>4. \A p \in run[r].clean : InLine(r, p)'
    BY <1>3, <1>5, <2>1, <2>3, ComesInLine
  <2> QED BY <1>3, <1>6, <2>2, <2>4 DEF Undisturbed
<1>9. \A s \in Runs : Own(s)' /\ Undisturbed(s)'
  BY <1>6, <1>7, <1>8
<1> QED BY <1>9 DEF MirrorInv

\* What a run is to do for each part of its verdict.
LEMMA JobsOf ==
  ASSUME TypeInv, NEW verdict, NEW p \in Range(world.parts)
  PROVE  /\ verdict[p].state # "gone" =>
              \E j \in Jobs(verdict) : j.what = "keep" /\ j.part = p
         /\ verdict[p].state = "gone" =>
              \A what \in {"goneKids", "goneParents"} :
                \E j \in Jobs(verdict) : j.what = what /\ j.part = p
         /\ \A j \in Jobs(verdict) : j.what = "keep" <=> verdict[j.part].state # "gone"
<1>1. PICK i \in DOMAIN world.parts : p = world.parts[i]
  BY DEF Range
<1> DEFINE job(what, stage) == [part |-> world.parts[i], what |-> what, turn |-> <<stage, i, 0>>]
<1>2. \A what, stage : job(what, stage).what = what /\ job(what, stage).part = p
  BY <1>1
<1>3. verdict[p].state # "gone" => job("keep", 1) \in Jobs(verdict)
  BY <1>1 DEF Jobs
<1>4. verdict[p].state = "gone" =>
        job("goneKids", 2) \in Jobs(verdict) /\ job("goneParents", 3) \in Jobs(verdict)
  BY <1>1 DEF Jobs
<1>5. \A j \in Jobs(verdict) : j.what = "keep" <=> verdict[j.part].state # "gone"
  BY DEF Jobs
<1> HIDE DEF job
<1> QED BY <1>2, <1>3, <1>4, <1>5

\* A run that begins knows every item that is open.
LEMMA StartMirrors ==
  ASSUME TypeInv, TypeInv', MirrorInv, NEW r \in Runs, Start(r), world' = world
  PROVE  MirrorInv'
<1>1. PICK verdict \in [Range(world.parts) -> Found], children \in world.children :
        run'[r] = Begun(r, verdict, children)
  BY StartRuns
<1>2. /\ run[r].phase = "waiting" /\ forge' = forge
      /\ \A s \in Runs \ {r} :
           run'[s] = IF run[s].phase = "ended" THEN Ended ELSE [run[s] EXCEPT !.clean = {}]
  BY StartRuns
<1>3. /\ run'[r].phase = "active" /\ run'[r].verdict = verdict /\ run'[r].jobs = Jobs(verdict)
      /\ run'[r].saw = [n \in {m \in Numbers : IsOpen(m)} |-> forge[n].lists]
      /\ run'[r].todo = {}
      /\ run'[r].clean = IF \E o \in Runs : Active(o) THEN {} ELSE Range(world.parts)
  BY <1>1, BegunRuns
<1>4. run'[r].parent = 0
  <2>1. Begun(r, verdict, children).parent = 0
    BY DEF Begun, Fresh
  <2> QED BY <1>1, <2>1
<1>5. Grown /\ Numbers' = Numbers
  BY <1>2, SameItems
<1>6. ASSUME NEW s \in Runs \ {r}
      PROVE  Own(s)' /\ Undisturbed(s)' /\ (Active(s)' => Active(s))
  <2>1. CASE run[s].phase = "ended"
    <3>1. run'[s] = Ended
      BY <1>2, <2>1
    <3>2. /\ Ended.todo = {} /\ Ended.jobs = {} /\ Ended.clean = {}
          /\ Ended.phase = "ended" /\ Ended.parent = 0
      BY DEF Ended, Fresh
    <3>3. Own(s)'
      BY <3>1, <3>2, EmptyOwn
    <3> QED BY <3>1, <3>2, <3>3 DEF Undisturbed, Active
  <2>2. CASE run[s].phase # "ended"
    <3>1. run[s] \in Runners /\ run'[s] = [run[s] EXCEPT !.clean = {}]
      BY <1>2, <2>2 DEF TypeInv
    <3>2. /\ Steady(s) /\ run'[s].todo = run[s].todo /\ run'[s].parent = run[s].parent
          /\ run'[s].clean = {}
      BY <3>1 DEF Runners, Steady
    <3>3. Own(s)'
      BY <1>5, <3>2, IdleOwn DEF MirrorInv
    <3> QED BY <3>2, <3>3 DEF Undisturbed, Active, Steady
  <2> QED BY <2>1, <2>2
<1>7. Own(r)'
  <2>1. \A j \in Jobs(verdict) : j.what = "keep" <=> verdict[j.part].state # "gone"
    <3>1. Range(world.parts) # {}
      BY TrackerAssumption DEF TypeInv, Runners
    <3> QED BY <3>1, JobsOf
  <2>2. \A i, j \in Jobs(verdict) :
          i.what = "keep" /\ j.what = "keep" /\ i.part = j.part => i = j
    BY JobsApart
  <2> QED BY <1>3, <1>4, <2>1, <2>2 DEF Own
<1>8. ASSUME NEW p \in Range(world.parts) PROVE InLine(r, p)'
  <2>1. CASE verdict[p].state = "fails"
    <3>1. Waits(r, p)'
      BY <1>3, <2>1, JobsOf DEF Waits
    <3>2. Known(r, p)'
      BY <1>2, <1>3, <1>5 DEF Known, IsOpen
    <3> QED BY <1>3, <2>1, <3>1, <3>2 DEF InLine
  <2>2. CASE verdict[p].state # "fails"
    <3>1. ASSUME NEW n \in Numbers, IsOpen(n), forge[n].part = p
          PROVE  \E j \in Jobs(verdict) : j.part = p /\ Handles(j, forge[n].field)
      <4>1. forge[n].field \in Fields \union {Parent}
        <5>1. forge[n] \in Items
          BY DEF TypeInv, Numbers
        <5> QED BY <5>1 DEF Items
      <4>2. CASE verdict[p].state # "gone"
        <5>1. PICK j \in Jobs(verdict) : j.what = "keep" /\ j.part = p
          BY <4>2, JobsOf
        <5> QED BY <5>1 DEF Handles
      <4>3. CASE verdict[p].state = "gone" /\ forge[n].field \in Fields
        <5>1. PICK j \in Jobs(verdict) : j.what = "goneKids" /\ j.part = p
          BY <4>3, JobsOf
        <5> QED BY <4>3, <5>1 DEF Handles
      <4>4. CASE verdict[p].state = "gone" /\ forge[n].field = Parent
        <5>1. PICK j \in Jobs(verdict) : j.what = "goneParents" /\ j.part = p
          BY <4>4, JobsOf
        <5> QED BY <4>4, <5>1 DEF Handles
      <4> QED BY <4>1, <4>2, <4>3, <4>4
    <3>2. Cleared(r, p)'
      BY <1>2, <1>3, <1>5, <3>1 DEF Cleared, IsOpen, Handles
    <3> QED BY <1>3, <2>2, <3>2 DEF InLine
  <2> QED BY <2>1, <2>2
<1>9. Undisturbed(r)'
  <2> SUFFICES ASSUME run'[r].clean # {} PROVE Undisturbed(r)'
    BY DEF Undisturbed
  <2>1. run'[r].clean = Range(world.parts) /\ \A s \in Runs : ~Active(s)
    BY <1>3
  <2>2. \A s \in Runs : Active(s)' => s = r
    BY <1>6, <2>1
  <2>3. Active(r)'
    BY <1>3 DEF Active
  <2> QED BY <1>3, <1>8, <2>1, <2>2, <2>3 DEF Undisturbed
<1>10. \A s \in Runs : Own(s)' /\ Undisturbed(s)'
  BY <1>6, <1>7, <1>9
<1> QED BY <1>10 DEF MirrorInv

\* A run that ends: each part nothing disturbed is as its verdict says.
LEMMA FinishMirrors ==
  ASSUME TypeInv, MirrorInv, NEW r \in Runs, Finish(r), world' = world
  PROVE  MirrorInv'
<1>1. /\ Active(r) /\ run[r].todo = {} /\ run[r].jobs = {} /\ forge' = forge
      /\ run' = [run EXCEPT ![r] = Finished(r)] /\ run'[r] = Finished(r)
  BY FinishedRuns DEF Finish
<1>2. /\ run'[r].todo = {} /\ run'[r].jobs = {} /\ run'[r].phase = "ended"
      /\ run'[r].clean = run[r].clean
      /\ run[r].clean # {} =>
           run'[r].verdict = run[r].verdict /\ run'[r].children = run[r].children
  BY <1>1, FinishedRuns
<1>3. run'[r].parent = 0
  <2>1. Finished(r).parent = 0
    BY DEF Finished, Ended, Fresh
  <2> QED BY <1>1, <2>1
<1>4. /\ Grown /\ \A p : Spared(p)
      /\ \A s \in Runs \ {r} : run'[s] = run[s]
  BY <1>1, SameItems DEF TypeInv, Spared
<1>5. Own(r)'
  BY <1>2, <1>3, EmptyOwn
<1>6. ASSUME NEW s \in Runs \ {r} PROVE Own(s)' /\ Undisturbed(s)'
  <2>1. run'[s] = run[s] /\ Own(s) /\ Undisturbed(s) /\ s # r
    BY <1>4 DEF MirrorInv
  <2>2. Own(s)'
    BY <1>4, <2>1, IdleOwn DEF Steady
  <2>3. run[s].clean = {}
    BY <1>1, <2>1 DEF Undisturbed
  <2> QED BY <2>1, <2>2, <2>3 DEF Undisturbed
<1>7. Undisturbed(r)'
  <2> SUFFICES ASSUME run[r].clean # {} PROVE Undisturbed(r)'
    BY <1>2 DEF Undisturbed
  <2>1. /\ \A s \in Runs : Active(s) => s = r
        /\ \A p \in run[r].clean : InLine(r, p)
    BY <1>1 DEF MirrorInv, Undisturbed
  <2>2. ~Active(r)' /\ \A s \in Runs : Active(s)' => s = r
    BY <1>2, <1>4, <2>1 DEF Active
  <2>3. ASSUME NEW p \in run[r].clean PROVE Mirrored(r, p)'
    <3>1. p \in Range(world.parts) /\ InLine(r, p)
      BY <2>1 DEF TypeInv, Runners
    <3>2. ~Waits(r, p)
      BY <1>1 DEF Waits
    <3>3. CASE run[r].verdict[p].state # "fails"
      <4>1. \A n \in Numbers : IsOpen(n) => forge[n].part # p
        BY <1>1, <3>1, <3>3 DEF InLine, Cleared, Closes
      <4>2. \A f : OpenOf(p, f) = {}
        BY <4>1 DEF OpenOf
      <4>3. Mirrored(r, p)
        BY <3>3, <4>2 DEF Mirrored, OpenKids
      <4> QED BY <1>2, <1>4, <3>1, <4>3, StaysMirrored
    <3>4. CASE run[r].verdict[p].state = "fails"
      <4>1. Going(r, p) => Mirrored(r, p)
        BY <1>1, <3>1, <3>4, GoingDone
      <4>2. Mirrored(r, p)
        BY <3>1, <3>2, <3>4, <4>1 DEF InLine
      <4> QED BY <1>2, <1>4, <3>1, <4>2, StaysMirrored
    <3> QED BY <3>3, <3>4
  <2> QED BY <1>2, <2>2, <2>3 DEF Undisturbed
<1>8. \A s \in Runs : Own(s)' /\ Undisturbed(s)'
  BY <1>5, <1>6, <1>7
<1> QED BY <1>8 DEF MirrorInv

\* A run that ends before its time.
LEMMA EndMirrors ==
  ASSUME TypeInv, MirrorInv, NEW r \in Runs, ListFails(r) \/ Kill(r), world' = world
  PROVE  MirrorInv'
<1>1. forge' = forge /\ run' = [run EXCEPT ![r] = Ended]
  BY DEF ListFails, Kill
<1>2. /\ Ended.todo = {} /\ Ended.jobs = {} /\ Ended.clean = {}
      /\ Ended.phase = "ended" /\ Ended.parent = 0
  BY DEF Ended, Fresh
<1>3. /\ Grown /\ \A p : Spared(p)
      /\ run'[r] = Ended /\ \A s \in Runs \ {r} : run'[s] = run[s]
  BY <1>1, SameItems DEF TypeInv, Spared
<1>4. Own(r)' /\ Undisturbed(r)' /\ ~Active(r)'
  BY <1>2, <1>3, EmptyOwn DEF Undisturbed, Active
<1>5. ASSUME NEW s \in Runs \ {r} PROVE Own(s)' /\ Undisturbed(s)'
  <2>1. run'[s] = run[s] /\ Own(s) /\ Undisturbed(s)
    BY <1>3 DEF MirrorInv
  <2>2. Own(s)'
    BY <1>3, <2>1, IdleOwn DEF Steady
  <2>3. ASSUME run[s].clean # {} PROVE Undisturbed(s)'
    <3>1. /\ \A t \in Runs : Active(t) => t = s
          /\ run[s].phase # "waiting" /\ run[s].clean \subseteq Range(world.parts)
      BY <2>1, <2>3 DEF Undisturbed, TypeInv, Runners
    <3>2. (\A t \in Runs : Active(t)' => t = s) /\ (Active(s)' <=> Active(s))
      BY <1>3, <1>4, <2>1, <3>1 DEF Active
    <3>3. ASSUME NEW p \in run[s].clean
          PROVE  (Active(s) => InLine(s, p)') /\ (~Active(s) => Mirrored(s, p)')
      <4>1. Active(s) => InLine(s, p)'
        BY <1>3, <2>1, <2>3, <3>1, StaysInLine DEF Undisturbed, Steady
      <4>2. ~Active(s) => Mirrored(s, p)'
        BY <1>3, <2>1, <2>3, <3>1, StaysMirrored DEF Undisturbed
      <4> QED BY <4>1, <4>2
    <3> QED BY <2>1, <3>1, <3>2, <3>3 DEF Undisturbed
  <2>4. run[s].clean = {} => Undisturbed(s)'
    BY <2>1 DEF Undisturbed
  <2> QED BY <2>2, <2>3, <2>4
<1>6. \A s \in Runs : Own(s)' /\ Undisturbed(s)'
  BY <1>4, <1>5
<1> QED BY <1>6 DEF MirrorInv

\* An item that somebody closes: its part is not clean for any run.
LEMMA HandMirrors ==
  ASSUME TypeInv, MirrorInv, CloseByHand, world' = world
  PROVE  MirrorInv'
<1>1. PICK n \in Numbers :
        /\ forge' = Closed(n, "byHand")
        /\ run' = [r \in Runs |-> [run[r] EXCEPT !.clean = @ \ {forge[n].part}]]
  BY DEF CloseByHand
<1>2. /\ Grown /\ Numbers' = Numbers
      /\ \A m \in Numbers :
           /\ forge'[m].lists = forge[m].lists
           /\ forge'[m].state = IF m = n /\ forge[m].state = "open" THEN "byHand" ELSE forge[m].state
  BY <1>1, ClosedItems DEF States
<1>3. ASSUME NEW p, p # forge[n].part PROVE Spared(p)
  BY <1>1, <1>2, <1>3 DEF Spared, Grown
<1>4. ASSUME NEW r \in Runs
      PROVE  /\ Steady(r) /\ run'[r].clean = run[r].clean \ {forge[n].part}
             /\ run'[r].todo = run[r].todo /\ run'[r].parent = run[r].parent
             /\ run'[r].body = run[r].body /\ run'[r].made = run[r].made
  <2>1. run[r] \in Runners /\ run'[r] = [run[r] EXCEPT !.clean = @ \ {forge[n].part}]
    BY <1>1 DEF TypeInv
  <2> QED BY <2>1 DEF Runners, Steady
<1>5. ASSUME NEW r \in Runs PROVE Own(r)' /\ Undisturbed(r)'
  <2>1. Own(r)'
    BY <1>2, <1>4, IdleOwn DEF MirrorInv
  <2>2. ASSUME run'[r].clean # {} PROVE Undisturbed(r)'
    <3>1. Undisturbed(r) /\ run[r].clean # {} /\ run[r].clean \subseteq Range(world.parts)
      BY <1>4, <2>2 DEF MirrorInv, TypeInv, Runners
    <3>2. \A s \in Runs : Active(s)' <=> Active(s)
      BY <1>4 DEF Active, Steady
    <3>3. ASSUME NEW p \in run'[r].clean
          PROVE  (Active(r) => InLine(r, p)') /\ (~Active(r) => Mirrored(r, p)')
      <4>1. p \in run[r].clean /\ p \in Range(world.parts) /\ Spared(p)
        BY <1>3, <1>4, <3>1
      <4>2. ASSUME Active(r) PROVE InLine(r, p)'
        <5>1. InLine(r, p)
          BY <3>1, <4>1, <4>2 DEF Undisturbed
        <5> QED BY <1>2, <1>4, <4>1, <5>1, StaysInLine
      <4>3. ASSUME ~Active(r) PROVE Mirrored(r, p)'
        <5>1. Mirrored(r, p)
          BY <3>1, <4>1, <4>3 DEF Undisturbed
        <5>2. run'[r].verdict = run[r].verdict /\ run'[r].children = run[r].children
          BY <1>4 DEF Steady
        <5> QED BY <1>2, <4>1, <5>1, <5>2, StaysMirrored
      <4> QED BY <4>2, <4>3
    <3> QED BY <1>4, <3>1, <3>2, <3>3 DEF Undisturbed, Steady
  <2> QED BY <2>1, <2>2 DEF Undisturbed
<1> QED BY <1>5 DEF MirrorInv

\* Nothing changes.
LEMMA StillMirrors ==
  ASSUME TypeInv, MirrorInv, UNCHANGED vars
  PROVE  MirrorInv'
<1>1. forge' = forge /\ run' = run /\ world' = world
  BY DEF vars
<1>2. Grown /\ \A p : Spared(p)
  BY <1>1, SameItems DEF Spared
<1>3. ASSUME NEW r \in Runs PROVE Own(r)' /\ Undisturbed(r)'
  <2>1. Own(r)'
    BY <1>1, <1>2, IdleOwn DEF MirrorInv, Steady
  <2>2. ASSUME NEW p \in run[r].clean
        PROVE  (InLine(r, p) => InLine(r, p)') /\ (Mirrored(r, p) => Mirrored(r, p)')
    <3>1. p \in Range(world.parts)
      BY DEF TypeInv, Runners
    <3>2. InLine(r, p) => InLine(r, p)'
      BY <1>1, <1>2, <3>1, StaysInLine DEF Steady
    <3>3. Mirrored(r, p) => Mirrored(r, p)'
      BY <1>1, <1>2, <3>1, StaysMirrored
    <3> QED BY <3>2, <3>3
  <2> QED BY <1>1, <2>1, <2>2 DEF MirrorInv, Undisturbed, Active
<1> QED BY <1>3 DEF MirrorInv

LEMMA StepMirrors ==
  ASSUME TypeInv, MirrorInv, [Next]_vars
  PROVE  MirrorInv'
<1>1. Effects /\ TypeInv'
  BY StepEffects, StepTypes
<1>2. CASE UNCHANGED vars
  BY <1>2, StillMirrors
<1>3. CASE CloseByHand /\ UNCHANGED world
  BY <1>3, HandMirrors
<1>4. ASSUME NEW r \in Runs, Step(r), world' = world PROVE MirrorInv'
  <2>0. Own(r)
    BY DEF MirrorInv
  <2>1. CASE Start(r)
    BY <1>1, <1>4, <2>1, StartMirrors
  <2>2. CASE Take(r)
    BY <1>4, <2>2, TakeMirrors
  <2>3. CASE Finish(r)
    BY <1>4, <2>3, FinishMirrors
  <2>4. CASE ListFails(r) \/ Kill(r)
    BY <1>4, <2>4, EndMirrors
  <2>5. CASE CloseItem(r) \/ CloseUnlinked(r)
    BY <1>1, <2>0, <2>5, CloseLeaves, RequestMirrors
  <2>6. CASE CreateParent(r) \/ CreateChild(r)
    BY <1>1, <2>0, <2>6, AddLeaves, RequestMirrors
  <2>7. CASE LinkChild(r) \/ RewriteParent(r)
    BY <1>1, <2>0, <2>7, WriteLeaves, RequestMirrors
  <2>8. CASE Refuse(r) \/ StopCreating(r) \/ Unchanged(r) \/ Update(r)
    BY <1>1, <2>0, <2>8, SpareLeaves, RequestMirrors
  <2>9. CASE Resend(r)
    BY <1>1, <2>0, <2>9, ResendLeaves, RequestMirrors
  <2> QED BY <1>4, <2>1, <2>2, <2>3, <2>4, <2>5, <2>6, <2>7, <2>8, <2>9 DEF Step
<1> QED BY <1>2, <1>3, <1>4 DEF Next

\* For any parts, actions, cap, number of runs and of mishaps, a run leaves each part that
\* nothing disturbed as its verdict says, whatever earlier runs left and whatever failed in
\* its other parts.
THEOREM MirrorsHold == Spec => []Mirrors
<1>1. Init => TypeInv /\ MirrorInv
  <2>1. ASSUME Init PROVE MirrorInv
    <3>1. /\ Fresh.todo = {} /\ Fresh.jobs = {} /\ Fresh.parent = 0 /\ Fresh.clean = {}
          /\ \A r \in Runs : run[r] = Fresh
      BY <2>1 DEF Init, Fresh
    <3>2. \A r \in Runs : Own(r) /\ Undisturbed(r)
      BY <3>1 DEF Own, Waits, Undisturbed
    <3> QED BY <3>2 DEF MirrorInv
  <2> QED BY <2>1, InitTypes
<1>2. TypeInv /\ MirrorInv /\ [Next]_vars => TypeInv' /\ MirrorInv'
  BY StepTypes, StepMirrors
<1>3. MirrorInv => Mirrors
  <2> SUFFICES ASSUME MirrorInv, NEW r \in Runs, NEW p \in Settled(r) PROVE Mirrored(r, p)
    BY DEF Mirrors, Mirrored
  <2>1. p \in run[r].clean /\ ~Active(r)
    BY DEF Settled, Active
  <2> QED BY <2>1 DEF MirrorInv, Undisturbed
<1> QED BY <1>1, <1>2, <1>3, PTL DEF Spec
=============================================================================
