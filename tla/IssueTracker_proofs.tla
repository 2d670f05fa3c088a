------------------------- MODULE IssueTracker_proofs -------------------------
(***************************************************************************)
(* What a tracker's runs do to its items, for any actions, parts, cap,     *)
(* number of runs and of mishaps.                                          *)
(***************************************************************************)
EXTENDS IssueTracker, FiniteSetTheorems, WellFoundedInduction, TLAPS

Whys  == {"passing", "duplicate", "untracked"}
Turns == Nat \X Nat \X Nat
Asks  == [op : {"close", "touch", "openParent", "rewrite", "child", "link", "unlink"},
          item : Nat, for : Whys \union Fields \union {Parent}, turn : Turns, sent : Nat]
Tasks == [part : Range(world.parts), what : {"keep", "goneKids", "goneParents"}, turn : Turns]
Runners ==
  [phase : {"waiting", "active", "ended"},
   verdict : [Range(world.parts) -> Found \union Range(NoVerdict)],
   children : world.children \union {"none"},
   saw : UNION {[S -> SUBSET Actions] : S \in SUBSET Numbers},
   jobs : SUBSET Tasks,
   part : Range(world.parts),
   todo : SUBSET Asks,
   parent : {0} \union Numbers,
   body : SUBSET Actions,
   made : SUBSET Fields,
   clean : SUBSET Range(world.parts)]

\* What a request still to be sent is about, and the stage it is sent in.
Sound(q) ==
  /\ q.op \in {"close", "link", "unlink"} => q.item \in Numbers
  /\ q.op = "close" => q.for \in Whys /\ q.turn[1] \in 1..4
  /\ q.op = "openParent" => q.turn[1] = 2
  /\ q.op = "child" => q.for \in Fields /\ q.turn[1] = 5
  /\ q.op = "rewrite" => q.turn[1] = 6
  /\ q.op \in {"link", "unlink"} => q.turn[1] = 0

\* A child is linked to a parent the run knows: one it listed or one it opens first.
Parented(s) ==
  \A q \in s.todo :
    /\ q.op = "link" => s.parent # 0
    /\ q.op = "child" => s.parent # 0 \/ \E o \in s.todo : o.op = "openParent"

TypeInv ==
  /\ world \in Worlds
  /\ forge \in Seq(Items)
  /\ \A n \in Numbers : forge[n].under \in {0} \union Numbers
  /\ trouble \in 0..MaxTrouble
  /\ run \in [Runs -> Runners]
  /\ \A r \in Runs : Parented(run[r]) /\ \A q \in run[r].todo : Sound(q)

-----------------------------------------------------------------------------
(* The least of a set, places and turns.                                    *)

LEMMA Least ==
  ASSUME NEW S \in SUBSET Nat, S # {}
  PROVE  Min(S) \in S /\ \A n \in S : Min(S) <= n
<1> DEFINE R == OpToRel(<, Nat)
<1>1. IsWellFoundedOn(R, Nat)
  BY NatLessThanWellFounded
<1> HIDE DEF R
<1>2. PICK n \in S : \A m \in S : ~(<<m, n>> \in R)
  BY <1>1, WFMin
<1>3. \A m \in S : n <= m
  <2> SUFFICES ASSUME NEW m \in S PROVE n <= m
    OBVIOUS
  <2>1. <<m, n>> \in R <=> m < n
    BY DEF R, OpToRel
  <2> QED BY <1>2, <2>1
<1> QED BY <1>3 DEF Min

\* All but the oldest have an older one, and all are there.
LEMMA NewerThanOne ==
  ASSUME NEW S \in SUBSET Nat, S # {}, NEW n \in Newer(S)
  PROVE  n \in S /\ Min(S) \in S /\ Min(S) < n
<1>1. Min(S) \in S /\ Min(S) <= n
  BY Least DEF Newer
<1>2. n \in S /\ n # Min(S)
  BY DEF Newer
<1>3. Min(S) \in Nat /\ n \in Nat
  BY <1>1, <1>2
<1> QED BY <1>1, <1>2, <1>3

\* The part of the fix order that a unit's place is in.
LEMMA Places ==
  ASSUME NEW acts \in SUBSET Actions, NEW kind, NEW u \in Units(kind, acts)
  PROVE  /\ u \in Fields
         /\ Place(u, acts) \in DOMAIN FixOrder
         /\ FixOrder[Place(u, acts)] \in Holds(u, acts)
         /\ Place(u, acts) \in Nat
<1>1. PICK a \in acts : u \in {a, ControlOf[a]}
  BY DEF Units
<1>2. u \in Fields
  BY <1>1 DEF Fields, Controls
<1>3. a \in Holds(u, acts)
  BY <1>1 DEF Holds
<1>4. DOMAIN FixOrder \subseteq Nat
  BY TrackerAssumption
<1>5. PICK i \in DOMAIN FixOrder : FixOrder[i] = a
  BY DEF Actions, Range
<1> DEFINE S == {j \in DOMAIN FixOrder : FixOrder[j] \in Holds(u, acts)}
<1>6. S \in SUBSET Nat /\ S # {}
  BY <1>3, <1>4, <1>5
<1>7. Min(S) \in S
  BY <1>6, Least
<1> QED BY <1>2, <1>4, <1>7 DEF Place

\* A due request is of no later stage than any other.
LEMMA DueFirst ==
  ASSUME NEW S \in SUBSET Asks, NEW q \in Due(S), NEW s \in S
  PROVE  q \in S /\ q.turn[1] <= s.turn[1]
<1>1. q \in S /\ ~Earlier(s.turn, q.turn)
  BY DEF Due
<1>2. s.turn[1] \in Nat /\ q.turn[1] \in Nat
  BY <1>1 DEF Asks, Turns
<1>3. s.turn[1] < q.turn[1] => Earlier(s.turn, q.turn)
  <2>1. 1 \in 1..3 /\ 1..(1 - 1) = {}
    OBVIOUS
  <2> QED BY <2>1 DEF Earlier
<1> QED BY <1>1, <1>2, <1>3

-----------------------------------------------------------------------------
(* What a plan holds.                                                       *)

LEMMA ListedNumbers ==
  ASSUME TypeInv, NEW r \in Runs, NEW p, NEW fs
  PROVE  /\ Listed(r, p, fs) \in SUBSET Nat
         /\ \A n \in Listed(r, p, fs) :
              /\ n \in Numbers /\ n \in DOMAIN run[r].saw
              /\ forge[n].part = p /\ forge[n].field \in fs
<1>1. DOMAIN run[r].saw \subseteq Numbers
  BY DEF TypeInv, Runners
<1>2. Numbers \subseteq Nat
  BY DEF TypeInv, Numbers
<1> QED BY <1>1, <1>2 DEF Listed

LEMMA WantedUnits ==
  ASSUME TypeInv, NEW r \in Runs, NEW p \in Range(world.parts)
  PROVE  /\ Acts(r, p) \in SUBSET Actions
         /\ Wanted(r, p) \subseteq Fields
         /\ \A u \in Wanted(r, p) : /\ u \in Units(run[r].children, Acts(r, p))
                                    /\ Place(u, Acts(r, p)) \in Nat
<1>1. run[r].verdict[p] \in Found \union Range(NoVerdict)
  BY DEF TypeInv, Runners
<1>2. \A v \in Range(NoVerdict) : v.actions = {}
  <2>1. /\ DOMAIN NoVerdict = Range(world.parts)
        /\ \A i \in Range(world.parts) : NoVerdict[i] = [state |-> "gone", actions |-> {}]
    BY DEF NoVerdict
  <2>2. \A v \in Range(NoVerdict) : \E i \in DOMAIN NoVerdict : v = NoVerdict[i]
    BY DEF Range
  <2> QED BY <2>1, <2>2
<1>3. Acts(r, p) \in SUBSET Actions
  BY <1>1, <1>2, TrackerAssumption DEF Acts
<1>4. \A u \in Wanted(r, p) : u \in Units(run[r].children, Acts(r, p))
  BY DEF Wanted
<1> QED BY <1>3, <1>4, Places

LEMMA Creations ==
  ASSUME TypeInv, NEW r \in Runs, NEW p \in Range(world.parts), NEW us \in SUBSET Wanted(r, p),
         NEW q \in CreateAll(us, Acts(r, p), 5)
  PROVE  /\ q \in Asks /\ q.op = "child" /\ q.for \in us /\ q.turn[1] = 5
         /\ q = Request("child", 0, q.for, <<5, Place(q.for, Acts(r, p)), 0>>)
<1>1. PICK u \in us : q = Request("child", 0, u, <<5, Place(u, Acts(r, p)), 0>>)
  BY DEF CreateAll
<1>2. u \in Fields /\ Place(u, Acts(r, p)) \in Nat
  BY WantedUnits
<1>3. <<5, Place(u, Acts(r, p)), 0>> \in Turns /\ <<5, Place(u, Acts(r, p)), 0>>[1] = 5
  BY <1>2 DEF Turns
<1> QED BY <1>1, <1>2, <1>3 DEF Request, Asks

LEMMA Others ==
  ASSUME TypeInv, NEW stage \in Nat, NEW place \in Nat,
         NEW q \in OpenParent(stage) \union Rewrite(stage) \union Touch(stage, place)
  PROVE  /\ q \in Asks /\ q.turn[1] = stage
         /\ q \in OpenParent(stage) => q.op = "openParent"
         /\ q \in Rewrite(stage) => q.op = "rewrite"
         /\ q \in Touch(stage, place) => q.op = "touch"
<1>1. Len(forge) + 1 \in Nat
  BY DEF TypeInv
<1>2. /\ <<stage, 0, 0>> \in Turns /\ <<stage, 0, 0>>[1] = stage
      /\ <<stage, place, Len(forge) + 1>> \in Turns /\ <<stage, place, Len(forge) + 1>>[1] = stage
  BY <1>1 DEF Turns
<1> QED BY <1>2 DEF OpenParent, Rewrite, Touch, Request, Asks

\* The plan of a family, whose parent is gone or stays, for some order of its fields.
NewPlan(r, p, order) ==
  CloseAll(Listed(r, p, KidFields(r, p) \ Same(r, p)), "untracked", 1, 0)
    \union CreateAll(New(r, p), Acts(r, p), 5) \union Rewrite(6) \union OpenParent(2)
    \union (UNION {CloseAll(Listed(r, p, {f}), "untracked", 3, order[f]) : f \in Same(r, p)})

LEMMA NewFamily ==
  ASSUME TypeInv, NEW r \in Runs, NEW p \in Range(world.parts), NEW plan \in KeepFamily(r, p),
         Listed(r, p, {Parent}) = {}
  PROVE  \E order \in [Same(r, p) -> Nat] : plan = NewPlan(r, p, order)
<1>1. PICK order \in Injection(Same(r, p), 1..Cardinality(Same(r, p))) :
        plan = NewPlan(r, p, order)
  BY DEF KeepFamily, NewPlan
<1>2. order \in [Same(r, p) -> 1..Cardinality(Same(r, p))]
  BY DEF Injection
<1>3. order \in [Same(r, p) -> Nat]
  BY <1>2
<1> QED BY <1>1, <1>3

OldPlan(r, p, order) ==
  CloseAll(Listed(r, p, KidFields(r, p) \ Same(r, p)), "untracked", 1, 0)
    \union CreateAll(New(r, p), Acts(r, p), 5) \union Rewrite(6)
    \union CloseAll(Newer(Listed(r, p, {Parent})), "duplicate", 2, 0)
    \union (UNION {CloseAll(Listed(r, p, {f}), "passing", 3, order[f]) :
                     f \in Same(r, p) \ Wanted(r, p)})
    \union (UNION {KeepChild(r, p, u) : u \in Kept(r, p)})
    \union Touch(7, 0)

LEMMA OldFamily ==
  ASSUME TypeInv, NEW r \in Runs, NEW p \in Range(world.parts), NEW plan \in KeepFamily(r, p),
         Listed(r, p, {Parent}) # {}
  PROVE  \E order \in [Same(r, p) \ Wanted(r, p) -> Nat] : plan = OldPlan(r, p, order)
<1>1. PICK order \in Injection(Same(r, p) \ Wanted(r, p), 1..Cardinality(Same(r, p) \ Wanted(r, p))) :
        plan = OldPlan(r, p, order)
  BY DEF KeepFamily, OldPlan
<1>2. order \in [Same(r, p) \ Wanted(r, p) -> 1..Cardinality(Same(r, p) \ Wanted(r, p))]
  BY DEF Injection
<1>3. order \in [Same(r, p) \ Wanted(r, p) -> Nat]
  BY <1>2
<1> QED BY <1>1, <1>3

\* A closing of one of some items, for a reason, in a stage.
Closing(q, S, why, stage) ==
  q \in Asks /\ q.op = "close" /\ q.item \in S /\ q.for = why /\ q.turn[1] = stage

LEMMA ManyClosings ==
  ASSUME NEW S \in SUBSET Nat, NEW why \in Whys, NEW stage \in 1..4, NEW place \in Nat
  PROVE  /\ \A q \in CloseAll(S, why, stage, place) : Closing(q, S, why, stage)
         /\ \A n \in S : \E q \in CloseAll(S, why, stage, place) :
              q.op = "close" /\ q.item = n
<1>1. ASSUME NEW q \in CloseAll(S, why, stage, place) PROVE Closing(q, S, why, stage)
  <2>1. PICK n \in S : q = Request("close", n, why, <<stage, place, n>>)
    BY <1>1 DEF CloseAll
  <2>2. <<stage, place, n>> \in Turns /\ <<stage, place, n>>[1] = stage
    BY DEF Turns
  <2> QED BY <2>1, <2>2 DEF Request, Asks, Closing
<1>2. \A n \in S : Request("close", n, why, <<stage, place, n>>) \in CloseAll(S, why, stage, place)
  BY DEF CloseAll
<1> QED BY <1>1, <1>2 DEF Request

\* What the plan of a family holds.
LEMMA FamilyMembers ==
  ASSUME TypeInv, NEW r \in Runs, NEW p \in Range(world.parts), NEW plan \in KeepFamily(r, p),
         NEW q \in plan
  PROVE  \/ Closing(q, Listed(r, p, KidFields(r, p) \ Same(r, p)), "untracked", 1)
         \/ /\ q \in Asks /\ q.op = "child" /\ q.for \in New(r, p) /\ q.turn[1] = 5
            /\ q = Request("child", 0, q.for, <<5, Place(q.for, Acts(r, p)), 0>>)
         \/ q \in Asks /\ q.op = "rewrite" /\ q.turn[1] = 6
         \/ /\ Listed(r, p, {Parent}) = {}
            /\ \/ q \in Asks /\ q.op = "openParent" /\ q.turn[1] = 2
               \/ \E f \in Same(r, p) : Closing(q, Listed(r, p, {f}), "untracked", 3)
         \/ /\ Listed(r, p, {Parent}) # {}
            /\ \/ Closing(q, Newer(Listed(r, p, {Parent})), "duplicate", 2)
               \/ \E f \in Same(r, p) \ Wanted(r, p) : Closing(q, Listed(r, p, {f}), "passing", 3)
               \/ \E u \in Kept(r, p) : Closing(q, Newer(Listed(r, p, {u})), "duplicate", 4)
               \/ q \in Asks /\ q.op = "touch"
<1>1. \A fs : Listed(r, p, fs) \in SUBSET Nat
  BY ListedNumbers
<1>2. \A fs : Newer(Listed(r, p, fs)) \in SUBSET Nat
  BY <1>1 DEF Newer
<1>w. /\ "passing" \in Whys /\ "duplicate" \in Whys /\ "untracked" \in Whys
      /\ 1 \in 1..4 /\ 2 \in 1..4 /\ 3 \in 1..4 /\ 4 \in 1..4 /\ 0 \in Nat
  BY DEF Whys
<1>3. ASSUME q \in CloseAll(Listed(r, p, KidFields(r, p) \ Same(r, p)), "untracked", 1, 0)
      PROVE  Closing(q, Listed(r, p, KidFields(r, p) \ Same(r, p)), "untracked", 1)
  BY <1>1, <1>3, <1>w, ManyClosings
<1>4. ASSUME q \in CreateAll(New(r, p), Acts(r, p), 5)
      PROVE  /\ q \in Asks /\ q.op = "child" /\ q.for \in New(r, p) /\ q.turn[1] = 5
             /\ q = Request("child", 0, q.for, <<5, Place(q.for, Acts(r, p)), 0>>)
  <2>1. New(r, p) \in SUBSET Wanted(r, p)
    BY DEF New, Lacking
  <2> QED BY <1>4, <2>1, Creations
<1>5. ASSUME q \in Rewrite(6) PROVE q \in Asks /\ q.op = "rewrite" /\ q.turn[1] = 6
  BY <1>5, Others
<1>6. CASE Listed(r, p, {Parent}) = {}
  <2>1. PICK order \in [Same(r, p) -> Nat] :
           plan = NewPlan(r, p, order)
    BY <1>6, NewFamily
  <2>2. CASE q \in OpenParent(2)
    BY <1>6, <2>2, Others
  <2>3. ASSUME NEW f \in Same(r, p), q \in CloseAll(Listed(r, p, {f}), "untracked", 3, order[f])
        PROVE  Closing(q, Listed(r, p, {f}), "untracked", 3)
    BY <1>1, <2>3, <1>w, ManyClosings
  <2> QED BY <1>3, <1>4, <1>5, <1>6, <2>1, <2>2, <2>3 DEF NewPlan
<1>7. CASE Listed(r, p, {Parent}) # {}
  <2>1. PICK order \in [Same(r, p) \ Wanted(r, p) -> Nat] :
           plan = OldPlan(r, p, order)
    BY <1>7, OldFamily
  <2>2. ASSUME q \in CloseAll(Newer(Listed(r, p, {Parent})), "duplicate", 2, 0)
        PROVE  Closing(q, Newer(Listed(r, p, {Parent})), "duplicate", 2)
    BY <1>2, <2>2, <1>w, ManyClosings
  <2>3. ASSUME NEW f \in Same(r, p) \ Wanted(r, p),
               q \in CloseAll(Listed(r, p, {f}), "passing", 3, order[f])
        PROVE  Closing(q, Listed(r, p, {f}), "passing", 3)
    BY <1>1, <2>3, <1>w, ManyClosings
  <2>4. ASSUME NEW u \in Kept(r, p), q \in KeepChild(r, p, u)
        PROVE  \/ Closing(q, Newer(Listed(r, p, {u})), "duplicate", 4)
               \/ q \in Asks /\ q.op = "touch"
    <3>1. u \in Wanted(r, p)
      BY DEF Kept
    <3>2. Place(u, Acts(r, p)) \in Nat
      BY <3>1, WantedUnits
    <3>3. CASE q \in Touch(4, Place(u, Acts(r, p)))
      BY <3>2, <3>3, Others
    <3>4. CASE q \in CloseAll(Newer(Listed(r, p, {u})), "duplicate", 4, Place(u, Acts(r, p)))
      BY <1>2, <3>2, <3>4, <1>w, ManyClosings
    <3> QED BY <2>4, <3>3, <3>4 DEF KeepChild
  <2>5. ASSUME q \in Touch(7, 0)
        PROVE  q \in Asks /\ q.op = "touch"
    BY <2>5, Others
  <2> QED BY <1>3, <1>4, <1>5, <1>7, <2>1, <2>2, <2>3, <2>4, <2>5 DEF OldPlan
<1> QED BY <1>6, <1>7

\* That a plan closes an item.
Closes(s, n) == \E c \in s : c.op = "close" /\ c.item = n

\* What the plan of a family leaves out: nothing but the one that stays for each unit.
LEMMA FamilyClears ==
  ASSUME TypeInv, NEW r \in Runs, NEW p \in Range(world.parts), NEW plan \in KeepFamily(r, p)
  PROVE  /\ \A n \in Listed(r, p, KidFields(r, p) \ Same(r, p)) : Closes(plan, n)
         /\ \A u \in New(r, p) : \E q \in plan : q.op = "child" /\ q.for = u
         /\ \E q \in plan : q.op = "rewrite"
         /\ Listed(r, p, {Parent}) = {} =>
              /\ \E q \in plan : q.op = "openParent"
              /\ \A f \in Same(r, p) : \A n \in Listed(r, p, {f}) : Closes(plan, n)
         /\ Listed(r, p, {Parent}) # {} =>
              /\ \A n \in Newer(Listed(r, p, {Parent})) : Closes(plan, n)
              /\ \A f \in Same(r, p) \ Wanted(r, p) : \A n \in Listed(r, p, {f}) : Closes(plan, n)
              /\ \A u \in Kept(r, p) : \A n \in Newer(Listed(r, p, {u})) : Closes(plan, n)
<1> DEFINE always == CloseAll(Listed(r, p, KidFields(r, p) \ Same(r, p)), "untracked", 1, 0)
                       \union CreateAll(New(r, p), Acts(r, p), 5) \union Rewrite(6)
<1>1. \A S, why, stage, place : \A n \in S : Closes(CloseAll(S, why, stage, place), n)
  <2> SUFFICES ASSUME NEW S, NEW why, NEW stage, NEW place, NEW n \in S
               PROVE  Closes(CloseAll(S, why, stage, place), n)
    OBVIOUS
  <2>1. Request("close", n, why, <<stage, place, n>>) \in CloseAll(S, why, stage, place)
    BY DEF CloseAll
  <2> QED BY <2>1 DEF Closes, Request
<1>2. \A S, T, n : S \subseteq T /\ Closes(S, n) => Closes(T, n)
  BY DEF Closes
<1>3. always \subseteq plan
  <2>1. CASE Listed(r, p, {Parent}) = {}
    <3>1. PICK order \in [Same(r, p) -> Nat] : plan = NewPlan(r, p, order)
      BY <2>1, NewFamily
    <3> QED BY <3>1 DEF NewPlan
  <2>2. CASE Listed(r, p, {Parent}) # {}
    <3>1. PICK order \in [Same(r, p) \ Wanted(r, p) -> Nat] : plan = OldPlan(r, p, order)
      BY <2>2, OldFamily
    <3> QED BY <3>1 DEF OldPlan
  <2> QED BY <2>1, <2>2
<1>4. \A n \in Listed(r, p, KidFields(r, p) \ Same(r, p)) : Closes(plan, n)
  <2>1. CloseAll(Listed(r, p, KidFields(r, p) \ Same(r, p)), "untracked", 1, 0) \subseteq plan
    BY <1>3
  <2> QED BY <1>1, <1>2, <2>1
<1>5. ASSUME NEW u \in New(r, p) PROVE \E q \in plan : q.op = "child" /\ q.for = u
  <2>1. Request("child", 0, u, <<5, Place(u, Acts(r, p)), 0>>) \in CreateAll(New(r, p), Acts(r, p), 5)
    BY DEF CreateAll
  <2> QED BY <1>3, <2>1 DEF Request
<1>6. \E q \in plan : q.op = "rewrite"
  BY <1>3 DEF Rewrite, Request
<1>7. ASSUME Listed(r, p, {Parent}) = {}
      PROVE  /\ \E q \in plan : q.op = "openParent"
             /\ \A f \in Same(r, p) : \A n \in Listed(r, p, {f}) : Closes(plan, n)
  <2>1. PICK order \in [Same(r, p) -> Nat] : plan = NewPlan(r, p, order)
    BY <1>7, NewFamily
  <2>2. \E q \in plan : q.op = "openParent"
    <3>1. OpenParent(2) \subseteq plan
      BY <2>1 DEF NewPlan
    <3> QED BY <3>1 DEF OpenParent, Request
  <2>3. ASSUME NEW f \in Same(r, p), NEW n \in Listed(r, p, {f}) PROVE Closes(plan, n)
    <3>1. CloseAll(Listed(r, p, {f}), "untracked", 3, order[f]) \subseteq plan
      BY <2>1 DEF NewPlan
    <3>2. Closes(CloseAll(Listed(r, p, {f}), "untracked", 3, order[f]), n)
      BY <1>1
    <3> QED BY <1>2, <3>1, <3>2
  <2> QED BY <2>2, <2>3
<1>8. ASSUME Listed(r, p, {Parent}) # {}
      PROVE  /\ \A n \in Newer(Listed(r, p, {Parent})) : Closes(plan, n)
             /\ \A f \in Same(r, p) \ Wanted(r, p) : \A n \in Listed(r, p, {f}) : Closes(plan, n)
             /\ \A u \in Kept(r, p) : \A n \in Newer(Listed(r, p, {u})) : Closes(plan, n)
  <2>1. PICK order \in [Same(r, p) \ Wanted(r, p) -> Nat] : plan = OldPlan(r, p, order)
    BY <1>8, OldFamily
  <2>2. \A n \in Newer(Listed(r, p, {Parent})) : Closes(plan, n)
    <3>1. CloseAll(Newer(Listed(r, p, {Parent})), "duplicate", 2, 0) \subseteq plan
      BY <2>1 DEF OldPlan
    <3>2. \A n \in Newer(Listed(r, p, {Parent})) : Closes(CloseAll(Newer(Listed(r, p, {Parent})), "duplicate", 2, 0), n)
      BY <1>1
    <3> QED BY <1>2, <3>1, <3>2
  <2>3. ASSUME NEW f \in Same(r, p) \ Wanted(r, p), NEW n \in Listed(r, p, {f})
        PROVE  Closes(plan, n)
    <3>1. CloseAll(Listed(r, p, {f}), "passing", 3, order[f]) \subseteq plan
      BY <2>1 DEF OldPlan
    <3>2. Closes(CloseAll(Listed(r, p, {f}), "passing", 3, order[f]), n)
      BY <1>1
    <3> QED BY <1>2, <3>1, <3>2
  <2>4. ASSUME NEW u \in Kept(r, p), NEW n \in Newer(Listed(r, p, {u})) PROVE Closes(plan, n)
    <3>1. CloseAll(Newer(Listed(r, p, {u})), "duplicate", 4, Place(u, Acts(r, p))) \subseteq plan
      <4>1. KeepChild(r, p, u) \subseteq plan
        BY <2>1 DEF OldPlan
      <4> QED BY <4>1 DEF KeepChild
    <3>2. Closes(CloseAll(Newer(Listed(r, p, {u})), "duplicate", 4, Place(u, Acts(r, p))), n)
      BY <1>1
    <3> QED BY <1>2, <3>1, <3>2
  <2> QED BY <2>2, <2>3, <2>4
<1> QED BY <1>4, <1>5, <1>6, <1>7, <1>8

\* What the other plans hold: closings, and what keeps or opens the one item of a part.
LEMMA OtherMembers ==
  ASSUME TypeInv, NEW r \in Runs, NEW p \in Range(world.parts)
  PROVE  /\ \A q \in KeepOpen(r, p) :
              \/ Closing(q, Listed(r, p, Fields), "untracked", 1)
              \/ Listed(r, p, {Parent}) = {} /\ q \in Asks /\ q.op = "openParent" /\ q.turn[1] = 2
              \/ /\ Listed(r, p, {Parent}) # {}
                 /\ \/ Closing(q, Newer(Listed(r, p, {Parent})), "duplicate", 2)
                    \/ q \in Asks /\ q.op = "rewrite" /\ q.turn[1] = 6
                    \/ q \in Asks /\ q.op = "touch"
         /\ \A q \in ClosePassing(r, p) :
              \/ Closing(q, Listed(r, p, Fields), "passing", 1)
              \/ Closing(q, Listed(r, p, {Parent}), "passing", 2)
<1>1. \A fs : Listed(r, p, fs) \in SUBSET Nat
  BY ListedNumbers
<1>2. \A fs : Newer(Listed(r, p, fs)) \in SUBSET Nat
  BY <1>1 DEF Newer
<1>w. /\ "passing" \in Whys /\ "duplicate" \in Whys /\ "untracked" \in Whys
      /\ 1 \in 1..4 /\ 2 \in 1..4 /\ 0 \in Nat /\ 2 \in Nat /\ 6 \in Nat /\ 7 \in Nat
  BY DEF Whys
<1>3. ASSUME NEW q \in CloseAll(Listed(r, p, Fields), "untracked", 1, 0)
      PROVE  Closing(q, Listed(r, p, Fields), "untracked", 1)
  BY <1>1, <1>w, ManyClosings
<1>4. ASSUME NEW q \in CloseAll(Newer(Listed(r, p, {Parent})), "duplicate", 2, 0)
      PROVE  Closing(q, Newer(Listed(r, p, {Parent})), "duplicate", 2)
  BY <1>2, <1>w, ManyClosings
<1>5. ASSUME NEW q \in CloseAll(Listed(r, p, Fields), "passing", 1, 0)
      PROVE  Closing(q, Listed(r, p, Fields), "passing", 1)
  BY <1>1, <1>w, ManyClosings
<1>6. ASSUME NEW q \in CloseAll(Listed(r, p, {Parent}), "passing", 2, 0)
      PROVE  Closing(q, Listed(r, p, {Parent}), "passing", 2)
  BY <1>1, <1>w, ManyClosings
<1>7. /\ \A q \in OpenParent(2) : q \in Asks /\ q.op = "openParent" /\ q.turn[1] = 2
      /\ \A q \in Rewrite(6) : q \in Asks /\ q.op = "rewrite" /\ q.turn[1] = 6
      /\ \A q \in Touch(7, 0) : q \in Asks /\ q.op = "touch"
  BY <1>w, Others
<1> QED BY <1>3, <1>4, <1>5, <1>6, <1>7 DEF KeepOpen, ClosePassing

\* What the requests for a job may be.
LEMMA WhichPlans ==
  ASSUME NEW r, NEW job \in Tasks, NEW plan \in Plans(r, job)
  PROVE  \/ /\ job.what = "keep"
            /\ \/ plan = ClosePassing(r, job.part)
               \/ plan = KeepOpen(r, job.part)
               \/ plan \in KeepFamily(r, job.part)
         \/ /\ job.what # "keep"
            /\ \/ plan = CloseAll(Listed(r, job.part, Fields), "untracked", 1, 0)
               \/ plan = CloseAll(Listed(r, job.part, {Parent}), "untracked", 1, 0)
<1>1. CASE job.what = "keep"
  BY <1>1 DEF Plans, KeepPart
<1>2. CASE job.what = "goneKids"
  BY <1>2 DEF Plans
<1>3. CASE job.what = "goneParents"
  BY <1>3 DEF Plans
<1> QED BY <1>1, <1>2, <1>3 DEF Tasks

LEMMA PlanTypes ==
  ASSUME TypeInv, NEW r \in Runs, NEW job \in Tasks, NEW plan \in Plans(r, job)
  PROVE  /\ plan \in SUBSET Asks
         /\ \A q \in plan :
              /\ Sound(q) /\ q.op \notin {"link", "unlink"}
              /\ q.op = "child" => \/ Listed(r, job.part, {Parent}) # {}
                                   \/ \E o \in plan : o.op = "openParent"
<1>1. job.part \in Range(world.parts)
  BY DEF Tasks
<1>2. \A fs : Listed(r, job.part, fs) \subseteq Numbers
  BY ListedNumbers
<1>3. \A fs : Newer(Listed(r, job.part, fs)) \subseteq Numbers
  BY <1>2 DEF Newer
<1>4. ASSUME NEW q, NEW S \in SUBSET Numbers, NEW why \in Whys, NEW stage \in 1..4,
             Closing(q, S, why, stage)
      PROVE  q \in Asks /\ Sound(q) /\ q.op = "close"
  BY <1>4 DEF Closing, Sound
<1>w. /\ "passing" \in Whys /\ "duplicate" \in Whys /\ "untracked" \in Whys
      /\ 1 \in 1..4 /\ 2 \in 1..4 /\ 3 \in 1..4 /\ 4 \in 1..4
  BY DEF Whys
<1>5. \A q \in Asks : q.op = "rewrite" /\ q.turn[1] = 6 => Sound(q)
  BY DEF Sound
<1>6. \A q \in Asks : q.op = "openParent" /\ q.turn[1] = 2 => Sound(q)
  BY DEF Sound
<1>7. \A q \in Asks : q.op = "touch" => Sound(q)
  BY DEF Sound
<1>8. CASE plan = CloseAll(Listed(r, job.part, Fields), "untracked", 1, 0)
  <2>1. \A q \in plan : Closing(q, Listed(r, job.part, Fields), "untracked", 1)
    BY <1>8, <1>w, ListedNumbers, ManyClosings
  <2> QED BY <1>2, <1>4, <1>w, <2>1
<1>9. CASE plan = CloseAll(Listed(r, job.part, {Parent}), "untracked", 1, 0)
  <2>1. \A q \in plan : Closing(q, Listed(r, job.part, {Parent}), "untracked", 1)
    BY <1>9, <1>w, ListedNumbers, ManyClosings
  <2> QED BY <1>2, <1>4, <1>w, <2>1
<1>10. CASE plan = ClosePassing(r, job.part)
  <2>1. ASSUME NEW q \in plan PROVE q \in Asks /\ Sound(q) /\ q.op = "close"
    <3>1. CASE Closing(q, Listed(r, job.part, Fields), "passing", 1)
      BY <1>2, <1>4, <1>w, <3>1
    <3>2. CASE Closing(q, Listed(r, job.part, {Parent}), "passing", 2)
      BY <1>2, <1>4, <1>w, <3>2
    <3> QED BY <1>1, <1>10, <3>1, <3>2, OtherMembers
  <2> QED BY <2>1
<1>11. CASE plan = KeepOpen(r, job.part)
  <2>1. ASSUME NEW q \in plan
        PROVE  q \in Asks /\ Sound(q) /\ q.op \notin {"link", "unlink", "child"}
    <3>1. CASE Closing(q, Listed(r, job.part, Fields), "untracked", 1)
      BY <1>2, <1>4, <1>w, <3>1
    <3>2. CASE Closing(q, Newer(Listed(r, job.part, {Parent})), "duplicate", 2)
      BY <1>3, <1>4, <1>w, <3>2
    <3> QED BY <1>1, <1>5, <1>6, <1>7, <1>11, <3>1, <3>2, OtherMembers
  <2> QED BY <2>1
<1>12. CASE plan \in KeepFamily(r, job.part)
  <2>1. ASSUME NEW q \in plan
        PROVE  q \in Asks /\ Sound(q) /\ q.op \notin {"link", "unlink"}
    <3>1. CASE Closing(q, Listed(r, job.part, KidFields(r, job.part) \ Same(r, job.part)), "untracked", 1)
      BY <1>2, <1>4, <1>w, <3>1
    <3>2. CASE q \in Asks /\ q.op = "child" /\ q.for \in New(r, job.part) /\ q.turn[1] = 5
      BY <1>1, <3>2, WantedUnits DEF Sound, New, Lacking
    <3>3. ASSUME NEW f, Closing(q, Listed(r, job.part, {f}), "untracked", 3)
                        \/ Closing(q, Listed(r, job.part, {f}), "passing", 3)
          PROVE  q \in Asks /\ Sound(q) /\ q.op = "close"
      BY <1>2, <1>4, <1>w, <3>3
    <3>4. ASSUME NEW f, Closing(q, Newer(Listed(r, job.part, {f})), "duplicate", 2)
                        \/ Closing(q, Newer(Listed(r, job.part, {f})), "duplicate", 4)
          PROVE  q \in Asks /\ Sound(q) /\ q.op = "close"
      BY <1>3, <1>4, <1>w, <3>4
    <3> QED BY <1>1, <1>5, <1>6, <1>7, <1>12, <3>1, <3>2, <3>3, <3>4, FamilyMembers
  <2>2. Listed(r, job.part, {Parent}) = {} => \E o \in plan : o.op = "openParent"
    <3> SUFFICES ASSUME Listed(r, job.part, {Parent}) = {}
                 PROVE  \E o \in plan : o.op = "openParent"
      OBVIOUS
    <3>1. PICK order \in [Same(r, job.part) -> Nat] : plan = NewPlan(r, job.part, order)
      BY <1>1, <1>12, NewFamily
    <3>2. OpenParent(2) \subseteq plan
      BY <3>1 DEF NewPlan
    <3> QED BY <3>2 DEF OpenParent, Request
  <2> QED BY <2>1, <2>2
<1>13. \/ plan = CloseAll(Listed(r, job.part, Fields), "untracked", 1, 0)
       \/ plan = CloseAll(Listed(r, job.part, {Parent}), "untracked", 1, 0)
       \/ plan = ClosePassing(r, job.part)
       \/ plan = KeepOpen(r, job.part)
       \/ plan \in KeepFamily(r, job.part)
  BY WhichPlans
<1> QED BY <1>8, <1>9, <1>10, <1>11, <1>12, <1>13

-----------------------------------------------------------------------------
(* What a step leaves of the items and of the runs.                         *)

\* Items are never taken away, and keep their part and field.
Grown ==
  /\ forge' \in Seq(Items)
  /\ Numbers \subseteq Numbers'
  /\ \A n \in Numbers : forge'[n].part = forge[n].part /\ forge'[n].field = forge[n].field
  /\ \A n \in Numbers' : forge'[n].under \in {0} \union Numbers'

\* No run knows more numbers than there are.
LEMMA RunnersGrow ==
  ASSUME TypeInv, Numbers \subseteq Numbers', world' = world
  PROVE  Runners \subseteq Runners' /\ Tasks' = Tasks /\ Asks' = Asks
<1>1. Tasks' = Tasks /\ Asks' = Asks
  BY DEF Tasks, Asks
<1>2. UNION {[S -> SUBSET Actions] : S \in SUBSET Numbers}
        \subseteq UNION {[S -> SUBSET Actions] : S \in SUBSET Numbers'}
  OBVIOUS
<1>3. NoVerdict' = NoVerdict /\ Found' = Found
  BY DEF NoVerdict, Found
<1> QED BY <1>1, <1>2, <1>3 DEF Runners

LEMMA EndedRuns == TypeInv => Fresh \in Runners /\ Ended \in Runners
<1> SUFFICES ASSUME TypeInv PROVE Fresh \in Runners /\ Ended \in Runners
  OBVIOUS
<1>1. world.parts[1] \in Range(world.parts)
  <2>1. world.parts \in Seq(Range(world.parts)) /\ world.parts # <<>>
    BY TrackerAssumption DEF TypeInv
  <2>2. 1 \in DOMAIN world.parts
    BY <2>1
  <2> QED BY <2>2 DEF Range
<1>2. NoVerdict \in [Range(world.parts) -> Found \union Range(NoVerdict)]
  <2>1. \A i \in Range(world.parts) : NoVerdict[i] \in Range(NoVerdict)
    BY DEF NoVerdict, Range
  <2> QED BY <2>1 DEF NoVerdict
<1>3. <<>> \in UNION {[S -> SUBSET Actions] : S \in SUBSET Numbers}
  OBVIOUS
<1> QED BY <1>1, <1>2, <1>3 DEF Fresh, Ended, Runners

LEMMA ClosedItems ==
  ASSUME TypeInv, NEW n \in Numbers, NEW why \in States, forge' = Closed(n, why)
  PROVE  /\ Grown /\ Numbers' = Numbers
         /\ \A m \in Numbers :
              /\ forge'[m].lists = forge[m].lists /\ forge'[m].under = forge[m].under
              /\ forge'[m].state = IF m = n /\ forge[m].state = "open" THEN why ELSE forge[m].state
<1>1. forge \in [Numbers -> Items] /\ Numbers = 1..Len(forge) /\ Len(forge) \in Nat
  BY DEF TypeInv, Numbers
<1>2. forge' \in [Numbers -> Items]
  <2>1. \A m \in Numbers :
          [forge[m] EXCEPT !.state = IF @ = "open" THEN why ELSE @] \in Items
    BY <1>1 DEF Items
  <2>2. forge' = [forge EXCEPT ![n] = [forge[n] EXCEPT !.state = IF @ = "open" THEN why ELSE @]]
    BY DEF Closed
  <2> QED BY <1>1, <2>1, <2>2
<1>3. Numbers' = Numbers /\ forge' \in Seq(Items)
  BY <1>1, <1>2 DEF Numbers
<1>4. \A m \in Numbers :
        /\ forge'[m].part = forge[m].part /\ forge'[m].field = forge[m].field
        /\ forge'[m].lists = forge[m].lists /\ forge'[m].under = forge[m].under
        /\ forge'[m].state = IF m = n /\ forge[m].state = "open" THEN why ELSE forge[m].state
  <2>1. forge[n] \in Items
    BY <1>1
  <2>2. forge' = [forge EXCEPT ![n] = [forge[n] EXCEPT !.state = IF @ = "open" THEN why ELSE @]]
    BY DEF Closed
  <2>3. /\ forge'[n] = [forge[n] EXCEPT !.state = IF @ = "open" THEN why ELSE @]
        /\ \A m \in Numbers \ {n} : forge'[m] = forge[m]
    BY <1>1, <2>2
  <2> QED BY <2>1, <2>3 DEF Items
<1> QED BY <1>3, <1>4 DEF Grown, TypeInv

LEMMA LinkedItems ==
  ASSUME TypeInv, NEW n \in Numbers, NEW m \in {0} \union Numbers,
         forge' = [forge EXCEPT ![n].under = m]
  PROVE  /\ Grown /\ Numbers' = Numbers
         /\ \A k \in Numbers : forge'[k].lists = forge[k].lists /\ forge'[k].state = forge[k].state
<1>1. forge \in [Numbers -> Items] /\ Numbers = 1..Len(forge) /\ Len(forge) \in Nat
  BY DEF TypeInv, Numbers
<1>2. forge' \in [Numbers -> Items]
  <2>1. forge[n] \in Items /\ m \in Nat
    BY <1>1
  <2>2. [forge[n] EXCEPT !.under = m] \in Items
    BY <2>1 DEF Items
  <2> QED BY <1>1, <2>2
<1>3. Numbers' = Numbers /\ forge' \in Seq(Items)
  BY <1>1, <1>2 DEF Numbers
<1>4. \A k \in Numbers :
        /\ forge'[k].part = forge[k].part /\ forge'[k].field = forge[k].field
        /\ forge'[k].lists = forge[k].lists /\ forge'[k].state = forge[k].state
        /\ forge'[k].under = IF k = n THEN m ELSE forge[k].under
  <2>1. forge[n] \in Items
    BY <1>1
  <2>2. /\ forge'[n] = [forge[n] EXCEPT !.under = m]
        /\ \A k \in Numbers \ {n} : forge'[k] = forge[k]
    BY <1>1
  <2> QED BY <2>1, <2>2 DEF Items
<1> QED BY <1>3, <1>4 DEF Grown, TypeInv

LEMMA RewrittenItems ==
  ASSUME TypeInv, NEW n \in {0} \union Numbers, NEW lists \in SUBSET Actions,
         forge' = [forge EXCEPT ![n].lists = lists]
  PROVE  /\ Grown /\ Numbers' = Numbers
         /\ \A k \in Numbers :
              /\ forge'[k].state = forge[k].state /\ forge'[k].under = forge[k].under
              /\ forge'[k].lists = IF k = n THEN lists ELSE forge[k].lists
<1>1. forge \in [Numbers -> Items] /\ Numbers = 1..Len(forge) /\ Len(forge) \in Nat
  BY DEF TypeInv, Numbers
<1>2. forge' \in [Numbers -> Items]
  <2>1. \A k \in Numbers : [forge[k] EXCEPT !.lists = lists] \in Items
    BY <1>1 DEF Items
  <2> QED BY <1>1, <2>1
<1>3. Numbers' = Numbers /\ forge' \in Seq(Items)
  BY <1>1, <1>2 DEF Numbers
<1>4. \A k \in Numbers :
        /\ forge'[k].part = forge[k].part /\ forge'[k].field = forge[k].field
        /\ forge'[k].state = forge[k].state /\ forge'[k].under = forge[k].under
        /\ forge'[k].lists = IF k = n THEN lists ELSE forge[k].lists
  <2>1. \A k \in Numbers :
          forge[k] \in Items /\ forge'[k] = IF k = n THEN [forge[k] EXCEPT !.lists = lists] ELSE forge[k]
    BY <1>1
  <2> QED BY <2>1 DEF Items
<1> QED BY <1>3, <1>4 DEF Grown, TypeInv

LEMMA CreatedItems ==
  ASSUME TypeInv, NEW r \in Runs, NEW field \in Fields \union {Parent}, NEW lists \in SUBSET Actions,
         NewItem(r, field, lists)
  PROVE  /\ Grown /\ Numbers' = Numbers \union {Len(forge) + 1} /\ Len(forge) + 1 \notin Numbers
         /\ Len(forge) + 1 \in Nat /\ \A n \in Numbers : n < Len(forge) + 1
         /\ \A n \in Numbers : forge'[n] = forge[n]
         /\ forge'[Len(forge) + 1] = [part |-> run[r].part, field |-> field, state |-> "open",
                                     lists |-> lists, under |-> 0]
<1> DEFINE item == [part |-> run[r].part, field |-> field, state |-> "open",
                    lists |-> lists, under |-> 0]
<1>1. forge \in Seq(Items) /\ Numbers = 1..Len(forge) /\ Len(forge) \in Nat
  BY DEF TypeInv, Numbers
<1>2. item \in Items
  <2>1. run[r].part \in Range(world.parts)
    BY DEF TypeInv, Runners
  <2>2. run[r].part \in Parts
    BY <2>1 DEF Parts, TypeInv
  <2> QED BY <2>2 DEF Items, States
<1> HIDE DEF item
<1>3. forge' = Append(forge, item)
  BY DEF NewItem, item
<1>4. /\ forge' \in Seq(Items) /\ DOMAIN forge' = 1..(Len(forge) + 1)
      /\ \A n \in 1..Len(forge) : forge'[n] = forge[n]
      /\ forge'[Len(forge) + 1] = item
  BY <1>1, <1>2, <1>3
<1>5. Numbers' = Numbers \union {Len(forge) + 1} /\ Len(forge) + 1 \notin Numbers
  BY <1>1, <1>4 DEF Numbers
<1>6. item.under = 0
  BY DEF item
<1> QED BY <1>1, <1>4, <1>5, <1>6 DEF Grown, TypeInv, item

-----------------------------------------------------------------------------
(* Every step keeps the types.                                              *)

\* A run may come to know what it can justify.
LEMMA RunMoves ==
  ASSUME TypeInv, Numbers \subseteq Numbers', world' = world,
         /\ forge' \in Seq(Items)
         /\ \A n \in Numbers' : forge'[n].under \in {0} \union Numbers',
         trouble' \in 0..MaxTrouble,
         NEW r \in Runs, NEW s \in Runners', run' = [run EXCEPT ![r] = s],
         Parented(s), \A q \in s.todo : Sound(q)'
  PROVE  TypeInv'
<1>1. Runners \subseteq Runners'
  BY RunnersGrow
<1>2. run \in [Runs -> Runners]
  BY DEF TypeInv
<1>3. run' \in [Runs -> Runners']
  BY <1>1, <1>2
<1>4. \A q : Sound(q) => Sound(q)'
  BY DEF Sound
<1>5. ASSUME NEW t \in Runs
      PROVE  Parented(run[t])' /\ \A q \in run'[t].todo : Sound(q)'
  <2>1. CASE t = r
    <3>1. run'[t] = s
      BY <1>2, <2>1
    <3> QED BY <3>1 DEF Parented
  <2>2. CASE t # r
    <3>1. run'[t] = run[t]
      BY <1>2, <2>2
    <3>2. Parented(run[t]) /\ \A q \in run[t].todo : Sound(q)
      BY DEF TypeInv
    <3> QED BY <1>4, <3>1, <3>2 DEF Parented
  <2> QED BY <2>1, <2>2
<1> QED BY <1>3, <1>5 DEF TypeInv

LEMMA SameItems ==
  ASSUME TypeInv, forge' = forge
  PROVE  Grown /\ Numbers' = Numbers
BY DEF TypeInv, Grown, Numbers

LEMMA Ends ==
  /\ TypeInv => Ended \in Runners
  /\ Ended.todo = {} /\ Ended.jobs = {} /\ Ended.clean = {} /\ Ended.phase = "ended"
  /\ Parented(Ended) /\ \A q \in Ended.todo : Sound(q)'
BY EndedRuns DEF Ended, Fresh, Parented

\* What is left of a run when a request is done or fails.
LEMMA AfterRequest ==
  ASSUME TypeInv, NEW r \in Runs, NEW q \in Due(run[r].todo)
  PROVE  /\ q \in run[r].todo /\ q \in Asks /\ Sound(q)
         /\ Done(r, q) \in Runners
         /\ Done(r, q) = [run[r] EXCEPT !.todo = run[r].todo \ {q}]
         /\ q.op # "openParent" => Parented(Done(r, q))
         /\ \A s \in Done(r, q).todo : Sound(s)
         /\ Abandon(r, q) \in Runners /\ Parented(Abandon(r, q))
         /\ \A s \in Abandon(r, q).todo :
              /\ Sound(s) /\ s.op = "unlink" /\ s.item = q.item /\ q.op = "link"
         /\ run[r].todo \in SUBSET Asks /\ run[r] \in Runners
<1>1. run[r] \in Runners /\ run[r].todo \in SUBSET Asks
  BY DEF TypeInv, Runners
<1>2. q \in run[r].todo /\ q \in Asks /\ Sound(q)
  BY <1>1 DEF Due, TypeInv
<1>3. Done(r, q) \in Runners /\ Done(r, q).todo = run[r].todo \ {q} /\ Done(r, q).parent = run[r].parent
  BY <1>1 DEF Done, Runners
<1>4. q.op # "openParent" => Parented(Done(r, q))
  BY <1>3 DEF Parented, TypeInv
<1>5. \A s \in Done(r, q).todo : Sound(s)
  BY <1>3 DEF TypeInv
<1> DEFINE un == Request("unlink", q.item, Parent, q.turn)
<1>6. q.item \in Nat /\ q.turn \in Turns
  BY <1>2 DEF Asks
<1>7. un \in Asks /\ un.op = "unlink" /\ un.item = q.item /\ un.turn = q.turn
  BY <1>6 DEF Request, Asks
<1>8. q.op = "link" => Sound(un)
  BY <1>2, <1>7 DEF Sound
<1> HIDE DEF un
<1>9. Abandon(r, q) = [run[r] EXCEPT !.clean = run[r].clean \ {run[r].part},
                                     !.todo = IF q.op = "link" THEN {un} ELSE {}]
  BY DEF Abandon, un
<1>10. /\ Abandon(r, q) \in Runners
       /\ Abandon(r, q).todo = IF q.op = "link" THEN {un} ELSE {}
  <2> DEFINE left == IF q.op = "link" THEN {un} ELSE {}
             clean == run[r].clean \ {run[r].part}
  <2>1. left \in SUBSET Asks
    BY <1>7
  <2>2. clean \in SUBSET Range(world.parts)
    BY <1>1 DEF Runners
  <2>3. Abandon(r, q) = [run[r] EXCEPT !.clean = clean, !.todo = left]
    BY <1>9
  <2> HIDE DEF left, clean
  <2>4. Abandon(r, q) \in Runners /\ Abandon(r, q).todo = left
    BY <1>1, <2>1, <2>2, <2>3 DEF Runners
  <2> QED BY <2>4 DEF left
<1>11. /\ Parented(Abandon(r, q))
       /\ \A s \in Abandon(r, q).todo :
            Sound(s) /\ s.op = "unlink" /\ s.item = q.item /\ q.op = "link"
  BY <1>7, <1>8, <1>10 DEF Parented
<1> QED BY <1>1, <1>2, <1>3, <1>4, <1>5, <1>10, <1>11 DEF Done

\* A request that is answered, or whose answer is lost, keeps the types.
LEMMA AnswerTypes ==
  ASSUME TypeInv, Grown, world' = world, NEW r \in Runs, NEW q \in Due(run[r].todo),
         NEW s \in Runners', Parented(s), \A a \in s.todo : Sound(a)', Answer(r, q, s)
  PROVE  TypeInv'
<1>1. Runners \subseteq Runners'
  BY RunnersGrow DEF Grown
<1>2. \A a : Sound(a) => Sound(a)'
  BY DEF Sound, Grown
<1>3. CASE run' = [run EXCEPT ![r] = s] /\ UNCHANGED trouble
  <2>1. trouble' \in 0..MaxTrouble
    BY <1>3 DEF TypeInv
  <2> QED BY <1>3, <2>1, RunMoves DEF Grown
<1>4. CASE run' = [run EXCEPT ![r] = Abandon(r, q)] /\ Trouble
  <2>1. trouble' \in 0..MaxTrouble
    BY <1>4, TrackerAssumption DEF TypeInv, Trouble
  <2>2. /\ Abandon(r, q) \in Runners' /\ Parented(Abandon(r, q))
        /\ \A a \in Abandon(r, q).todo : Sound(a)'
    BY <1>1, <1>2, AfterRequest
  <2> QED BY <1>4, <2>1, <2>2, RunMoves DEF Grown
<1> QED BY <1>3, <1>4 DEF Answer

LEMMA JobTasks ==
  ASSUME TypeInv, NEW verdict
  PROVE  Jobs(verdict) \in SUBSET Tasks
<1>1. \A i \in DOMAIN world.parts : world.parts[i] \in Range(world.parts)
  BY DEF Range
<1>2. DOMAIN world.parts \subseteq Nat
  BY TrackerAssumption DEF TypeInv
<1>3. ASSUME NEW i \in DOMAIN world.parts, NEW what \in {"keep", "goneKids", "goneParents"},
             NEW stage \in Nat
      PROVE  [part |-> world.parts[i], what |-> what, turn |-> <<stage, i, 0>>] \in Tasks
  BY <1>1, <1>2 DEF Tasks, Turns
<1> QED BY <1>3 DEF Jobs

\* What a run that begins knows.
Begun(r, verdict, children) ==
  [Fresh EXCEPT
     !.phase = "active", !.verdict = verdict, !.children = children,
     !.saw = [n \in {m \in Numbers : IsOpen(m)} |-> forge[n].lists],
     !.jobs = Jobs(verdict),
     !.clean = IF \E o \in Runs : Active(o) THEN {} ELSE Range(world.parts)]

LEMMA BegunRuns ==
  ASSUME NEW r, NEW verdict, NEW children
  PROVE  /\ Begun(r, verdict, children).phase = "active"
         /\ Begun(r, verdict, children).verdict = verdict
         /\ Begun(r, verdict, children).children = children
         /\ Begun(r, verdict, children).saw = [n \in {m \in Numbers : IsOpen(m)} |-> forge[n].lists]
         /\ Begun(r, verdict, children).jobs = Jobs(verdict)
         /\ Begun(r, verdict, children).todo = {}
         /\ Begun(r, verdict, children).made = {}
         /\ Begun(r, verdict, children).clean =
              IF \E o \in Runs : Active(o) THEN {} ELSE Range(world.parts)
BY DEF Begun, Fresh

LEMMA StartRuns ==
  ASSUME TypeInv, NEW r \in Runs, Start(r)
  PROVE  /\ run[r].phase = "waiting"
         /\ forge' = forge /\ trouble' = trouble
         /\ \E verdict \in [Range(world.parts) -> Found], children \in world.children :
              /\ \A p \in Range(world.parts) : verdict[p] \in world.verdicts[p]
              /\ run'[r] = Begun(r, verdict, children) /\ Begun(r, verdict, children) \in Runners
         /\ \A s \in Runs \ {r} :
              run'[s] = IF run[s].phase = "ended" THEN Ended ELSE [run[s] EXCEPT !.clean = {}]
         /\ DOMAIN run' = Runs
<1>1. PICK verdict \in [Range(world.parts) -> Found], children \in world.children :
        /\ \A p \in Range(world.parts) : verdict[p] \in world.verdicts[p]
        /\ run' = [s \in Runs |->
             IF s = r THEN Begun(r, verdict, children)
             ELSE IF run[s].phase = "ended" THEN Ended
             ELSE [run[s] EXCEPT !.clean = {}]]
  BY DEF Start, Begun
<1>2. Jobs(verdict) \in SUBSET Tasks
  BY JobTasks
<1> DEFINE open == {m \in Numbers : IsOpen(m)}
           saw == [n \in open |-> forge[n].lists]
           clean == IF \E o \in Runs : Active(o) THEN {} ELSE Range(world.parts)
<1>3. saw \in UNION {[S -> SUBSET Actions] : S \in SUBSET Numbers}
  <2>1. \A n \in open : forge[n].lists \in SUBSET Actions
    <3>1. \A n \in Numbers : forge[n] \in Items
      BY DEF TypeInv, Numbers
    <3> QED BY <3>1 DEF Items
  <2>2. saw \in [open -> SUBSET Actions]
    BY <2>1
  <2> QED BY <2>2
<1>4. children \in world.children \union {"none"}
  OBVIOUS
<1>5. verdict \in [Range(world.parts) -> Found \union Range(NoVerdict)]
  OBVIOUS
<1>6. clean \in SUBSET Range(world.parts)
  OBVIOUS
<1>7. Begun(r, verdict, children) =
        [Fresh EXCEPT !.phase = "active", !.verdict = verdict, !.children = children,
                      !.saw = saw, !.jobs = Jobs(verdict), !.clean = clean]
  BY DEF Begun
<1> HIDE DEF saw, clean
<1>8. Begun(r, verdict, children) \in Runners
  <2>1. Fresh \in Runners
    BY EndedRuns
  <2> DEFINE listed == [Fresh EXCEPT !.saw = saw, !.jobs = Jobs(verdict), !.clean = clean]
  <2>2. listed \in Runners
    <3> HIDE DEF Fresh
    <3> QED BY <1>2, <1>3, <1>6, <2>1 DEF Runners
  <2> HIDE DEF listed
  <2>3. [listed EXCEPT !.phase = "active", !.verdict = verdict, !.children = children] \in Runners
    BY <1>4, <1>5, <2>2 DEF Runners
  <2>4. Begun(r, verdict, children) =
          [listed EXCEPT !.phase = "active", !.verdict = verdict, !.children = children]
    BY <1>7, <2>1 DEF listed, Runners
  <2> QED BY <2>3, <2>4
<1>9. run[r].phase = "waiting" /\ forge' = forge /\ trouble' = trouble
  BY DEF Start
<1> QED BY <1>1, <1>8, <1>9

LEMMA StartTypes ==
  ASSUME TypeInv, NEW r \in Runs, Start(r), world' = world
  PROVE  TypeInv'
<1>1. /\ forge' = forge /\ trouble' = trouble
      /\ run'[r] \in Runners /\ run'[r].todo = {}
      /\ \A s \in Runs \ {r} :
           run'[s] = IF run[s].phase = "ended" THEN Ended ELSE [run[s] EXCEPT !.clean = {}]
      /\ DOMAIN run' = Runs
  <2>1. PICK verdict, children : /\ run'[r] = Begun(r, verdict, children)
                                 /\ Begun(r, verdict, children) \in Runners
    BY StartRuns
  <2>2. Begun(r, verdict, children).todo = {}
    BY BegunRuns
  <2> QED BY <2>1, <2>2, StartRuns
<1>2. Runners' = Runners /\ Numbers' = Numbers
  BY <1>1 DEF Runners, Numbers, Tasks, Asks, NoVerdict, Found
<1>3. ASSUME NEW s \in Runs
      PROVE  run'[s] \in Runners /\ Parented(run'[s]) /\ \A q \in run'[s].todo : Sound(q)
  <2>1. CASE s = r
    BY <1>1, <2>1 DEF Parented
  <2>2. CASE s # r /\ run[s].phase = "ended"
    BY <1>1, <2>2, Ends, EndedRuns DEF Parented
  <2>3. CASE s # r /\ run[s].phase # "ended"
    <3>1. run'[s] = [run[s] EXCEPT !.clean = {}]
      BY <1>1, <2>3
    <3>2. run[s] \in Runners /\ Parented(run[s]) /\ \A q \in run[s].todo : Sound(q)
      BY DEF TypeInv
    <3>3. run'[s] \in Runners /\ run'[s].todo = run[s].todo /\ run'[s].parent = run[s].parent
      BY <3>1, <3>2 DEF Runners
    <3> QED BY <3>2, <3>3 DEF Parented
  <2> QED BY <2>1, <2>2, <2>3
<1>4. \A q : Sound(q)' <=> Sound(q)
  BY <1>2 DEF Sound
<1>5. run' \in [Runs -> Runners']
  <2>1. run' = [s \in Runs |-> run'[s]]
    BY DEF Start
  <2> QED BY <1>2, <1>3, <2>1
<1> QED BY <1>1, <1>2, <1>3, <1>4, <1>5 DEF TypeInv, Parented

\* A run that ends before its time, or at it.
LEMMA EndTypes ==
  ASSUME TypeInv, NEW r \in Runs, forge' = forge, world' = world, trouble' \in 0..MaxTrouble,
         NEW s \in Runners, s.todo = {}, run' = [run EXCEPT ![r] = s]
  PROVE  TypeInv'
<1>1. Grown /\ Numbers' = Numbers
  BY SameItems
<1>2. s \in Runners'
  BY <1>1, RunnersGrow
<1>3. Parented(s) /\ \A q \in s.todo : Sound(q)'
  BY DEF Parented
<1> QED BY <1>1, <1>2, <1>3, RunMoves DEF Grown

LEMMA WrittenActions ==
  ASSUME TypeInv, NEW r \in Runs, NEW p \in Range(world.parts), NEW have
  PROVE  Body(r, p, have) \in SUBSET Actions /\ Written(r, p) \in SUBSET Actions
BY WantedUnits DEF Body, Written

LEMMA TakenRuns ==
  ASSUME TypeInv, NEW r \in Runs, Take(r)
  PROVE  /\ Active(r) /\ run[r].todo = {} /\ forge' = forge /\ trouble' = trouble
         /\ \E job \in Due(run[r].jobs) : \E plan \in Plans(r, job) :
              /\ job \in run[r].jobs /\ job \in Tasks
              /\ run' = [run EXCEPT ![r] = Taken(r, job, plan)]
              /\ run'[r] = Taken(r, job, plan)
              /\ Taken(r, job, plan) \in Runners
              /\ Parented(Taken(r, job, plan))
              /\ \A q \in plan : Sound(q) /\ q \in Asks
              /\ run'[r].phase = "active" /\ run'[r].verdict = run[r].verdict
              /\ run'[r].children = run[r].children /\ run'[r].saw = run[r].saw
              /\ run'[r].jobs = run[r].jobs \ {job} /\ run'[r].part = job.part
              /\ run'[r].todo = plan /\ run'[r].made = {} /\ run'[r].clean = run[r].clean
              /\ Listed(r, job.part, {Parent}) = {} => run'[r].parent = 0
                   /\ run'[r].body = Written(r, job.part)
              /\ Listed(r, job.part, {Parent}) # {} =>
                   /\ run'[r].parent = Min(Listed(r, job.part, {Parent}))
                   /\ run'[r].body = run[r].saw[Min(Listed(r, job.part, {Parent}))]
<1>0. PICK job \in Due(run[r].jobs) : \E plan \in Plans(r, job) :
        run' = [run EXCEPT ![r] = Taken(r, job, plan)]
  BY DEF Take
<1>1. PICK plan \in Plans(r, job) : run' = [run EXCEPT ![r] = Taken(r, job, plan)]
  BY <1>0
<1>2. job \in run[r].jobs /\ job \in Tasks /\ job.part \in Range(world.parts)
  BY DEF Due, TypeInv, Runners, Tasks
<1>3. plan \in SUBSET Asks /\ \A q \in plan : Sound(q) /\ q.op # "link"
  BY <1>2, PlanTypes
<1> DEFINE parents == Listed(r, job.part, {Parent})
           parent == IF parents = {} THEN 0 ELSE Min(parents)
           body == IF parents = {} THEN Written(r, job.part) ELSE run[r].saw[Min(parents)]
<1>4. parents # {} => Min(parents) \in Numbers /\ Min(parents) \in DOMAIN run[r].saw /\ Min(parents) # 0
  <2> SUFFICES ASSUME parents # {}
               PROVE  Min(parents) \in Numbers /\ Min(parents) \in DOMAIN run[r].saw /\ Min(parents) # 0
    OBVIOUS
  <2>1. Min(parents) \in parents
    BY ListedNumbers, Least
  <2>2. 0 \notin Numbers
    BY DEF TypeInv, Numbers
  <2> QED BY <2>1, <2>2, ListedNumbers
<1>5. parent \in {0} \union Numbers
  BY <1>4
<1>6. body \in SUBSET Actions
  <2>1. run[r].saw \in UNION {[S -> SUBSET Actions] : S \in SUBSET Numbers}
    BY DEF TypeInv, Runners
  <2>2. \A n \in DOMAIN run[r].saw : run[r].saw[n] \in SUBSET Actions
    BY <2>1
  <2> QED BY <1>2, <1>4, <2>2, WrittenActions
<1>7. Taken(r, job, plan) =
        [run[r] EXCEPT !.jobs = run[r].jobs \ {job}, !.part = job.part, !.todo = plan,
                       !.parent = parent, !.body = body, !.made = {}]
  BY DEF Taken
<1>8. run[r] \in Runners
  BY DEF TypeInv
<1>9. run[r].jobs \ {job} \in SUBSET Tasks
  BY <1>8 DEF Runners
<1>10. parents = {} => parent = 0 /\ body = Written(r, job.part)
  OBVIOUS
<1>11. parents # {} => parent = Min(parents) /\ body = run[r].saw[Min(parents)]
  OBVIOUS
<1> HIDE DEF parents, parent, body
<1>12. /\ Taken(r, job, plan) \in Runners
       /\ Taken(r, job, plan).phase = run[r].phase /\ Taken(r, job, plan).verdict = run[r].verdict
       /\ Taken(r, job, plan).children = run[r].children /\ Taken(r, job, plan).saw = run[r].saw
       /\ Taken(r, job, plan).jobs = run[r].jobs \ {job} /\ Taken(r, job, plan).part = job.part
       /\ Taken(r, job, plan).todo = plan /\ Taken(r, job, plan).made = {}
       /\ Taken(r, job, plan).clean = run[r].clean
       /\ Taken(r, job, plan).parent = parent /\ Taken(r, job, plan).body = body
  <2>1. Taken(r, job, plan) =
          [phase |-> run[r].phase, verdict |-> run[r].verdict, children |-> run[r].children,
           saw |-> run[r].saw, jobs |-> run[r].jobs \ {job}, part |-> job.part, todo |-> plan,
           parent |-> parent, body |-> body, made |-> {}, clean |-> run[r].clean]
    BY <1>7, <1>8 DEF Runners
  <2>2. /\ job.part \in Range(world.parts) /\ plan \in SUBSET Asks
        /\ parent \in {0} \union Numbers /\ body \in SUBSET Actions
    BY <1>2, <1>3, <1>5, <1>6
  <2> QED BY <1>8, <1>9, <2>1, <2>2 DEF Runners
<1>13. run'[r] = Taken(r, job, plan)
  BY <1>1 DEF TypeInv
<1>14. Parented(Taken(r, job, plan))
  <2>1. ASSUME NEW q \in plan, q.op = "child"
        PROVE  parent # 0 \/ \E o \in plan : o.op = "openParent"
    BY <1>2, <1>4, <1>11, <2>1, PlanTypes DEF parents
  <2> QED BY <1>3, <1>12, <2>1 DEF Parented
<1>15. Active(r) /\ run[r].todo = {} /\ forge' = forge /\ trouble' = trouble
  BY DEF Take
<1> QED BY <1>1, <1>2, <1>3, <1>10, <1>11, <1>12, <1>13, <1>14, <1>15 DEF parents, Active

LEMMA TakeTypes ==
  ASSUME TypeInv, NEW r \in Runs, Take(r), world' = world
  PROVE  TypeInv'
<1>0. PICK job \in Tasks : \E plan \in Plans(r, job) :
        /\ run' = [run EXCEPT ![r] = Taken(r, job, plan)]
        /\ Taken(r, job, plan) \in Runners /\ Parented(Taken(r, job, plan))
        /\ Taken(r, job, plan).todo = plan
        /\ \A q \in plan : Sound(q)
  BY TakenRuns
<1>1. PICK plan \in Plans(r, job) :
        /\ run' = [run EXCEPT ![r] = Taken(r, job, plan)]
        /\ Taken(r, job, plan) \in Runners /\ Parented(Taken(r, job, plan))
        /\ Taken(r, job, plan).todo = plan
        /\ \A q \in plan : Sound(q)
  BY <1>0
<1>2. forge' = forge /\ trouble' = trouble
  BY TakenRuns
<1>3. Grown /\ Numbers' = Numbers
  BY <1>2, SameItems
<1>4. Taken(r, job, plan) \in Runners' /\ \A q \in plan : Sound(q)'
  BY <1>1, <1>3, RunnersGrow DEF Sound
<1>5. trouble' \in 0..MaxTrouble
  BY <1>2 DEF TypeInv
<1> QED BY <1>1, <1>3, <1>4, <1>5, RunMoves DEF Grown

\* What a run knows when it has ended, nothing having disturbed some of its parts.
Finished(r) ==
  IF run[r].clean = {} THEN Ended
  ELSE [Ended EXCEPT !.verdict = run[r].verdict, !.children = run[r].children,
                     !.clean = run[r].clean]

LEMMA FinishedRuns ==
  ASSUME TypeInv, NEW r \in Runs
  PROVE  /\ Finished(r) \in Runners /\ Finished(r).todo = {} /\ Finished(r).jobs = {}
         /\ Finished(r).phase = "ended" /\ Finished(r).clean = run[r].clean
         /\ run[r].clean # {} => /\ Finished(r).verdict = run[r].verdict
                                 /\ Finished(r).children = run[r].children
         /\ Finish(r) => run' = [run EXCEPT ![r] = Finished(r)] /\ run'[r] = Finished(r)
<1>1. run[r] \in Runners
  BY DEF TypeInv
<1>2. /\ run[r].verdict \in [Range(world.parts) -> Found \union Range(NoVerdict)]
      /\ run[r].children \in world.children \union {"none"}
      /\ run[r].clean \in SUBSET Range(world.parts)
  BY <1>1 DEF Runners
<1>3. Ended \in Runners /\ Ended.todo = {} /\ Ended.jobs = {} /\ Ended.clean = {} /\ Ended.phase = "ended"
  BY Ends
<1>4. CASE run[r].clean = {}
  BY <1>3, <1>4 DEF Finish, Finished, TypeInv
<1>5. CASE run[r].clean # {}
  <2>1. Finished(r) = [Ended EXCEPT !.verdict = run[r].verdict, !.children = run[r].children,
                                    !.clean = run[r].clean]
    BY <1>5 DEF Finished
  <2>2. /\ Finished(r) \in Runners /\ Finished(r).todo = {} /\ Finished(r).jobs = {}
        /\ Finished(r).phase = "ended" /\ Finished(r).clean = run[r].clean
        /\ Finished(r).verdict = run[r].verdict /\ Finished(r).children = run[r].children
    BY <1>2, <1>3, <2>1 DEF Runners
  <2>3. Finish(r) => run' = [run EXCEPT ![r] = Finished(r)]
    BY <1>5, <2>1 DEF Finish
  <2> QED BY <2>2, <2>3 DEF TypeInv
<1> QED BY <1>4, <1>5

\* What a run knows when it has created a child.
Born(r, q) ==
  [Done(r, q) EXCEPT
     !.todo = @ \union {Request("link", Len(forge) + 1, Parent, <<0, 0, 0>>)},
     !.made = @ \union {q.for}]

\* A child is created for a parent the run knows, when nothing else is left but children.
LEMMA ChildTurn ==
  ASSUME TypeInv, NEW r \in Runs, NEW q \in Due(run[r].todo), q.op = "child"
  PROVE  /\ run[r].parent # 0
         /\ \A s \in run[r].todo : s.op \in {"child", "rewrite", "touch"}
<1>1. /\ \A s \in run[r].todo : Sound(s) /\ s \in Asks /\ q.turn[1] <= s.turn[1]
      /\ q \in run[r].todo
  BY AfterRequest, DueFirst DEF TypeInv
<1>2. q.turn[1] = 5
  BY <1>1 DEF Sound
<1>3. \A s \in run[r].todo : s.op \in {"child", "rewrite", "touch"}
  <2> SUFFICES ASSUME NEW s \in run[r].todo PROVE s.op \in {"child", "rewrite", "touch"}
    OBVIOUS
  <2>1. Sound(s) /\ s \in Asks /\ 5 <= s.turn[1]
    BY <1>1, <1>2
  <2>2. s.op \in {"close", "touch", "openParent", "rewrite", "child", "link", "unlink"}
    BY <2>1 DEF Asks
  <2> QED BY <2>1, <2>2 DEF Sound
<1>4. run[r].parent # 0 \/ \E o \in run[r].todo : o.op = "openParent"
  BY <1>1 DEF TypeInv, Parented
<1> QED BY <1>3, <1>4

LEMMA BornRuns ==
  ASSUME TypeInv, NEW r \in Runs, NEW q \in Due(run[r].todo), q.op = "child",
         Numbers' = Numbers \union {Len(forge) + 1}, world' = world
  PROVE  /\ Born(r, q) \in Runners' /\ Parented(Born(r, q))
         /\ \A s \in Born(r, q).todo : Sound(s)'
         /\ Born(r, q) = [run[r] EXCEPT
              !.todo = (run[r].todo \ {q}) \union {Request("link", Len(forge) + 1, Parent, <<0, 0, 0>>)},
              !.made = run[r].made \union {q.for}]
<1> DEFINE link == Request("link", Len(forge) + 1, Parent, <<0, 0, 0>>)
           todo == (run[r].todo \ {q}) \union {link}
           made == run[r].made \union {q.for}
<1>1. Len(forge) + 1 \in Nat /\ <<0, 0, 0>> \in Turns /\ <<0, 0, 0>>[1] = 0
  BY DEF TypeInv, Turns
<1>2. link \in Asks /\ link.op = "link" /\ link.item = Len(forge) + 1 /\ link.turn[1] = 0
  BY <1>1 DEF Request, Asks
<1>3. /\ q \in run[r].todo /\ Sound(q) /\ run[r] \in Runners /\ run[r].todo \in SUBSET Asks
      /\ Done(r, q) = [run[r] EXCEPT !.todo = run[r].todo \ {q}]
  BY AfterRequest
<1>4. q.for \in Fields /\ run[r].parent # 0
  BY <1>3, ChildTurn DEF Sound
<1>5. todo \in SUBSET Asks /\ made \in SUBSET Fields
  BY <1>2, <1>3, <1>4 DEF Runners
<1>6. Born(r, q) = [run[r] EXCEPT !.todo = todo, !.made = made]
  BY <1>3 DEF Born, Runners
<1>7. \A s \in todo : Sound(s)'
  <2>1. \A s \in run[r].todo : Sound(s)
    BY DEF TypeInv
  <2>2. \A s : s = link => Sound(s)'
    BY <1>2 DEF Sound
  <2>3. \A s : Sound(s) => Sound(s)'
    BY DEF Sound
  <2> QED BY <2>1, <2>2, <2>3
<1> HIDE DEF todo, made
<1>9. /\ Born(r, q) \in Runners /\ Born(r, q).todo = todo /\ Born(r, q).parent = run[r].parent
  BY <1>3, <1>5, <1>6 DEF Runners
<1>10. Parented(Born(r, q))
  BY <1>4, <1>9 DEF Parented
<1> QED BY <1>6, <1>7, <1>9, <1>10, RunnersGrow DEF todo, made

\* A create that is sent again, and what is left of a run whose create is.
Again(q) == [q EXCEPT !.sent = q.sent + 1]
Bounced(r, q) ==
  [run[r] EXCEPT !.todo = (run[r].todo \ {q}) \union {Again(q)},
                 !.clean = run[r].clean \ {run[r].part}]

LEMMA BouncedRuns ==
  ASSUME TypeInv, NEW r \in Runs, NEW q \in Due(run[r].todo), q.op \in {"openParent", "child"}
  PROVE  /\ Again(q) \in Asks /\ Sound(Again(q)) /\ q.sent \in Nat
         /\ Again(q).op = q.op /\ Again(q).for = q.for /\ Again(q).sent = q.sent + 1
         /\ Again(q) # q
         /\ Bounced(r, q) \in Runners /\ Parented(Bounced(r, q))
         /\ \A s \in Bounced(r, q).todo : Sound(s)
         /\ Bounced(r, q).phase = run[r].phase /\ Bounced(r, q).verdict = run[r].verdict
         /\ Bounced(r, q).children = run[r].children /\ Bounced(r, q).saw = run[r].saw
         /\ Bounced(r, q).jobs = run[r].jobs /\ Bounced(r, q).part = run[r].part
         /\ Bounced(r, q).todo = (run[r].todo \ {q}) \union {Again(q)}
         /\ Bounced(r, q).clean = run[r].clean \ {run[r].part}
         /\ Bounced(r, q).parent = run[r].parent
<1>1. /\ q \in run[r].todo /\ q \in Asks /\ Sound(q)
      /\ run[r].todo \in SUBSET Asks /\ run[r] \in Runners
  BY AfterRequest
<1>2. /\ Again(q) \in Asks /\ q.sent \in Nat
      /\ Again(q).op = q.op /\ Again(q).for = q.for /\ Again(q).sent = q.sent + 1
      /\ Again(q).turn = q.turn /\ Again(q).item = q.item
  BY <1>1 DEF Again, Asks
<1>3. Again(q) # q
  BY <1>2
<1>4. Sound(Again(q))
  BY <1>1, <1>2 DEF Sound
<1> DEFINE todo == (run[r].todo \ {q}) \union {Again(q)}
           clean == run[r].clean \ {run[r].part}
<1>5. todo \in SUBSET Asks
  BY <1>1, <1>2
<1>6. clean \in SUBSET Range(world.parts)
  BY <1>1 DEF Runners
<1>7. Bounced(r, q) = [run[r] EXCEPT !.todo = todo, !.clean = clean]
  BY DEF Bounced
<1>8. \A s \in todo : Sound(s)
  BY <1>4 DEF TypeInv
<1>9. ASSUME NEW s \in todo, s.op = "child"
      PROVE  run[r].parent # 0 \/ \E o \in todo : o.op = "openParent"
  <2>1. \E t \in run[r].todo : t.op = "child"
    BY <1>1, <1>2, <1>9
  <2>2. run[r].parent # 0 \/ \E o \in run[r].todo : o.op = "openParent"
    BY <2>1 DEF TypeInv, Parented
  <2>3. \A o \in run[r].todo : o.op = "openParent" => \E a \in todo : a.op = "openParent"
    BY <1>2
  <2> QED BY <2>2, <2>3
<1>10. \A s \in todo : s.op = "link" => run[r].parent # 0
  BY <1>2 DEF TypeInv, Parented
<1> HIDE DEF todo, clean
<1>11. /\ Bounced(r, q) \in Runners
       /\ Bounced(r, q).phase = run[r].phase /\ Bounced(r, q).verdict = run[r].verdict
       /\ Bounced(r, q).children = run[r].children /\ Bounced(r, q).saw = run[r].saw
       /\ Bounced(r, q).jobs = run[r].jobs /\ Bounced(r, q).part = run[r].part
       /\ Bounced(r, q).todo = todo /\ Bounced(r, q).clean = clean
       /\ Bounced(r, q).parent = run[r].parent
  BY <1>1, <1>5, <1>6, <1>7 DEF Runners
<1>12. Parented(Bounced(r, q))
  BY <1>9, <1>10, <1>11 DEF Parented
<1> QED BY <1>2, <1>3, <1>4, <1>8, <1>11, <1>12 DEF todo, clean

\* What the resending of a create does: the item is there, and the request due again.
LEMMA ResentItems ==
  ASSUME TypeInv, NEW r \in Runs, Resend(r)
  PROVE  \E q \in Due(run[r].todo) :
           /\ Active(r) /\ q.op \in {"openParent", "child"} /\ q.sent + 1 < Attempts /\ Trouble
           /\ run' = [run EXCEPT ![r] = Bounced(r, q)]
           /\ Grown /\ Numbers' = Numbers \union {Len(forge) + 1} /\ Len(forge) + 1 \notin Numbers
           /\ \A n \in Numbers : forge'[n] = forge[n]
           /\ forge'[Len(forge) + 1].part = run[r].part
           /\ forge'[Len(forge) + 1].state = "open"
           /\ \/ q.op = "openParent" /\ forge'[Len(forge) + 1].field = Parent
              \/ q.op = "child" /\ forge'[Len(forge) + 1].field = q.for
<1>1. PICK q \in run[r].todo :
        /\ \/ Sends(r, q, "openParent") /\ NewItem(r, Parent, Written(r, run[r].part))
           \/ Sends(r, q, "child") /\ NewItem(r, q.for, {})
        /\ q.sent + 1 < Attempts /\ Trouble
        /\ run' = [run EXCEPT ![r].todo = (@ \ {q}) \union {[q EXCEPT !.sent = @ + 1]},
                              ![r].clean = @ \ {run[r].part}]
  BY DEF Resend
<1>2. Active(r) /\ q \in Due(run[r].todo) /\ q.op \in {"openParent", "child"}
  BY <1>1 DEF Sends
<1>3. run' = [run EXCEPT ![r] = Bounced(r, q)]
  BY <1>1 DEF Bounced, Again, TypeInv, Runners
<1>4. run[r].part \in Range(world.parts)
  BY DEF TypeInv, Runners
<1>5. CASE q.op = "openParent"
  <2>1. NewItem(r, Parent, Written(r, run[r].part)) /\ Written(r, run[r].part) \in SUBSET Actions
    BY <1>1, <1>4, <1>5, WrittenActions DEF Sends
  <2>2. /\ Grown /\ Numbers' = Numbers \union {Len(forge) + 1} /\ Len(forge) + 1 \notin Numbers
        /\ \A n \in Numbers : forge'[n] = forge[n]
        /\ forge'[Len(forge) + 1] = [part |-> run[r].part, field |-> Parent, state |-> "open",
                                     lists |-> Written(r, run[r].part), under |-> 0]
    BY <2>1, CreatedItems
  <2>3. /\ forge'[Len(forge) + 1].part = run[r].part
        /\ forge'[Len(forge) + 1].state = "open"
        /\ forge'[Len(forge) + 1].field = Parent
    BY <2>2
  <2> QED BY <1>1, <1>2, <1>3, <1>5, <2>2, <2>3
<1>6. CASE q.op = "child"
  <2>1. NewItem(r, q.for, {}) /\ q.for \in Fields /\ {} \in SUBSET Actions
    BY <1>1, <1>2, <1>6, AfterRequest DEF Sends, Sound
  <2>2. /\ Grown /\ Numbers' = Numbers \union {Len(forge) + 1} /\ Len(forge) + 1 \notin Numbers
        /\ \A n \in Numbers : forge'[n] = forge[n]
        /\ forge'[Len(forge) + 1] = [part |-> run[r].part, field |-> q.for, state |-> "open",
                                     lists |-> {}, under |-> 0]
    BY <2>1, CreatedItems
  <2>3. /\ forge'[Len(forge) + 1].part = run[r].part
        /\ forge'[Len(forge) + 1].state = "open"
        /\ forge'[Len(forge) + 1].field = q.for
    BY <2>2
  <2> QED BY <1>1, <1>2, <1>3, <1>6, <2>2, <2>3
<1> QED BY <1>2, <1>5, <1>6

LEMMA RequestTypes ==
  ASSUME TypeInv, NEW r \in Runs, world' = world,
         \/ Refuse(r) \/ CloseItem(r) \/ CreateParent(r) \/ CreateChild(r) \/ Resend(r)
         \/ LinkChild(r) \/ CloseUnlinked(r) \/ StopCreating(r) \/ RewriteParent(r) \/ Unchanged(r) \/ Update(r)
  PROVE  TypeInv'
<1> USE DEF Sends
<1>0. \A q : Sound(q) /\ Numbers \subseteq Numbers' => Sound(q)'
  BY DEF Sound
<1>t. trouble \in 0..MaxTrouble /\ (Trouble => trouble' \in 0..MaxTrouble)
  BY TrackerAssumption DEF TypeInv, Trouble
<1>1. CASE Refuse(r)
  <2>1. PICK q \in Due(run[r].todo) :
          Trouble /\ run' = [run EXCEPT ![r] = Abandon(r, q)] /\ forge' = forge
    BY <1>1 DEF Refuse
  <2>2. Grown /\ Numbers' = Numbers
    BY <2>1, SameItems
  <2>3. /\ Abandon(r, q) \in Runners' /\ Parented(Abandon(r, q))
        /\ \A s \in Abandon(r, q).todo : Sound(s)'
    BY <1>0, <2>2, AfterRequest, RunnersGrow
  <2> QED BY <1>t, <2>1, <2>2, <2>3, RunMoves DEF Grown
<1>2. CASE CloseItem(r) \/ CloseUnlinked(r)
  <2>1. PICK q \in Due(run[r].todo), why \in States :
          /\ q.op \in {"close", "unlink"}
          /\ forge' = Closed(q.item, why) /\ Answer(r, q, Done(r, q))
    <3>1. CASE CloseItem(r)
      <4>1. PICK q \in run[r].todo :
              /\ q \in Due(run[r].todo) /\ q.op = "close"
              /\ forge' = Closed(q.item, q.for) /\ Answer(r, q, Done(r, q))
        BY <3>1 DEF CloseItem
      <4>2. q.for \in States
        BY <4>1, AfterRequest DEF Sound, Whys, States
      <4> QED BY <4>1, <4>2
    <3>2. CASE CloseUnlinked(r)
      BY <3>2 DEF CloseUnlinked, States
    <3> QED BY <1>2, <3>1, <3>2
  <2>2. Grown
    BY <2>1, AfterRequest, ClosedItems DEF Sound
  <2>3. /\ Done(r, q) \in Runners' /\ Parented(Done(r, q))
        /\ \A s \in Done(r, q).todo : Sound(s)'
    BY <1>0, <2>1, <2>2, AfterRequest, RunnersGrow DEF Grown
  <2> QED BY <2>1, <2>2, <2>3, AnswerTypes
<1>3. CASE CreateParent(r)
  <2>1. PICK q \in Due(run[r].todo) :
          /\ NewItem(r, Parent, Written(r, run[r].part))
          /\ Answer(r, q, [Done(r, q) EXCEPT !.parent = Len(forge) + 1])
    BY <1>3 DEF CreateParent
  <2>2. run[r].part \in Range(world.parts)
    BY DEF TypeInv, Runners
  <2>3. Grown /\ Numbers' = Numbers \union {Len(forge) + 1} /\ Len(forge) + 1 \in Nat
    BY <2>1, <2>2, WrittenActions, CreatedItems
  <2> DEFINE s == [Done(r, q) EXCEPT !.parent = Len(forge) + 1]
  <2>4. Done(r, q) \in Runners'
    BY <2>3, AfterRequest, RunnersGrow DEF Grown
  <2>5. Len(forge) + 1 # 0
    BY DEF TypeInv
  <2>6. s \in Runners' /\ s.todo = Done(r, q).todo /\ s.parent # 0
    BY <2>3, <2>4, <2>5 DEF Runners
  <2>7. Parented(s)
    BY <2>6 DEF Parented
  <2>8. \A a \in s.todo : Sound(a)'
    BY <1>0, <2>3, <2>6, AfterRequest DEF Grown
  <2> HIDE DEF s
  <2>9. Answer(r, q, s)
    BY <2>1 DEF s
  <2> QED BY <2>3, <2>6, <2>7, <2>8, <2>9, AnswerTypes
<1>4. CASE CreateChild(r)
  <2>1. PICK q \in Due(run[r].todo) :
          q.op = "child" /\ NewItem(r, q.for, {}) /\ Answer(r, q, Born(r, q))
    BY <1>4 DEF CreateChild, Born
  <2>2. q.for \in Fields
    BY <2>1, AfterRequest DEF Sound
  <2>3. Grown /\ Numbers' = Numbers \union {Len(forge) + 1}
    <3>1. {} \in SUBSET Actions
      OBVIOUS
    <3> QED BY <2>1, <2>2, <3>1, CreatedItems
  <2>4. Born(r, q) \in Runners' /\ Parented(Born(r, q)) /\ \A s \in Born(r, q).todo : Sound(s)'
    BY <2>1, <2>3, BornRuns
  <2> QED BY <2>1, <2>3, <2>4, AnswerTypes
<1>5. CASE LinkChild(r) \/ RewriteParent(r) \/ Unchanged(r) \/ Update(r)
  <2>1. PICK q \in Due(run[r].todo) :
          /\ q.op # "openParent"
          /\ \/ /\ q.op = "link" /\ forge' = [forge EXCEPT ![q.item].under = run[r].parent]
                /\ Answer(r, q, Done(r, q))
             \/ /\ forge' = [forge EXCEPT ![run[r].parent].lists = Final(r)]
                /\ Answer(r, q, Done(r, q))
             \/ forge' = forge /\ trouble' = trouble /\ run' = [run EXCEPT ![r] = Done(r, q)]
    BY <1>5 DEF LinkChild, RewriteParent, Unchanged, Update
  <2>2. run[r].parent \in {0} \union Numbers /\ run[r].part \in Range(world.parts)
    BY DEF TypeInv, Runners
  <2>3. Grown
    <3>1. q.op = "link" => q.item \in Numbers
      BY AfterRequest DEF Sound
    <3>2. Final(r) \in SUBSET Actions
      BY <2>2, WrittenActions DEF Final
    <3> QED BY <2>1, <2>2, <3>1, <3>2, LinkedItems, RewrittenItems, SameItems
  <2>4. /\ Done(r, q) \in Runners' /\ Parented(Done(r, q))
        /\ \A s \in Done(r, q).todo : Sound(s)'
    BY <1>0, <2>1, <2>3, AfterRequest, RunnersGrow DEF Grown
  <2>5. CASE Answer(r, q, Done(r, q))
    BY <2>3, <2>4, <2>5, AnswerTypes
  <2>6. CASE trouble' = trouble /\ run' = [run EXCEPT ![r] = Done(r, q)]
    BY <1>t, <2>3, <2>4, <2>6, RunMoves DEF Grown
  <2> QED BY <2>1, <2>5, <2>6
<1>6. CASE StopCreating(r)
  <2> DEFINE todo == {s \in run[r].todo : s.op # "child"}
             s == [run[r] EXCEPT !.todo = todo]
  <2>1. forge' = forge /\ trouble' = trouble /\ run' = [run EXCEPT ![r] = s]
    BY <1>6 DEF StopCreating
  <2>2. run[r] \in Runners /\ Parented(run[r]) /\ \A q \in run[r].todo : Sound(q)
    BY DEF TypeInv
  <2>3. s \in Runners /\ s.todo = todo /\ s.parent = run[r].parent
    BY <2>2 DEF Runners
  <2>4. Parented(s)
    BY <2>2, <2>3 DEF Parented
  <2>5. Grown /\ Numbers' = Numbers
    BY <2>1, SameItems
  <2>6. s \in Runners' /\ \A q \in todo : Sound(q)'
    BY <1>0, <2>2, <2>3, <2>5, RunnersGrow
  <2> HIDE DEF s, todo
  <2> QED BY <1>t, <2>1, <2>3, <2>4, <2>5, <2>6, RunMoves DEF Grown
<1>7. CASE Resend(r)
  <2>1. PICK q \in Due(run[r].todo) :
          /\ q.op \in {"openParent", "child"} /\ Trouble /\ Grown
          /\ run' = [run EXCEPT ![r] = Bounced(r, q)]
    BY <1>7, ResentItems
  <2>2. /\ Bounced(r, q) \in Runners' /\ Parented(Bounced(r, q))
        /\ \A s \in Bounced(r, q).todo : Sound(s)'
    BY <1>0, <2>1, BouncedRuns, RunnersGrow DEF Grown
  <2> QED BY <1>t, <2>1, <2>2, RunMoves DEF Grown
<1> QED BY <1>1, <1>2, <1>3, <1>4, <1>5, <1>6, <1>7

LEMMA StepTypes ==
  ASSUME TypeInv, [Next]_vars
  PROVE  TypeInv'
<1>1. CASE UNCHANGED vars
  <2>1. forge' = forge /\ run' = run /\ trouble' = trouble /\ world' = world
    BY <1>1 DEF vars
  <2>2. Runners' = Runners /\ Numbers' = Numbers
    BY <2>1 DEF Runners, Numbers, Tasks, Asks, NoVerdict, Found
  <2> QED BY <2>1, <2>2 DEF TypeInv, Parented, Sound
<1>2. CASE CloseByHand /\ UNCHANGED world
  <2>1. PICK n \in Numbers :
          /\ forge' = Closed(n, "byHand")
          /\ run' = [r \in Runs |-> [run[r] EXCEPT !.clean = @ \ {forge[n].part}]]
    BY <1>2 DEF CloseByHand
  <2>2. Grown /\ Numbers' = Numbers
    BY <2>1, ClosedItems DEF States
  <2>3. trouble' \in 0..MaxTrouble
    BY <1>2, TrackerAssumption DEF CloseByHand, Trouble, TypeInv
  <2>4. ASSUME NEW r \in Runs
        PROVE  run'[r] \in Runners /\ run'[r].todo = run[r].todo /\ run'[r].parent = run[r].parent
    <3>1. run[r] \in Runners
      BY DEF TypeInv
    <3> QED BY <2>1, <3>1 DEF Runners
  <2>5. run' \in [Runs -> Runners']
    <3>1. \A r \in Runs : run'[r] \in Runners'
      BY <1>2, <2>2, <2>4, RunnersGrow
    <3> QED BY <2>1, <3>1
  <2>6. \A r \in Runs : Parented(run[r])' /\ \A q \in run'[r].todo : Sound(q)'
    BY <2>2, <2>4 DEF TypeInv, Parented, Sound
  <2> QED BY <1>2, <2>2, <2>3, <2>5, <2>6 DEF TypeInv, Grown
<1>3. ASSUME NEW r \in Runs, Step(r), world' = world PROVE TypeInv'
  <2>1. CASE Start(r)
    BY <1>3, <2>1, StartTypes
  <2>2. CASE Take(r)
    BY <1>3, <2>2, TakeTypes
  <2>3. CASE ListFails(r) \/ Kill(r)
    <3>1. /\ forge' = forge /\ trouble' \in 0..MaxTrouble
          /\ run' = [run EXCEPT ![r] = Ended]
      BY <2>3, TrackerAssumption DEF ListFails, Kill, Trouble, TypeInv
    <3>2. Ended \in Runners /\ Ended.todo = {}
      BY Ends
    <3> QED BY <1>3, <3>1, <3>2, EndTypes
  <2>4. CASE Finish(r)
    <3>1. /\ forge' = forge /\ trouble' \in 0..MaxTrouble
          /\ run' = [run EXCEPT ![r] = Finished(r)]
      BY <2>4, FinishedRuns DEF Finish, TypeInv
    <3>2. Finished(r) \in Runners /\ Finished(r).todo = {}
      BY FinishedRuns
    <3> QED BY <1>3, <3>1, <3>2, EndTypes
  <2> QED BY <1>3, <2>1, <2>2, <2>3, <2>4, RequestTypes DEF Step
<1> QED BY <1>1, <1>2, <1>3 DEF Next

LEMMA InitTypes == Init => TypeInv
<1> SUFFICES ASSUME Init PROVE TypeInv
  OBVIOUS
<1>1. world \in Worlds /\ forge = <<>> /\ trouble = 0 /\ run = [r \in Runs |-> Fresh]
  BY DEF Init
<1>2. forge \in Seq(Items) /\ Numbers = {}
  BY <1>1 DEF Numbers
<1>3. trouble \in 0..MaxTrouble
  BY <1>1, TrackerAssumption
<1>4. Fresh \in Runners
  <2>1. world.parts[1] \in Range(world.parts)
    <3>1. world.parts \in Seq(Range(world.parts)) /\ world.parts # <<>>
      BY <1>1, TrackerAssumption
    <3>2. 1 \in DOMAIN world.parts
      BY <3>1
    <3> QED BY <3>2 DEF Range
  <2>2. NoVerdict \in [Range(world.parts) -> Found \union Range(NoVerdict)]
    <3>1. \A i \in Range(world.parts) : NoVerdict[i] \in Range(NoVerdict)
      BY DEF NoVerdict, Range
    <3> QED BY <3>1 DEF NoVerdict
  <2>3. <<>> \in UNION {[S -> SUBSET Actions] : S \in SUBSET Numbers}
    OBVIOUS
  <2> QED BY <2>1, <2>2, <2>3 DEF Fresh, Runners
<1>5. Fresh.todo = {}
  BY DEF Fresh
<1> QED BY <1>1, <1>2, <1>3, <1>4, <1>5 DEF TypeInv, Parented

\* Every item, run and request has the shape the code gives it.
THEOREM TypesHold == Spec => []TypeOK
<1>1. TypeInv => TypeOK
  <2> SUFFICES ASSUME TypeInv PROVE TypeOK
    OBVIOUS
  <2>1. ASSUME NEW r \in Runs
        PROVE  /\ run[r].phase \in {"waiting", "active", "ended"}
               /\ run[r].verdict \in [Range(world.parts) -> Found \union Range(NoVerdict)]
               /\ run[r].children \in world.children \union {"none"}
               /\ DOMAIN run[r].saw \subseteq Numbers
               /\ run[r].parent \in {0} \union Numbers
               /\ run[r].body \subseteq Actions /\ run[r].made \subseteq Fields
               /\ run[r].clean \subseteq Parts
               /\ \A q \in run[r].todo : q.op = "link" => run[r].parent # 0
    <3>1. run[r] \in Runners /\ Parented(run[r])
      BY DEF TypeInv
    <3>2. Range(world.parts) \subseteq Parts
      BY DEF TypeInv, Parts
    <3> QED BY <3>1, <3>2 DEF Runners, Parented
  <2> QED BY <2>1 DEF TypeInv, TypeOK
<1>2. Init => TypeInv
  BY InitTypes
<1>3. TypeInv /\ [Next]_vars => TypeInv'
  BY StepTypes
<1> QED BY <1>1, <1>2, <1>3, PTL DEF Spec

-----------------------------------------------------------------------------
(* What a step may do to items and to requests.                             *)

\* A run's request to close an item, which is due; only that run moves.
Shuts(r, q, n) ==
  /\ Active(r) /\ q \in Due(run[r].todo) /\ q.op = "close" /\ q.item = n
  /\ \A s \in Runs \ {r} : run'[s] = run[s]

\* An item closes by a request of a run, by hand, or because it was not linked.
Fate(n) ==
  \/ forge'[n].state = forge[n].state
  \/ /\ forge[n].state = "open"
     /\ \/ forge'[n].state \in {"byHand", "untracked"}
        \/ \E r \in Runs : \E q \in Due(run[r].todo) : Shuts(r, q, n) /\ forge'[n].state = q.for

\* An item is created by a request of a run, which is due and, as it was, not again.
Adds(r, q) ==
  /\ Active(r) /\ q \in Due(run[r].todo)
  /\ Numbers' = Numbers \union {Len(forge) + 1} /\ Len(forge) + 1 \notin Numbers
  /\ forge'[Len(forge) + 1].part = run[r].part
  /\ forge'[Len(forge) + 1].state = "open"
  /\ \/ q.op = "openParent" /\ forge'[Len(forge) + 1].field = Parent
     \/ q.op = "child" /\ forge'[Len(forge) + 1].field = q.for
  /\ q \notin run'[r].todo
  /\ \A s \in Runs \ {r} : run'[s] = run[s]

\* What a run goes on with: its requests, but those done; what is new is about a link.
Steady(r) ==
  /\ run'[r].phase = run[r].phase /\ run'[r].verdict = run[r].verdict
  /\ run'[r].children = run[r].children /\ run'[r].saw = run[r].saw
  /\ run'[r].jobs = run[r].jobs /\ run'[r].part = run[r].part
Keeps(r) ==
  /\ Steady(r)
  /\ \A q \in run'[r].todo : q \in run[r].todo \/ q.op \in {"link", "unlink"}
  /\ \A c \in run[r].todo :
       c.op = "close" /\ c \notin run'[r].todo => forge'[c.item].state # "open"
Drops(r) == Steady(r) /\ \A q \in run'[r].todo : q.op \in {"link", "unlink"}
Stops(r) == run'[r].phase # "active" /\ run'[r].todo = {}
Resends(r) ==
  /\ Steady(r)
  /\ \E q \in Due(run[r].todo) :
       /\ Adds(r, q) /\ q.sent + 1 < Attempts
       /\ run'[r].todo = (run[r].todo \ {q}) \union {Again(q)}
Agenda(r) == Keeps(r) \/ Drops(r) \/ Stops(r) \/ Resends(r) \/ Start(r) \/ Take(r)

Effects ==
  /\ Grown
  /\ \A n \in Numbers : Fate(n)
  /\ Numbers' # Numbers => \E r \in Runs : \E q \in Due(run[r].todo) : Adds(r, q)
  /\ \A r \in Runs : Agenda(r)

\* A step that only changes what one run knows.
LEMMA OneRunsAgenda ==
  ASSUME TypeInv, NEW r \in Runs, NEW s, run' = [run EXCEPT ![r] = s],
         run'[r] = s => Keeps(r) \/ Drops(r) \/ Stops(r)
  PROVE  /\ \A t \in Runs : Agenda(t)
         /\ \A t \in Runs \ {r} : run'[t] = run[t]
<1>1. run'[r] = s /\ \A t \in Runs \ {r} : run'[t] = run[t]
  BY DEF TypeInv
<1> QED BY <1>1 DEF Agenda, Keeps, Steady

LEMMA AbandonDrops ==
  ASSUME TypeInv, NEW r \in Runs, NEW q \in Due(run[r].todo), run'[r] = Abandon(r, q)
  PROVE  Drops(r)
<1>1. \A a \in Abandon(r, q).todo : a.op \in {"link", "unlink"}
  BY AfterRequest
<1>2. run[r] \in Runners
  BY DEF TypeInv
<1>3. /\ Abandon(r, q).phase = run[r].phase /\ Abandon(r, q).verdict = run[r].verdict
      /\ Abandon(r, q).children = run[r].children /\ Abandon(r, q).saw = run[r].saw
      /\ Abandon(r, q).jobs = run[r].jobs /\ Abandon(r, q).part = run[r].part
  BY <1>2 DEF Abandon, Runners
<1> QED BY <1>1, <1>3 DEF Drops, Steady

LEMMA DoneKeeps ==
  ASSUME TypeInv, NEW r \in Runs, NEW q \in Due(run[r].todo), run'[r] = Done(r, q),
         q.op = "close" => forge'[q.item].state # "open"
  PROVE  Keeps(r)
<1>1. Done(r, q) = [run[r] EXCEPT !.todo = run[r].todo \ {q}] /\ run[r] \in Runners
  BY AfterRequest
<1>2. /\ Done(r, q).phase = run[r].phase /\ Done(r, q).verdict = run[r].verdict
      /\ Done(r, q).children = run[r].children /\ Done(r, q).saw = run[r].saw
      /\ Done(r, q).jobs = run[r].jobs /\ Done(r, q).part = run[r].part
      /\ Done(r, q).todo = run[r].todo \ {q}
  BY <1>1 DEF Runners
<1> QED BY <1>2 DEF Keeps, Steady

\* A request that is answered, or whose answer is lost.
LEMMA AnswersAgenda ==
  ASSUME TypeInv, NEW r \in Runs, NEW q \in Due(run[r].todo), NEW s, Answer(r, q, s),
         run'[r] = s => Keeps(r)
  PROVE  /\ \A t \in Runs : Agenda(t)
         /\ \A t \in Runs \ {r} : run'[t] = run[t]
<1>1. CASE run' = [run EXCEPT ![r] = s]
  BY <1>1, OneRunsAgenda
<1>2. CASE run' = [run EXCEPT ![r] = Abandon(r, q)]
  BY <1>2, AbandonDrops, OneRunsAgenda
<1> QED BY <1>1, <1>2 DEF Answer

\* A request once sent is not sent again, whatever became of it.
LEMMA SentOnce ==
  ASSUME TypeInv, NEW r \in Runs, NEW q \in Due(run[r].todo), NEW s, Answer(r, q, s),
         q \notin s.todo, q.op \in {"openParent", "child"}
  PROVE  q \notin run'[r].todo
<1>1. \A a \in Abandon(r, q).todo : a.op = "unlink"
  BY AfterRequest
<1>2. run'[r] = s \/ run'[r] = Abandon(r, q)
  BY DEF Answer, TypeInv
<1> QED BY <1>1, <1>2

LEMMA RequestEffects ==
  ASSUME TypeInv, NEW r \in Runs,
         \/ Refuse(r) \/ CloseItem(r) \/ CreateParent(r) \/ CreateChild(r) \/ Resend(r)
         \/ LinkChild(r) \/ CloseUnlinked(r) \/ StopCreating(r) \/ RewriteParent(r) \/ Unchanged(r) \/ Update(r)
  PROVE  Effects
<1> USE DEF Sends
<1>0. forge' = forge => Grown /\ Numbers' = Numbers /\ \A n \in Numbers : Fate(n)
  BY SameItems DEF Fate
<1>1. CASE Refuse(r)
  <2>1. PICK q \in Due(run[r].todo) : run' = [run EXCEPT ![r] = Abandon(r, q)] /\ forge' = forge
    BY <1>1 DEF Refuse
  <2>2. \A t \in Runs : Agenda(t)
    BY <2>1, AbandonDrops, OneRunsAgenda
  <2> QED BY <1>0, <2>1, <2>2 DEF Effects
<1>2. CASE CloseItem(r)
  <2>1. PICK q \in Due(run[r].todo) :
          Active(r) /\ q.op = "close" /\ forge' = Closed(q.item, q.for) /\ Answer(r, q, Done(r, q))
    BY <1>2 DEF CloseItem
  <2>2. q.item \in Numbers /\ q.for \in States /\ q.for # "open"
    BY <2>1, AfterRequest DEF Sound, Whys, States
  <2>3. /\ Grown /\ Numbers' = Numbers
        /\ \A m \in Numbers :
             forge'[m].state = IF m = q.item /\ forge[m].state = "open" THEN q.for ELSE forge[m].state
    BY <2>1, <2>2, ClosedItems
  <2>4. forge'[q.item].state # "open"
    BY <2>2, <2>3
  <2>5. /\ \A t \in Runs : Agenda(t)
        /\ \A t \in Runs \ {r} : run'[t] = run[t]
    BY <2>1, <2>4, DoneKeeps, AnswersAgenda
  <2>6. \A n \in Numbers : Fate(n)
    BY <2>1, <2>3, <2>5 DEF Fate, Shuts
  <2> QED BY <2>3, <2>5, <2>6 DEF Effects
<1>3. CASE CloseUnlinked(r)
  <2>1. PICK q \in Due(run[r].todo) :
          q.op = "unlink" /\ forge' = Closed(q.item, "untracked") /\ Answer(r, q, Done(r, q))
    BY <1>3 DEF CloseUnlinked
  <2>2. q.item \in Numbers /\ "untracked" \in States
    BY <2>1, AfterRequest DEF Sound, States
  <2>3. /\ Grown /\ Numbers' = Numbers
        /\ \A m \in Numbers :
             forge'[m].state = IF m = q.item /\ forge[m].state = "open" THEN "untracked" ELSE forge[m].state
    BY <2>1, <2>2, ClosedItems
  <2>4. \A n \in Numbers : Fate(n)
    BY <2>3 DEF Fate
  <2>5. \A t \in Runs : Agenda(t)
    BY <2>1, DoneKeeps, AnswersAgenda
  <2> QED BY <2>3, <2>4, <2>5 DEF Effects
<1>4. CASE CreateParent(r)
  <2>1. PICK q \in Due(run[r].todo) :
          /\ Active(r) /\ q.op = "openParent"
          /\ NewItem(r, Parent, Written(r, run[r].part))
          /\ Answer(r, q, [Done(r, q) EXCEPT !.parent = Len(forge) + 1])
    BY <1>4 DEF CreateParent
  <2>2. run[r].part \in Range(world.parts)
    BY DEF TypeInv, Runners
  <2>3. /\ Grown /\ Numbers' = Numbers \union {Len(forge) + 1} /\ Len(forge) + 1 \notin Numbers
        /\ \A n \in Numbers : forge'[n] = forge[n]
    BY <2>1, <2>2, WrittenActions, CreatedItems
  <2>4. forge'[Len(forge) + 1] =
          [part |-> run[r].part, field |-> Parent, state |-> "open",
           lists |-> Written(r, run[r].part), under |-> 0]
    BY <2>1, <2>2, WrittenActions, CreatedItems
  <2> DEFINE s == [Done(r, q) EXCEPT !.parent = Len(forge) + 1]
  <2>5. /\ s.phase = run[r].phase /\ s.verdict = run[r].verdict
        /\ s.children = run[r].children /\ s.saw = run[r].saw
        /\ s.jobs = run[r].jobs /\ s.part = run[r].part
        /\ s.todo = run[r].todo \ {q}
    BY AfterRequest DEF Runners
  <2> HIDE DEF s
  <2>6. run'[r] = s => Keeps(r)
    BY <2>1, <2>5 DEF Keeps, Steady
  <2>7. Answer(r, q, s)
    BY <2>1 DEF s
  <2>8. /\ \A t \in Runs : Agenda(t)
        /\ \A t \in Runs \ {r} : run'[t] = run[t]
    BY <2>6, <2>7, AnswersAgenda
  <2>9. q \notin run'[r].todo
    BY <2>1, <2>5, <2>7, SentOnce
  <2>10. Adds(r, q)
    BY <2>1, <2>3, <2>4, <2>8, <2>9 DEF Adds
  <2> QED BY <2>3, <2>8, <2>10 DEF Effects, Fate
<1>5. CASE CreateChild(r)
  <2>1. PICK q \in Due(run[r].todo) :
          Active(r) /\ q.op = "child" /\ NewItem(r, q.for, {}) /\ Answer(r, q, Born(r, q))
    BY <1>5 DEF CreateChild, Born
  <2>2. q.for \in Fields /\ {} \in SUBSET Actions
    BY <2>1, AfterRequest DEF Sound
  <2>3. /\ Grown /\ Numbers' = Numbers \union {Len(forge) + 1} /\ Len(forge) + 1 \notin Numbers
        /\ \A n \in Numbers : forge'[n] = forge[n]
    BY <2>1, <2>2, CreatedItems
  <2>4. forge'[Len(forge) + 1] =
          [part |-> run[r].part, field |-> q.for, state |-> "open", lists |-> {}, under |-> 0]
    BY <2>1, <2>2, CreatedItems
  <2>5. /\ Born(r, q).phase = run[r].phase /\ Born(r, q).verdict = run[r].verdict
        /\ Born(r, q).children = run[r].children /\ Born(r, q).saw = run[r].saw
        /\ Born(r, q).jobs = run[r].jobs /\ Born(r, q).part = run[r].part
        /\ Born(r, q).todo = (run[r].todo \ {q})
             \union {Request("link", Len(forge) + 1, Parent, <<0, 0, 0>>)}
    BY AfterRequest DEF Born, Runners
  <2>6. run'[r] = Born(r, q) => Keeps(r)
    BY <2>1, <2>5 DEF Keeps, Steady, Request
  <2>8. /\ \A t \in Runs : Agenda(t)
        /\ \A t \in Runs \ {r} : run'[t] = run[t]
    BY <2>1, <2>6, AnswersAgenda
  <2>9. q \notin run'[r].todo
    BY <2>1, <2>5, SentOnce DEF Request
  <2>10. Adds(r, q)
    BY <2>1, <2>3, <2>4, <2>8, <2>9 DEF Adds
  <2> QED BY <2>3, <2>8, <2>10 DEF Effects, Fate
<1>6. CASE LinkChild(r) \/ RewriteParent(r)
  <2>1. PICK q \in Due(run[r].todo) :
          /\ q.op # "close"
          /\ \/ q.op = "link" /\ forge' = [forge EXCEPT ![q.item].under = run[r].parent]
             \/ forge' = [forge EXCEPT ![run[r].parent].lists = Final(r)]
          /\ Answer(r, q, Done(r, q))
    BY <1>6 DEF LinkChild, RewriteParent
  <2>2. run[r].parent \in {0} \union Numbers /\ run[r].part \in Range(world.parts)
    BY DEF TypeInv, Runners
  <2>3. q.op = "link" => q.item \in Numbers
    BY AfterRequest DEF Sound
  <2>4. Final(r) \in SUBSET Actions
    BY <2>2, WrittenActions DEF Final
  <2>5. Grown /\ Numbers' = Numbers /\ \A k \in Numbers : forge'[k].state = forge[k].state
    BY <2>1, <2>2, <2>3, <2>4, LinkedItems, RewrittenItems
  <2>6. \A t \in Runs : Agenda(t)
    BY <2>1, DoneKeeps, AnswersAgenda
  <2> QED BY <2>5, <2>6 DEF Effects, Fate
<1>7. CASE Unchanged(r) \/ Update(r)
  <2>1. PICK q \in Due(run[r].todo) :
          q.op # "close" /\ forge' = forge /\ run' = [run EXCEPT ![r] = Done(r, q)]
    BY <1>7 DEF Unchanged, Update
  <2>2. \A t \in Runs : Agenda(t)
    BY <2>1, DoneKeeps, OneRunsAgenda
  <2> QED BY <1>0, <2>1, <2>2 DEF Effects
<1>8. CASE StopCreating(r)
  <2> DEFINE s == [run[r] EXCEPT !.todo = {a \in run[r].todo : a.op # "child"}]
  <2>1. forge' = forge /\ run' = [run EXCEPT ![r] = s]
    BY <1>8 DEF StopCreating
  <2>2. run[r] \in Runners
    BY DEF TypeInv
  <2>3. /\ s.phase = run[r].phase /\ s.verdict = run[r].verdict
        /\ s.children = run[r].children /\ s.saw = run[r].saw
        /\ s.jobs = run[r].jobs /\ s.part = run[r].part
        /\ s.todo = {a \in run[r].todo : a.op # "child"}
    BY <2>2 DEF Runners
  <2> HIDE DEF s
  <2>4. run'[r] = s => Keeps(r)
    BY <2>3 DEF Keeps, Steady
  <2>5. \A t \in Runs : Agenda(t)
    BY <2>1, <2>4, OneRunsAgenda
  <2> QED BY <1>0, <2>1, <2>5 DEF Effects
<1>9. CASE Resend(r)
  <2>1. PICK q \in Due(run[r].todo) :
          /\ Active(r) /\ q.op \in {"openParent", "child"} /\ q.sent + 1 < Attempts
          /\ run' = [run EXCEPT ![r] = Bounced(r, q)]
          /\ Grown /\ Numbers' = Numbers \union {Len(forge) + 1} /\ Len(forge) + 1 \notin Numbers
          /\ \A n \in Numbers : forge'[n] = forge[n]
          /\ forge'[Len(forge) + 1].part = run[r].part
          /\ forge'[Len(forge) + 1].state = "open"
          /\ \/ q.op = "openParent" /\ forge'[Len(forge) + 1].field = Parent
             \/ q.op = "child" /\ forge'[Len(forge) + 1].field = q.for
    BY <1>9, ResentItems
  <2>2. run'[r] = Bounced(r, q) /\ \A s \in Runs \ {r} : run'[s] = run[s]
    BY <2>1 DEF TypeInv
  <2>3. run'[r].todo = (run[r].todo \ {q}) \union {Again(q)} /\ Again(q) # q
    BY <2>1, <2>2, BouncedRuns
  <2>4. Steady(r)
    BY <2>1, <2>2, BouncedRuns DEF Steady
  <2>5. Adds(r, q)
    BY <2>1, <2>2, <2>3 DEF Adds
  <2>6. Resends(r)
    BY <2>1, <2>3, <2>4, <2>5 DEF Resends
  <2>7. \A t \in Runs : Agenda(t)
    BY <2>2, <2>6 DEF Agenda, Keeps, Steady
  <2> QED BY <2>1, <2>5, <2>7 DEF Effects, Fate
<1> QED BY <1>1, <1>2, <1>3, <1>4, <1>5, <1>6, <1>7, <1>8, <1>9

LEMMA StepEffects ==
  ASSUME TypeInv, [Next]_vars
  PROVE  Effects
<1>0. forge' = forge => Grown /\ Numbers' = Numbers /\ \A n \in Numbers : Fate(n)
  BY SameItems DEF Fate
<1>1. CASE UNCHANGED vars
  BY <1>0, <1>1 DEF vars, Effects, Agenda, Keeps, Steady
<1>2. CASE CloseByHand
  <2>1. PICK n \in Numbers :
          /\ forge' = Closed(n, "byHand")
          /\ run' = [r \in Runs |-> [run[r] EXCEPT !.clean = @ \ {forge[n].part}]]
    BY <1>2 DEF CloseByHand
  <2>2. /\ Grown /\ Numbers' = Numbers
        /\ \A m \in Numbers :
             forge'[m].state = IF m = n /\ forge[m].state = "open" THEN "byHand" ELSE forge[m].state
    BY <2>1, ClosedItems DEF States
  <2>3. ASSUME NEW r \in Runs PROVE Keeps(r)
    <3>1. run[r] \in Runners
      BY DEF TypeInv
    <3>2. run'[r].todo = run[r].todo /\ Steady(r)
      BY <2>1, <3>1 DEF Runners, Steady
    <3> QED BY <3>2 DEF Keeps
  <2> QED BY <2>2, <2>3 DEF Effects, Fate, Agenda
<1>3. ASSUME NEW r \in Runs, Step(r) PROVE Effects
  <2>1. CASE Start(r)
    <3>1. /\ forge' = forge
          /\ \A s \in Runs \ {r} :
               run'[s] = IF run[s].phase = "ended" THEN Ended ELSE [run[s] EXCEPT !.clean = {}]
      BY <2>1, StartRuns
    <3>2. Ended.todo = {} /\ Ended.phase = "ended"
      BY Ends
    <3>3. ASSUME NEW s \in Runs PROVE Agenda(s)
      <4>1. CASE s = r
        BY <2>1, <4>1 DEF Agenda
      <4>2. CASE s # r /\ run[s].phase = "ended"
        BY <3>1, <3>2, <4>2 DEF Agenda, Stops
      <4>3. CASE s # r /\ run[s].phase # "ended"
        <5>1. run[s] \in Runners /\ run'[s] = [run[s] EXCEPT !.clean = {}]
          BY <3>1, <4>3 DEF TypeInv
        <5>2. run'[s].todo = run[s].todo /\ Steady(s)
          BY <5>1 DEF Runners, Steady
        <5> QED BY <5>2 DEF Agenda, Keeps
      <4> QED BY <4>1, <4>2, <4>3
    <3> QED BY <1>0, <3>1, <3>3 DEF Effects
  <2>2. CASE Take(r)
    <3>1. PICK job : \E plan : run' = [run EXCEPT ![r] = Taken(r, job, plan)]
      BY <2>2, TakenRuns
    <3>2. forge' = forge
      BY <2>2, TakenRuns
    <3>3. \A s \in Runs \ {r} : run'[s] = run[s]
      BY <3>1 DEF TypeInv
    <3> QED BY <1>0, <2>2, <3>2, <3>3 DEF Effects, Agenda, Keeps, Steady
  <2>3. CASE ListFails(r) \/ Kill(r)
    <3>1. /\ forge' = forge /\ run' = [run EXCEPT ![r] = Ended]
          /\ Ended.todo = {} /\ Ended.phase = "ended"
      BY <2>3, Ends DEF ListFails, Kill
    <3>2. \A t \in Runs : Agenda(t)
      BY <3>1, OneRunsAgenda DEF Stops
    <3> QED BY <1>0, <3>1, <3>2 DEF Effects
  <2>4. CASE Finish(r)
    <3>1. /\ forge' = forge /\ run' = [run EXCEPT ![r] = Finished(r)]
          /\ Finished(r).todo = {} /\ Finished(r).phase = "ended"
      BY <2>4, FinishedRuns DEF Finish
    <3>2. \A t \in Runs : Agenda(t)
      BY <3>1, OneRunsAgenda DEF Stops
    <3> QED BY <1>0, <3>1, <3>2 DEF Effects
  <2> QED BY <1>3, <2>1, <2>2, <2>3, <2>4, RequestEffects DEF Step
<1> QED BY <1>1, <1>2, <1>3 DEF Next

\* Sending a create again leaves the other requests as they are.
LEMMA ResendsOthers ==
  ASSUME TypeInv, NEW r \in Runs, Resends(r)
  PROVE  /\ \A q \in run'[r].todo : q.op = "close" => q \in run[r].todo
         /\ \A q \in run[r].todo : q.op = "close" => q \in run'[r].todo
         /\ run'[r].saw = run[r].saw
<1>1. PICK q \in Due(run[r].todo) : Adds(r, q) /\ run'[r].todo = (run[r].todo \ {q}) \union {Again(q)}
  BY DEF Resends
<1>2. q.op \in {"openParent", "child"}
  BY <1>1 DEF Adds
<1>3. Again(q).op = q.op
  BY <1>2, BouncedRuns
<1> QED BY <1>1, <1>2, <1>3 DEF Resends, Steady

-----------------------------------------------------------------------------
(* Duplicates.                                                              *)

\* An item of the same part and field, and older.
HasOlder(n) ==
  \E m \in Numbers : m < n /\ forge[m].part = forge[n].part /\ forge[m].field = forge[n].field

DuplicateInv ==
  /\ \A n \in Numbers : forge[n].state = "duplicate" => HasOlder(n)
  /\ \A r \in Runs : \A q \in run[r].todo :
       q.op = "close" /\ q.for = "duplicate" => HasOlder(q.item)

\* What a plan closes as a duplicate has an older one.
LEMMA PlanDuplicates ==
  ASSUME TypeInv, NEW r \in Runs, NEW job \in Tasks, NEW plan \in Plans(r, job),
         NEW q \in plan, q.op = "close", q.for = "duplicate"
  PROVE  HasOlder(q.item)
<1> DEFINE p == job.part
<1>1. p \in Range(world.parts)
  BY DEF Tasks
<1> HIDE DEF p
<1>2. ASSUME NEW f, NEW stage, Closing(q, Newer(Listed(r, p, {f})), "duplicate", stage)
      PROVE  HasOlder(q.item)
  <2>1. Listed(r, p, {f}) \in SUBSET Nat /\ q.item \in Newer(Listed(r, p, {f}))
    BY <1>2, ListedNumbers DEF Closing
  <2>2. /\ q.item \in Listed(r, p, {f}) /\ Min(Listed(r, p, {f})) \in Listed(r, p, {f})
        /\ Min(Listed(r, p, {f})) < q.item
    <3>1. Listed(r, p, {f}) # {}
      BY <2>1 DEF Newer
    <3> QED BY <2>1, <3>1, NewerThanOne
  <2> QED BY <2>2, ListedNumbers DEF HasOlder
<1>3. ASSUME NEW S, NEW why, NEW stage, Closing(q, S, why, stage) PROVE why = "duplicate"
  BY <1>3 DEF Closing
<1>4. \/ plan = CloseAll(Listed(r, p, Fields), "untracked", 1, 0)
      \/ plan = CloseAll(Listed(r, p, {Parent}), "untracked", 1, 0)
      \/ plan = ClosePassing(r, p)
      \/ plan = KeepOpen(r, p)
      \/ plan \in KeepFamily(r, p)
  BY WhichPlans DEF p
<1>5. \A S, place : q \notin CloseAll(S, "untracked", 1, place)
  BY DEF CloseAll, Request
<1>6. CASE plan = ClosePassing(r, p)
  BY <1>1, <1>3, <1>6, OtherMembers
<1>7. CASE plan = KeepOpen(r, p)
  BY <1>1, <1>2, <1>3, <1>7, OtherMembers
<1>8. CASE plan \in KeepFamily(r, p)
  BY <1>1, <1>2, <1>3, <1>8, FamilyMembers
<1> QED BY <1>4, <1>5, <1>6, <1>7, <1>8

LEMMA StepDuplicates ==
  ASSUME TypeInv, DuplicateInv, Effects
  PROVE  DuplicateInv'
<1>1. ASSUME NEW n \in Numbers, HasOlder(n) PROVE HasOlder(n)'
  BY <1>1 DEF HasOlder, Effects, Grown
<1>2. ASSUME NEW n \in Numbers', forge'[n].state = "duplicate" PROVE HasOlder(n)'
  <2>1. n \in Numbers
    BY <1>2 DEF Effects, Adds
  <2>2. CASE forge[n].state = "duplicate"
    BY <1>1, <2>1, <2>2 DEF DuplicateInv
  <2>3. CASE forge[n].state # "duplicate"
    <3>1. PICK r \in Runs : \E q \in Due(run[r].todo) : Shuts(r, q, n) /\ q.for = "duplicate"
      BY <1>2, <2>1, <2>3 DEF Effects, Fate
    <3>2. PICK q \in Due(run[r].todo) : Shuts(r, q, n) /\ q.for = "duplicate"
      BY <3>1
    <3>3. HasOlder(n)
      BY <3>2 DEF Shuts, Due, DuplicateInv
    <3> QED BY <1>1, <2>1, <3>3
  <2> QED BY <2>2, <2>3
<1>3. ASSUME NEW r \in Runs, NEW q \in run'[r].todo, q.op = "close", q.for = "duplicate"
      PROVE  HasOlder(q.item)'
  <2>1. q.item \in Numbers /\ HasOlder(q.item)
    <3>1. CASE q \in run[r].todo
      BY <1>3, <3>1 DEF DuplicateInv, TypeInv, Sound
    <3>2. CASE \E job \in Tasks : \E plan \in Plans(r, job) : q \in plan
      <4>1. PICK job \in Tasks : \E plan \in Plans(r, job) : q \in plan
        BY <3>2
      <4>2. PICK plan \in Plans(r, job) : q \in plan
        BY <4>1
      <4> QED BY <1>3, <4>2, PlanTypes, PlanDuplicates DEF Sound
    <3>3. ASSUME Start(r) PROVE FALSE
      <4>1. PICK verdict, children : run'[r] = Begun(r, verdict, children)
        BY <3>3, StartRuns
      <4>2. Begun(r, verdict, children).todo = {}
        BY BegunRuns
      <4> QED BY <1>3, <4>1, <4>2
    <3>4. Take(r) => \E job \in Tasks : \E plan \in Plans(r, job) : q \in plan
      BY <1>3, TakenRuns
    <3>5. Resends(r) => q \in run[r].todo
      BY <1>3, ResendsOthers
    <3> QED BY <1>3, <3>1, <3>2, <3>3, <3>4, <3>5 DEF Effects, Agenda, Keeps, Drops, Stops
  <2> QED BY <1>1, <2>1
<1> QED BY <1>2, <1>3 DEF DuplicateInv

LEMMA OldestStays ==
  ASSUME TypeInv, DuplicateInv
  PROVE  DuplicatesKeepTheOldest
<1> SUFFICES ASSUME NEW n \in Numbers, forge[n].state = "duplicate"
             PROVE  \E m \in 1..(n - 1) :
                      /\ forge[m].part = forge[n].part /\ forge[m].field = forge[n].field
                      /\ forge[m].state # "duplicate"
  BY DEF DuplicatesKeepTheOldest
<1> DEFINE alike == {m \in Numbers : forge[m].part = forge[n].part /\ forge[m].field = forge[n].field}
<1>1. Numbers \subseteq Nat \ {0} /\ alike \in SUBSET Nat /\ n \in alike
  BY DEF TypeInv, Numbers
<1>2. Min(alike) \in alike /\ \A m \in alike : Min(alike) <= m
  BY <1>1, Least
<1>3. forge[Min(alike)].state # "duplicate"
  <2>1. ASSUME HasOlder(Min(alike)) PROVE FALSE
    <3>1. PICK m \in Numbers : m < Min(alike) /\ forge[m].part = forge[Min(alike)].part
                                 /\ forge[m].field = forge[Min(alike)].field
      BY <2>1 DEF HasOlder
    <3>2. m \in alike
      BY <1>2, <3>1
    <3>3. m \in Nat /\ Min(alike) \in Nat /\ Min(alike) <= m
      BY <1>1, <1>2, <3>2
    <3> QED BY <3>1, <3>3
  <2> QED BY <1>2, <2>1 DEF DuplicateInv
<1>4. Min(alike) # n /\ Min(alike) <= n
  BY <1>1, <1>2, <1>3
<1>5. Min(alike) \in 1..(n - 1)
  BY <1>1, <1>2, <1>4
<1> QED BY <1>2, <1>3, <1>5

\* However runs overlap and fail, closing duplicates never leaves a part, an action or a
\* control with none: each has an older item that was not closed as a duplicate.
THEOREM DuplicatesHold == Spec => []DuplicatesKeepTheOldest
<1>1. Init => TypeInv /\ DuplicateInv
  <2>1. Init => DuplicateInv
    BY DEF Init, DuplicateInv, Numbers, Fresh
  <2> QED BY <2>1, InitTypes
<1>2. TypeInv /\ DuplicateInv /\ [Next]_vars => TypeInv' /\ DuplicateInv'
  BY StepTypes, StepEffects, StepDuplicates
<1>3. TypeInv /\ DuplicateInv => DuplicatesKeepTheOldest
  BY OldestStays
<1> QED BY <1>1, <1>2, <1>3, PTL DEF Spec

-----------------------------------------------------------------------------
(* Children close first.                                                    *)

\* The requests that close children, which have their turn before any that closes an item.
ClosesFirst(s, k) == \E c \in s : c.op = "close" /\ c.item = k /\ c.turn[1] = 1

\* While an item is to be closed as passing, so is each child its run listed that is open.
FamilyWaits(s, q) ==
  (q.op = "close" /\ q.for = "passing" /\ forge[q.item].field = Parent) =>
    /\ q.turn[1] = 2
    /\ \A k \in DOMAIN s.saw :
         forge[k].part = forge[q.item].part /\ forge[k].field # Parent /\ IsOpen(k)
           => ClosesFirst(s.todo, k)

ChildrenInv == \A r \in Runs : \A q \in run[r].todo : FamilyWaits(run[r], q)

\* Only the plan of a passing part closes an item as passing, and it closes every child.
LEMMA PlanParents ==
  ASSUME TypeInv, NEW r \in Runs, NEW job \in Tasks, NEW plan \in Plans(r, job),
         NEW q \in plan, q.op = "close", q.for = "passing", forge[q.item].field = Parent
  PROVE  /\ q.turn[1] = 2
         /\ \A k \in DOMAIN run[r].saw :
              forge[k].part = forge[q.item].part /\ forge[k].field # Parent => ClosesFirst(plan, k)
<1> DEFINE p == job.part
<1>1. p \in Range(world.parts)
  BY DEF Tasks
<1> HIDE DEF p
<1>2. ASSUME NEW S, NEW why, NEW stage, Closing(q, S, why, stage)
      PROVE  why = "passing" /\ q.item \in S /\ q.turn[1] = stage
  BY <1>2 DEF Closing
<1>3. Parent \notin Fields
  BY TrackerAssumption
<1>4. \A f \in Fields : q.item \notin Listed(r, p, {f})
  BY <1>3, ListedNumbers
<1>5. \A S, place : q \notin CloseAll(S, "untracked", 1, place)
  BY DEF CloseAll, Request
<1>6. CASE plan = ClosePassing(r, p)
  <2>1. q.item \in Listed(r, p, {Parent}) /\ q.turn[1] = 2
    <3>1. q.item \notin Listed(r, p, Fields)
      BY <1>3, ListedNumbers
    <3> QED BY <1>1, <1>2, <1>6, <3>1, OtherMembers
  <2>2. forge[q.item].part = p
    BY <2>1, ListedNumbers
  <2>3. ASSUME NEW k \in DOMAIN run[r].saw, forge[k].part = p, forge[k].field # Parent
        PROVE  ClosesFirst(plan, k)
    <3>1. k \in Listed(r, p, Fields)
      <4>1. k \in Numbers
        BY DEF TypeInv, Runners
      <4>2. forge[k].field \in Fields \union {Parent}
        <5>1. forge[k] \in Items
          BY <4>1 DEF TypeInv, Numbers
        <5> QED BY <5>1 DEF Items
      <4> QED BY <2>3, <4>2 DEF Listed
    <3>2. Request("close", k, "passing", <<1, 0, k>>) \in plan
      BY <1>6, <3>1 DEF ClosePassing, CloseAll
    <3> QED BY <3>2 DEF ClosesFirst, Request
  <2> QED BY <2>1, <2>2, <2>3
<1>7. CASE plan = KeepOpen(r, p)
  BY <1>1, <1>2, <1>7, OtherMembers
<1>8. CASE plan \in KeepFamily(r, p)
  <2>1. ASSUME NEW f \in Same(r, p), Closing(q, Listed(r, p, {f}), "passing", 3) PROVE FALSE
    <3>1. q.item \in Listed(r, p, {f}) /\ f \in Fields
      BY <2>1 DEF Closing, Same, KidFields
    <3> QED BY <1>4, <3>1
  <2>2. \A S, stage : ~Closing(q, S, "untracked", stage) /\ ~Closing(q, S, "duplicate", stage)
    BY DEF Closing
  <2> QED BY <1>1, <1>8, <2>1, <2>2, FamilyMembers
<1>9. \/ plan = CloseAll(Listed(r, p, Fields), "untracked", 1, 0)
      \/ plan = CloseAll(Listed(r, p, {Parent}), "untracked", 1, 0)
      \/ plan = ClosePassing(r, p)
      \/ plan = KeepOpen(r, p)
      \/ plan \in KeepFamily(r, p)
  BY WhichPlans DEF p
<1> QED BY <1>5, <1>6, <1>7, <1>8, <1>9

LEMMA StepChildren ==
  ASSUME TypeInv, ChildrenInv, Effects
  PROVE  ChildrenInv'
<1> SUFFICES ASSUME NEW r \in Runs, NEW q \in run'[r].todo,
                    q.op = "close", q.for = "passing", forge'[q.item].field = Parent
             PROVE  /\ q.turn[1] = 2
                    /\ \A k \in DOMAIN run'[r].saw :
                         (forge'[k].part = forge'[q.item].part /\ forge'[k].field # Parent
                            /\ forge'[k].state = "open") => ClosesFirst(run'[r].todo, k)
  BY DEF ChildrenInv, FamilyWaits, IsOpen
<1>1. DOMAIN run[r].saw \subseteq Numbers /\ \A c \in run[r].todo : Sound(c)
  BY DEF TypeInv, Runners
<1>2. \A n \in Numbers : /\ forge'[n].part = forge[n].part /\ forge'[n].field = forge[n].field
                         /\ forge'[n].state = "open" => forge[n].state = "open"
  BY DEF Effects, Grown, Fate
<1>3. CASE Keeps(r) \/ Resends(r)
  <2>1. q \in run[r].todo /\ run'[r].saw = run[r].saw
    BY <1>3, ResendsOthers DEF Keeps, Steady
  <2>2. q.item \in Numbers
    BY <1>1, <2>1 DEF Sound
  <2>3. FamilyWaits(run[r], q) /\ forge[q.item].field = Parent
    BY <1>2, <2>1, <2>2 DEF ChildrenInv
  <2>4. ASSUME NEW k \in DOMAIN run[r].saw, forge'[k].part = forge'[q.item].part,
               forge'[k].field # Parent, forge'[k].state = "open"
        PROVE  ClosesFirst(run'[r].todo, k)
    <3>1. ClosesFirst(run[r].todo, k)
      BY <1>1, <1>2, <2>2, <2>3, <2>4 DEF FamilyWaits, IsOpen
    <3>2. PICK c \in run[r].todo : c.op = "close" /\ c.item = k /\ c.turn[1] = 1
      BY <3>1 DEF ClosesFirst
    <3>3. c \in run'[r].todo
      BY <1>3, <2>4, <3>2, ResendsOthers DEF Keeps
    <3> QED BY <3>2, <3>3 DEF ClosesFirst
  <2>5. q.turn[1] = 2
    BY <2>3 DEF FamilyWaits
  <2>6. DOMAIN run'[r].saw = DOMAIN run[r].saw
    BY <2>1
  <2> QED BY <2>4, <2>5, <2>6
<1>4. CASE Take(r)
  <2>1. PICK job \in Tasks : \E plan \in Plans(r, job) :
          run'[r].todo = plan /\ run'[r].saw = run[r].saw /\ forge' = forge
    BY <1>4, TakenRuns
  <2>2. PICK plan \in Plans(r, job) :
          run'[r].todo = plan /\ run'[r].saw = run[r].saw /\ forge' = forge
    BY <2>1
  <2>3. q \in plan /\ forge[q.item].field = Parent
    BY <2>2
  <2>4. /\ q.turn[1] = 2
        /\ \A k \in DOMAIN run[r].saw :
             forge[k].part = forge[q.item].part /\ forge[k].field # Parent => ClosesFirst(plan, k)
    BY <2>3, PlanParents
  <2> QED BY <2>2, <2>4
<1>5. CASE Start(r)
  <2>1. PICK verdict, children : run'[r] = Begun(r, verdict, children)
    BY <1>5, StartRuns
  <2>2. Begun(r, verdict, children).todo = {}
    BY BegunRuns
  <2> QED BY <2>1, <2>2
<1> QED BY <1>3, <1>4, <1>5 DEF Effects, Agenda, Drops, Stops

\* What closes as passing had its turn, and all of its children theirs before.
LEMMA ChildrenBefore ==
  ASSUME TypeInv, ChildrenInv, Effects,
         NEW r \in Runs, NEW n \in Numbers, forge[n].field = Parent, IsOpen(n),
         run'[r] # run[r], forge'[n].state = "passing",
         NEW k \in DOMAIN run[r].saw, forge[k].part = forge[n].part, forge[k].field # Parent
  PROVE  ~IsOpen(k)
<1>1. PICK q \in Due(run[r].todo) : Shuts(r, q, n) /\ q.for = "passing"
  <2>1. PICK s \in Runs : \E q \in Due(run[s].todo) : Shuts(s, q, n) /\ q.for = "passing"
    BY DEF Effects, Fate, IsOpen
  <2>2. s = r
    BY <2>1 DEF Shuts
  <2> QED BY <2>1, <2>2
<1>2. q \in run[r].todo /\ q.op = "close" /\ q.item = n
  BY <1>1 DEF Shuts, Due
<1>3. ASSUME NEW c \in run[r].todo, c.turn[1] = 1 PROVE FALSE
  <2>1. run[r].todo \in SUBSET Asks
    BY DEF TypeInv, Runners
  <2>2. q.turn[1] <= c.turn[1]
    BY <2>1, DueFirst
  <2>3. q.turn[1] = 2
    BY <1>1, <1>2 DEF ChildrenInv, FamilyWaits
  <2> QED BY <1>3, <2>2, <2>3
<1> QED BY <1>1, <1>2, <1>3 DEF ChildrenInv, FamilyWaits, ClosesFirst

\* An item closes as passing only after every child its run listed, whatever the run found,
\* however runs overlap and whatever failed before.
THEOREM ChildrenFirst == Spec => ChildrenCloseFirst
<1>1. Init => TypeInv /\ ChildrenInv
  <2>1. Init => ChildrenInv
    BY DEF Init, ChildrenInv, Fresh
  <2> QED BY <2>1, InitTypes
<1>2. TypeInv /\ ChildrenInv /\ [Next]_vars => TypeInv' /\ ChildrenInv'
  BY StepTypes, StepEffects, StepChildren
<1>3. TypeInv /\ ChildrenInv /\ [Next]_vars =>
        [\A r \in Runs, n \in Numbers :
           (Active(r) /\ forge[n].field = Parent /\ IsOpen(n) /\ run'[r] # run[r]
              /\ forge'[n].state = "passing")
           => \A k \in DOMAIN run[r].saw \ {n} :
                forge[k].part = forge[n].part /\ forge[k].field # Parent => ~IsOpen(k)]_vars
  BY StepEffects, ChildrenBefore
<1> QED BY <1>1, <1>2, <1>3, PTL DEF Spec, ChildrenCloseFirst

-----------------------------------------------------------------------------
(* Nothing piles up while runs come one at a time.                          *)

LEMMA FieldsFinite == IsFiniteSet(Fields)
<1>1. FixOrder \in Seq(Actions)
  BY TrackerAssumption
<1>2. DOMAIN FixOrder = 1..Len(FixOrder) /\ Len(FixOrder) \in Nat
  BY <1>1
<1>3. IsFiniteSet(DOMAIN FixOrder)
  BY <1>2, FS_Interval
<1>4. FixOrder \in Surjection(DOMAIN FixOrder, Actions)
  BY <1>1 DEF Actions, Range, Surjection
<1>5. IsFiniteSet(Actions)
  BY <1>3, <1>4, FS_Surjection
<1>6. [a \in Actions |-> ControlOf[a]] \in Surjection(Actions, Controls)
  BY DEF Controls, Surjection
<1>7. IsFiniteSet(Controls)
  BY <1>5, <1>6, FS_Surjection
<1> QED BY <1>5, <1>7, FS_Union DEF Fields

\* The units of a kind are told apart by their places.
LEMMA PlacesApart ==
  ASSUME NEW acts \in SUBSET Actions, NEW kind,
         NEW u \in Units(kind, acts), NEW v \in Units(kind, acts), Place(u, acts) = Place(v, acts)
  PROVE  u = v
<1> DEFINE a == FixOrder[Place(u, acts)]
<1>1. a \in Actions /\ u \in {a, ControlOf[a]} /\ v \in {a, ControlOf[a]}
  BY Places DEF Holds
<1>2. ControlOf[a] \in Controls /\ Actions \intersect Controls = {}
  BY <1>1, TrackerAssumption DEF Controls
<1>3. CASE kind = "actions"
  BY <1>1, <1>2, <1>3 DEF Units
<1>4. CASE kind # "actions"
  <2>1. u \in Controls /\ v \in Controls
    BY <1>4 DEF Units, Controls
  <2> QED BY <1>1, <1>2, <2>1
<1> QED BY <1>3, <1>4

\* What an entry splits its items into is of the kind it asks for.
LEMMA WantedKind ==
  ASSUME TypeInv, NEW r \in Runs, NEW p \in Range(world.parts), NEW u \in Wanted(r, p)
  PROVE  KindOf(u) = run[r].children /\ u \in Fields
<1>1. run[r].children \in {"none", "actions", "controls"}
  BY TrackerAssumption DEF TypeInv, Runners
<1>2. u \in Units(run[r].children, Acts(r, p)) /\ run[r].children # "none"
  BY DEF Wanted
<1>3. Acts(r, p) \in SUBSET Actions /\ u \in Fields
  BY WantedUnits
<1>4. CASE run[r].children = "actions"
  BY <1>2, <1>3, <1>4, TrackerAssumption DEF Units, KindOf
<1>5. CASE run[r].children = "controls"
  BY <1>2, <1>3, <1>5 DEF Units, KindOf, Controls
<1> QED BY <1>1, <1>2, <1>3, <1>4, <1>5

\* A run creates no more children than the cap leaves room for beside those that stay.
LEMMA CapLeavesRoom ==
  ASSUME TypeInv, NEW r \in Runs, NEW p \in Range(world.parts), New(r, p) # {}
  PROVE  Cardinality(Kept(r, p) \union New(r, p)) <= MaxChildren
<1> DEFINE place(u) == Place(u, Acts(r, p))
           Bounds == {b \in Nat : \A u \in New(r, p) : place(u) <= b}
<1>1. /\ Acts(r, p) \in SUBSET Actions
      /\ \A u \in Wanted(r, p) : u \in Units(run[r].children, Acts(r, p)) /\ u \in Fields
  BY WantedUnits
<1>2. /\ New(r, p) \subseteq Lacking(r, p) /\ Lacking(r, p) \subseteq Wanted(r, p)
      /\ Kept(r, p) \subseteq Wanted(r, p) /\ Kept(r, p) \intersect New(r, p) = {}
  BY DEF New, Lacking, Kept
<1>3. \A u \in Wanted(r, p) : place(u) \in DOMAIN FixOrder
  BY <1>1, Places
<1>4. DOMAIN FixOrder = 1..Len(FixOrder) /\ Len(FixOrder) \in Nat
  BY TrackerAssumption
<1>5. Len(FixOrder) \in Bounds
  BY <1>2, <1>3, <1>4
<1>6. Min(Bounds) \in Bounds /\ \A b \in Bounds : Min(Bounds) <= b
  BY <1>5, Least
<1> DEFINE top == Min(Bounds)
<1>7. top \in Nat \ {0} /\ \A v \in New(r, p) : place(v) <= top
  BY <1>2, <1>3, <1>4, <1>6
<1> HIDE DEF top
<1>8. PICK u \in New(r, p) : place(u) = top
  <2>1. top - 1 \notin Bounds /\ top - 1 \in Nat
    BY <1>6, <1>7 DEF top
  <2>2. PICK u \in New(r, p) : ~(place(u) <= top - 1)
    BY <2>1
  <2> QED BY <1>2, <1>3, <1>4, <1>7, <2>2
<1>9. New(r, p) \ {u} \subseteq Before(r, p, u)
  <2> SUFFICES ASSUME NEW v \in New(r, p), v # u PROVE v \in Before(r, p, u)
    OBVIOUS
  <2>1. place(v) <= place(u) /\ place(v) \in Nat /\ place(u) \in Nat
    BY <1>2, <1>3, <1>4, <1>7, <1>8
  <2>2. place(v) # place(u)
    BY <1>1, <1>2, PlacesApart
  <2> QED BY <1>2, <2>1, <2>2 DEF Before
<1>10. Cardinality(Kept(r, p)) + Cardinality(Before(r, p, u)) < MaxChildren
  BY DEF New
<1>11. /\ IsFiniteSet(Kept(r, p)) /\ IsFiniteSet(New(r, p)) /\ IsFiniteSet(Before(r, p, u))
  <2>1. /\ Kept(r, p) \in SUBSET Fields /\ New(r, p) \in SUBSET Fields
        /\ Before(r, p, u) \in SUBSET Fields
    BY <1>1, <1>2 DEF Before
  <2> QED BY <2>1, FieldsFinite, FS_Subset
<1>12. /\ Cardinality(Kept(r, p)) \in Nat /\ Cardinality(New(r, p)) \in Nat
       /\ Cardinality(Before(r, p, u)) \in Nat
  BY <1>11, FS_CardinalityType
<1>13. Cardinality(New(r, p)) - 1 <= Cardinality(Before(r, p, u))
  <2>1. Cardinality(New(r, p) \ {u}) = Cardinality(New(r, p)) - 1
    BY <1>11, FS_RemoveElement
  <2> QED BY <1>9, <1>11, <2>1, FS_Subset
<1>14. Cardinality(Kept(r, p) \union New(r, p)) = Cardinality(Kept(r, p)) + Cardinality(New(r, p))
  <2>1. Cardinality(Kept(r, p) \intersect New(r, p)) = 0
    BY <1>2, FS_EmptySet
  <2>2. Cardinality(Kept(r, p) \union New(r, p)) =
          Cardinality(Kept(r, p)) + Cardinality(New(r, p)) - Cardinality(Kept(r, p) \intersect New(r, p))
    BY <1>11, FS_Union
  <2> QED BY <1>12, <2>1, <2>2
<1> QED BY <1>10, <1>12, <1>13, <1>14, TrackerAssumption

\* A set has so many members at most.
AtMost(k, S) == IsFiniteSet(S) /\ Cardinality(S) <= k

LEMMA NoMore ==
  ASSUME NEW k \in Nat, NEW S, AtMost(k, S), NEW T \in SUBSET S
  PROVE  AtMost(k, T)
<1>1. IsFiniteSet(T) /\ Cardinality(T) <= Cardinality(S)
  BY FS_Subset DEF AtMost
<1>2. Cardinality(T) \in Nat /\ Cardinality(S) \in Nat
  BY <1>1, FS_CardinalityType DEF AtMost
<1> QED BY <1>1, <1>2 DEF AtMost

LEMMA OneMore ==
  ASSUME NEW k \in Nat, NEW S, AtMost(k, S), NEW x, NEW T \in SUBSET (S \union {x})
  PROVE  AtMost(k + 1, T)
<1>1. IsFiniteSet(S \union {x}) /\ Cardinality(S) \in Nat
  BY FS_AddElement, FS_CardinalityType DEF AtMost
<1>2. Cardinality(S \union {x}) = Cardinality(S) \/ Cardinality(S \union {x}) = Cardinality(S) + 1
  BY FS_AddElement DEF AtMost
<1>3. AtMost(k + 1, S \union {x})
  BY <1>1, <1>2 DEF AtMost
<1> QED BY <1>3, NoMore

LEMMA SentTypes ==
  ASSUME TypeInv
  PROVE  \A r \in Runs : \A q \in run[r].todo : q \in Asks /\ q.sent \in Nat
BY DEF TypeInv, Runners, Asks

LEMMA NoneAtAll == \A k \in Nat : AtMost(k, {})
BY FS_EmptySet DEF AtMost

\* The children a run's requests will create, those no request of it will close, and all
\* those that are open: each by its field.  And those of one field it leaves open.
Coming(todo)     == {f \in Fields : \E q \in todo : q.op = "child" /\ q.for = f}
Staying(p, todo) == {f \in Fields : \E n \in OpenOf(p, f) : ~Closes(todo, n)}
Having(p)        == {f \in Fields : OpenOf(p, f) # {}}
Left(p, f, todo) == {n \in OpenOf(p, f) : ~Closes(todo, n)}

\* Of what is to be created for a part there are no more, beside those that will have closed
\* before, than the times the create was sent; and the cap leaves room for all of it.
Careful(p, todo) ==
  /\ \A q \in todo : q.op = "openParent" =>
       /\ AtMost(q.sent, OpenOf(p, Parent)) /\ q.sent < Attempts
       /\ \A o \in todo : o.op = "openParent" => o = q
  /\ \A q \in todo : q.op = "child" =>
       /\ AtMost(q.sent, Left(p, q.for, todo)) /\ q.sent < Attempts
       /\ \A o \in todo : o.op = "child" /\ o.for = q.for => o = q
       /\ Cardinality(Staying(p, todo) \union Coming(todo)) <= MaxChildren

\* A run listed every open item of a part it has not come to.
Aware(s) ==
  \A j \in s.jobs : j.what = "keep" =>
    \A n \in Numbers : IsOpen(n) /\ forge[n].part = j.part => n \in DOMAIN s.saw

\* It comes to each part once, and creates items of none but the one it is at.
Apart(s) ==
  /\ \A i, j \in s.jobs : i.what = "keep" /\ j.what = "keep" /\ i.part = j.part => i = j
  /\ \A q \in s.todo : q.op \in {"openParent", "child"} =>
       \A j \in s.jobs : j.what = "keep" => j.part # s.part

Ready(s)  == Aware(s) /\ Apart(s) /\ Careful(s.part, s.todo)
OneActive == \A r, s \in Runs : Active(r) /\ Active(s) => r = s
Few       == \A p \in Parts : \A f \in Fields \union {Parent} : AtMost(Attempts, OpenOf(p, f))
Capped    == \A p \in Parts : Cardinality(Having(p)) <= MaxChildren

PilesInv ==
  ~world.overlap => /\ OneActive /\ Few /\ Capped
                    /\ \A r \in Runs : Active(r) => Ready(run[r])

LEMMA JobsApart ==
  ASSUME TypeInv, NEW verdict, NEW i \in Jobs(verdict), NEW j \in Jobs(verdict),
         i.what = "keep", j.what = "keep", i.part = j.part
  PROVE  i = j
<1>1. IsInjective(world.parts)
  BY TrackerAssumption DEF TypeInv
<1>2. PICK m \in DOMAIN world.parts :
        i = [part |-> world.parts[m], what |-> "keep", turn |-> <<1, m, 0>>]
  BY DEF Jobs
<1>3. PICK n \in DOMAIN world.parts :
        j = [part |-> world.parts[n], what |-> "keep", turn |-> <<1, n, 0>>]
  BY DEF Jobs
<1> QED BY <1>1, <1>2, <1>3 DEF IsInjective

\* Which plans create items, and which items.
LEMMA PlanCreations ==
  ASSUME TypeInv, NEW r \in Runs, NEW job \in Tasks, NEW plan \in Plans(r, job), NEW q \in plan
  PROVE  /\ q.op = "openParent" =>
              /\ job.what = "keep" /\ Listed(r, job.part, {Parent}) = {}
              /\ q = Request("openParent", 0, Parent, <<2, 0, 0>>)
         /\ q.op = "child" =>
              /\ job.what = "keep" /\ plan \in KeepFamily(r, job.part)
              /\ q.for \in New(r, job.part)
              /\ q = Request("child", 0, q.for, <<5, Place(q.for, Acts(r, job.part)), 0>>)
<1> DEFINE p == job.part
<1>1. p \in Range(world.parts) /\ job.what \in {"keep", "goneKids", "goneParents"}
  BY DEF Tasks
<1> HIDE DEF p
<1>2. \A S, why, stage, place : q \in CloseAll(S, why, stage, place) => q.op = "close"
  BY DEF CloseAll, Request
<1>3. \A S, why, stage : Closing(q, S, why, stage) => q.op = "close"
  BY DEF Closing
<1>4. CASE job.what # "keep"
  <2>1. \/ plan = CloseAll(Listed(r, p, Fields), "untracked", 1, 0)
        \/ plan = CloseAll(Listed(r, p, {Parent}), "untracked", 1, 0)
    BY <1>4, WhichPlans DEF p
  <2> QED BY <1>2, <1>4, <2>1
<1>5. CASE job.what = "keep" /\ plan = ClosePassing(r, p)
  BY <1>2, <1>5 DEF ClosePassing
<1>6. CASE job.what = "keep" /\ plan = KeepOpen(r, p)
  <2>1. /\ q \in Rewrite(6) => q.op = "rewrite"
        /\ q \in Touch(7, 0) => q.op = "touch"
        /\ q \in OpenParent(2) => q = Request("openParent", 0, Parent, <<2, 0, 0>>)
    BY DEF Rewrite, Touch, OpenParent, Request
  <2>2. q.op \in {"openParent", "child"} => q \in OpenParent(2) /\ Listed(r, p, {Parent}) = {}
    BY <1>2, <1>6, <2>1 DEF KeepOpen
  <2>3. q.op \in {"openParent", "child"} => q.op = "openParent"
    BY <2>1, <2>2 DEF Request
  <2> QED BY <1>6, <2>1, <2>2, <2>3 DEF p
<1>7. CASE job.what = "keep" /\ plan \in KeepFamily(r, p)
  <2>1. q.op = "child" => /\ q.for \in New(r, p)
                          /\ q = Request("child", 0, q.for, <<5, Place(q.for, Acts(r, p)), 0>>)
    BY <1>1, <1>3, <1>7, FamilyMembers
  <2>2. q.op = "openParent" => Listed(r, p, {Parent}) = {}
    BY <1>1, <1>3, <1>7, FamilyMembers
  <2>3. ASSUME q.op = "openParent" PROVE q = Request("openParent", 0, Parent, <<2, 0, 0>>)
    <3>1. PICK order \in [Same(r, p) -> Nat] : plan = NewPlan(r, p, order)
      BY <1>1, <1>7, <2>2, <2>3, NewFamily
    <3>2. q \notin CreateAll(New(r, p), Acts(r, p), 5) /\ q \notin Rewrite(6)
      BY <2>3 DEF CreateAll, Rewrite, Request
    <3>3. \A f \in Same(r, p) : q \notin CloseAll(Listed(r, p, {f}), "untracked", 3, order[f])
      BY <1>2, <2>3
    <3>4. q \notin CloseAll(Listed(r, p, KidFields(r, p) \ Same(r, p)), "untracked", 1, 0)
      BY <1>2, <2>3
    <3>5. q \in OpenParent(2)
      BY <3>1, <3>2, <3>3, <3>4 DEF NewPlan
    <3> QED BY <3>5 DEF OpenParent
  <2> QED BY <1>7, <2>1, <2>2, <2>3 DEF p
<1>8. job.what = "keep" => \/ plan = ClosePassing(r, p)
                           \/ plan = KeepOpen(r, p)
                           \/ plan \in KeepFamily(r, p)
  BY WhichPlans DEF p
<1> QED BY <1>4, <1>5, <1>6, <1>7, <1>8

\* A plan made from a list of all the open items of a part is careful.
LEMMA PlanCareful ==
  ASSUME TypeInv, NEW r \in Runs, NEW job \in Tasks, NEW plan \in Plans(r, job),
         job.what = "keep" => \A n \in Numbers :
           IsOpen(n) /\ forge[n].part = job.part => n \in DOMAIN run[r].saw
  PROVE  Careful(job.part, plan)
<1> DEFINE p == job.part
<1>1. p \in Range(world.parts)
  BY DEF Tasks
<1>2. ASSUME job.what = "keep", NEW f PROVE OpenOf(p, f) \subseteq Listed(r, p, {f})
  BY <1>2 DEF OpenOf, Listed
<1> HIDE DEF p
<1>3. ASSUME NEW q \in plan, q.op = "openParent"
      PROVE  /\ AtMost(q.sent, OpenOf(p, Parent)) /\ q.sent < Attempts
             /\ \A o \in plan : o.op = "openParent" => o = q
  <2>1. /\ job.what = "keep" /\ Listed(r, p, {Parent}) = {}
        /\ q = Request("openParent", 0, Parent, <<2, 0, 0>>)
        /\ \A o \in plan : o.op = "openParent" => o = Request("openParent", 0, Parent, <<2, 0, 0>>)
    BY <1>3, PlanCreations DEF p
  <2>2. OpenOf(p, Parent) = {}
    BY <1>2, <2>1
  <2>3. q.sent = 0
    BY <2>1 DEF Request
  <2> QED BY <2>1, <2>2, <2>3, NoneAtAll, TrackerAssumption
<1>4. ASSUME NEW q \in plan, q.op = "child"
      PROVE  /\ AtMost(q.sent, Left(p, q.for, plan)) /\ q.sent < Attempts
             /\ \A o \in plan : o.op = "child" /\ o.for = q.for => o = q
             /\ Cardinality(Staying(p, plan) \union Coming(plan)) <= MaxChildren
  <2>1. /\ job.what = "keep" /\ plan \in KeepFamily(r, p)
        /\ \A o \in plan : o.op = "child" =>
             /\ o.for \in New(r, p)
             /\ o = Request("child", 0, o.for, <<5, Place(o.for, Acts(r, p)), 0>>)
    BY <1>4, PlanCreations DEF p
  <2>2. /\ \A n \in Listed(r, p, KidFields(r, p) \ Same(r, p)) : Closes(plan, n)
        /\ Listed(r, p, {Parent}) = {} =>
             \A f \in Same(r, p) : \A n \in Listed(r, p, {f}) : Closes(plan, n)
        /\ Listed(r, p, {Parent}) # {} =>
             \A f \in Same(r, p) \ Wanted(r, p) : \A n \in Listed(r, p, {f}) : Closes(plan, n)
    BY <1>1, <2>1, FamilyClears
  <2>3. ASSUME NEW f \in Fields, NEW n \in OpenOf(p, f)
        PROVE  \/ Closes(plan, n)
               \/ f \in Kept(r, p)
    <3>1. n \in Listed(r, p, {f}) /\ f \in KidFields(r, p)
      BY <1>2, <2>1, <2>3 DEF KidFields
    <3>2. CASE f \notin Same(r, p)
      <4>1. n \in Listed(r, p, KidFields(r, p) \ Same(r, p))
        BY <3>1, <3>2 DEF Listed
      <4> QED BY <2>2, <4>1
    <3>3. CASE f \in Same(r, p) /\ Listed(r, p, {Parent}) = {}
      BY <2>2, <3>1, <3>3
    <3>4. CASE f \in Same(r, p) /\ Listed(r, p, {Parent}) # {}
      BY <2>2, <3>1, <3>4 DEF Kept
    <3> QED BY <3>2, <3>3, <3>4
  <2>4. ASSUME NEW u \in New(r, p), NEW n \in OpenOf(p, u) PROVE Closes(plan, n)
    <3>1. u \in Wanted(r, p) /\ u \notin Kept(r, p)
      BY DEF New, Lacking
    <3>2. u \in Fields
      BY <1>1, <3>1, WantedUnits
    <3> QED BY <2>3, <2>4, <3>1, <3>2
  <2>5. Staying(p, plan) \subseteq Kept(r, p)
    BY <2>3 DEF Staying
  <2>6. Coming(plan) \subseteq New(r, p)
    BY <2>1 DEF Coming
  <2>7. Cardinality(Staying(p, plan) \union Coming(plan)) <= MaxChildren
    <3> DEFINE all == Kept(r, p) \union New(r, p)
               some == Staying(p, plan) \union Coming(plan)
    <3>1. all \in SUBSET Fields
      BY <1>1, WantedUnits DEF Kept, New, Lacking
    <3>2. IsFiniteSet(all) /\ some \in SUBSET all
      BY <2>5, <2>6, <3>1, FieldsFinite, FS_Subset
    <3>3. Cardinality(some) <= Cardinality(all) /\ IsFiniteSet(some)
      BY <3>2, FS_Subset
    <3>4. Cardinality(all) \in Nat /\ Cardinality(some) \in Nat
      BY <3>2, <3>3, FS_CardinalityType
    <3>5. Cardinality(all) <= MaxChildren
      BY <1>1, <1>4, <2>1, CapLeavesRoom
    <3> QED BY <3>3, <3>4, <3>5, TrackerAssumption
  <2>8. AtMost(q.sent, Left(p, q.for, plan)) /\ q.sent < Attempts
    <3>1. Left(p, q.for, plan) = {}
      BY <1>4, <2>1, <2>4 DEF Left
    <3>2. q = Request("child", 0, q.for, <<5, Place(q.for, Acts(r, p)), 0>>)
      BY <1>4, <2>1
    <3>3. q.sent = 0
      BY <3>2 DEF Request
    <3> QED BY <3>1, <3>3, NoneAtAll, TrackerAssumption
  <2> QED BY <1>4, <2>1, <2>7, <2>8
<1> QED BY <1>3, <1>4 DEF Careful, p

\* An item that is open after a step was open before, or is what one request created.
LEMMA WhatIsOpen ==
  ASSUME TypeInv, Effects, NEW n \in Numbers', forge'[n].state = "open"
  PROVE  \/ /\ n \in Numbers /\ IsOpen(n)
            /\ forge'[n].part = forge[n].part /\ forge'[n].field = forge[n].field
         \/ /\ n = Len(forge) + 1 /\ n \notin Numbers
            /\ \E r \in Runs : \E q \in Due(run[r].todo) : Adds(r, q)
<1>1. CASE n \in Numbers
  <2>1. IsOpen(n)
    BY <1>1 DEF Effects, Fate, IsOpen
  <2> QED BY <1>1, <2>1 DEF Effects, Grown
<1>2. CASE n \notin Numbers
  <2>1. PICK r \in Runs : \E q \in Due(run[r].todo) : Adds(r, q)
    BY <1>2 DEF Effects
  <2> QED BY <1>2, <2>1 DEF Adds
<1> QED BY <1>1, <1>2

\* Of what a careful run creates there is less than it may send a create, and the cap has
\* room for it.
LEMMA Arrival ==
  ASSUME TypeInv, NEW r \in Runs, NEW q \in Due(run[r].todo), Adds(r, q),
         Careful(run[r].part, run[r].todo)
  PROVE  LET p == run[r].part
             f == forge'[Len(forge) + 1].field
         IN  /\ AtMost(Attempts - 1, OpenOf(p, f))
             /\ f \in Fields \union {Parent}
             /\ f # Parent => /\ Cardinality(Having(p) \union {f}) <= MaxChildren
                              /\ q.op = "child" /\ q.for = f
             /\ f = Parent => q.op = "openParent"
<1> DEFINE p == run[r].part
           f == forge'[Len(forge) + 1].field
<1>1. q \in run[r].todo /\ Sound(q) /\ run[r].todo \in SUBSET Asks
  BY AfterRequest
<1>a. ASSUME NEW S, AtMost(q.sent, S), q.sent < Attempts PROVE AtMost(Attempts - 1, S)
  <2>1. q.sent \in Nat /\ IsFiniteSet(S) /\ Cardinality(S) \in Nat
    BY <1>1, <1>a, FS_CardinalityType DEF Asks, AtMost
  <2> QED BY <1>a, <2>1, TrackerAssumption DEF AtMost
<1>2. CASE q.op = "openParent"
  <2>1. f = Parent
    BY <1>2 DEF Adds
  <2>2. AtMost(q.sent, OpenOf(p, Parent)) /\ q.sent < Attempts
    BY <1>1, <1>2 DEF Careful
  <2>3. AtMost(Attempts - 1, OpenOf(p, Parent))
    BY <1>a, <2>2
  <2> QED BY <1>2, <2>1, <2>3
<1>3. CASE q.op = "child"
  <2>1. f = q.for /\ f \in Fields /\ f # Parent
    BY <1>1, <1>3, TrackerAssumption DEF Adds, Sound
  <2>2. \A n : ~Closes(run[r].todo, n)
    <3> SUFFICES ASSUME NEW c \in run[r].todo, c.op = "close" PROVE FALSE
      BY DEF Closes
    <3>1. q.turn[1] = 5 /\ c.turn[1] \in 1..4
      BY <1>1, <1>3 DEF Sound, TypeInv
    <3>2. q.turn[1] <= c.turn[1]
      BY <1>1, DueFirst
    <3> QED BY <3>1, <3>2
  <2>3. AtMost(Attempts - 1, OpenOf(p, f))
    <3>1. AtMost(q.sent, Left(p, q.for, run[r].todo)) /\ q.sent < Attempts
      BY <1>1, <1>3 DEF Careful
    <3>2. Left(p, q.for, run[r].todo) = OpenOf(p, q.for)
      BY <2>2 DEF Left
    <3>3. AtMost(Attempts - 1, OpenOf(p, q.for))
      BY <1>a, <3>1, <3>2
    <3> QED BY <2>1, <3>3
  <2>4. Having(p) \union {f} \subseteq Staying(p, run[r].todo) \union Coming(run[r].todo)
    BY <1>1, <1>3, <2>1, <2>2 DEF Having, Staying, Coming
  <2>5. Cardinality(Having(p) \union {f}) <= MaxChildren
    <3> DEFINE all == Staying(p, run[r].todo) \union Coming(run[r].todo)
               some == Having(p) \union {f}
    <3>1. all \in SUBSET Fields
      BY DEF Staying, Coming
    <3>2. IsFiniteSet(all) /\ some \in SUBSET all
      BY <2>4, <3>1, FieldsFinite, FS_Subset
    <3>3. Cardinality(some) <= Cardinality(all) /\ IsFiniteSet(some)
      BY <3>2, FS_Subset
    <3>4. Cardinality(all) \in Nat /\ Cardinality(some) \in Nat
      BY <3>2, <3>3, FS_CardinalityType
    <3>5. Cardinality(all) <= MaxChildren
      BY <1>1, <1>3 DEF Careful
    <3> QED BY <3>3, <3>4, <3>5, TrackerAssumption
  <2> QED BY <1>3, <2>1, <2>3, <2>5
<1> QED BY <1>2, <1>3 DEF Adds

\* Only a run that is active changes what is open in its part, and it is the only one.
LEMMA AddsAlone ==
  ASSUME TypeInv, OneActive, NEW r \in Runs, Active(r), NEW s \in Runs, NEW q, Adds(s, q)
  PROVE  s = r
BY DEF OneActive, Adds

\* A run that goes on with its requests, or drops them, stays ready.
LEMMA StaysReady ==
  ASSUME TypeInv, Effects, OneActive, NEW r \in Runs, Active(r), Ready(run[r]),
         Keeps(r) \/ Drops(r)
  PROVE  Ready(run[r])'
<1> DEFINE s == run[r]
<1> SUFFICES ASSUME NEW p, p = s.part, NEW todo, todo = run'[r].todo
             PROVE  Ready(run[r])'
  OBVIOUS
<1>1. /\ run'[r].saw = s.saw /\ run'[r].jobs = s.jobs /\ run'[r].part = p
      /\ \A q \in todo : q.op \in {"openParent", "child"} => Keeps(r) /\ q \in s.todo
  BY DEF Keeps, Drops, Steady
<1>2. /\ Aware(s) /\ Apart(s) /\ Careful(p, s.todo)
  BY DEF Ready
<1>3. ASSUME NEW n \in Numbers', forge'[n].state = "open", n \notin Numbers
      PROVE  \E q \in s.todo :
               /\ q \notin todo /\ forge'[n].part = p
               /\ \/ q.op = "openParent" /\ forge'[n].field = Parent
                  \/ q.op = "child" /\ forge'[n].field = q.for /\ q.for \in Fields
  <2>1. n = Len(forge) + 1 /\ \E o \in Runs : \E q \in Due(run[o].todo) : Adds(o, q)
    BY <1>3, WhatIsOpen
  <2>2. PICK q \in Due(s.todo) : Adds(r, q)
    BY <2>1, AddsAlone
  <2>3. q \in s.todo /\ Sound(q)
    BY AfterRequest
  <2> QED BY <2>1, <2>2, <2>3 DEF Adds, Sound
<1>4. Aware(run[r])'
  <2> SUFFICES ASSUME NEW j \in run'[r].jobs, j.what = "keep", NEW n \in Numbers',
                      forge'[n].state = "open", forge'[n].part = j.part
               PROVE  n \in DOMAIN run'[r].saw
    BY DEF Aware, IsOpen
  <2>1. n \in Numbers
    BY <1>1, <1>2, <1>3 DEF Apart
  <2> QED BY <1>1, <1>2, <2>1, WhatIsOpen DEF Aware
<1>5. Apart(run[r])'
  BY <1>1, <1>2 DEF Apart
<1>6. ASSUME NEW q \in todo, q.op = "openParent"
      PROVE  /\ AtMost(q.sent, OpenOf(p, Parent)') /\ q.sent < Attempts
             /\ \A o \in todo : o.op = "openParent" => o = q
  <2>1. /\ q \in s.todo /\ q.sent \in Nat /\ \A o \in s.todo : o.op = "openParent" => o = q
        /\ AtMost(q.sent, OpenOf(p, Parent)) /\ q.sent < Attempts
    BY <1>1, <1>2, <1>6, SentTypes DEF Careful
  <2>2. ASSUME NEW n \in Numbers', forge'[n].state = "open", forge'[n].part = p,
               forge'[n].field = Parent
        PROVE  n \in OpenOf(p, Parent)
    <3>1. n \in Numbers
      BY <1>3, <1>6, <2>1, <2>2, TrackerAssumption
    <3> QED BY <2>2, <3>1, WhatIsOpen DEF OpenOf
  <2>3. OpenOf(p, Parent)' \in SUBSET OpenOf(p, Parent)
    BY <2>2 DEF OpenOf, IsOpen
  <2>4. AtMost(q.sent, OpenOf(p, Parent)')
    BY <2>1, <2>3, NoMore
  <2> QED BY <1>1, <1>6, <2>1, <2>4
<1>7. ASSUME NEW q \in todo, q.op = "child"
      PROVE  /\ AtMost(q.sent, Left(p, q.for, todo)') /\ q.sent < Attempts
             /\ \A o \in todo : o.op = "child" /\ o.for = q.for => o = q
             /\ Cardinality(Staying(p, todo)' \union Coming(todo)) <= MaxChildren
  <2>1. /\ q \in s.todo /\ q.sent \in Nat /\ Keeps(r)
        /\ \A o \in s.todo : o.op = "child" /\ o.for = q.for => o = q
        /\ AtMost(q.sent, Left(p, q.for, s.todo)) /\ q.sent < Attempts
        /\ Cardinality(Staying(p, s.todo) \union Coming(s.todo)) <= MaxChildren
    BY <1>1, <1>2, <1>7, SentTypes DEF Careful
  <2>2. ASSUME NEW n \in Numbers, Closes(s.todo, n), forge'[n].state = "open"
        PROVE  Closes(todo, n)
    BY <2>1, <2>2 DEF Closes, Keeps
  <2>3. q.for \in Fields
    BY <1>7, <2>1 DEF Sound, TypeInv
  <2>4. AtMost(q.sent, Left(p, q.for, todo)')
    <3>1. ASSUME NEW n \in Numbers', forge'[n].state = "open", forge'[n].part = p,
                 forge'[n].field = q.for, ~Closes(todo, n)
          PROVE  n \in Left(p, q.for, s.todo)
      <4>1. n \in Numbers
        BY <1>3, <1>7, <2>1, <2>3, <3>1, TrackerAssumption
      <4>2. n \in OpenOf(p, q.for)
        BY <3>1, <4>1, WhatIsOpen DEF OpenOf
      <4> QED BY <2>2, <3>1, <4>1, <4>2 DEF Left
    <3>2. Left(p, q.for, todo)' \in SUBSET Left(p, q.for, s.todo)
      BY <1>1, <3>1 DEF Left, OpenOf, IsOpen, Closes
    <3> QED BY <2>1, <3>2, NoMore
  <2>5. Staying(p, todo)' \union Coming(todo) \subseteq Staying(p, s.todo) \union Coming(s.todo)
    <3>1. Coming(todo) \subseteq Coming(s.todo)
      BY <1>1 DEF Coming
    <3>2. ASSUME NEW f \in Fields, NEW n \in Numbers', forge'[n].state = "open",
                 forge'[n].part = p, forge'[n].field = f, ~Closes(todo, n)
          PROVE  f \in Staying(p, s.todo) \union Coming(s.todo)
      <4>1. CASE n \in Numbers
        <5>1. n \in OpenOf(p, f) /\ ~Closes(s.todo, n)
          BY <2>2, <3>2, <4>1, WhatIsOpen DEF OpenOf
        <5> QED BY <5>1 DEF Staying
      <4>2. CASE n \notin Numbers
        BY <1>3, <3>2, <4>2, TrackerAssumption DEF Coming
      <4> QED BY <4>1, <4>2
    <3>3. Staying(p, todo)' \subseteq Staying(p, s.todo) \union Coming(s.todo)
      BY <1>1, <3>2 DEF Staying, OpenOf, IsOpen, Closes
    <3> QED BY <3>1, <3>3
  <2>6. Cardinality(Staying(p, todo)' \union Coming(todo)) <= MaxChildren
    <3> DEFINE all == Staying(p, s.todo) \union Coming(s.todo)
               some == Staying(p, todo)' \union Coming(todo)
    <3>1. all \in SUBSET Fields
      BY DEF Staying, Coming
    <3>2. IsFiniteSet(all) /\ some \in SUBSET all
      BY <2>5, <3>1, FieldsFinite, FS_Subset
    <3>3. Cardinality(some) <= Cardinality(all) /\ IsFiniteSet(some)
      BY <3>2, FS_Subset
    <3>4. Cardinality(all) \in Nat /\ Cardinality(some) \in Nat
      BY <3>2, <3>3, FS_CardinalityType
    <3> QED BY <2>1, <3>3, <3>4, TrackerAssumption
  <2> QED BY <1>1, <2>1, <2>4, <2>6
<1>8. Careful(p, todo)'
  <2>1. Coming(todo)' = Coming(todo)
    BY DEF Coming
  <2> QED BY <1>6, <1>7, <2>1 DEF Careful
<1>9. Careful(run[r].part, run[r].todo)'
  BY <1>1, <1>8
<1> QED BY <1>4, <1>5, <1>9 DEF Ready

\* So does one that sends a create again: there is one item more, and its request counts it.
LEMMA ResendsReady ==
  ASSUME TypeInv, Effects, NEW r \in Runs, Ready(run[r]), Resends(r)
  PROVE  Ready(run[r])'
<1> DEFINE s == run[r]
<1> SUFFICES ASSUME NEW p, p = s.part, NEW todo, todo = run'[r].todo, NEW new, new = Len(forge) + 1
             PROVE  Ready(run[r])'
  OBVIOUS
<1>1. PICK q \in Due(s.todo) :
        Adds(r, q) /\ q.sent + 1 < Attempts /\ todo = (s.todo \ {q}) \union {Again(q)}
  BY DEF Resends
<1>2. /\ q.op \in {"openParent", "child"} /\ new \notin Numbers /\ Numbers' = Numbers \union {new}
      /\ forge'[new].part = p /\ forge'[new].state = "open"
      /\ q.op = "openParent" => forge'[new].field = Parent
      /\ q.op = "child" => forge'[new].field = q.for
  BY <1>1 DEF Adds
<1>3. /\ Again(q).op = q.op /\ Again(q).for = q.for /\ Again(q).sent = q.sent + 1 /\ q.sent \in Nat
  BY <1>2, BouncedRuns
<1>4. /\ run'[r].saw = s.saw /\ run'[r].jobs = s.jobs /\ run'[r].part = p
      /\ q \in s.todo /\ Sound(q) /\ s.todo \in SUBSET Asks
      /\ \A o \in s.todo : o.sent \in Nat
  BY AfterRequest, SentTypes DEF Resends, Steady
<1>5. Aware(s) /\ Apart(s) /\ Careful(p, s.todo)
  BY DEF Ready
<1>6. \A n : Closes(todo, n) <=> Closes(s.todo, n)
  BY <1>1, <1>2, <1>3 DEF Closes
<1>7. ASSUME NEW f, NEW n \in OpenOf(p, f)'
      PROVE  n \in OpenOf(p, f) \/ (n = new /\ forge'[new].field = f)
  <2>1. n \in Numbers' /\ forge'[n].state = "open" /\ forge'[n].part = p /\ forge'[n].field = f
    BY <1>7 DEF OpenOf, IsOpen
  <2>2. ASSUME n \in Numbers PROVE n \in OpenOf(p, f)
    <3>1. IsOpen(n) /\ forge'[n].part = forge[n].part /\ forge'[n].field = forge[n].field
      BY <2>1, <2>2, WhatIsOpen
    <3>2. forge[n].part = p /\ forge[n].field = f
      BY <2>1, <3>1
    <3> QED BY <2>2, <3>1, <3>2, Zenon DEF OpenOf
  <2> QED BY <1>2, <2>1, <2>2
<1>8. Aware(run[r])'
  <2> SUFFICES ASSUME NEW j \in run'[r].jobs, j.what = "keep", NEW n \in Numbers',
                      forge'[n].state = "open", forge'[n].part = j.part
               PROVE  n \in DOMAIN run'[r].saw
    BY DEF Aware, IsOpen
  <2>1. n # new
    BY <1>2, <1>4, <1>5 DEF Apart
  <2>2. n \in Numbers
    BY <1>2, <2>1
  <2> QED BY <1>4, <1>5, <2>2, WhatIsOpen DEF Aware
<1>9. Apart(run[r])'
  <2>1. \A o \in todo : o.op \in {"openParent", "child"} => \E a \in s.todo : a.op \in {"openParent", "child"}
    BY <1>2, <1>4
  <2> QED BY <1>4, <1>5, <2>1 DEF Apart
<1>10. ASSUME NEW o \in todo, o.op = "openParent"
       PROVE  /\ AtMost(o.sent, OpenOf(p, Parent)') /\ o.sent < Attempts
              /\ \A a \in todo : a.op = "openParent" => a = o
  <2>1. CASE q.op = "openParent"
    <3>1. /\ AtMost(q.sent, OpenOf(p, Parent)) /\ \A a \in s.todo : a.op = "openParent" => a = q
      BY <1>4, <1>5, <2>1 DEF Careful
    <3>2. \A a \in todo : a.op = "openParent" => a = Again(q)
      BY <1>1, <3>1
    <3>3. OpenOf(p, Parent)' \in SUBSET (OpenOf(p, Parent) \union {new})
      BY <1>7
    <3>4. AtMost(q.sent + 1, OpenOf(p, Parent)')
      <4> DEFINE T == OpenOf(p, Parent)'
      <4>1. T \in SUBSET (OpenOf(p, Parent) \union {new}) /\ q.sent \in Nat
        BY <1>3, <3>3
      <4> HIDE DEF T
      <4>2. AtMost(q.sent + 1, T)
        BY <3>1, <4>1, OneMore
      <4> QED BY <4>2 DEF T
    <3>5. o = Again(q)
      BY <1>10, <3>2
    <3> QED BY <1>1, <1>3, <3>2, <3>4, <3>5
  <2>2. CASE q.op = "child"
    <3>1. o \in s.todo /\ \A a \in todo : a.op = "openParent" => a \in s.todo
      BY <1>1, <1>3, <1>10, <2>2
    <3>2. /\ AtMost(o.sent, OpenOf(p, Parent)) /\ o.sent < Attempts /\ o.sent \in Nat
          /\ \A a \in s.todo : a.op = "openParent" => a = o
      BY <1>4, <1>5, <1>10, <3>1 DEF Careful
    <3>3. forge'[new].field # Parent
      BY <1>2, <1>4, <2>2, TrackerAssumption DEF Sound
    <3>4. OpenOf(p, Parent)' \in SUBSET OpenOf(p, Parent)
      BY <1>7, <3>3
    <3> QED BY <3>1, <3>2, <3>4, NoMore
  <2> QED BY <1>2, <2>1, <2>2
<1>11. ASSUME NEW o \in todo, o.op = "child"
       PROVE  /\ AtMost(o.sent, Left(p, o.for, todo)') /\ o.sent < Attempts
              /\ \A a \in todo : a.op = "child" /\ a.for = o.for => a = o
              /\ Cardinality(Staying(p, todo)' \union Coming(todo)) <= MaxChildren
  <2>1. PICK b \in s.todo : /\ b.op = "child" /\ b.for = o.for
                            /\ o = IF b = q THEN Again(q) ELSE b
    BY <1>1, <1>3, <1>4, <1>11
  <2>2. /\ AtMost(b.sent, Left(p, b.for, s.todo)) /\ b.sent < Attempts /\ b.sent \in Nat
        /\ \A a \in s.todo : a.op = "child" /\ a.for = b.for => a = b
        /\ Cardinality(Staying(p, s.todo) \union Coming(s.todo)) <= MaxChildren
    BY <1>4, <1>5, <2>1 DEF Careful
  <2>3. b.for \in Fields
    BY <2>1 DEF TypeInv, Sound
  <2>4. \A a \in todo : a.op = "child" /\ a.for = o.for => a = o
    BY <1>1, <1>3, <1>4, <2>1, <2>2
  <2>5. AtMost(o.sent, Left(p, o.for, todo)') /\ o.sent < Attempts
    <3>1. ASSUME NEW n \in Left(p, o.for, todo)'
          PROVE  n \in Left(p, b.for, s.todo) \/ (n = new /\ forge'[new].field = b.for)
      <4>1. n \in OpenOf(p, b.for)' /\ ~Closes(todo, n)
        BY <2>1, <3>1 DEF Left, Closes
      <4> QED BY <1>6, <1>7, <4>1 DEF Left
    <3>2. CASE b = q
      <4> DEFINE T == Left(p, o.for, todo)'
                 S == Left(p, b.for, s.todo)
      <4>1. T \in SUBSET (S \union {new})
        BY <3>1
      <4>2. b.sent \in Nat /\ AtMost(b.sent, S)
        BY <2>2
      <4> HIDE DEF S, T
      <4>3. AtMost(b.sent + 1, T)
        BY <4>1, <4>2, OneMore
      <4> QED BY <1>1, <1>3, <2>1, <3>2, <4>3 DEF T
    <3>3. CASE b # q
      <4>1. forge'[new].field # b.for
        BY <1>2, <1>4, <2>1, <2>2, <2>3, <3>3, TrackerAssumption
      <4>2. Left(p, o.for, todo)' \in SUBSET Left(p, b.for, s.todo)
        BY <3>1, <4>1
      <4>3. AtMost(b.sent, Left(p, o.for, todo)')
        BY <2>2, <4>2, NoMore
      <4> QED BY <2>1, <2>2, <3>3, <4>3
    <3> QED BY <3>2, <3>3
  <2>6. Staying(p, todo)' \union Coming(todo) \subseteq Staying(p, s.todo) \union Coming(s.todo)
    <3>1. Coming(todo) \subseteq Coming(s.todo)
      BY <1>1, <1>3, <1>4 DEF Coming
    <3>2. ASSUME NEW f \in Fields, NEW n \in OpenOf(p, f)', ~Closes(todo, n)
          PROVE  f \in Staying(p, s.todo) \union Coming(s.todo)
      <4>1. CASE n \in OpenOf(p, f)
        BY <1>6, <3>2, <4>1 DEF Staying
      <4>2. CASE n = new /\ forge'[new].field = f
        BY <1>2, <1>4, <4>2, TrackerAssumption DEF Coming
      <4> QED BY <1>7, <4>1, <4>2
    <3>3. Staying(p, todo)' \subseteq Staying(p, s.todo) \union Coming(s.todo)
      BY <3>2 DEF Staying, Closes
    <3> QED BY <3>1, <3>3
  <2>7. Cardinality(Staying(p, todo)' \union Coming(todo)) <= MaxChildren
    <3> DEFINE all == Staying(p, s.todo) \union Coming(s.todo)
               some == Staying(p, todo)' \union Coming(todo)
    <3>1. all \in SUBSET Fields
      BY DEF Staying, Coming
    <3>2. IsFiniteSet(all) /\ some \in SUBSET all
      BY <2>6, <3>1, FieldsFinite, FS_Subset
    <3>3. Cardinality(some) <= Cardinality(all) /\ IsFiniteSet(some)
      BY <3>2, FS_Subset
    <3>4. Cardinality(all) \in Nat /\ Cardinality(some) \in Nat
      BY <3>2, <3>3, FS_CardinalityType
    <3> QED BY <2>2, <3>3, <3>4, TrackerAssumption
  <2> QED BY <2>4, <2>5, <2>7
<1>12. Careful(p, todo)'
  <2>1. Coming(todo)' = Coming(todo)
    BY DEF Coming
  <2> QED BY <1>10, <1>11, <2>1 DEF Careful
<1>13. Careful(run[r].part, run[r].todo)'
  BY <1>4, <1>12
<1> QED BY <1>8, <1>9, <1>13 DEF Ready

LEMMA TakesReady ==
  ASSUME TypeInv, NEW r \in Runs, Take(r), Ready(run[r])
  PROVE  Ready(run[r])'
<1>1. PICK job \in Due(run[r].jobs) : \E plan \in Plans(r, job) :
        /\ job \in run[r].jobs /\ job \in Tasks
        /\ run'[r].jobs = run[r].jobs \ {job} /\ run'[r].part = job.part
        /\ run'[r].todo = plan /\ run'[r].saw = run[r].saw
  BY TakenRuns
<1>2. PICK plan \in Plans(r, job) :
        /\ job \in run[r].jobs /\ job \in Tasks
        /\ run'[r].jobs = run[r].jobs \ {job} /\ run'[r].part = job.part
        /\ run'[r].todo = plan /\ run'[r].saw = run[r].saw
  BY <1>1
<1>3. forge' = forge
  BY TakenRuns
<1>4. Aware(run[r]) /\ Apart(run[r])
  BY DEF Ready
<1>5. Aware(run[r])'
  BY <1>2, <1>3, <1>4 DEF Aware, Numbers, IsOpen
<1>6. Apart(run[r])'
  <2>1. \A q \in plan : q.op \in {"openParent", "child"} => job.what = "keep"
    BY <1>2, PlanCreations
  <2> QED BY <1>2, <1>4, <2>1 DEF Apart
<1>7. Careful(job.part, plan)
  BY <1>2, <1>4, PlanCareful DEF Aware
<1>8. Careful(job.part, plan)'
  <2>1. \A f : OpenOf(job.part, f)' = OpenOf(job.part, f)
    BY <1>3 DEF OpenOf, Numbers, IsOpen
  <2>2. /\ Staying(job.part, plan)' = Staying(job.part, plan) /\ Coming(plan)' = Coming(plan)
        /\ \A n : Closes(plan, n)' = Closes(plan, n)
    BY <2>1 DEF Staying, Coming, Closes
  <2>3. OpenOf(job.part, Parent)' = OpenOf(job.part, Parent)
    BY <2>1
  <2>4. Cardinality(Staying(job.part, plan)' \union Coming(plan)')
          = Cardinality(Staying(job.part, plan) \union Coming(plan))
    BY <2>2
  <2>5. \A f : Left(job.part, f, plan)' = Left(job.part, f, plan)
    BY <2>1, <2>2 DEF Left
  <2> QED BY <1>7, <2>3, <2>4, <2>5 DEF Careful
<1> QED BY <1>2, <1>5, <1>6, <1>8 DEF Ready

LEMMA StartsReady ==
  ASSUME TypeInv, NEW r \in Runs, Start(r)
  PROVE  Ready(run[r])'
<1>1. PICK verdict, children : run'[r] = Begun(r, verdict, children)
  BY StartRuns
<1>2. /\ forge' = forge /\ run'[r].todo = {} /\ run'[r].jobs = Jobs(verdict)
      /\ DOMAIN run'[r].saw = {m \in Numbers : IsOpen(m)}
  <2>1. Begun(r, verdict, children).todo = {}
    BY DEF Begun, Fresh
  <2>2. Begun(r, verdict, children).jobs = Jobs(verdict)
    BY DEF Begun, Fresh
  <2>3. DOMAIN Begun(r, verdict, children).saw = {m \in Numbers : IsOpen(m)}
    BY DEF Begun, Fresh
  <2>4. forge' = forge
    BY StartRuns
  <2> QED BY <1>1, <2>1, <2>2, <2>3, <2>4
<1>3. Aware(run[r])'
  BY <1>2 DEF Aware, Numbers, IsOpen
<1>4. Apart(run[r])'
  BY <1>2, JobsApart DEF Apart
<1>5. Careful(run[r].part, run[r].todo)'
  BY <1>2 DEF Careful
<1> QED BY <1>3, <1>4, <1>5 DEF Ready

\* Who is active after a step was before, or starts, and then nobody was.
LEMMA StepActive ==
  ASSUME TypeInv, Effects, OneActive, ~world.overlap
  PROVE  /\ OneActive'
         /\ \A r \in Runs : Active(r)' => Active(r) \/ Start(r)
<1>1. ASSUME NEW r \in Runs, Active(r)' PROVE Active(r) \/ Start(r)
  BY <1>1, TakenRuns DEF Effects, Agenda, Keeps, Drops, Resends, Steady, Stops, Active
<1>2. \A r \in Runs : Start(r) => (\A s \in Runs : ~Active(s))
  BY DEF Start
<1>3. ASSUME NEW r \in Runs, NEW s \in Runs, Start(r), Start(s) PROVE r = s
  <2>1. run[r].phase = "waiting" /\ run[s].phase = "waiting"
    BY <1>3 DEF Start
  <2>2. ~(s < r) /\ ~(r < s)
    BY <1>3, <2>1 DEF Start
  <2>3. r \in Int /\ s \in Int
    BY DEF Runs
  <2> QED BY <2>2, <2>3
<1>4. ASSUME NEW r \in Runs, NEW s \in Runs, Active(r)', Active(s)' PROVE r = s
  BY <1>1, <1>2, <1>3, <1>4 DEF OneActive
<1>5. OneActive'
  BY <1>4 DEF OneActive
<1> QED BY <1>1, <1>5

LEMMA StepReady ==
  ASSUME TypeInv, Effects, OneActive, ~world.overlap,
         \A r \in Runs : Active(r) => Ready(run[r])
  PROVE  \A r \in Runs : Active(r)' => Ready(run[r])'
<1> SUFFICES ASSUME NEW r \in Runs, Active(r)' PROVE Ready(run[r])'
  OBVIOUS
<1>1. CASE Start(r)
  BY <1>1, StartsReady
<1>2. CASE Active(r) /\ ~Start(r)
  <2>1. Ready(run[r])
    BY <1>2
  <2>2. CASE Take(r)
    BY <2>1, <2>2, TakesReady
  <2>3. CASE Keeps(r) \/ Drops(r)
    BY <1>2, <2>1, <2>3, StaysReady
  <2>4. CASE Resends(r)
    BY <2>1, <2>4, ResendsReady
  <2>5. ~Stops(r)
    BY DEF Stops, Active
  <2> QED BY <1>2, <2>2, <2>3, <2>4, <2>5 DEF Effects, Agenda
<1> QED BY <1>1, <1>2, StepActive

\* What an item that is created comes to.
LEMMA Newcomer ==
  ASSUME TypeInv, Effects, \A r \in Runs : Active(r) => Ready(run[r]),
         NEW n \in Numbers', forge'[n].state = "open", n \notin Numbers
  PROVE  /\ n = Len(forge) + 1
         /\ AtMost(Attempts - 1, OpenOf(forge'[n].part, forge'[n].field))
         /\ forge'[n].field # Parent =>
              Cardinality(Having(forge'[n].part) \union {forge'[n].field}) <= MaxChildren
<1>1. n = Len(forge) + 1 /\ \E r \in Runs : \E q \in Due(run[r].todo) : Adds(r, q)
  BY WhatIsOpen
<1>2. PICK r \in Runs : \E q \in Due(run[r].todo) : Adds(r, q)
  BY <1>1
<1>3. PICK q \in Due(run[r].todo) : Adds(r, q)
  BY <1>2
<1>4. Careful(run[r].part, run[r].todo) /\ forge'[n].part = run[r].part
  BY <1>1, <1>3 DEF Adds, Ready
<1> QED BY <1>1, <1>3, <1>4, Arrival

LEMMA StepFew ==
  ASSUME TypeInv, Effects, Few, \A r \in Runs : Active(r) => Ready(run[r])
  PROVE  Few'
<1> SUFFICES ASSUME NEW p \in Parts, NEW f \in Fields \union {Parent}
             PROVE  AtMost(Attempts, OpenOf(p, f)')
  BY DEF Few
<1>1. Attempts \in Nat /\ Attempts - 1 \in Nat /\ (Attempts - 1) + 1 = Attempts
  BY TrackerAssumption
<1>2. \A n \in OpenOf(p, f)' :
        /\ n \in Numbers' /\ forge'[n].state = "open" /\ forge'[n].part = p /\ forge'[n].field = f
        /\ n \in Numbers => n \in OpenOf(p, f)
  BY WhatIsOpen DEF OpenOf, IsOpen
<1>3. CASE OpenOf(p, f)' \subseteq Numbers
  <2>1. OpenOf(p, f)' \in SUBSET OpenOf(p, f)
    BY <1>2, <1>3
  <2> QED BY <1>1, <2>1, NoMore DEF Few
<1>4. CASE ~(OpenOf(p, f)' \subseteq Numbers)
  <2>1. \A n \in OpenOf(p, f)' : n \notin Numbers =>
          n = Len(forge) + 1 /\ AtMost(Attempts - 1, OpenOf(p, f))
    BY <1>2, Newcomer
  <2>2. AtMost(Attempts - 1, OpenOf(p, f)) /\ OpenOf(p, f)' \in SUBSET (OpenOf(p, f) \union {Len(forge) + 1})
    BY <1>2, <1>4, <2>1
  <2>3. AtMost((Attempts - 1) + 1, OpenOf(p, f)')
    BY <1>1, <2>2, OneMore
  <2> QED BY <1>1, <2>3
<1> QED BY <1>3, <1>4

LEMMA StepCapped ==
  ASSUME TypeInv, Effects, Capped, \A r \in Runs : Active(r) => Ready(run[r])
  PROVE  Capped'
<1> SUFFICES ASSUME NEW p \in Parts PROVE Cardinality(Having(p)') <= MaxChildren
  BY DEF Capped
<1>1. \A f \in Having(p)' : \E n \in Numbers' :
        f \in Fields /\ forge'[n].state = "open" /\ forge'[n].part = p /\ forge'[n].field = f
  BY DEF Having, OpenOf, IsOpen
<1>2. ASSUME NEW n \in Numbers', forge'[n].state = "open", forge'[n].part = p,
             forge'[n].field \in Fields, n \in Numbers
      PROVE  forge'[n].field \in Having(p)
  BY <1>2, WhatIsOpen DEF Having, OpenOf
<1>3. PICK S \in SUBSET Fields : Having(p)' \subseteq S /\ Cardinality(S) <= MaxChildren
  <2>1. CASE \E n \in Numbers' : /\ forge'[n].state = "open" /\ forge'[n].part = p
                                 /\ forge'[n].field \in Fields /\ n \notin Numbers
    <3>1. PICK n \in Numbers' : /\ forge'[n].state = "open" /\ forge'[n].part = p
                                /\ forge'[n].field \in Fields /\ n \notin Numbers
      BY <2>1
    <3>2. Cardinality(Having(p) \union {forge'[n].field}) <= MaxChildren
      BY <3>1, Newcomer, TrackerAssumption
    <3>3. \A k \in Numbers' : forge'[k].state = "open" /\ k \notin Numbers => k = n
      BY <3>1, Newcomer
    <3>4. Having(p)' \subseteq Having(p) \union {forge'[n].field}
      BY <1>1, <1>2, <3>3
    <3>5. Having(p) \union {forge'[n].field} \in SUBSET Fields
      BY <3>1 DEF Having
    <3> QED BY <3>2, <3>4, <3>5
  <2>2. CASE ~\E n \in Numbers' : /\ forge'[n].state = "open" /\ forge'[n].part = p
                                  /\ forge'[n].field \in Fields /\ n \notin Numbers
    <3>1. Having(p)' \subseteq Having(p) /\ Having(p) \in SUBSET Fields
      BY <1>1, <1>2, <2>2 DEF Having
    <3> QED BY <3>1 DEF Capped
  <2> QED BY <2>1, <2>2
<1>4. IsFiniteSet(S) /\ IsFiniteSet(Having(p)') /\ Cardinality(Having(p)') <= Cardinality(S)
  BY <1>3, FieldsFinite, FS_Subset
<1>5. Cardinality(S) \in Nat /\ Cardinality(Having(p)') \in Nat
  BY <1>4, FS_CardinalityType
<1> QED BY <1>3, <1>4, <1>5, TrackerAssumption

LEMMA StepPiles ==
  ASSUME TypeInv, Effects, PilesInv, world' = world
  PROVE  PilesInv'
<1> SUFFICES ASSUME ~world.overlap
             PROVE  /\ OneActive' /\ Few' /\ Capped'
                    /\ \A r \in Runs : Active(r)' => Ready(run[r])'
  BY DEF PilesInv
<1> QED BY StepActive, StepReady, StepFew, StepCapped DEF PilesInv

\* While runs come one at a time, for any parts, actions, cap, number of runs and of sendings,
\* and whatever is refused, lost, sent again, killed or closed by hand, no part has more open
\* items, or open children for one thing, than one create may be sent times, and children for
\* no more things than the cap.
THEOREM NothingPiles == Spec => []NothingPilesUp
<1>1. Init => TypeInv /\ PilesInv
  <2>1. ASSUME Init PROVE PilesInv
    <3>1. Numbers = {} /\ \A r \in Runs : ~Active(r)
      BY <2>1 DEF Init, Numbers, Active, Fresh
    <3>2. \A p, f : OpenOf(p, f) = {}
      BY <3>1 DEF OpenOf
    <3>3. \A p : Having(p) = {}
      BY <3>2 DEF Having
    <3>4. Capped
      <4>1. \A p : Cardinality(Having(p)) = 0
        BY <3>3, FS_EmptySet
      <4> QED BY <4>1, TrackerAssumption DEF Capped
    <3> QED BY <3>1, <3>2, <3>4, NoneAtAll, TrackerAssumption DEF PilesInv, OneActive, Few
  <2> QED BY <2>1, InitTypes
<1>2. TypeInv /\ PilesInv /\ [Next]_vars => TypeInv' /\ PilesInv'
  BY StepTypes, StepEffects, StepPiles DEF Next, vars
<1>3. TypeInv /\ PilesInv => NothingPilesUp
  BY DEF PilesInv, Few, Capped, Having, AtMost, NothingPilesUp
<1> QED BY <1>1, <1>2, <1>3, PTL DEF Spec
=============================================================================
