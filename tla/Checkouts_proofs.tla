--------------------------- MODULE Checkouts_proofs ---------------------------
(***************************************************************************)
(* What a run reads and what it leaves for later runs, for any jobs,       *)
(* commits and number of runs: the inductive invariant behind the safety   *)
(* properties of Checkouts, and those properties as theorems.              *)
(***************************************************************************)
EXTENDS Checkouts, TLAPS

\* Names: the one answer of the run is what the branch's jobs go by.
NameInv ==
  /\ asks = IF memo = Unasked THEN 0 ELSE 1
  /\ \A j \in Jobs : name[j] # Unknown => name[j] = IF Pin[j] = Branch THEN memo ELSE Pin[j]
  /\ \A j \in Jobs : pc[j] \in {"lookup", "store"} => name[j] \in Commits

\* Checkouts: whoever makes one makes it alone and once, at the revision it is for.
PoolInv ==
  /\ \A k \in PoolKeys : clones[k] = IF pool[k].state = "absent" THEN 0 ELSE 1
  /\ \A k \in PoolKeys : pool[k].state = "ready" => pool[k].commit \in Commits
  /\ \A j \in Jobs : pc[j] = "clone" => pool[PoolKey(j)].state = "cloning"
  /\ \A i, j \in Jobs : pc[i] = "clone" /\ pc[j] = "clone" /\ PoolKey(i) = PoolKey(j) => i = j
  /\ \A j \in Jobs : Pin[j] # Branch /\ pool[PoolKey(j)].state = "ready"
                       => pool[PoolKey(j)].commit = Pin[j]

\* Reports: one that was not reused is about the commit of its checkout.
ReportInv ==
  /\ \A j \in Jobs : report[j] \in Commits /\ j \notin reused
                       => pool[PoolKey(j)] = [state |-> "ready", commit |-> report[j]]
  /\ \A j \in Jobs : pc[j] = "store" => report[j] \in Commits
  /\ PinnedIsPinned

\* Entries: a pinned job's entry is about a commit that looks like the one it names.
CacheInv ==
  \A j \in Jobs, c \in Commits :
    Pin[j] # Branch /\ cache[<<j, RevisionKey(j, c)>>] \in Commits
      => Sees(j, cache[<<j, RevisionKey(j, c)>>]) = Sees(j, c)

IInv == TypeOK /\ NameInv /\ PoolInv /\ ReportInv /\ CacheInv

-----------------------------------------------------------------------------
LEMMA JobKeys == \A j \in Jobs : PoolKey(j) \in PoolKeys
BY DEF PoolKeys

LEMMA Entries ==
  ASSUME NEW j \in Jobs, name[j] \in Commits
  PROVE  Entry(j) \in CacheKeys
BY DEF Entry, CacheKeys

\* What a job's key is made of is what its scanner sees, or more.
LEMMA KeysTellApart ==
  ASSUME NEW j, NEW c, NEW d, RevisionKey(j, c) = RevisionKey(j, d)
  PROVE  Sees(j, c) = Sees(j, d)
BY DEF RevisionKey, Sees

LEMMA Moves ==
  ASSUME TypeOK, NEW j \in Jobs, NEW from, NEW to, Goto(j, from, to),
         to \in {"start", "lookup", "fetch", "clone", "store", "ended"}
  PROVE  /\ pc' \in [Jobs -> {"start", "lookup", "fetch", "clone", "store", "ended"}]
         /\ pc[j] = from /\ pc'[j] = to
         /\ \A k \in Jobs : k # j => pc'[k] = pc[k]
BY DEF Goto, TypeOK

\* A run that begins knows nothing, whatever the one before it knew.
LEMMA AnewForgets ==
  ASSUME TypeOK, CacheInv, Anew
  PROVE  /\ TypeOK' <=> cache' \in [CacheKeys -> Commits \cup {NoEntry, Torn}]
         /\ NameInv' /\ PoolInv' /\ ReportInv'
<1>1. /\ pc' \in [Jobs -> {"start", "lookup", "fetch", "clone", "store", "ended"}]
      /\ \A j \in Jobs : pc'[j] = "start" /\ name'[j] = Unknown /\ report'[j] = NoReport
      /\ name' \in [Jobs -> Commits \cup {Unknown}]
      /\ report' \in [Jobs -> Commits \cup {NoReport, Failed}]
  BY DEF Anew, EachJob
<1>2. /\ \A k \in PoolKeys : pool'[k] = Absent /\ clones'[k] = 0
      /\ pool' \in [PoolKeys -> [state : {"absent", "cloning", "ready", "failed"},
                                 commit : Commits \cup {Unknown}]]
      /\ clones' \in [PoolKeys -> Nat]
  BY DEF Anew, EachCheckout, Absent
<1>3. /\ memo' = Unasked /\ asks' = 0 /\ reused' = {} /\ head' = head /\ run' \in 1..MaxRuns
  BY CheckoutAssumption DEF Anew, TypeOK
<1>4. TypeOK' <=> cache' \in [CacheKeys -> Commits \cup {NoEntry, Torn}]
  BY <1>1, <1>2, <1>3 DEF TypeOK
<1>5. NameInv'
  BY <1>1, <1>3 DEF NameInv
<1>6. PoolInv'
  BY <1>1, <1>2, JobKeys DEF PoolInv, Absent
<1>7. ReportInv'
  BY <1>1, CheckoutAssumption DEF ReportInv, PinnedIsPinned
<1> QED BY <1>4, <1>5, <1>6, <1>7

LEMMA InitInvariant == Init => IInv
<1> SUFFICES ASSUME Init PROVE IInv
  OBVIOUS
<1>1. /\ pc \in [Jobs -> {"start", "lookup", "fetch", "clone", "store", "ended"}]
      /\ \A j \in Jobs : pc[j] = "start" /\ name[j] = Unknown /\ report[j] = NoReport
      /\ name \in [Jobs -> Commits \cup {Unknown}]
      /\ report \in [Jobs -> Commits \cup {NoReport, Failed}]
  BY DEF Init, EachJob
<1>2. /\ \A k \in PoolKeys : pool[k] = Absent /\ clones[k] = 0
      /\ pool \in [PoolKeys -> [state : {"absent", "cloning", "ready", "failed"},
                                commit : Commits \cup {Unknown}]]
      /\ clones \in [PoolKeys -> Nat]
  BY DEF Init, EachCheckout, Absent
<1>3. /\ memo = Unasked /\ asks = 0 /\ reused = {} /\ head \in Commits /\ run \in 1..MaxRuns
  BY CheckoutAssumption DEF Init
<1>4. /\ cache \in [CacheKeys -> Commits \cup {NoEntry, Torn}]
      /\ \A k \in CacheKeys : cache[k] \notin Commits
  BY CheckoutAssumption DEF Init
<1>5. TypeOK
  BY <1>1, <1>2, <1>3, <1>4 DEF TypeOK
<1>6. NameInv
  BY <1>1, <1>3 DEF NameInv
<1>7. PoolInv
  BY <1>1, <1>2, JobKeys DEF PoolInv, Absent
<1>8. ReportInv
  BY <1>1, CheckoutAssumption DEF ReportInv, PinnedIsPinned
<1>9. CacheInv
  BY <1>4 DEF CacheInv, CacheKeys
<1> QED BY <1>5, <1>6, <1>7, <1>8, <1>9 DEF IInv

-----------------------------------------------------------------------------
(* Every step keeps the types.                                              *)

LEMMA StepTypes ==
  ASSUME IInv, [Next]_vars
  PROVE  TypeOK'
<1> USE DEF IInv
<1>1. CASE Push
  BY <1>1 DEF Push, process, TypeOK
<1>2. ASSUME NEW j \in Jobs, Name(j) PROVE TypeOK'
  <2>1. memo' \in Commits \cup {Unasked, Unknown} /\ asks' \in Nat
    BY <1>2 DEF Name, TypeOK
  <2>2. name' \in [Jobs -> Commits \cup {Unknown}]
    <3>1. CASE Pin[j] # Branch
      BY <1>2, <3>1, CheckoutAssumption DEF Name, TypeOK
    <3>2. CASE Pin[j] = Branch
      <4>1. memo' \in Commits \cup {Unknown}
        BY <1>2, <3>2 DEF Name, TypeOK
      <4> QED BY <1>2, <3>2, <4>1 DEF Name, TypeOK
    <3> QED BY <3>1, <3>2
  <2>3. pc' \in [Jobs -> {"start", "lookup", "fetch", "clone", "store", "ended"}]
    BY <1>2, Moves DEF Name
  <2> QED BY <1>2, <2>1, <2>2, <2>3 DEF Name, TypeOK
<1>3. ASSUME NEW j \in Jobs, Hit(j) PROVE TypeOK'
  BY <1>3, Moves DEF Hit, TypeOK
<1>4. ASSUME NEW j \in Jobs, Miss(j) PROVE TypeOK'
  BY <1>4, Moves DEF Miss, process, TypeOK
<1>5. ASSUME NEW j \in Jobs, Fetch(j) PROVE TypeOK'
  BY <1>5, Moves, JobKeys DEF Fetch, TypeOK
<1>6. ASSUME NEW j \in Jobs, Clone(j) PROVE TypeOK'
  <2>1. (IF Pin[j] = Branch THEN head ELSE Pin[j]) \in Commits
    BY CheckoutAssumption DEF TypeOK
  <2>2. pool' \in [PoolKeys -> [state : {"absent", "cloning", "ready", "failed"},
                                commit : Commits \cup {Unknown}]]
    BY <1>6, <2>1, JobKeys DEF Clone, TypeOK
  <2> QED BY <1>6, <2>2, Moves DEF Clone, TypeOK
<1>7. ASSUME NEW j \in Jobs, ShareFailure(j) PROVE TypeOK'
  BY <1>7, Moves DEF ShareFailure, TypeOK
<1>8. ASSUME NEW j \in Jobs, ScanSucceeds(j) PROVE TypeOK'
  <2>1. pool[PoolKey(j)].commit \in Commits
    BY <1>8, JobKeys DEF ScanSucceeds, PoolInv
  <2> QED BY <1>8, <2>1, Moves DEF ScanSucceeds, TypeOK
<1>9. ASSUME NEW j \in Jobs, ScanFails(j) PROVE TypeOK'
  BY <1>9, Moves DEF ScanFails, TypeOK
<1>10. ASSUME NEW j \in Jobs, Store(j) PROVE TypeOK'
  <2>1. pc[j] = "store" /\ report[j] \in Commits /\ Entry(j) \in CacheKeys
    BY <1>10, Entries DEF Store, Goto, NameInv, ReportInv
  <2>2. cache' \in [CacheKeys -> Commits \cup {NoEntry, Torn}]
    BY <1>10, <2>1 DEF Store, TypeOK
  <2> QED BY <1>10, <2>2, Moves DEF Store, process, TypeOK
<1>11. CASE NextRun
  BY <1>11, AnewForgets DEF NextRun, TypeOK
<1>12. CASE Kill
  <2>1. cache' \in [CacheKeys -> Commits \cup {NoEntry, Torn}]
    BY <1>12 DEF Kill, TypeOK
  <2> QED BY <1>12, <2>1, AnewForgets DEF Kill
<1>13. CASE UNCHANGED vars
  BY <1>13 DEF vars, process, TypeOK
<1> QED
  BY <1>1, <1>2, <1>3, <1>4, <1>5, <1>6, <1>7, <1>8, <1>9, <1>10, <1>11, <1>12, <1>13
     DEF Next, Job, Done

-----------------------------------------------------------------------------
(* The run's one answer, and the names made of it.                          *)

LEMMA StepNames ==
  ASSUME IInv, [Next]_vars
  PROVE  NameInv'
<1> USE DEF IInv
<1>1. ASSUME NEW j \in Jobs, Name(j) PROVE NameInv'
  <2> USE <1>1
  <2>1. memo' # memo => memo = Unasked /\ Pin[j] = Branch /\ memo' # Unasked
    BY CheckoutAssumption DEF Name, TypeOK
  <2>2. asks' = IF memo' = Unasked THEN 0 ELSE 1
    BY CheckoutAssumption DEF Name, NameInv, TypeOK
  <2>3. ASSUME NEW k \in Jobs, name'[k] # Unknown
        PROVE  name'[k] = IF Pin[k] = Branch THEN memo' ELSE Pin[k]
    <3>1. CASE k = j
      BY <3>1 DEF Name, TypeOK
    <3>2. CASE k # j
      <4>1. name'[k] = name[k]
        BY <3>2 DEF Name, TypeOK
      <4>2. Pin[k] = Branch => name[k] = memo
        BY <2>3, <4>1 DEF NameInv
      <4>3. Pin[k] = Branch => memo # Unasked
        BY <2>3, <4>1, <4>2, CheckoutAssumption DEF TypeOK
      <4> QED BY <2>1, <2>3, <4>1, <4>2, <4>3 DEF NameInv
    <3> QED BY <3>1, <3>2
  <2>4. ASSUME NEW k \in Jobs, pc'[k] \in {"lookup", "store"} PROVE name'[k] \in Commits
    <3>1. pc' \in [Jobs -> {"start", "lookup", "fetch", "clone", "store", "ended"}]
          /\ (k # j => pc'[k] = pc[k])
          /\ pc'[j] = IF name'[j] = Unknown THEN "fetch" ELSE "lookup"
      BY Moves DEF Name
    <3>2. CASE k = j
      BY <2>4, <3>1, <3>2, StepTypes DEF TypeOK
    <3>3. CASE k # j
      BY <2>4, <3>1, <3>3 DEF Name, NameInv, TypeOK
    <3> QED BY <3>2, <3>3
  <2> QED BY <2>2, <2>3, <2>4 DEF NameInv
<1>2. ASSUME NEW j \in Jobs, Hit(j) \/ Miss(j) \/ Fetch(j) \/ Clone(j) \/ ShareFailure(j)
                             \/ ScanFails(j) \/ Store(j) PROVE NameInv'
  <2>1. UNCHANGED <<memo, asks, name>>
    BY <1>2 DEF Hit, Miss, Fetch, Clone, ShareFailure, ScanFails, Store, process
  <2>2. \A k \in Jobs : pc'[k] \in {"lookup", "store"} => pc'[k] = pc[k]
    BY <1>2, Moves DEF Hit, Miss, Fetch, Clone, ShareFailure, ScanFails, Store
  <2> QED BY <2>1, <2>2 DEF NameInv
<1>3. ASSUME NEW j \in Jobs, ScanSucceeds(j) PROVE NameInv'
  <2>1. pc'[j] = IF name[j] = Unknown THEN "ended" ELSE "store"
    BY <1>3, Moves DEF ScanSucceeds
  <2>2. \A k \in Jobs : k # j => pc'[k] = pc[k]
    BY <1>3, Moves DEF ScanSucceeds
  <2> QED BY <1>3, <2>1, <2>2 DEF ScanSucceeds, NameInv, TypeOK
<1>4. CASE Anew
  BY <1>4, AnewForgets
<1>5. CASE UNCHANGED <<pc, process>>
  BY <1>5 DEF process, NameInv
<1> QED
  BY <1>1, <1>2, <1>3, <1>4, <1>5 DEF Next, Job, Done, Push, NextRun, Kill, vars

-----------------------------------------------------------------------------
(* The checkouts.                                                           *)

LEMMA StepPool ==
  ASSUME IInv, [Next]_vars
  PROVE  PoolInv'
<1> USE DEF IInv
<1>1. ASSUME NEW j \in Jobs, Fetch(j) PROVE PoolInv'
  <2> USE <1>1
  <2>1. /\ pc[j] = "fetch" /\ pc'[j] = "clone"
        /\ \A k \in Jobs : k # j => pc'[k] = pc[k]
    BY Moves DEF Fetch
  <2>2. /\ pool[PoolKey(j)].state = "absent"
        /\ pool'[PoolKey(j)].state = "cloning" /\ clones'[PoolKey(j)] = 1
        /\ \A k \in PoolKeys : k # PoolKey(j) => pool'[k] = pool[k] /\ clones'[k] = clones[k]
    BY JobKeys DEF Fetch, PoolInv, TypeOK
  <2>3. \A k \in Jobs : k # j /\ pc[k] = "clone" => PoolKey(k) # PoolKey(j)
    BY <2>2 DEF PoolInv
  <2> QED BY <2>1, <2>2, <2>3, JobKeys DEF PoolInv
<1>2. ASSUME NEW j \in Jobs, Clone(j) PROVE PoolInv'
  <2> USE <1>2
  <2> DEFINE commit == IF Pin[j] = Branch THEN head ELSE Pin[j]
  <2>1. /\ pc[j] = "clone" /\ pc'[j] = "fetch"
        /\ \A k \in Jobs : k # j => pc'[k] = pc[k]
    BY Moves DEF Clone
  <2>2. pool[PoolKey(j)].state = "cloning" /\ clones[PoolKey(j)] = 1
    BY <2>1, JobKeys DEF PoolInv
  <2>3. /\ \/ pool'[PoolKey(j)] = [state |-> "ready", commit |-> commit]
           \/ pool'[PoolKey(j)] = [state |-> "failed", commit |-> Unknown]
        /\ \A k \in PoolKeys : k # PoolKey(j) => pool'[k] = pool[k]
        /\ clones' = clones
    BY JobKeys DEF Clone, TypeOK
  <2>4. commit \in Commits
    BY CheckoutAssumption DEF TypeOK
  <2>5. \A k \in Jobs : pc'[k] = "clone" => pc[k] = "clone" /\ PoolKey(k) # PoolKey(j)
    BY <2>1 DEF PoolInv
  <2>6. \A k \in Jobs : PoolKey(k) = PoolKey(j) => Pin[k] = Pin[j]
    BY DEF PoolKey
  <2>7. \A k \in PoolKeys : clones'[k] = IF pool'[k].state = "absent" THEN 0 ELSE 1
    BY <2>2, <2>3 DEF PoolInv
  <2>8. \A k \in PoolKeys : pool'[k].state = "ready" => pool'[k].commit \in Commits
    BY <2>3, <2>4 DEF PoolInv
  <2>9. \A k \in Jobs : Pin[k] # Branch /\ pool'[PoolKey(k)].state = "ready"
                          => pool'[PoolKey(k)].commit = Pin[k]
    BY <2>3, <2>6, JobKeys DEF PoolInv
  <2>10. \A k \in Jobs : pc'[k] = "clone" => pool'[PoolKey(k)].state = "cloning"
    BY <2>3, <2>5, JobKeys DEF PoolInv
  <2> QED BY <2>5, <2>7, <2>8, <2>9, <2>10 DEF PoolInv
<1>3. ASSUME NEW j \in Jobs, Name(j) \/ Hit(j) \/ Miss(j) \/ ShareFailure(j)
                             \/ ScanSucceeds(j) \/ ScanFails(j) \/ Store(j) PROVE PoolInv'
  <2>1. UNCHANGED <<pool, clones>>
    BY <1>3 DEF Name, Hit, Miss, ShareFailure, ScanSucceeds, ScanFails, Store, process
  <2>2. \A k \in Jobs : pc'[k] = "clone" => pc[k] = "clone"
    BY <1>3, Moves DEF Name, Hit, Miss, ShareFailure, ScanSucceeds, ScanFails, Store
  <2> QED BY <2>1, <2>2 DEF PoolInv
<1>4. CASE Anew
  BY <1>4, AnewForgets
<1>5. CASE UNCHANGED <<pc, process>>
  BY <1>5 DEF process, PoolInv
<1> QED
  BY <1>1, <1>2, <1>3, <1>4, <1>5 DEF Next, Job, Done, Push, NextRun, Kill, vars

-----------------------------------------------------------------------------
(* The reports.                                                             *)

\* A job that is given a report leaves every other's as it was.
LEMMA ReportGiven ==
  ASSUME IInv, NEW j \in Jobs, NEW given, report' = [report EXCEPT ![j] = given],
         pool' = pool,
         \A k \in Jobs : k # j => pc'[k] = pc[k],
         pc'[j] = "store" => given \in Commits,
         \A k \in Jobs : k # j => (k \in reused' <=> k \in reused),
         given \in Commits /\ j \notin reused'
           => pool[PoolKey(j)] = [state |-> "ready", commit |-> given],
         given \in Commits /\ Pin[j] # Branch => Sees(j, given) = Sees(j, Pin[j])
  PROVE  ReportInv'
<1>1. /\ report'[j] = given
      /\ \A k \in Jobs : k # j => report'[k] = report[k]
  BY DEF IInv, TypeOK
<1>3. PinnedIsPinned'
  BY <1>1 DEF IInv, ReportInv, PinnedIsPinned
<1>4. \A k \in Jobs : report'[k] \in Commits /\ k \notin reused'
        => pool'[PoolKey(k)] = [state |-> "ready", commit |-> report'[k]]
  BY <1>1 DEF IInv, ReportInv
<1>5. \A k \in Jobs : pc'[k] = "store" => report'[k] \in Commits
  BY <1>1 DEF IInv, ReportInv
<1> QED BY <1>3, <1>4, <1>5 DEF ReportInv

LEMMA StepReports ==
  ASSUME IInv, [Next]_vars
  PROVE  ReportInv'
<1> USE DEF IInv
<1>1. ASSUME NEW j \in Jobs, Hit(j) PROVE ReportInv'
  <2>1. pc[j] = "lookup" /\ pc'[j] = "ended" /\ \A k \in Jobs : k # j => pc'[k] = pc[k]
    BY <1>1, Moves DEF Hit
  <2>2. Pin[j] # Branch => name[j] = Pin[j] /\ name[j] \in Commits
    BY <2>1, CheckoutAssumption DEF NameInv
  <2>3. Pin[j] # Branch => Sees(j, cache[Entry(j)]) = Sees(j, Pin[j])
    BY <1>1, <2>2 DEF Hit, CacheInv, Entry
  <2> QED BY <1>1, <2>1, <2>3, ReportGiven, CheckoutAssumption DEF Hit
<1>2. ASSUME NEW j \in Jobs, ShareFailure(j) \/ ScanFails(j) PROVE ReportInv'
  <2>1. pc'[j] = "ended" /\ \A k \in Jobs : k # j => pc'[k] = pc[k]
    BY <1>2, Moves DEF ShareFailure, ScanFails
  <2>2. Failed \notin Commits
    BY CheckoutAssumption
  <2> QED BY <1>2, <2>1, <2>2, ReportGiven DEF ShareFailure, ScanFails
<1>3. ASSUME NEW j \in Jobs, ScanSucceeds(j) PROVE ReportInv'
  <2> DEFINE made == pool[PoolKey(j)]
  <2>1. \A k \in Jobs : k # j => pc'[k] = pc[k]
    BY <1>3, Moves DEF ScanSucceeds
  <2>2. made.commit \in Commits
    BY <1>3, JobKeys, CheckoutAssumption DEF ScanSucceeds, PoolInv
  <2>3. made = [state |-> "ready", commit |-> made.commit]
    BY <1>3, JobKeys DEF ScanSucceeds, TypeOK
  <2>4. Pin[j] # Branch => Sees(j, made.commit) = Sees(j, Pin[j])
    BY <1>3 DEF ScanSucceeds, PoolInv
  <2> QED BY <1>3, <2>1, <2>2, <2>3, <2>4, ReportGiven DEF ScanSucceeds
<1>4. ASSUME NEW j \in Jobs, Name(j) \/ Miss(j) \/ Store(j) PROVE ReportInv'
  <2>1. UNCHANGED <<pool, report, reused>>
    BY <1>4 DEF Name, Miss, Store, process
  <2>2. \A k \in Jobs : pc'[k] = "store" => pc[k] = "store"
    BY <1>4, Moves DEF Name, Miss, Store
  <2> QED BY <2>1, <2>2 DEF ReportInv, PinnedIsPinned
<1>5. ASSUME NEW j \in Jobs, Fetch(j) \/ Clone(j) PROVE ReportInv'
  <2>1. UNCHANGED <<report, reused>>
    BY <1>5 DEF Fetch, Clone
  <2>2. \A k \in Jobs : pc'[k] = "store" => pc[k] = "store"
    BY <1>5, Moves DEF Fetch, Clone
  <2>3. \A k \in PoolKeys : pool[k].state = "ready" => pool'[k] = pool[k]
    <3>1. CASE Fetch(j)
      BY <3>1, JobKeys DEF Fetch, TypeOK
    <3>2. CASE Clone(j)
      <4>1. pool[PoolKey(j)].state = "cloning"
        BY <3>2 DEF Clone, Goto, PoolInv
      <4> QED BY <3>2, <4>1, JobKeys DEF Clone, TypeOK
    <3> QED BY <1>5, <3>1, <3>2
  <2>4. \A k \in Jobs : report[k] \in Commits /\ k \notin reused
          => pool'[PoolKey(k)] = [state |-> "ready", commit |-> report[k]]
    BY <2>3, JobKeys DEF ReportInv
  <2> QED BY <2>1, <2>2, <2>4 DEF ReportInv, PinnedIsPinned
<1>6. CASE Anew
  BY <1>6, AnewForgets
<1>7. CASE UNCHANGED <<pc, process>>
  BY <1>7 DEF process, ReportInv, PinnedIsPinned
<1> QED
  BY <1>1, <1>2, <1>3, <1>4, <1>5, <1>6, <1>7 DEF Next, Job, Done, Push, NextRun, Kill, vars

-----------------------------------------------------------------------------
(* The entries.                                                             *)

LEMMA StepCache ==
  ASSUME IInv, [Next]_vars
  PROVE  CacheInv'
<1> USE DEF IInv
<1>1. ASSUME NEW i \in Jobs, Store(i) PROVE CacheInv'
  <2>1. name[i] \in Commits /\ report[i] \in Commits
    BY <1>1 DEF Store, Goto, NameInv, ReportInv
  <2>2. PICK entry \in {report[i], cache[Entry(i)], Torn} :
               cache' = [cache EXCEPT ![Entry(i)] = entry]
    BY <1>1 DEF Store
  <2>3. SUFFICES ASSUME NEW j \in Jobs, NEW c \in Commits, Pin[j] # Branch,
                        cache'[<<j, RevisionKey(j, c)>>] \in Commits
                 PROVE  Sees(j, cache'[<<j, RevisionKey(j, c)>>]) = Sees(j, c)
    BY DEF CacheInv
  <2>4. <<j, RevisionKey(j, c)>> \in CacheKeys
    BY DEF CacheKeys
  <2>5. CASE cache'[<<j, RevisionKey(j, c)>>] = cache[<<j, RevisionKey(j, c)>>]
    BY <2>3, <2>5 DEF CacheInv
  <2>6. CASE cache'[<<j, RevisionKey(j, c)>>] # cache[<<j, RevisionKey(j, c)>>]
    <3>1. Entry(i) = <<j, RevisionKey(j, c)>> /\ cache'[Entry(i)] = entry
      BY <2>2, <2>4, <2>6 DEF TypeOK
    <3>2. i = j /\ RevisionKey(j, name[j]) = RevisionKey(j, c)
      BY <3>1 DEF Entry
    <3>3. name[j] = Pin[j]
      BY <2>1, <2>3, <3>2, CheckoutAssumption DEF NameInv
    <3>4. Sees(j, Pin[j]) = Sees(j, c)
      BY <3>2, <3>3, KeysTellApart
    <3>5. entry = report[j]
      BY <2>2, <2>3, <2>6, <3>1, <3>2, CheckoutAssumption
    <3> QED BY <2>1, <2>3, <3>1, <3>2, <3>4, <3>5 DEF ReportInv, PinnedIsPinned
  <2> QED BY <2>5, <2>6
<1>2. CASE Kill
  <2>1. \A k \in CacheKeys : cache'[k] \in Commits => cache'[k] = cache[k]
    BY <1>2, CheckoutAssumption DEF Kill
  <2>2. \A j \in Jobs, c \in Commits : <<j, RevisionKey(j, c)>> \in CacheKeys
    BY DEF CacheKeys
  <2> QED BY <2>1, <2>2 DEF CacheInv
<1>3. CASE cache' = cache
  BY <1>3 DEF CacheInv
<1> QED
  BY <1>1, <1>2, <1>3 DEF Next, Job, Done, Push, NextRun, vars, process,
     Name, Hit, Miss, Fetch, Clone, ShareFailure, ScanSucceeds, ScanFails

-----------------------------------------------------------------------------
(* Theorems.                                                                *)

\* What every reachable state has in common, however often the branch moved and
\* however many runs were killed.
THEOREM CheckoutInvariance == Spec => []IInv
<1>1. Init => IInv
  BY InitInvariant
<1>2. IInv /\ [Next]_vars => IInv'
  BY StepTypes, StepNames, StepPool, StepReports, StepCache DEF IInv
<1> QED BY <1>1, <1>2, PTL DEF Spec

\* Every variable of the checkouts, the memo and the cache keeps its type.
THEOREM CheckoutTypes == Spec => []TypeOK
BY CheckoutInvariance, PTL DEF IInv

\* Jobs that share a checkout and scanned it report on one commit (Pool.Checkout).
THEOREM SharedTree == Spec => []SharersAgree
<1>1. IInv => SharersAgree
  <2> SUFFICES ASSUME IInv, NEW j \in Jobs, NEW k \in Jobs, PoolKey(j) = PoolKey(k),
                      {report[j], report[k]} \subseteq Commits, j \notin reused, k \notin reused
               PROVE  report[j] = report[k]
    BY DEF SharersAgree
  <2>1. /\ pool[PoolKey(j)] = [state |-> "ready", commit |-> report[j]]
        /\ pool[PoolKey(j)] = [state |-> "ready", commit |-> report[k]]
    BY DEF IInv, ReportInv
  <2> QED BY <2>1
<1> QED BY <1>1, CheckoutInvariance, PTL

\* A job pinned to a commit reports on what its scanner sees of that commit, cached or not.
THEOREM PinnedRead == Spec => []PinnedIsPinned
<1>1. IInv => PinnedIsPinned
  BY DEF IInv, ReportInv
<1> QED BY <1>1, CheckoutInvariance, PTL

\* One question per run and one clone per checkout, failures included.
THEOREM AskedOnce == Spec => []RemoteAskedOnce
<1>1. IInv => RemoteAskedOnce
  BY DEF IInv, NameInv, PoolInv, RemoteAskedOnce
<1> QED BY <1>1, CheckoutInvariance, PTL

\* No step serves or leaves an entry for a job whose commit the run does not know.
THEOREM NamelessUncached == Spec => UnresolvedIsUncached
<1> DEFINE Uncached ==
      \A j \in Jobs :
        Pin[j] = Branch /\ memo = Unknown /\ run' = run =>
          /\ j \notin reused' \ reused
          /\ \A k \in CacheKeys : k[1] = j => cache'[k] = cache[k]
<1>1. ASSUME IInv, [Next]_vars PROVE [Uncached]_vars
  <2> SUFFICES ASSUME NEW j \in Jobs, Pin[j] = Branch, memo = Unknown, run' = run
               PROVE  /\ j \notin reused' \ reused
                      /\ \A k \in CacheKeys : k[1] = j => cache'[k] = cache[k]
    OBVIOUS
  <2> USE <1>1 DEF IInv
  <2>1. pc[j] \notin {"lookup", "store"}
    BY CheckoutAssumption DEF NameInv
  <2>2. ~Anew
    <3>1. run \in Nat
      BY CheckoutAssumption DEF TypeOK
    <3> QED BY <3>1 DEF Anew
  <2>3. ASSUME NEW i \in Jobs, Hit(i)
        PROVE  reused' = reused \cup {i} /\ i # j /\ cache' = cache
    BY <2>1, <2>3 DEF Hit, Goto
  <2>4. ASSUME NEW i \in Jobs, Store(i)
        PROVE  reused' = reused /\ \A k \in CacheKeys : k[1] = j => cache'[k] = cache[k]
    <3>1. i # j
      BY <2>1, <2>4 DEF Store, Goto
    <3>2. Entry(i)[1] = i
      BY DEF Entry
    <3> QED BY <2>4, <3>1, <3>2 DEF Store, process, TypeOK
  <2>5. CASE UNCHANGED <<reused, cache>>
    BY <2>5
  <2> QED
    BY <2>2, <2>3, <2>4, <2>5 DEF Next, Job, Done, Push, NextRun, Kill, vars, process,
       Name, Miss, Fetch, Clone, ShareFailure, ScanSucceeds, ScanFails
<1>2. IInv /\ [Next]_vars => [Uncached]_vars
  BY <1>1
<1> QED BY <1>2, CheckoutInvariance, PTL DEF Spec, UnresolvedIsUncached
=============================================================================
