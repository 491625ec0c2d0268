----------------------- MODULE VideoSyncClaimsProofs -----------------------
(***************************************************************************)
(* Proofs about VideoSync's claims, for any number of videos, workers,     *)
(* tries and runs: what the integrity check leaves is in line, only a      *)
(* retry after a lost answer makes a second claim, the Namer's names are   *)
(* free and published rows have their claims.                              *)
(*                                                                         *)
(* The invariant of VideoSyncProofs (Inv) says where videos are; the one   *)
(* here (ClaimInv) says what the wallet has of them, first stage by stage  *)
(* for doSync's own goroutine, then place by place for each worker.        *)
(***************************************************************************)
EXTENDS VideoSyncProofs, FiniteSetTheorems, FunctionTheorems

---------------------------------------------------------------------------
(* The invariant *)

\* The variables of doSync's goroutine, and the history.
MainTypes ==
    /\ run \in {"down", "fixDupes", "fixDB", "reload", "remove", "reloadRemoved",
                "cert", "work", "returned"}
    /\ result \in {"none", "ok", "error"} /\ runs \in 0..MaxRuns
    /\ todo \subseteq Videos /\ listed \subseteq Videos /\ lost \subseteq Videos
    /\ gone \subseteq Videos /\ fatals \subseteq Videos
    /\ prod \in {"check", "send", "closed"}
    /\ stopped \in BOOLEAN /\ hard \in Videos \cup {None}

\* The variables of a worker, and the lock.
WorkerTypes ==
    /\ tries \in [Workers -> 0..(MaxTries + 1)]
    /\ err \in [Workers -> Errors \cup {"none"}]
    /\ arg \in [Workers -> Nat]
    /\ writer \in Workers \cup {None}

\* Tries are counted up to one more than the flag, which is why a video is only tried
\* while there are not more.
TriesInv ==
    \A w \in Workers:
        /\ run \notin {"work", "returned"} \/ pc[w] \in {"loop", "receive"} => tries[w] = 0
        /\ pc[w] \in {"try", "block", "lock", "setup"} => tries[w] <= MaxTries

\* A claim has an id of its own.
IdsInv ==
    /\ chain \subseteq Claim /\ lastId \in 0..MaxClaims
    /\ \A c \in chain: c.id <= lastId
    /\ \A c, d \in chain: c.id = d.id => c = d

RowTypes == db \in [Videos -> Row] /\ synced \in [Videos -> Row]

NameTypes == names \subseteq Nat \ {0} /\ IsFiniteSet(names)

\* What the rows have to say of the claims.
Truthful(rows) == \A c \in chain: rows[c.video] = Published(c)
NoDupes == \A c, d \in chain: c.video = d.video => c = d
NoneMissing(rows) ==
    RemoveDBUnpublished => \A v \in Videos: rows[v].status = "published" => ClaimsOf(v) # {}

\* Before the workers: what the integrity check has reached at each stage.
RepairInv ==
    /\ run \in {"fixDupes", "remove"} => synced = db
    /\ run \in {"fixDupes", "fixDB", "reload", "remove", "reloadRemoved", "cert"} =>
         names = NamesOf(synced)
    /\ run \in {"fixDB", "reload", "remove", "reloadRemoved", "cert"} => NoDupes
    /\ run = "fixDB" => /\ \A v \in todo: ClaimsOf(v) # {}
                        /\ \A c \in chain: c.video \in todo \/ db[c.video] = Published(c)
    /\ run \in {"reload", "remove", "reloadRemoved"} => Truthful(db)
    /\ run = "reloadRemoved" => NoneMissing(db)
    /\ run = "cert" => Truthful(synced) /\ NoneMissing(synced)

\* A video without the excuse of a lost answer has at most one claim.
SingleInv == \A v \in Videos \ lost: \A c, d \in ClaimsOf(v): c = d

Unclaimed(v) == ClaimsOf(v) = {} \/ v \in lost
Wanted(v) == Unclaimed(v) \/ synced[v].status = "published"

\* What processVideo is tried again after.
Retriable == (Errors \cup {"none"}) \ (ErrorsNoRetry \cup {"interrupted", "fatal"})

\* What a worker can rely on where it is: a video it may publish has no claim yet, one it
\* upgrades still has the claim of its row, one it marks has the claim it marks.
PlaceInv(w) ==
    LET v == video[w] IN
    /\ pc[w] \in {"try", "block", "lock", "setup"} => Wanted(v)
    /\ pc[w] = "error" /\ err[w] \in Retriable => Wanted(v)
    /\ pc[w] \in {"download", "rlock", "name", "create"} => Unclaimed(v)
    /\ pc[w] \in {"reprocess", "rlockUpdate", "update"} => synced[v].status = "published"
    /\ pc[w] \in {"rlockUpdate", "update"} => \E c \in ClaimsOf(v): c.id = synced[v].claim
    /\ pc[w] = "mark" => \E c \in ClaimsOf(v): c.id = arg[w]

\* No video is in two hands, or in a hand and in the queue; what is in the queue may be
\* published.
HandsInv ==
    run = "work" =>
        /\ \A w, u \in Workers: w # u /\ video[w] # None => video[w] # video[u]
        /\ \A w \in Workers: video[w] \notin todo
        /\ \A v \in todo: Wanted(v)
        /\ \A w \in Workers: PlaceInv(w)

\* The Namer has every name of the wallet, and has given none to two workers.
NamesInv ==
    run = "work" =>
        /\ \A c \in chain: c.name \in names
        /\ \A w \in Workers:
              pc[w] = "create" => arg[w] \in names /\ \A c \in chain: c.name # arg[w]
        /\ \A w, u \in Workers: pc[w] = "create" /\ pc[u] = "create" /\ w # u => arg[w] # arg[u]

ClaimInv ==
    /\ MainTypes /\ WorkerTypes /\ TriesInv /\ IdsInv /\ RowTypes /\ NameTypes
    /\ RepairInv /\ SingleInv /\ HandsInv /\ NamesInv /\ refused = FALSE /\ PublishedHasClaim

---------------------------------------------------------------------------
(* The beginning *)

LEMMA Constants ==
    /\ MaxTries \in Nat /\ MaxClaims \in Nat /\ MaxNames \in Nat /\ MaxRuns \in Nat /\ MaxRuns > 0
    /\ IsFiniteSet(Videos) /\ IsFiniteSet(Old) /\ Old \subseteq Videos
    /\ Cardinality(Old) \in 0..MaxClaims
<1>1. /\ MaxTries \in Nat /\ MaxClaims \in Nat /\ MaxNames \in Nat /\ MaxRuns \in Nat /\ MaxRuns > 0
      /\ IsFiniteSet(Videos) /\ Old \subseteq Videos /\ Cardinality(Old) <= MaxClaims
  BY SyncAssumption
<1>2. IsFiniteSet(Old) /\ Cardinality(Old) \in Nat
  BY <1>1, FS_Subset, FS_CardinalityType
<1> QED  BY <1>1, <1>2

\* The names in the rows are finitely many.
LEMMA NamesFinite ==
    ASSUME NEW rows \in [Videos -> Row] PROVE NamesOf(rows) \subseteq Nat \ {0} /\ IsFiniteSet(NamesOf(rows))
<1> DEFINE S == {rows[v].name: v \in Videos}
           f == [v \in Videos |-> rows[v].name]
<1>1. S \subseteq Nat
  BY DEF Row
<1>2. f \in Surjection(Videos, S)
  BY DEF Surjection
<1>3. IsFiniteSet(S)
  BY <1>2, Constants, FS_Surjection
<1>4. IsFiniteSet(S \ {0})
  BY <1>3, FS_RemoveElement
<1> QED  BY <1>1, <1>4 DEF NamesOf

\* The old videos can be numbered.
LEMMA OldNumberType ==
    OldNumber \in [Old -> 1..Cardinality(Old)] /\ \A v, u \in Old: OldNumber[v] = OldNumber[u] => v = u
<1>1. ExistsBijection(1..Cardinality(Old), Old)
  BY Constants, FS_CardinalityType
<1>2. ExistsBijection(Old, 1..Cardinality(Old))
  BY <1>1, Fun_ExistsBijSymmetric
<1>3. PICK f \in Bijection(Old, 1..Cardinality(Old)): TRUE
  BY <1>2 DEF ExistsBijection
<1>4. f \in [Old -> 1..Cardinality(Old)] /\ \A v, u \in Old: f[v] = f[u] => v = u
  BY <1>3 DEF Bijection, Injection, IsInjective
<1> QED  BY <1>4 DEF OldNumber

LEMMA InitClaims == Init => ClaimInv
<1> SUFFICES ASSUME Init PROVE ClaimInv  OBVIOUS
<1> DEFINE old(v) == [id |-> OldNumber[v], video |-> v, name |-> OldNumber[v], version |-> 1]
<1>1. chain = {old(v): v \in Old} /\ lastId = Cardinality(Old)
  BY DEF Init
<1>2. /\ run = "down" /\ result = "none" /\ runs = 0 /\ todo = {} /\ listed = {} /\ lost = {}
      /\ gone = {} /\ fatals = {} /\ prod = "closed" /\ stopped = FALSE /\ hard = None
      /\ names = {} /\ refused = FALSE /\ writer = None /\ synced = db
      /\ tries = [w \in Workers |-> 0] /\ err = [w \in Workers |-> "none"]
      /\ arg = [w \in Workers |-> 0] /\ pc = [w \in Workers |-> "done"]
  BY DEF Init
<1>3. \A v \in Old: /\ OldNumber[v] \in 1..Cardinality(Old)
                    /\ OldNumber[v] \in 1..MaxClaims /\ OldNumber[v] <= lastId /\ v \in Videos
  BY <1>1, OldNumberType, Constants
<1>4. chain \subseteq Claim /\ \A c \in chain: c.id <= lastId /\ c = old(c.video) /\ c.video \in Old
  BY <1>1, <1>3 DEF Claim
<1>5. \A c, d \in chain: (c.id = d.id => c = d) /\ (c.video = d.video => c = d)
  BY <1>4, OldNumberType
<1>6. IdsInv
  BY <1>1, <1>4, <1>5, Constants DEF IdsInv
<1>7. \A v \in Videos: db[v] \in Row /\ (db[v].status = "published" => ClaimsOf(v) # {})
  <2> TAKE v \in Videos
  <2>1. db[v] = IF ClaimsOf(v) = {} THEN NoRow ELSE Published(CHOOSE c \in ClaimsOf(v): TRUE)
    BY DEF Init
  <2>2. CASE ClaimsOf(v) = {}
    BY <2>1, <2>2, Constants DEF NoRow, Row
  <2>3. CASE ClaimsOf(v) # {}
    <3>1. PICK c \in chain: db[v] = Published(c)
      BY <2>1, <2>3 DEF ClaimsOf
    <3>2. c \in Claim
      BY <1>4
    <3> QED  BY <2>3, <3>1, <3>2, Constants DEF Published, Row, Claim
  <2> QED  BY <2>2, <2>3
<1>8. RowTypes /\ PublishedHasClaim
  BY <1>2, <1>7 DEF RowTypes, PublishedHasClaim, Init
<1>9. NameTypes
  BY <1>2, FS_EmptySet DEF NameTypes
<1>10. MainTypes /\ WorkerTypes /\ TriesInv
  <2>a. MaxRuns \in Nat /\ MaxRuns > 0
    BY Constants
  <2>b. runs \in 0..MaxRuns
    BY <1>2, <2>a
  <2>1. runs \in 0..MaxRuns /\ stopped \in BOOLEAN
    BY <1>2, <2>b, Zenon
  <2>2. MainTypes
    BY <1>2, <2>1 DEF MainTypes
  <2>3. WorkerTypes
    BY <1>2, Constants DEF WorkerTypes, Errors
  <2>4. TriesInv
    BY <1>2 DEF TriesInv
  <2> QED  BY <2>2, <2>3, <2>4
<1>11. RepairInv /\ HandsInv /\ NamesInv /\ refused = FALSE
  BY <1>2 DEF RepairInv, HandsInv, NamesInv
<1>12. SingleInv
  BY <1>5 DEF SingleInv, ClaimsOf
<1> QED  BY <1>6, <1>8, <1>9, <1>10, <1>11, <1>12 DEF ClaimInv

---------------------------------------------------------------------------
(* doSync's own goroutine *)

\* A new Sync value has no worker that relies on anything.
LEMMA FreshWorkers ==
    ASSUME ClaimInv, NewSync, run' # "work" PROVE WorkerTypes' /\ TriesInv' /\ HandsInv' /\ NamesInv'
<1>1. /\ tries' = [w \in Workers |-> 0] /\ err' = [w \in Workers |-> "none"]
      /\ arg' = [w \in Workers |-> 0] /\ pc' = [w \in Workers |-> "done"] /\ writer' = None
  BY DEF NewSync
<1>2. WorkerTypes'
  BY <1>1, Constants DEF WorkerTypes, Errors
<1>3. TriesInv'
  BY <1>1 DEF TriesInv
<1>4. HandsInv' /\ NamesInv'
  BY DEF HandsInv, NamesInv
<1> QED  BY <1>2, <1>3, <1>4

LEMMA StartClaims == ASSUME ClaimInv, StartSync PROVE ClaimInv'
<1>1. /\ UNCHANGED <<chain, lastId, db, lost, gone, refused>> /\ NewSync
      /\ synced' = db /\ names' = NamesOf(db) /\ runs < MaxRuns /\ runs' = runs + 1
      /\ run' \in {"fixDupes", "returned"} /\ result' \in {"none", "error"}
  BY DEF StartSync, SetStatusSyncing, Return, persistent
<1>2. WorkerTypes' /\ TriesInv' /\ HandsInv' /\ NamesInv'
  BY <1>1, FreshWorkers
<1>3. MainTypes'
  <2>1. /\ todo' = {} /\ prod' = "closed" /\ listed' = {} /\ stopped' = FALSE /\ hard' = None
        /\ fatals' = {}
    BY <1>1 DEF NewSync
  <2>a. MaxRuns \in Nat /\ runs \in 0..MaxRuns
    BY Constants DEF ClaimInv, MainTypes
  <2>b. runs' \in 0..MaxRuns
    BY <1>1, <2>a
  <2>2. runs' \in 0..MaxRuns /\ stopped' \in BOOLEAN
    BY <2>1, <2>b, Zenon
  <2>3. lost' \subseteq Videos /\ gone' \subseteq Videos
    BY <1>1 DEF ClaimInv, MainTypes
  <2> QED  BY <1>1, <2>1, <2>2, <2>3 DEF MainTypes
<1>4. IdsInv' /\ SingleInv' /\ refused' = FALSE /\ PublishedHasClaim' /\ RowTypes'
  BY <1>1 DEF ClaimInv, IdsInv, SingleInv, PublishedHasClaim, RowTypes, ClaimsOf
<1>5. NameTypes'
  BY <1>1, NamesFinite DEF ClaimInv, RowTypes, NameTypes
<1>6. RepairInv'
  BY <1>1 DEF RepairInv, NamesOf
<1> QED  BY <1>2, <1>3, <1>4, <1>5, <1>6 DEF ClaimInv

LEMMA CrashClaims == ASSUME ClaimInv, Crash PROVE ClaimInv'
<1>1. /\ UNCHANGED <<chain, lastId, db, lost, gone, refused, runs>> /\ NewSync
      /\ synced' = [v \in Videos |-> NoRow] /\ names' = {} /\ run' = "down" /\ result' = "none"
  BY DEF Crash, persistent
<1>2. WorkerTypes' /\ TriesInv' /\ HandsInv' /\ NamesInv'
  BY <1>1, FreshWorkers
<1>3. MainTypes'
  BY <1>1, Constants DEF NewSync, ClaimInv, MainTypes
<1>4. IdsInv' /\ SingleInv' /\ refused' = FALSE /\ PublishedHasClaim'
  BY <1>1 DEF ClaimInv, IdsInv, SingleInv, PublishedHasClaim, ClaimsOf
<1>5. RowTypes'
  BY <1>1, Constants DEF ClaimInv, RowTypes, NoRow, Row
<1>6. NameTypes' /\ RepairInv'
  BY <1>1, FS_EmptySet DEF RepairInv, NameTypes
<1> QED  BY <1>2, <1>3, <1>4, <1>5, <1>6 DEF ClaimInv

\* A step of doSync before the workers.
LEMMA PrepareClaims ==
    ASSUME ClaimInv, run \notin {"work", "returned"}, run' # "work", MainTypes', IdsInv', RowTypes',
           NameTypes', RepairInv', SingleInv', PublishedHasClaim',
           UNCHANGED <<pc, tries, err, arg, writer, refused>>
    PROVE  ClaimInv'
<1>1. WorkerTypes' /\ TriesInv' /\ HandsInv' /\ NamesInv'
  BY DEF ClaimInv, WorkerTypes, TriesInv, HandsInv, NamesInv
<1> QED  BY <1>1 DEF ClaimInv

\* A claim in the wallet has an id of its own, and can be found by it.
LEMMA ById ==
    ASSUME IdsInv, NEW c \in chain, NEW i, c.id = i PROVE ClaimById(i) = c
BY DEF IdsInv, ClaimById

LEMMA RowOfClaim ==
    ASSUME IdsInv, NEW c \in chain
    PROVE  Published(c) \in Row /\ Published(c).status = "published" /\ Published(c).name = c.name
           /\ Published(c).claim = c.id /\ c.video \in Videos /\ c.name \in Nat \ {0}
<1>1. c \in Claim /\ MaxClaims \in Nat
  BY Constants DEF IdsInv
<1> QED  BY <1>1 DEF Published, Row, Claim

LEMMA FixDupesClaims == ASSUME ClaimInv, FixDupes PROVE ClaimInv'
<1>1. /\ run = "fixDupes"
      /\ UNCHANGED <<lastId, db, synced, names, prod, workerVars, lockVars, grpVars, history,
                     todo, runs, listed>>
      /\ \/ UNCHANGED <<run, result>> /\ \E c, d \in chain: AreDupes(c, d) /\ chain' = chain \ {d}
         \/ run' = "returned" /\ result' = "error" /\ UNCHANGED chain
  BY DEF FixDupes, Return, mainVars
<1>2. MainTypes' /\ RowTypes' /\ NameTypes'
  BY <1>1 DEF ClaimInv, MainTypes, RowTypes, NameTypes, grpVars, history
<1>3. IdsInv' /\ SingleInv' /\ RepairInv'
  BY <1>1 DEF ClaimInv, IdsInv, SingleInv, RepairInv, ClaimsOf, NamesOf, history
<1>4. ASSUME NEW v \in Videos, ClaimsOf(v) # {} PROVE ClaimsOf(v)' # {}
  BY <1>1, <1>4 DEF AreDupes, ClaimsOf
<1>5. PublishedHasClaim'
  BY <1>1, <1>4 DEF ClaimInv, PublishedHasClaim, history
<1> QED  BY <1>1, <1>2, <1>3, <1>5, PrepareClaims DEF workerVars, lockVars, history

LEMMA CompareClaimsClaims == ASSUME ClaimInv, CompareClaims PROVE ClaimInv'
<1>1. /\ run = "fixDupes"
      /\ UNCHANGED <<chain, lastId, db, synced, names, result, runs, listed, prod, workerVars,
                     lockVars, grpVars, history>>
      /\ todo' = {c.video: c \in {d \in chain: Mismatch(d)}}
      /\ run' = IF todo' = {} THEN "remove" ELSE "fixDB"
      /\ ~\E c, d \in chain: AreDupes(c, d)
  BY DEF CompareClaims, persistent
<1>2. /\ \A v \in todo': v \in Videos /\ ClaimsOf(v) # {}
      /\ \A c \in chain: c.video \notin todo' => synced[c.video] = Published(c)
  BY <1>1, RowOfClaim DEF ClaimInv, Mismatch, ClaimsOf
<1>3. MainTypes' /\ RowTypes' /\ NameTypes' /\ IdsInv' /\ SingleInv' /\ PublishedHasClaim'
  BY <1>1, <1>2 DEF ClaimInv, MainTypes, RowTypes, NameTypes, IdsInv, SingleInv, PublishedHasClaim,
                    ClaimsOf, grpVars, history
<1>4. NoDupes /\ synced = db /\ names = NamesOf(synced)
  BY <1>1 DEF ClaimInv, IdsInv, NoDupes, AreDupes, RepairInv
<1>5. RepairInv'
  BY <1>1, <1>2, <1>4 DEF RepairInv, NoDupes, Truthful, NoneMissing, ClaimsOf, NamesOf
<1> QED  BY <1>1, <1>3, <1>5, PrepareClaims DEF workerVars, lockVars, history

LEMMA FixDBClaims == ASSUME ClaimInv, NEW v \in Videos, FixDB(v) PROVE ClaimInv'
<1>1. /\ run = "fixDB" /\ v \in todo
      /\ UNCHANGED <<chain, lastId, synced, names, runs, listed, prod, workerVars, lockVars,
                     grpVars, history>>
      /\ \/ /\ db' = [db EXCEPT ![v] = Published(CHOOSE c \in ClaimsOf(v): TRUE)]
            /\ todo' = todo \ {v} /\ UNCHANGED result
            /\ run' = IF todo' = {} THEN "reload" ELSE run
         \/ run' = "returned" /\ result' = "error" /\ UNCHANGED <<db, todo>>
  BY DEF FixDB, Return
<1>2. ClaimsOf(v) # {} /\ NoDupes /\ names = NamesOf(synced)
      /\ \A c \in chain: c.video \in todo \/ db[c.video] = Published(c)
  BY <1>1 DEF ClaimInv, RepairInv
<1>3. PICK c \in chain: c.video = v /\ c = CHOOSE d \in ClaimsOf(v): TRUE
  BY <1>2 DEF ClaimsOf
<1>4. Published(c) \in Row
  BY RowOfClaim DEF ClaimInv
<1>5. RowTypes' /\ db' \in {db, [db EXCEPT ![v] = Published(c)]}
  BY <1>1, <1>3, <1>4 DEF ClaimInv, RowTypes
<1>6. MainTypes' /\ NameTypes' /\ IdsInv' /\ SingleInv'
  BY <1>1 DEF ClaimInv, MainTypes, NameTypes, IdsInv, SingleInv, ClaimsOf, grpVars, history
<1>7. PublishedHasClaim'
  BY <1>1, <1>2, <1>5 DEF ClaimInv, RowTypes, PublishedHasClaim, ClaimsOf, history
<1>8. RepairInv'
  <2>1. CASE run' = "returned"
    BY <2>1 DEF RepairInv
  <2>2. CASE /\ db' = [db EXCEPT ![v] = Published(c)] /\ todo' = todo \ {v}
             /\ run' = IF todo' = {} THEN "reload" ELSE run
    <3>1. \A d \in chain: d.video \in todo' \/ db'[d.video] = Published(d)
      BY <1>2, <1>3, <2>2 DEF NoDupes, ClaimInv, RowTypes
    <3>2. \A u \in todo': ClaimsOf(u) # {}
      BY <1>1, <2>2 DEF ClaimInv, RepairInv
    <3> QED  BY <1>1, <1>2, <2>2, <3>1, <3>2 DEF RepairInv, NoDupes, Truthful, ClaimsOf, NamesOf
  <2> QED  BY <1>1, <1>3, <2>1, <2>2
<1> QED  BY <1>1, <1>5, <1>6, <1>7, <1>8, PrepareClaims DEF workerVars, lockVars, history

LEMMA ReloadClaims ==
    ASSUME ClaimInv, NEW next,
           (run = "reload" /\ next = "remove") \/ (run = "reloadRemoved" /\ next = "cert"),
           Reload(next),
           UNCHANGED <<persistent, todo, runs, listed, prod, workerVars, lockVars, grpVars, history>>
    PROVE  ClaimInv'
<1>1. /\ UNCHANGED <<chain, lastId, db>>
      /\ \/ synced' = db /\ names' = NamesOf(db) /\ run' = next /\ UNCHANGED result
         \/ run' = "returned" /\ result' = "error" /\ UNCHANGED <<synced, names>>
  BY DEF Reload, SetStatusSyncing, Return, persistent
<1>2. MainTypes' /\ IdsInv' /\ SingleInv' /\ PublishedHasClaim' /\ RowTypes'
  BY <1>1 DEF ClaimInv, MainTypes, IdsInv, SingleInv, PublishedHasClaim, RowTypes, ClaimsOf,
              grpVars, history
<1>3. NameTypes'
  BY <1>1, NamesFinite DEF ClaimInv, NameTypes, RowTypes
<1>4. RepairInv'
  BY <1>1 DEF ClaimInv, RepairInv, NoDupes, Truthful, NoneMissing, ClaimsOf, NamesOf
<1> QED  BY <1>1, <1>2, <1>3, <1>4, PrepareClaims DEF workerVars, lockVars, history

LEMMA RemoveClaims == ASSUME ClaimInv, RemoveUnpublished PROVE ClaimInv'
<1> DEFINE ids == {v \in Videos: synced[v].status = "published" /\ ClaimsOf(v) = {}}
<1>1. /\ run = "remove"
      /\ UNCHANGED <<chain, lastId, synced, names, todo, runs, listed, prod, workerVars, lockVars,
                     grpVars, history>>
      /\ \/ /\ ~RemoveDBUnpublished \/ ids = {}
            /\ run' = "cert" /\ UNCHANGED <<db, result>>
         \/ /\ db' = [v \in Videos |-> IF v \in ids THEN NoRow ELSE db[v]]
            /\ run' = "reloadRemoved" /\ UNCHANGED result
         \/ run' = "returned" /\ result' = "error" /\ UNCHANGED db
  BY DEF RemoveUnpublished, Return
<1>2. synced = db /\ names = NamesOf(synced) /\ NoDupes /\ Truthful(db)
  BY <1>1 DEF ClaimInv, RepairInv
<1>3. NoRow \in Row /\ NoRow.status = "none"
  BY Constants DEF NoRow, Row
<1>4. \A v \in Videos: db'[v] = db[v] \/ (db'[v] = NoRow /\ v \in ids)
  <2> HIDE DEF ids
  <2>1. CASE UNCHANGED db
    BY <2>1
  <2>2. CASE db' = [v \in Videos |-> IF v \in ids THEN NoRow ELSE db[v]]
    BY <2>2
  <2> QED  BY <1>1, <2>1, <2>2
<1>5. RowTypes' /\ PublishedHasClaim'
  BY <1>1, <1>3, <1>4 DEF ClaimInv, RowTypes, PublishedHasClaim, ClaimsOf, history
<1>6. MainTypes' /\ IdsInv' /\ SingleInv' /\ NameTypes'
  BY <1>1 DEF ClaimInv, MainTypes, IdsInv, SingleInv, NameTypes, ClaimsOf, grpVars, history
<1>7. ASSUME run' = "reloadRemoved" PROVE Truthful(db)' /\ NoneMissing(db)'
  <2>1. db' = [v \in Videos |-> IF v \in ids THEN NoRow ELSE db[v]]
    BY <1>1, <1>7
  <2>2. \A c \in chain: c.video \in Videos /\ c.video \notin ids
    BY RowOfClaim DEF ClaimInv, ClaimsOf
  <2>3. Truthful(db)'
    BY <1>1, <1>2, <2>1, <2>2 DEF Truthful
  <2>4. NoneMissing(db)'
    BY <1>1, <1>2, <1>3, <2>1 DEF NoneMissing, ClaimsOf
  <2> QED  BY <2>3, <2>4
<1>8. ASSUME run' = "cert" PROVE NoneMissing(synced)'
  BY <1>1, <1>8 DEF NoneMissing, ClaimsOf
<1>9. RepairInv'
  BY <1>1, <1>2, <1>7, <1>8 DEF RepairInv, NoDupes, Truthful, NamesOf
<1> QED  BY <1>1, <1>5, <1>6, <1>9, PrepareClaims DEF workerVars, lockVars, history

LEMMA StartWorkersClaims == ASSUME Inv, ClaimInv, StartWorkers PROVE ClaimInv'
<1>1. /\ run = "cert" /\ lost' = {}
      /\ UNCHANGED <<chain, lastId, db, synced, names, runs, video, tries, err, arg, writer,
                     stopped, hard, gone, fatals, refused>>
      /\ run' \in {"work", "returned"} /\ result' \in {"none", "error"}
      /\ listed' \in {listed, Videos, {}} /\ todo' \in {todo, listed'}
      /\ prod' \in {prod, "check", "closed"}
      /\ \/ run' = "returned" /\ UNCHANGED pc
         \/ run' = "work" /\ pc' = [w \in Workers |-> "loop"]
  BY DEF StartWorkers, Return, persistent, lockVars, grpVars
<1>2. NoDupes /\ Truthful(synced) /\ names = NamesOf(synced)
      /\ \A w \in Workers: pc[w] = "done" /\ video[w] = None
  BY <1>1 DEF ClaimInv, RepairInv, Inv, VideoInv, Idle
<1>3. MainTypes' /\ WorkerTypes' /\ IdsInv' /\ RowTypes' /\ NameTypes' /\ RepairInv' /\ refused' = FALSE
  <2>1. MainTypes' /\ WorkerTypes'
    BY <1>1 DEF ClaimInv, MainTypes, WorkerTypes
  <2>2. IdsInv' /\ RowTypes' /\ NameTypes' /\ RepairInv' /\ refused' = FALSE
    BY <1>1 DEF ClaimInv, IdsInv, RowTypes, NameTypes, RepairInv
  <2> QED  BY <2>1, <2>2
<1>4. SingleInv' /\ PublishedHasClaim'
  BY <1>1, <1>2 DEF ClaimInv, SingleInv, NoDupes, PublishedHasClaim, ClaimsOf
<1>5. \A c \in chain: c.name \in names /\ synced[c.video].status = "published"
  BY <1>2, RowOfClaim DEF ClaimInv, Truthful, NamesOf
<1>6. HandsInv'
  <2> SUFFICES ASSUME run' = "work" PROVE HandsInv'
    BY DEF HandsInv
  <2>1. pc' = [w \in Workers |-> "loop"] /\ \A w \in Workers: video'[w] = None
    BY <1>1, <1>2
  <2>2. todo' \subseteq Videos /\ None \notin todo'
    BY <1>3, NoneIsNobody DEF MainTypes
  <2>3. \A v \in Videos: Wanted(v)'
    BY <1>1, <1>5 DEF Wanted, Unclaimed, ClaimsOf
  <2>4. \A w \in Workers: PlaceInv(w)'
    BY <2>1 DEF PlaceInv
  <2> QED  BY <2>1, <2>2, <2>3, <2>4 DEF HandsInv
<1>7. NamesInv'
  BY <1>1, <1>5 DEF NamesInv
<1>8. TriesInv'
  <2>1. CASE UNCHANGED pc
    BY <1>1, <2>1 DEF ClaimInv, TriesInv
  <2>2. CASE pc' = [w \in Workers |-> "loop"]
    BY <1>1, <2>2 DEF ClaimInv, TriesInv
  <2> QED  BY <1>1, <2>1, <2>2
<1> QED  BY <1>3, <1>4, <1>6, <1>7, <1>8 DEF ClaimInv

---------------------------------------------------------------------------
(* The workers: types *)

\* A step of w leaves the other workers where they are.
OnlyMe(w) ==
    /\ pc' = [pc EXCEPT ![w] = pc'[w]] /\ video' = [video EXCEPT ![w] = video'[w]]
    /\ tries' = [tries EXCEPT ![w] = tries'[w]] /\ err' = [err EXCEPT ![w] = err'[w]]
    /\ arg' = [arg EXCEPT ![w] = arg'[w]]

LEMMA Alone == ASSUME Inv, ClaimInv, NEW w \in Workers, Worker(w) PROVE OnlyMe(w)
<1> USE DEF Goto, NextVideo, Fail
<1>1. /\ pc \in [Workers -> Places] /\ video \in [Workers -> Videos \cup {None}]
      /\ tries \in [Workers -> 0..(MaxTries + 1)] /\ err \in [Workers -> Errors \cup {"none"}]
      /\ arg \in [Workers -> Nat]
  BY DEF Inv, PcOK, VideoInv, ShapeOK, ClaimInv, WorkerTypes
<1>2. ASSUME CheckStop(w) \/ StopReceive(w) \/ RLock(w) \/ Lock(w) PROVE OnlyMe(w)
  BY <1>1, <1>2 DEF OnlyMe, CheckStop, StopReceive, RLock, Lock
<1>3. ASSUME NEW v \in Videos, Receive(w, v) PROVE OnlyMe(w)
  BY <1>1, <1>3 DEF OnlyMe, Receive
<1>4. CASE Try(w)
  <2>1. pc' = [pc EXCEPT ![w] = pc'[w]] /\ video' = [video EXCEPT ![w] = video'[w]]
    BY <1>1, <1>4 DEF Try
  <2>2. tries' = [tries EXCEPT ![w] = tries'[w]] /\ err' = [err EXCEPT ![w] = err'[w]]
        /\ arg' = [arg EXCEPT ![w] = arg'[w]]
    BY <1>1, <1>4 DEF Try
  <2> QED  BY <2>1, <2>2 DEF OnlyMe
<1>5. ASSUME Download(w) \/ Reprocess(w) PROVE OnlyMe(w)
  BY <1>1, <1>5 DEF OnlyMe, Download, Reprocess
<1>6. ASSUME GetNextName(w) \/ StreamUpdate(w) PROVE OnlyMe(w)
  BY <1>1, <1>6 DEF OnlyMe, GetNextName, StreamUpdate
<1>7. CASE StreamCreate(w)
  BY <1>1, <1>7 DEF OnlyMe, StreamCreate
<1>8. ASSUME MarkPublished(w) \/ MarkFailed(w) PROVE OnlyMe(w)
  BY <1>1, <1>8 DEF OnlyMe, MarkPublished, MarkFailed
<1>9. ASSUME HandleError(w) \/ WaitForNewBlock(w) \/ WalletSetup(w) PROVE OnlyMe(w)
  BY <1>1, <1>9 DEF OnlyMe, HandleError, WaitForNewBlock, WalletSetup
<1> QED  BY <1>2, <1>3, <1>4, <1>5, <1>6, <1>7, <1>8, <1>9 DEF Worker

\* Where a worker has a video.
LEMMA HasVideo ==
    ASSUME Inv, NEW w \in Workers, pc[w] \notin {"loop", "receive", "done"} PROVE video[w] \in Videos
BY DEF Inv, VideoInv, Held

\* doSync goes on while its workers work.
LEMMA StaysAtWork ==
    ASSUME NEW w \in Workers, Worker(w) PROVE UNCHANGED <<run, result, runs, listed>>
<1>1. ASSUME NEW v \in Videos, Receive(w, v) PROVE UNCHANGED <<run, result, runs, listed>>
  BY <1>1 DEF Receive
<1>2. ASSUME UNCHANGED mainVars PROVE UNCHANGED <<run, result, runs, listed>>
  BY <1>2 DEF mainVars
<1> QED
  BY <1>1, <1>2 DEF Worker, CheckStop, StopReceive, Try, Download, Reprocess, RLock, GetNextName,
     StreamCreate, StreamUpdate, MarkPublished, HandleError, WaitForNewBlock, Lock, WalletSetup,
     MarkFailed

\* Every step of a worker keeps the types of what it shares with doSync's goroutine.
LEMMA WorkerMain == ASSUME Inv, ClaimInv, NEW w \in Workers, Worker(w) PROVE MainTypes'
<1>1. UNCHANGED <<run, result, runs, listed>>
  BY StaysAtWork
<1>2. ASSUME UNCHANGED <<run, result, runs, listed, todo, prod, stopped, hard, lost, gone, fatals>>
      PROVE  MainTypes'
  BY <1>2 DEF ClaimInv, MainTypes
<1>3. ASSUME UNCHANGED mainVars, UNCHANGED prod, UNCHANGED grpVars, UNCHANGED history PROVE MainTypes'
  BY <1>2, <1>3 DEF mainVars, grpVars, history
<1>4. ASSUME \/ CheckStop(w) \/ StopReceive(w) \/ Try(w) \/ Download(w) \/ RLock(w) \/ GetNextName(w)
             \/ StreamUpdate(w) \/ MarkPublished(w) \/ Lock(w) \/ MarkFailed(w)
      PROVE  MainTypes'
  BY <1>3, <1>4 DEF CheckStop, StopReceive, Try, Download, RLock, GetNextName, StreamUpdate,
                    MarkPublished, Lock, MarkFailed
<1>5. ASSUME NEW v \in Videos, Receive(w, v) PROVE MainTypes'
  BY <1>1, <1>5 DEF Receive, ClaimInv, MainTypes, grpVars, history
<1>6. CASE Reprocess(w)
  <2>1. video[w] \in Videos
    BY <1>6, HasVideo DEF Reprocess
  <2>2. UNCHANGED <<todo, prod, stopped, hard, lost, fatals>> /\ gone' \in {gone, gone \cup {video[w]}}
    BY <1>6 DEF Reprocess, mainVars, grpVars
  <2> QED  BY <1>1, <2>1, <2>2 DEF ClaimInv, MainTypes
<1>7. CASE StreamCreate(w)
  <2>1. video[w] \in Videos
    BY <1>7, HasVideo DEF StreamCreate
  <2>2. /\ UNCHANGED <<todo, prod, stopped, hard, fatals>> /\ gone' \in {gone, gone \ {video[w]}}
        /\ lost' \in {lost, lost \cup {video[w]}}
    BY <1>7 DEF StreamCreate, mainVars, grpVars
  <2> QED  BY <1>1, <2>1, <2>2 DEF ClaimInv, MainTypes
<1>8. CASE HandleError(w)
  <2>1. video[w] \in Videos
    BY <1>8, HasVideo DEF HandleError
  <2>2. /\ UNCHANGED <<todo, prod, lost, gone>> /\ fatals' \in {fatals, fatals \cup {video[w]}}
        /\ hard' \in {hard, video[w]}
    BY <1>8 DEF HandleError, FlagFailure, mainVars
  <2>3. stopped' \in BOOLEAN
    BY <1>8 DEF HandleError, ClaimInv, MainTypes
  <2> QED  BY <1>1, <2>1, <2>2, <2>3 DEF ClaimInv, MainTypes
<1>9. ASSUME WaitForNewBlock(w) \/ WalletSetup(w) PROVE MainTypes'
  <2>1. UNCHANGED <<todo, prod, lost, gone, fatals, hard>>
    BY <1>9 DEF WaitForNewBlock, WalletSetup, mainVars, history
  <2>2. stopped' \in BOOLEAN
    BY <1>9 DEF WaitForNewBlock, WalletSetup, ClaimInv, MainTypes
  <2> QED  BY <1>1, <2>1, <2>2 DEF ClaimInv, MainTypes
<1> QED  BY <1>4, <1>5, <1>6, <1>7, <1>8, <1>9 DEF Worker

\* Every step of a worker keeps the types of its own variables, and counts its tries.
LEMMA WorkerOwn ==
    ASSUME Inv, Inv', ClaimInv, NEW w \in Workers, Worker(w) PROVE WorkerTypes' /\ TriesInv'
<1> USE DEF Goto, NextVideo, Fail
<1>1. OnlyMe(w)
  BY Alone
<1>2. /\ pc \in [Workers -> Places] /\ tries \in [Workers -> 0..(MaxTries + 1)]
      /\ err \in [Workers -> Errors \cup {"none"}] /\ arg \in [Workers -> Nat]
      /\ writer \in Workers \cup {None} /\ run = "work" /\ MaxTries \in Nat
  BY Constants DEF Inv, PcOK, ClaimInv, WorkerTypes, Worker
<1>3. run' = "work"
  BY <1>2, StaysAtWork
<1>4. /\ pc[w] \in {"loop", "receive"} => tries[w] = 0
      /\ pc[w] \in {"try", "block", "lock", "setup"} => tries[w] <= MaxTries
      /\ tries[w] \in 0..(MaxTries + 1) /\ err[w] \in Errors \cup {"none"} /\ arg[w] \in Nat
  BY <1>2 DEF ClaimInv, TriesInv
<1> DEFINE Mine == /\ tries'[w] \in 0..(MaxTries + 1) /\ err'[w] \in Errors \cup {"none"}
                   /\ arg'[w] \in Nat /\ writer' \in Workers \cup {None}
                   /\ pc'[w] \in {"loop", "receive"} => tries'[w] = 0
                   /\ pc'[w] \in {"try", "block", "lock", "setup"} => tries'[w] <= MaxTries
<1>5. ASSUME Mine PROVE WorkerTypes' /\ TriesInv'
  <2>1. WorkerTypes'
    BY <1>1, <1>2, <1>5 DEF OnlyMe, WorkerTypes
  <2>2. TriesInv'
    BY <1>1, <1>2, <1>3, <1>5 DEF OnlyMe, TriesInv, ClaimInv
  <2> QED  BY <2>1, <2>2
<1>6. ASSUME CheckStop(w) \/ StopReceive(w) PROVE Mine
  BY <1>2, <1>4, <1>6 DEF CheckStop, StopReceive, lockVars
<1>7. ASSUME NEW v \in Videos, Receive(w, v) PROVE Mine
  BY <1>2, <1>4, <1>7 DEF Receive, lockVars
<1>8. ASSUME Try(w) PROVE Mine
  BY <1>2, <1>4, <1>8 DEF Try, lockVars, Errors
<1>9. ASSUME Download(w) \/ Reprocess(w) PROVE Mine
  BY <1>2, <1>4, <1>9 DEF Download, Reprocess, lockVars, Errors
<1>10. ASSUME RLock(w) \/ Lock(w) PROVE Mine
  BY <1>2, <1>4, <1>10 DEF RLock, Lock
<1>11. ASSUME GetNextName(w) PROVE Mine
  <2>1. names \subseteq Nat \ {0} /\ IsFiniteSet(names)
    BY DEF ClaimInv, NameTypes
  <2>2. Cardinality(names) \in Nat
    BY <2>1, FS_CardinalityType
  <2>3. PICK n \in 1..(Cardinality(names) + 1): arg' = [arg EXCEPT ![w] = n]
    BY <1>11 DEF GetNextName
  <2>4. n \in Nat
    BY <2>2
  <2> QED  BY <1>2, <1>4, <1>11, <2>3, <2>4 DEF GetNextName, lockVars
<1>12. ASSUME StreamCreate(w) PROVE Mine
  <2>1. lastId \in Nat
    BY Constants DEF ClaimInv, IdsInv
  <2>2. arg'[w] \in {0, arg[w], lastId + 1}
    BY <1>2, <1>12 DEF StreamCreate, MakeClaim
  <2>3. err'[w] \in Errors \cup {"none"}
    BY <1>2, <1>4, <1>12 DEF StreamCreate, Errors
  <2>4. UNCHANGED <<tries, writer>> /\ pc'[w] \in {"mark", "error", "name"}
    BY <1>2, <1>12 DEF StreamCreate
  <2> QED  BY <1>2, <1>4, <2>1, <2>2, <2>3, <2>4
<1>13. ASSUME StreamUpdate(w) PROVE Mine
  <2>1. UNCHANGED <<tries, writer>> /\ pc'[w] \in {"mark", "error"}
    BY <1>2, <1>13 DEF StreamUpdate
  <2>2. err'[w] \in Errors \cup {"none"}
    BY <1>2, <1>4, <1>13 DEF StreamUpdate, Errors
  <2>3. arg'[w] = 0 \/ arg'[w] = ClaimById(synced[video[w]].claim).id
    BY <1>2, <1>13 DEF StreamUpdate
  <2>4. PICK c \in ClaimsOf(video[w]): c.id = synced[video[w]].claim
    BY <1>2, <1>13 DEF StreamUpdate, ClaimInv, HandsInv, PlaceInv
  <2>5. c \in chain /\ ClaimById(synced[video[w]].claim) = c /\ c.id \in Nat
    BY <2>4, ById, Constants DEF ClaimsOf, ClaimInv, IdsInv, Claim
  <2> QED  BY <1>2, <1>4, <2>1, <2>2, <2>3, <2>5
<1>14. ASSUME MarkPublished(w) \/ MarkFailed(w) PROVE Mine
  BY <1>2, <1>4, <1>14 DEF MarkPublished, MarkFailed, lockVars
<1>15. ASSUME HandleError(w) PROVE Mine
  BY <1>2, <1>4, <1>15 DEF HandleError, ShouldRetry, lockVars
<1>16. ASSUME WaitForNewBlock(w) \/ WalletSetup(w) PROVE Mine
  BY <1>2, <1>4, <1>16 DEF WaitForNewBlock, WalletSetup, lockVars
<1> QED  BY <1>5, <1>6, <1>7, <1>8, <1>9, <1>10, <1>11, <1>12, <1>13, <1>14, <1>15, <1>16 DEF Worker

---------------------------------------------------------------------------
(* The workers: claims and names *)

\* Other videos than the worker's own keep their claims and their rows.
Elsewhere(w) ==
    /\ lost \subseteq lost'
    /\ \A v \in Videos \ {video[w]}: ClaimsOf(v)' = ClaimsOf(v) /\ synced'[v] = synced[v]

\* What the other workers rely on still holds.
LEMMA HandsKept ==
    ASSUME Inv, ClaimInv, run = "work", NEW w \in Workers, OnlyMe(w), Elsewhere(w), todo' = todo,
           video'[w] \in {video[w], None}, PlaceInv(w)'
    PROVE  HandsInv'
<1>1. /\ video \in [Workers -> Videos \cup {None}] /\ None \notin Videos /\ todo \subseteq Videos
      /\ pc \in [Workers -> Places] /\ err \in [Workers -> Errors \cup {"none"}]
      /\ arg \in [Workers -> Nat]
  BY NoneIsNobody DEF Inv, PcOK, VideoInv, ShapeOK, ClaimInv, MainTypes, WorkerTypes
<1>2. /\ \A a, b \in Workers: a # b /\ video[a] # None => video[a] # video[b]
      /\ \A a \in Workers: video[a] \notin todo /\ PlaceInv(a)
      /\ \A v \in todo: Wanted(v)
  BY DEF ClaimInv, HandsInv
<1>3. \A u \in Workers \ {w}: /\ pc'[u] = pc[u] /\ video'[u] = video[u]
                              /\ err'[u] = err[u] /\ arg'[u] = arg[u]
  BY <1>1 DEF OnlyMe
<1>4. \A a, b \in Workers: a # b /\ video'[a] # None => video'[a] # video'[b]
  BY <1>1, <1>2, <1>3
<1>5. \A a \in Workers: video'[a] \notin todo'
  BY <1>1, <1>2, <1>3
<1>6. ASSUME NEW v \in todo' PROVE Wanted(v)'
  <2>1. v \in Videos \ {video[w]} /\ Wanted(v)
    BY <1>1, <1>2, <1>6
  <2> QED  BY <2>1 DEF Elsewhere, Wanted, Unclaimed
<1>7. ASSUME NEW u \in Workers, u # w PROVE PlaceInv(u)'
  <2>1. PlaceInv(u) /\ pc'[u] = pc[u] /\ video'[u] = video[u] /\ err'[u] = err[u] /\ arg'[u] = arg[u]
    BY <1>2, <1>3, <1>7
  <2>2. CASE pc[u] \in {"loop", "receive", "done"}
    BY <2>1, <2>2 DEF PlaceInv
  <2>3. CASE pc[u] \notin {"loop", "receive", "done"}
    <3>1. PICK v \in Videos \ {video[w]}: v = video[u]
      BY <1>1, <1>2, <1>7, <2>3, HasVideo
    <3>2. {c \in chain': c.video = v} = {c \in chain: c.video = v} /\ synced'[v] = synced[v]
          /\ lost \subseteq lost'
      BY <3>1 DEF Elsewhere, ClaimsOf
    <3> QED  BY <2>1, <3>1, <3>2 DEF PlaceInv, Wanted, Unclaimed, ClaimsOf
  <2> QED  BY <2>2, <2>3
<1> QED  BY <1>4, <1>5, <1>6, <1>7 DEF HandsInv

\* No name is added to the wallet, and no worker is given one.
LEMMA NamesKept ==
    ASSUME Inv, ClaimInv, run = "work", NEW w \in Workers, OnlyMe(w), names' = names, pc'[w] # "create",
           \A c \in chain': \E d \in chain: d.name = c.name
    PROVE  NamesInv'
<1>1. pc \in [Workers -> Places] /\ arg \in [Workers -> Nat]
  BY DEF Inv, PcOK, ClaimInv, WorkerTypes
<1>2. \A u \in Workers: pc'[u] = "create" => u # w /\ pc[u] = "create" /\ arg'[u] = arg[u]
  BY <1>1 DEF OnlyMe
<1> QED  BY <1>2 DEF ClaimInv, NamesInv

\* A step that changes neither wallet nor rows nor names.
Quietly == UNCHANGED <<chain, lastId, db, synced, names, lost, gone, refused>>
LEMMA QuietClaims ==
    ASSUME ClaimInv, Quietly, MainTypes', WorkerTypes', TriesInv', run' = "work", HandsInv', NamesInv'
    PROVE  ClaimInv'
<1>1. IdsInv' /\ RowTypes' /\ NameTypes' /\ SingleInv' /\ refused' = FALSE /\ PublishedHasClaim'
  BY DEF Quietly, ClaimInv, IdsInv, RowTypes, NameTypes, SingleInv, PublishedHasClaim, ClaimsOf
<1>2. RepairInv'
  BY DEF RepairInv
<1> QED  BY <1>1, <1>2 DEF ClaimInv

\* The steps of a worker that have nothing to do with the wallet or the rows.
LEMMA QuietSteps ==
    ASSUME Inv, Inv', ClaimInv, NEW w \in Workers, Worker(w),
           \/ CheckStop(w) \/ StopReceive(w) \/ Try(w) \/ Download(w) \/ RLock(w)
           \/ HandleError(w) \/ WaitForNewBlock(w) \/ Lock(w) \/ WalletSetup(w)
    PROVE  ClaimInv'
<1> USE DEF Goto, NextVideo, Fail
<1>1. run = "work" /\ run' = "work" /\ OnlyMe(w) /\ MainTypes' /\ WorkerTypes' /\ TriesInv'
  BY StaysAtWork, Alone, WorkerMain, WorkerOwn DEF Worker
<1>2. Quietly /\ todo' = todo
  BY DEF Quietly, CheckStop, StopReceive, Try, Download, RLock, HandleError, WaitForNewBlock, Lock,
         WalletSetup, persistent, mainVars, history
<1>3. /\ pc \in [Workers -> Places] /\ video \in [Workers -> Videos \cup {None}]
      /\ err \in [Workers -> Errors \cup {"none"}] /\ PlaceInv(w)
  BY <1>1 DEF Inv, PcOK, VideoInv, ShapeOK, ClaimInv, WorkerTypes, HandsInv
<1>4. Elsewhere(w)
  BY <1>2 DEF Quietly, Elsewhere, ClaimsOf
<1> DEFINE Mine == video'[w] \in {video[w], None} /\ PlaceInv(w)' /\ pc'[w] # "create"
<1>5. ASSUME Mine PROVE ClaimInv'
  <2>1. HandsInv'
    BY <1>1, <1>2, <1>4, <1>5, HandsKept
  <2>2. NamesInv'
    BY <1>1, <1>2, <1>5, NamesKept DEF Quietly
  <2> QED  BY <1>1, <1>2, <2>1, <2>2, QuietClaims
<1>6. ASSUME pc'[w] \in {"loop", "receive", "done", "fail"}, video'[w] \in {video[w], None} PROVE Mine
  BY <1>6 DEF PlaceInv
<1>7. \A v \in {video[w]}: /\ Wanted(v) => Wanted(v)'
                           /\ Unclaimed(v) => Unclaimed(v)' /\ Wanted(v)'
  BY <1>2 DEF Quietly, Wanted, Unclaimed, ClaimsOf
<1>8. ASSUME CheckStop(w) \/ StopReceive(w) PROVE Mine
  BY <1>3, <1>6, <1>8 DEF CheckStop, StopReceive
<1>9. ASSUME Try(w) PROVE Mine
  <2>1. pc[w] = "try" /\ Wanted(video[w])
    BY <1>3, <1>9 DEF Try, PlaceInv
  <2>2. CASE pc'[w] \in {"done", "loop"} /\ video'[w] \in {video[w], None}
    BY <1>6, <2>2
  <2>3. CASE ~Skips(video[w]) /\ video' = video /\ pc'[w] = "error"
    BY <1>7, <2>1, <2>3 DEF PlaceInv, Wanted, Unclaimed, ClaimsOf
  <2>4. CASE ~Skips(video[w]) /\ video' = video /\ pc'[w] = "reprocess"
             /\ synced[video[w]].status = "published"
    BY <1>2, <2>4 DEF Quietly, PlaceInv
  <2>5. CASE ~Skips(video[w]) /\ video' = video /\ pc'[w] = "download"
             /\ ~(RequiresUpgrade(video[w]) /\ synced[video[w]].status = "published")
    <3>1. Unclaimed(video[w])
      BY <2>1, <2>5 DEF Skips, Wanted
    <3> QED  BY <1>2, <2>5, <3>1 DEF Quietly, PlaceInv, Unclaimed, ClaimsOf
  <2>6. \/ pc'[w] = "done" /\ UNCHANGED video
        \/ pc'[w] = "loop" /\ video'[w] = None
        \/ ~Skips(video[w]) /\ UNCHANGED video /\ pc'[w] = "error"
        \/ /\ ~Skips(video[w]) /\ UNCHANGED video
           /\ upgrade'[w] = (RequiresUpgrade(video[w]) /\ synced[video[w]].status = "published")
           /\ pc'[w] = IF upgrade'[w] THEN "reprocess" ELSE "download"
    <3>1. upgrade \in [Workers -> BOOLEAN]
      BY DEF Inv, VideoInv, ShapeOK
    <3> QED  BY <1>3, <1>9, <3>1 DEF Try
  <2> QED  BY <2>2, <2>3, <2>4, <2>5, <2>6
<1>10. ASSUME Download(w) PROVE Mine
  <2>1. video' = video /\ pc'[w] \in {"rlock", "error"} /\ Unclaimed(video[w])
    BY <1>3, <1>10 DEF Download, PlaceInv
  <2> QED  BY <1>2, <2>1 DEF Quietly, PlaceInv, Wanted, Unclaimed, ClaimsOf
<1>11. ASSUME RLock(w) PROVE Mine
  <2>1. /\ video' = video /\ pc'[w] \in {"name", "update"}
        /\ (pc[w] = "rlock" /\ pc'[w] = "name") \/ (pc[w] = "rlockUpdate" /\ pc'[w] = "update")
    BY <1>3, <1>11 DEF RLock
  <2> QED  BY <1>2, <1>3, <2>1 DEF Quietly, PlaceInv, Unclaimed, ClaimsOf
<1>12. ASSUME HandleError(w) PROVE Mine
  <2>1. /\ video' = video /\ pc[w] = "error"
        /\ pc'[w] = "fail" \/ (pc'[w] \in {"block", "lock", "try"} /\ err[w] \in Retriable)
    BY <1>3, <1>12 DEF HandleError, ShouldRetry, Retriable
  <2>2. CASE pc'[w] = "fail"
    BY <1>6, <2>1, <2>2
  <2>3. CASE pc'[w] \in {"block", "lock", "try"} /\ err[w] \in Retriable
    BY <1>2, <1>3, <2>1, <2>3 DEF Quietly, PlaceInv, Wanted, Unclaimed, ClaimsOf
  <2> QED  BY <2>1, <2>2, <2>3
<1>13. ASSUME WaitForNewBlock(w) \/ Lock(w) \/ WalletSetup(w) PROVE Mine
  <2>1. /\ pc[w] \in {"block", "lock", "setup"}
        /\ \/ pc'[w] \in {"try", "setup"} /\ video' = video
           \/ pc'[w] = "loop" /\ video'[w] = None
    BY <1>3, <1>13 DEF WaitForNewBlock, Lock, WalletSetup
  <2> QED  BY <1>2, <1>3, <1>6, <2>1 DEF Quietly, PlaceInv, Wanted, Unclaimed, ClaimsOf
<1> QED  BY <1>5, <1>8, <1>9, <1>10, <1>11, <1>12, <1>13

LEMMA ReceiveClaims ==
    ASSUME Inv, Inv', ClaimInv, NEW w \in Workers, Worker(w), NEW v \in Videos, Receive(w, v)
    PROVE  ClaimInv'
<1>1. run = "work" /\ run' = "work" /\ OnlyMe(w) /\ MainTypes' /\ WorkerTypes' /\ TriesInv'
  BY StaysAtWork, Alone, WorkerMain, WorkerOwn DEF Worker
<1>2. /\ Quietly /\ v \in todo /\ todo' = todo \ {v}
      /\ pc' = [pc EXCEPT ![w] = "try"] /\ video' = [video EXCEPT ![w] = v]
      /\ UNCHANGED <<err, arg>>
  BY DEF Receive, Quietly, Goto, persistent, history
<1>3. /\ pc \in [Workers -> Places] /\ video \in [Workers -> Videos \cup {None}]
  BY DEF Inv, PcOK, VideoInv, ShapeOK
<1>4. /\ \A a, b \in Workers: a # b /\ video[a] # None => video[a] # video[b]
      /\ \A a \in Workers: video[a] \notin todo /\ PlaceInv(a)
      /\ \A x \in todo: Wanted(x)
  BY <1>1 DEF ClaimInv, HandsInv
<1>5. \A a \in Workers: PlaceInv(a)'
  <2> TAKE a \in Workers
  <2>1. CASE a = w
    BY <1>2, <1>3, <1>4, <2>1 DEF Quietly, PlaceInv, Wanted, Unclaimed, ClaimsOf
  <2>2. CASE a # w
    <3>1. pc'[a] = pc[a] /\ video'[a] = video[a] /\ PlaceInv(a)
      BY <1>2, <1>3, <1>4, <2>2
    <3> QED  BY <1>2, <3>1 DEF Quietly, PlaceInv, Wanted, Unclaimed, ClaimsOf
  <2> QED  BY <2>1, <2>2
<1>6. \A x \in todo': Wanted(x)'
  BY <1>2, <1>4 DEF Quietly, Wanted, Unclaimed, ClaimsOf
<1>7. HandsInv'
  BY <1>2, <1>3, <1>4, <1>5, <1>6 DEF HandsInv
<1>8. NamesInv'
  <2>1. pc'[w] # "create"
    BY <1>2, <1>3
  <2> QED  BY <1>1, <1>2, <2>1, NamesKept DEF Quietly
<1> QED  BY <1>1, <1>2, <1>7, <1>8, QuietClaims

\* reprocess: a claim that is abandoned was the video's only one, but for the excuse.
LEMMA ReprocessClaims ==
    ASSUME Inv, Inv', ClaimInv, NEW w \in Workers, Worker(w), Reprocess(w) PROVE ClaimInv'
<1> USE DEF Goto, Fail
<1> DEFINE v == video[w]
           old == {c \in ClaimsOf(v): c.id = synced[v].claim}
<1>1. run = "work" /\ run' = "work" /\ OnlyMe(w) /\ MainTypes' /\ WorkerTypes' /\ TriesInv'
  BY StaysAtWork, Alone, WorkerMain, WorkerOwn DEF Worker
<1>2. /\ UNCHANGED <<lastId, db, synced, names, lost, refused, video, todo>> /\ pc[w] = "reprocess"
      /\ \/ old # {} /\ pc'[w] = "rlockUpdate" /\ UNCHANGED <<chain, gone>>
         \/ old # {} /\ pc'[w] = "download" /\ chain' = chain \ old /\ gone' = gone \cup {v}
         \/ pc'[w] = "error" /\ UNCHANGED <<chain, gone>>
  BY DEF Reprocess, Inv, PcOK, mainVars
<1>3. v \in Videos /\ PlaceInv(w) /\ synced[v].status = "published"
  BY <1>1, <1>2, HasVideo DEF ClaimInv, HandsInv, PlaceInv
<1>4. chain' \subseteq chain /\ \A x \in Videos \ {v}: ClaimsOf(x)' = ClaimsOf(x)
  BY <1>2 DEF ClaimsOf
<1>5. Elsewhere(w)
  BY <1>2, <1>4 DEF Elsewhere
<1>6. PlaceInv(w)'
  <2>1. CASE old # {} /\ pc'[w] = "rlockUpdate" /\ UNCHANGED chain
    BY <1>2, <1>3, <2>1 DEF PlaceInv, ClaimsOf
  <2>2. CASE pc'[w] = "error" /\ UNCHANGED chain
    BY <1>2, <1>3, <2>2 DEF PlaceInv, Wanted
  <2>3. CASE old # {} /\ pc'[w] = "download" /\ chain' = chain \ old
    <3>1. v \in lost \/ \A c \in chain: c.video = v => c \in old
      BY <1>3, <2>3 DEF ClaimInv, SingleInv, ClaimsOf
    <3>2. v \in lost \/ \A c \in chain': c.video # v
      BY <2>3, <3>1
    <3> QED  BY <1>2, <2>3, <3>2 DEF PlaceInv, Unclaimed, ClaimsOf
  <2> QED  BY <1>2, <2>1, <2>2, <2>3
<1>7. HandsInv' /\ NamesInv'
  <2>1. HandsInv'
    BY <1>1, <1>2, <1>5, <1>6, HandsKept
  <2>2. NamesInv'
    BY <1>1, <1>2, <1>4, NamesKept
  <2> QED  BY <2>1, <2>2
<1>8. IdsInv' /\ SingleInv'
  BY <1>2, <1>4 DEF ClaimInv, IdsInv, SingleInv, ClaimsOf
<1>9. PublishedHasClaim'
  <2>1. gone \subseteq gone' /\ (v \in gone' \/ chain' = chain)
    BY <1>2
  <2>2. ASSUME NEW x \in Videos, db'[x].status = "published" PROVE ClaimsOf(x)' # {} \/ x \in gone'
    <3>1. ClaimsOf(x) # {} \/ x \in gone
      BY <1>2, <2>2 DEF ClaimInv, PublishedHasClaim
    <3>2. CASE x # v
      BY <1>4, <2>1, <3>1, <3>2
    <3>3. CASE x = v
      BY <2>1, <3>1, <3>3 DEF ClaimsOf
    <3> QED  BY <3>2, <3>3
  <2> QED  BY <2>2 DEF PublishedHasClaim
<1>10. RowTypes' /\ NameTypes' /\ refused' = FALSE /\ RepairInv'
  BY <1>1, <1>2 DEF ClaimInv, RowTypes, NameTypes, RepairInv
<1> QED  BY <1>1, <1>7, <1>8, <1>9, <1>10 DEF ClaimInv

\* GetNextName: the name is in no claim and in no other worker's hands.
LEMMA GetNextNameClaims ==
    ASSUME Inv, Inv', ClaimInv, NEW w \in Workers, Worker(w), GetNextName(w) PROVE ClaimInv'
<1>1. run = "work" /\ run' = "work" /\ OnlyMe(w) /\ MainTypes' /\ WorkerTypes' /\ TriesInv'
  BY StaysAtWork, Alone, WorkerMain, WorkerOwn DEF Worker
<1>2. names \subseteq Nat \ {0} /\ IsFiniteSet(names) /\ Cardinality(names) \in Nat
  BY FS_CardinalityType DEF ClaimInv, NameTypes
<1>3. PICK n \in 1..(Cardinality(names) + 1):
        n \notin names /\ names' = names \cup {n} /\ arg' = [arg EXCEPT ![w] = n]
  BY DEF GetNextName, NameTaken
<1>4. /\ UNCHANGED <<chain, lastId, db, synced, lost, gone, refused, video, todo>>
      /\ pc[w] = "name" /\ pc' = [pc EXCEPT ![w] = "create"] /\ n \in Nat \ {0}
  BY <1>2, <1>3 DEF GetNextName, Goto, persistent, mainVars, history
<1>5. pc \in [Workers -> Places] /\ arg \in [Workers -> Nat] /\ PlaceInv(w)
  BY <1>1 DEF Inv, PcOK, ClaimInv, WorkerTypes, HandsInv
<1>6. NameTypes'
  BY <1>2, <1>3, <1>4, FS_AddElement DEF NameTypes
<1>7. NamesInv'
  <2>1. /\ \A c \in chain: c.name \in names
        /\ \A u \in Workers:
              pc[u] = "create" => arg[u] \in names /\ \A c \in chain: c.name # arg[u]
        /\ \A a, b \in Workers: pc[a] = "create" /\ pc[b] = "create" /\ a # b => arg[a] # arg[b]
    BY <1>1 DEF ClaimInv, NamesInv
  <2>2. \A u \in Workers: \/ u = w /\ arg'[u] = n
                          \/ u # w /\ arg'[u] = arg[u] /\ pc'[u] = pc[u]
    BY <1>3, <1>4, <1>5
  <2>3. \A u \in Workers:
          pc'[u] = "create" => arg'[u] \in names' /\ \A c \in chain': c.name # arg'[u]
    BY <1>3, <1>4, <2>1, <2>2
  <2>4. \A a, b \in Workers: pc'[a] = "create" /\ pc'[b] = "create" /\ a # b => arg'[a] # arg'[b]
    BY <1>3, <2>1, <2>2
  <2> QED  BY <1>3, <1>4, <2>1, <2>3, <2>4 DEF NamesInv
<1>8. HandsInv'
  <2>1. PlaceInv(w)'
    BY <1>4, <1>5 DEF PlaceInv, Unclaimed, ClaimsOf
  <2>2. Elsewhere(w)
    BY <1>4 DEF Elsewhere, ClaimsOf
  <2> QED  BY <1>1, <1>4, <2>1, <2>2, HandsKept
<1>9. IdsInv' /\ RowTypes' /\ SingleInv' /\ refused' = FALSE /\ PublishedHasClaim' /\ RepairInv'
  BY <1>1, <1>4 DEF ClaimInv, IdsInv, RowTypes, SingleInv, PublishedHasClaim, RepairInv, ClaimsOf
<1> QED  BY <1>1, <1>6, <1>7, <1>8, <1>9 DEF ClaimInv

\* StreamCreate: the name is free and the video has no claim, unless it has the excuse.
LEMMA StreamCreateClaims ==
    ASSUME Inv, Inv', ClaimInv, NEW w \in Workers, Worker(w), StreamCreate(w) PROVE ClaimInv'
<1> USE DEF Goto, Fail
<1> DEFINE v == video[w]
           n == arg[w]
           new == [id |-> lastId + 1, video |-> v, name |-> n, version |-> 2]
<1>1. run = "work" /\ run' = "work" /\ OnlyMe(w) /\ MainTypes' /\ WorkerTypes' /\ TriesInv'
  BY StaysAtWork, Alone, WorkerMain, WorkerOwn DEF Worker
<1>2. /\ UNCHANGED <<db, synced, names, video, todo>> /\ pc[w] = "create"
      /\ pc \in [Workers -> Places] /\ arg \in [Workers -> Nat]
      /\ err \in [Workers -> Errors \cup {"none"}]
  BY DEF StreamCreate, mainVars, Inv, PcOK, ClaimInv, WorkerTypes
<1>3. /\ v \in Videos /\ Unclaimed(v) /\ n \in names /\ \A c \in chain: c.name # n
      /\ \A c \in chain: c.name \in names
      /\ \A u \in Workers: pc[u] = "create" =>
           arg[u] \in names /\ (u # w => arg[u] # n) /\ \A c \in chain: c.name # arg[u]
  BY <1>1, <1>2, HasVideo DEF ClaimInv, HandsInv, PlaceInv, NamesInv
<1>4. n \in Nat \ {0}
  BY <1>3 DEF ClaimInv, NameTypes
<1>5. \/ /\ lastId < MaxClaims /\ lastId' = lastId + 1 /\ chain' = chain \cup {new}
         /\ gone' = gone \ {v} /\ UNCHANGED refused
         /\ \/ pc'[w] = "mark" /\ arg'[w] = lastId + 1 /\ UNCHANGED lost
            \/ pc'[w] = "error" /\ err'[w] \in {"noRetry", "fatal"} /\ UNCHANGED lost
            \/ pc'[w] = "error" /\ lost' = lost \cup {v}
      \/ UNCHANGED <<chain, lastId, lost, gone, refused>> /\ pc'[w] \in {"name", "error"}
  <2>1. refused = FALSE /\ ~\E c \in chain: c.name = n
    BY <1>3 DEF ClaimInv
  <2>2. \/ /\ MakeClaim(v, n) /\ gone' = gone \ {v} /\ UNCHANGED refused
           /\ \/ Goto(w, "mark") /\ arg' = [arg EXCEPT ![w] = lastId'] /\ UNCHANGED lost
              \/ \E k \in {"noRetry", "fatal", "retry"}:
                   Fail(w, k) /\ lost' = IF k = "retry" THEN lost \cup {v} ELSE lost
        \/ Goto(w, "name") /\ UNCHANGED <<chain, lastId, lost, gone, refused>>
        \/ (\E k \in Errors: Fail(w, k)) /\ UNCHANGED <<chain, lastId, lost, gone, refused>>
    <3>1. ASSUME NEW k \in (IF \E c \in chain: c.name = n THEN {"fatal"}
                           ELSE {"noRetry", "fatal", "block", "wallet", "retry"})
          PROVE  k \in Errors
      BY DEF Errors
    <3>2. CASE refused' = (refused \/ \E c \in chain: c.name = n)
      <4>1. UNCHANGED refused
        BY <2>1, <3>2
      <4> QED  BY <2>1, <3>1, <4>1 DEF StreamCreate
    <3>3. CASE refused' # (refused \/ \E c \in chain: c.name = n)
      BY <2>1, <3>3 DEF StreamCreate
    <3> QED  BY <3>2, <3>3
  <2> QED  BY <1>2, <2>2 DEF MakeClaim
<1>6. CASE UNCHANGED <<chain, lastId, lost, gone, refused>> /\ pc'[w] \in {"name", "error"}
  <2>1. Quietly /\ Elsewhere(w)
    BY <1>2, <1>6 DEF Quietly, Elsewhere, ClaimsOf
  <2>2. PlaceInv(w)'
    BY <1>2, <1>3, <1>6 DEF PlaceInv, Wanted, Unclaimed, ClaimsOf
  <2>3. HandsInv'
    BY <1>1, <1>2, <2>1, <2>2, HandsKept
  <2>4. NamesInv'
    BY <1>1, <1>2, <1>6, NamesKept
  <2> QED  BY <1>1, <2>1, <2>3, <2>4, QuietClaims
<1>7. CASE /\ lastId < MaxClaims /\ lastId' = lastId + 1 /\ chain' = chain \cup {new}
           /\ gone' = gone \ {v} /\ UNCHANGED refused
           /\ \/ pc'[w] = "mark" /\ arg'[w] = lastId + 1 /\ UNCHANGED lost
              \/ pc'[w] = "error" /\ err'[w] \in {"noRetry", "fatal"} /\ UNCHANGED lost
              \/ pc'[w] = "error" /\ lost' = lost \cup {v}
  <2>1. /\ new.id = lastId + 1 /\ new.video = v /\ new.name = n
        /\ \A x \in Videos \ {v}: ClaimsOf(x)' = ClaimsOf(x)
        /\ \A x \in Videos: ClaimsOf(x) \subseteq ClaimsOf(x)'
    BY <1>7 DEF ClaimsOf
  <2>2. IdsInv'
    <3>1. lastId \in 0..MaxClaims /\ MaxClaims \in Nat /\ chain \subseteq Claim
          /\ (\A c \in chain: c.id <= lastId) /\ \A c, d \in chain: c.id = d.id => c = d
      BY Constants DEF ClaimInv, IdsInv
    <3>2. lastId' \in 1..MaxClaims
      BY <1>7, <3>1
    <3>3. new \in Claim
      BY <1>3, <1>4, <1>7, <3>2 DEF Claim
    <3>4. \A c \in chain: c.id \in Nat /\ c.id # new.id
      BY <2>1, <3>1 DEF Claim
    <3> HIDE DEF new
    <3>5. \A c \in chain': c.id <= lastId'
      BY <1>7, <2>1, <3>1, <3>4
    <3>6. \A c, d \in chain': c.id = d.id => c = d
      BY <1>7, <3>1, <3>4
    <3> QED  BY <1>7, <3>1, <3>2, <3>3, <3>5, <3>6 DEF IdsInv
  <2>3. lost \subseteq lost' /\ lost' \subseteq lost \cup {v}
    BY <1>7
  <2>4. SingleInv'
    <3>1. ASSUME NEW x \in Videos \ lost', NEW c \in chain', NEW d \in chain', c.video = x, d.video = x
          PROVE  c = d
      <4>1. CASE x # v
        <5>1. c \in chain /\ d \in chain /\ x \in Videos \ lost
          BY <1>7, <2>1, <2>3, <3>1, <4>1
        <5> QED  BY <3>1, <5>1 DEF ClaimInv, SingleInv, ClaimsOf
      <4>2. CASE x = v
        <5>1. \A e \in chain: e.video # v
          BY <1>3, <2>3, <3>1, <4>2 DEF Unclaimed, ClaimsOf
        <5> QED  BY <1>7, <3>1, <4>2, <5>1
      <4> QED  BY <4>1, <4>2
    <3> QED  BY <3>1 DEF SingleInv, ClaimsOf
  <2>5. Elsewhere(w)
    BY <1>2, <2>1, <2>3 DEF Elsewhere
  <2>6. PlaceInv(w)'
    <3>1. CASE pc'[w] = "mark" /\ arg'[w] = lastId + 1
      BY <1>2, <1>7, <2>1, <3>1 DEF PlaceInv, ClaimsOf
    <3>2. CASE pc'[w] = "error" /\ err'[w] \in {"noRetry", "fatal"}
      BY <3>2 DEF PlaceInv, Retriable, ErrorsNoRetry
    <3>3. CASE pc'[w] = "error" /\ lost' = lost \cup {v}
      BY <1>2, <3>3 DEF PlaceInv, Wanted, Unclaimed
    <3> QED  BY <1>7, <3>1, <3>2, <3>3
  <2>7. HandsInv'
    BY <1>1, <1>2, <2>5, <2>6, HandsKept
  <2>8. NamesInv'
    <3>1. \A c \in chain': c \in chain \/ c.name = n
      BY <1>7, <2>1
    <3>2. \A u \in Workers: pc'[u] = "create" => u # w /\ pc[u] = "create" /\ arg'[u] = arg[u]
      BY <1>1, <1>2, <1>7 DEF OnlyMe
    <3>3. \A a, b \in Workers: pc[a] = "create" /\ pc[b] = "create" /\ a # b => arg[a] # arg[b]
      BY <1>1 DEF ClaimInv, NamesInv
    <3> QED  BY <1>2, <1>3, <3>1, <3>2, <3>3 DEF NamesInv
  <2>9. PublishedHasClaim'
    <3>1. ASSUME NEW x \in Videos, db'[x].status = "published" PROVE ClaimsOf(x)' # {} \/ x \in gone'
      <4>1. CASE x = v
        <5>1. new \in chain' /\ new.video = x
          BY <1>7, <2>1, <4>1
        <5> HIDE DEF new
        <5> QED  BY <5>1 DEF ClaimsOf
      <4>2. CASE x # v
        <5>1. ClaimsOf(x) # {} \/ x \in gone
          BY <1>2, <3>1 DEF ClaimInv, PublishedHasClaim
        <5> QED  BY <1>7, <2>1, <4>2, <5>1
      <4> QED  BY <4>1, <4>2
    <3> QED  BY <3>1 DEF PublishedHasClaim
  <2>10. RowTypes' /\ NameTypes' /\ refused' = FALSE /\ RepairInv'
    BY <1>1, <1>2, <1>7 DEF ClaimInv, RowTypes, NameTypes, RepairInv
  <2> QED  BY <1>1, <2>2, <2>4, <2>7, <2>8, <2>9, <2>10 DEF ClaimInv
<1> QED  BY <1>5, <1>6, <1>7

\* StreamUpdate: the claim keeps its id, its video and its name.
LEMMA StreamUpdateClaims ==
    ASSUME Inv, Inv', ClaimInv, NEW w \in Workers, Worker(w), StreamUpdate(w) PROVE ClaimInv'
<1> USE DEF Goto, Fail
<1> DEFINE v == video[w]
<1>1. run = "work" /\ run' = "work" /\ OnlyMe(w) /\ MainTypes' /\ WorkerTypes' /\ TriesInv'
  BY StaysAtWork, Alone, WorkerMain, WorkerOwn DEF Worker
<1>2. pc[w] = "update" /\ pc \in [Workers -> Places] /\ arg \in [Workers -> Nat]
  BY DEF StreamUpdate, Inv, PcOK, ClaimInv, WorkerTypes
<1>3. v \in Videos /\ PlaceInv(w)
  BY <1>1, <1>2, HasVideo DEF ClaimInv, HandsInv
<1>4. synced[v].status = "published" /\ \E c \in ClaimsOf(v): c.id = synced[v].claim
  BY <1>2, <1>3 DEF PlaceInv
<1>5. PICK old \in chain: old.video = v /\ old.id = synced[v].claim
  BY <1>4 DEF ClaimsOf
<1>6. ClaimById(synced[v].claim) = old
  BY <1>5, ById DEF ClaimInv
<1> DEFINE new == [old EXCEPT !.version = 2]
<1>7. /\ UNCHANGED <<lastId, db, synced, names, video, todo, lost, gone, refused>>
      /\ chain' \in {chain, (chain \ {old}) \cup {new}}
      /\ pc'[w] = "error" \/ (pc'[w] = "mark" /\ arg'[w] = old.id)
  BY <1>2, <1>6 DEF StreamUpdate, mainVars, history
<1>8. /\ old \in Claim /\ new \in Claim /\ new.id = old.id /\ new.video = old.video
      /\ new.name = old.name
  BY DEF ClaimInv, IdsInv, Claim
<1> HIDE DEF new
<1>9. CASE UNCHANGED chain
  <2>1. Quietly /\ Elsewhere(w)
    BY <1>7, <1>9 DEF Quietly, Elsewhere, ClaimsOf
  <2>2. PlaceInv(w)'
    BY <1>4, <1>5, <1>7, <1>9 DEF PlaceInv, Wanted, ClaimsOf
  <2>3. HandsInv' /\ NamesInv'
    BY <1>1, <1>7, <1>9, <2>1, <2>2, HandsKept, NamesKept
  <2> QED  BY <1>1, <2>1, <2>3, QuietClaims
<1>10. CASE chain' = (chain \ {old}) \cup {new}
  <2>1. \A x \in Videos \ {v}: ClaimsOf(x)' = ClaimsOf(x)
    BY <1>5, <1>8, <1>10 DEF ClaimsOf
  <2>2. \A c \in chain': \E d \in chain: d.id = c.id /\ d.video = c.video /\ d.name = c.name
                                         /\ (c = d \/ (d = old /\ c = new))
    BY <1>5, <1>8, <1>10
  <2>3. new \in chain' /\ new.video = v
    BY <1>5, <1>8, <1>10
  <2>4. IdsInv'
    <3>1. chain \subseteq Claim /\ (\A c \in chain: c.id <= lastId)
          /\ \A c, d \in chain: c.id = d.id => c = d
      BY DEF ClaimInv, IdsInv
    <3>2. \A c, d \in chain': c.id = d.id => c = d
      BY <1>8, <1>10, <3>1
    <3>3. chain' \subseteq Claim /\ \A c \in chain': c.id <= lastId
      BY <1>8, <1>10, <3>1
    <3> QED  BY <1>7, <3>2, <3>3 DEF IdsInv, ClaimInv
  <2>5. SingleInv'
    <3>1. ASSUME NEW x \in Videos \ lost, NEW c \in chain', NEW d \in chain', c.video = x, d.video = x
          PROVE  c = d
      <4>1. \A a, b \in chain: a.video = x /\ b.video = x => a = b
        BY <3>1 DEF ClaimInv, SingleInv, ClaimsOf
      <4> QED  BY <1>5, <1>8, <1>10, <3>1, <4>1
    <3> QED  BY <1>7, <3>1 DEF SingleInv, ClaimsOf
  <2>6. Elsewhere(w)
    BY <1>7, <2>1 DEF Elsewhere
  <2>7. PlaceInv(w)'
    BY <1>4, <1>7, <1>8, <2>3 DEF PlaceInv, Wanted, ClaimsOf
  <2>8. HandsInv' /\ NamesInv'
    BY <1>1, <1>7, <2>2, <2>6, <2>7, HandsKept, NamesKept
  <2>9. PublishedHasClaim'
    BY <1>7, <2>1, <2>3 DEF ClaimInv, PublishedHasClaim, ClaimsOf
  <2>10. RowTypes' /\ NameTypes' /\ refused' = FALSE /\ RepairInv'
    BY <1>1, <1>7 DEF ClaimInv, RowTypes, NameTypes, RepairInv
  <2> QED  BY <1>1, <2>4, <2>5, <2>8, <2>9, <2>10 DEF ClaimInv
<1> QED  BY <1>7, <1>9, <1>10

\* A worker that writes down what became of its video and goes on to the next.
LEMMA WriteRow ==
    ASSUME Inv, Inv', ClaimInv, NEW w \in Workers, Worker(w), NextVideo(w),
           UNCHANGED <<chain, lastId, names, todo, lost, gone, refused>>, RowTypes',
           video[w] \in Videos, \A x \in Videos \ {video[w]}: synced'[x] = synced[x] /\ db'[x] = db[x],
           \/ db'[video[w]] = db[video[w]] \/ db'[video[w]].status = "failed"
           \/ ClaimsOf(video[w]) # {}
    PROVE  ClaimInv'
<1>1. run = "work" /\ run' = "work" /\ OnlyMe(w) /\ MainTypes' /\ WorkerTypes' /\ TriesInv'
  BY StaysAtWork, Alone, WorkerMain, WorkerOwn DEF Worker
<1>2. pc \in [Workers -> Places] /\ video \in [Workers -> Videos \cup {None}]
  BY DEF Inv, PcOK, VideoInv, ShapeOK
<1>3. pc'[w] = "loop" /\ video'[w] = None
  BY <1>2 DEF NextVideo, Goto
<1>4. Elsewhere(w) /\ PlaceInv(w)'
  BY <1>3 DEF Elsewhere, PlaceInv, ClaimsOf
<1>5. HandsInv' /\ NamesInv'
  BY <1>1, <1>3, <1>4, HandsKept, NamesKept
<1>6. PublishedHasClaim'
  BY DEF ClaimInv, PublishedHasClaim, ClaimsOf
<1>7. IdsInv' /\ NameTypes' /\ SingleInv' /\ refused' = FALSE /\ RepairInv'
  BY <1>1 DEF ClaimInv, IdsInv, NameTypes, SingleInv, RepairInv, ClaimsOf
<1> QED  BY <1>1, <1>5, <1>6, <1>7 DEF ClaimInv

LEMMA MarkPublishedClaims ==
    ASSUME Inv, Inv', ClaimInv, NEW w \in Workers, Worker(w), MarkPublished(w) PROVE ClaimInv'
<1>1. pc[w] = "mark" /\ run = "work"
  BY DEF MarkPublished, Worker
<1>2. video[w] \in Videos /\ PlaceInv(w)
  BY <1>1, HasVideo DEF ClaimInv, HandsInv
<1>3. PICK c \in chain: c.video = video[w] /\ c.id = arg[w]
  BY <1>1, <1>2 DEF PlaceInv, ClaimsOf
<1>4. ClaimById(arg[w]) = c /\ Published(c) \in Row
  BY <1>3, ById, RowOfClaim DEF ClaimInv
<1>5. /\ synced' = [synced EXCEPT ![video[w]] = Published(c)]
      /\ db' \in {db, [db EXCEPT ![video[w]] = Published(c)]}
      /\ UNCHANGED <<chain, lastId, names, todo, lost, gone, refused>> /\ NextVideo(w)
  BY <1>4 DEF MarkPublished, mainVars, history
<1>6. /\ RowTypes'
      /\ \A x \in Videos \ {video[w]}: synced'[x] = synced[x] /\ db'[x] = db[x]
  BY <1>2, <1>4, <1>5 DEF ClaimInv, RowTypes
<1>7. ClaimsOf(video[w]) # {}
  BY <1>3 DEF ClaimsOf
<1> QED  BY <1>2, <1>5, <1>6, <1>7, WriteRow

LEMMA MarkFailedClaims ==
    ASSUME Inv, Inv', ClaimInv, NEW w \in Workers, Worker(w), MarkFailed(w) PROVE ClaimInv'
<1> DEFINE v == video[w]
           never == err[w] \in NeverRetryFailures
<1>1. v \in Videos
  BY HasVideo DEF MarkFailed
<1>2. /\ UNCHANGED <<chain, lastId, names, todo, lost, gone, refused>> /\ NextVideo(w)
      /\ \/ UNCHANGED <<synced, db>>
         \/ /\ synced' = [synced EXCEPT ![v] = Failed(synced[v], never, 0)]
            /\ db' \in {db, [db EXCEPT ![v] = Failed(db[v], never, db[v].version)]}
  BY DEF MarkFailed, mainVars, history
<1>3. /\ db \in [Videos -> Row] /\ synced \in [Videos -> Row]
      /\ db[v] \in Row /\ synced[v] \in Row
  BY <1>1 DEF ClaimInv, RowTypes
<1>4. never \in BOOLEAN
  OBVIOUS
<1> HIDE DEF never
<1>5. \A row \in Row: \A n \in 0..2: Failed(row, never, n) \in Row /\ Failed(row, never, n).status = "failed"
  BY <1>4 DEF Failed, Row
<1>6. db[v].version \in 0..2 /\ 0 \in 0..2
  BY <1>3 DEF Row
<1>7. RowTypes' /\ (db'[v] = db[v] \/ db'[v].status = "failed")
  BY <1>1, <1>2, <1>3, <1>5, <1>6 DEF RowTypes
<1>8. \A x \in Videos \ {v}: synced'[x] = synced[x] /\ db'[x] = db[x]
  BY <1>2, <1>3
<1> QED  BY <1>1, <1>2, <1>7, <1>8, WriteRow

\* Every step of a worker keeps the invariant.
LEMMA WorkerClaims ==
    ASSUME Inv, Inv', ClaimInv, NEW w \in Workers, Worker(w) PROVE ClaimInv'
BY QuietSteps, ReceiveClaims, ReprocessClaims, GetNextNameClaims, StreamCreateClaims,
   StreamUpdateClaims, MarkPublishedClaims, MarkFailedClaims DEF Worker

---------------------------------------------------------------------------
(* The specification *)

\* The end, the producer, an interrupt: nothing of the claims.
LEMMA AsideClaims ==
    ASSUME Inv, ClaimInv, Quietly, UNCHANGED <<workerVars, runs, listed, todo, writer, fatals, hard>>,
           run' \in {run, "returned"}, run' = "work" => run = "work", run' # "returned" => run' = run,
           run = "returned" => run' = run,
           result' \in {"none", "ok", "error"}, prod' \in {"check", "send", "closed"},
           stopped' \in BOOLEAN
    PROVE  ClaimInv'
<1>1. MainTypes' /\ WorkerTypes'
  BY DEF ClaimInv, Quietly, MainTypes, WorkerTypes, workerVars
<1>2. TriesInv'
  BY DEF ClaimInv, TriesInv, workerVars
<1>3. IdsInv' /\ RowTypes' /\ NameTypes' /\ SingleInv' /\ refused' = FALSE /\ PublishedHasClaim'
  BY DEF Quietly, ClaimInv, IdsInv, RowTypes, NameTypes, SingleInv, PublishedHasClaim, ClaimsOf
<1>4. RepairInv'
  BY DEF Quietly, ClaimInv, RepairInv, NoDupes, Truthful, NoneMissing, ClaimsOf, NamesOf
<1>5. NamesInv'
  BY DEF Quietly, ClaimInv, NamesInv, workerVars
<1>6. HandsInv'
  BY DEF Quietly, ClaimInv, HandsInv, PlaceInv, Wanted, Unclaimed, ClaimsOf, workerVars
<1> QED  BY <1>1, <1>2, <1>3, <1>4, <1>5, <1>6 DEF ClaimInv

LEMMA MainClaims == ASSUME Inv, ClaimInv, Main PROVE ClaimInv'
<1>1. CASE FixDupes \/ CompareClaims \/ (\E v \in Videos: FixDB(v)) \/ RemoveUnpublished \/ StartWorkers
  BY <1>1, FixDupesClaims, CompareClaimsClaims, FixDBClaims, RemoveClaims, StartWorkersClaims
<1>2. CASE ReloadFixed
  BY <1>2, ReloadClaims DEF ReloadFixed
<1>3. CASE ReloadRemoved
  BY <1>3, ReloadClaims DEF ReloadRemoved
<1>4. result \in {"none", "ok", "error"} /\ prod \in {"check", "send", "closed"} /\ stopped \in BOOLEAN
  BY DEF ClaimInv, MainTypes
<1>5. CASE Finish \/ Enqueue \/ StopEnqueue
  <2>1. /\ Quietly /\ UNCHANGED <<workerVars, runs, listed, todo, writer, fatals, hard, stopped>>
    BY <1>5 DEF Finish, Enqueue, StopEnqueue, Return, Quietly, persistent, mainVars, lockVars, grpVars,
                history
  <2>2. \/ run' = run /\ result' = result
        \/ run = "work" /\ run' = "returned" /\ result' \in {"ok", "error"}
    BY <1>5 DEF Finish, Enqueue, StopEnqueue, Return, mainVars
  <2>3. prod' \in {"check", "send", "closed"}
    BY <1>4, <1>5 DEF Finish, Enqueue, StopEnqueue
  <2> QED  BY <1>4, <2>1, <2>2, <2>3, AsideClaims
<1> QED  BY <1>1, <1>2, <1>3, <1>5 DEF Main

LEMMA NextClaims == Inv /\ Inv' /\ ClaimInv /\ [Next]_vars => ClaimInv'
<1> SUFFICES ASSUME Inv, Inv', ClaimInv, [Next]_vars PROVE ClaimInv'  OBVIOUS
<1>1. result \in {"none", "ok", "error"} /\ prod \in {"check", "send", "closed"} /\ stopped \in BOOLEAN
  BY DEF ClaimInv, MainTypes
<1>2. CASE Interrupt
  <2>1. /\ Quietly /\ UNCHANGED <<workerVars, runs, listed, todo, writer, fatals, hard, run, result, prod>>
    BY <1>2 DEF Interrupt, Quietly, persistent, mainVars, lockVars, history
  <2>2. stopped' \in BOOLEAN
    BY <1>2 DEF Interrupt
  <2> QED  BY <1>1, <2>1, <2>2, AsideClaims
<1>3. CASE UNCHANGED vars
  <2>1. /\ Quietly /\ UNCHANGED <<workerVars, runs, listed, todo, writer, fatals, hard, run, result, prod>>
        /\ stopped' = stopped
    BY <1>3 DEF vars, Quietly, persistent, mainVars, lockVars, grpVars, history
  <2> QED  BY <1>1, <2>1, AsideClaims
<1> QED  BY <1>2, <1>3, StartClaims, CrashClaims, MainClaims, WorkerClaims DEF Next, Over

\* What the wallet has of each video is what doSync relies on at every place: the stages
\* of the integrity check, then each worker's place in processVideo.
THEOREM ClaimInvariant == Spec => []ClaimInv
<1>1. Init => ClaimInv
  BY InitClaims
<1>2. ClaimInv /\ Inv /\ Inv' /\ [Next]_vars => ClaimInv'
  BY NextClaims
<1> QED  BY <1>1, <1>2, Invariance, PTL DEF Spec

\* Every variable of doSync keeps its type; in particular the claims that rows, upgrades
\* and answers name are in the wallet when they are looked up, and tries end at the flag.
THEOREM SyncTypes == Spec => []TypeOK
<1>1. Inv /\ ClaimInv => TypeOK
  <2> SUFFICES ASSUME Inv, ClaimInv PROVE TypeOK  OBVIOUS
  <2>1. /\ pc \in [Workers -> Places] /\ readers \subseteq Workers
        /\ video \in [Workers -> Videos \cup {None}] /\ upgrade \in [Workers -> BOOLEAN]
    BY DEF Inv, PcOK, LockInv, VideoInv, ShapeOK
  <2>2. /\ MainTypes /\ WorkerTypes /\ IdsInv /\ RowTypes /\ NameTypes /\ refused = FALSE
    BY DEF ClaimInv
  <2>3. {stopped, refused} \subseteq BOOLEAN
    <3>1. stopped \in BOOLEAN /\ refused \in BOOLEAN
      BY <2>2, Zenon DEF MainTypes
    <3> QED  BY <3>1
  <2> QED  BY <2>1, <2>2, <2>3 DEF TypeOK, MainTypes, WorkerTypes, IdsInv, RowTypes, NameTypes
<1> QED  BY <1>1, Invariance, ClaimInvariant, PTL

\* The integrity check does what it is there for: when the workers start, wallet, rows and
\* map agree, whatever crash, lost answer or failed MarkVideoStatus earlier runs ended with.
THEOREM CheckRepairs == Spec => IntegrityRepairs
<1>1. ASSUME Inv, ClaimInv, [Next]_vars, run' = "work", run # "work" PROVE InLine'
  <2>1. StartWorkers
    <3>1. ~(\E w \in Workers: Worker(w)) /\ ~UNCHANGED vars
      BY <1>1 DEF Worker, vars, mainVars
    <3>2. ~StartSync /\ ~Crash /\ ~Interrupt /\ ~Over
      BY <1>1, <3>1 DEF StartSync, Crash, Interrupt, Over, Return, mainVars
    <3>3. Main
      BY <1>1, <3>1, <3>2 DEF Next
    <3> QED
      BY <1>1, <3>3 DEF Main, FixDupes, CompareClaims, FixDB, ReloadFixed, RemoveUnpublished,
         ReloadRemoved, Reload, SetStatusSyncing, Finish, Enqueue, StopEnqueue, Return, mainVars
  <2>2. UNCHANGED <<chain, synced>> /\ run = "cert"
    BY <2>1 DEF StartWorkers, persistent
  <2>3. NoDupes /\ Truthful(synced) /\ NoneMissing(synced)
    BY <1>1, <2>2 DEF ClaimInv, RepairInv
  <2> QED  BY <2>2, <2>3 DEF InLine, NoDupes, Truthful, NoneMissing, ClaimsOf
<1>2. Inv /\ ClaimInv /\ [Next]_vars => [run' = "work" /\ run # "work" => InLine']_vars
  BY <1>1
<1> QED  BY <1>2, Invariance, ClaimInvariant, PTL DEF Spec, IntegrityRepairs

\* A second claim for a video comes only from processVideo being tried again after the
\* answer to StreamCreate was lost with an error that is not in ErrorsNoRetry.
THEOREM NoOtherDupes == Spec => []DupesOnlyAfterLostAnswer
<1>1. ClaimInv => DupesOnlyAfterLostAnswer
  <2> SUFFICES ASSUME ClaimInv, NEW v \in Videos, v \notin lost PROVE ~(Cardinality(ClaimsOf(v)) > 1)
    BY DEF DupesOnlyAfterLostAnswer
  <2>1. \A c, d \in ClaimsOf(v): c = d
    BY DEF ClaimInv, SingleInv
  <2>2. CASE ClaimsOf(v) = {}
    <3>1. Cardinality(ClaimsOf(v)) = 0
      BY <2>2, FS_EmptySet
    <3> QED  BY <3>1
  <2>3. CASE ClaimsOf(v) # {}
    <3>1. PICK c: ClaimsOf(v) = {c}
      BY <2>1, <2>3
    <3>2. Cardinality(ClaimsOf(v)) = 1
      BY <3>1, FS_Singleton
    <3> QED  BY <3>2
  <2> QED  BY <2>2, <2>3
<1> QED  BY <1>1, ClaimInvariant, PTL

\* The Namer never gives a name that the wallet already has, which the daemon would refuse
\* with an error that is fatal for the process.
THEOREM NamesFree == Spec => []NamesAreFree
<1>1. ClaimInv => NamesAreFree
  BY DEF ClaimInv, NamesAreFree
<1> QED  BY <1>1, ClaimInvariant, PTL

\* A row of the database that says published has a claim in the wallet, unless an upgrade
\* abandoned it and could not publish the video again.
THEOREM PublishedIsClaimed == Spec => []PublishedHasClaim
<1>1. ClaimInv => PublishedHasClaim
  BY DEF ClaimInv
<1> QED  BY <1>1, ClaimInvariant, PTL
===========================================================================
