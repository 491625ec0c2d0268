----------------------------- MODULE VideoSync -----------------------------
(***************************************************************************)
(* Sync.doSync: one channel's videos, from the integrity check over the    *)
(* pool of workers to the result, run after run.                           *)
(*                                                                         *)
(* A video is published when the wallet has a claim for it (chain); the    *)
(* remote database (db) and the map syncedVideos (synced) only record it,  *)
(* and a run may die, or the daemon's answer be lost, between the claim    *)
(* and the record.  Every run therefore begins with checkIntegrity, which  *)
(* abandons duplicates and brings the database in line with the wallet.    *)
(*                                                                         *)
(* All videos have one title, the case in which claim names can collide,   *)
(* so a name is the number GetNextName appends to it.  No claim is given   *)
(* away here: the channel is not being transferred.                        *)
(* GetVideosToSync is taken to list every video once, which is so as long  *)
(* as YouTube has it in one tab only (see VideoSelection).                 *)
(***************************************************************************)
EXTENDS Naturals, FiniteSets

CONSTANTS
    Videos, Workers,
    None,                   \* no video, no worker
    Recent,                 \* the videos within VideosToSync
    Old,                    \* videos published with metadata version 1 at first
    MaxTries,               \* the flag; values below 2 mean no retry
    UpgradeMetadata, RemoveDBUnpublished,   \* flags
    MaxRuns, MaxClaims, MaxNames            \* bounds

ASSUME SyncAssumption ==
    /\ IsFiniteSet(Videos) /\ IsFiniteSet(Workers) /\ Workers # {}
    /\ None \notin Videos \cup Workers
    /\ Recent \subseteq Videos /\ Old \subseteq Videos
    /\ MaxTries \in Nat /\ {UpgradeMetadata, RemoveDBUnpublished} \subseteq BOOLEAN
    /\ {MaxRuns, MaxClaims, MaxNames} \subseteq Nat /\ MaxRuns > 0
    /\ Cardinality(Old) <= MaxClaims

VARIABLES
    chain,          \* the wallet's claims of this channel
    lastId,         \* how many claims were ever made
    db, synced,     \* the rows of the remote database, syncedVideos
    names,          \* the Namer's names
    run,            \* where doSync is
    todo,           \* what its loop still has to do
    prod,           \* enqueueYoutubeVideos
    pc, video, tries, err, arg,     \* each worker: err is the kind of error of
                                    \* processVideo, arg a name or a claim
    upgrade,                        \* Sync runs reprocess: its errors say so
    writer, readers,                \* walletMux
    stopped, hard,  \* s.grp, and the video hardVideoFailure was flagged for
    result,
    \* history
    runs,           \* runs begun
    listed,         \* what GetVideosToSync returned
    lost,           \* videos tried again after the answer to StreamCreate was lost
    gone,           \* videos whose claim an upgrade abandoned and did not replace
    fatals,         \* videos that failed with one of the FatalErrors
    refused         \* the daemon was given a name the wallet already had

persistent == <<chain, lastId, db>>
mainVars   == <<run, todo, result, runs, listed>>
workerVars == <<pc, video, tries, err, arg, upgrade>>
lockVars   == <<writer, readers>>
grpVars    == <<stopped, hard>>
history    == <<lost, gone, fatals, refused>>
vars == <<persistent, synced, names, mainVars, prod, workerVars, lockVars,
          grpVars, history>>

Claim == [id: 1..MaxClaims, video: Videos, name: Nat \ {0}, version: {1, 2}]
Row == [status: {"none", "failed", "published"}, never: BOOLEAN,
        claim: 0..MaxClaims, name: Nat, version: 0..2]
NoRow == [status |-> "none", never |-> FALSE, claim |-> 0, name |-> 0, version |-> 0]

\* What the code tells apart in an error of processVideo: ErrorsNoRetry (a
\* time-out is one), NeverRetryFailures, FatalErrors, BlockchainErrors,
\* WalletErrors, an interrupt, and the rest.
Errors == {"noRetry", "never", "unavailable", "fatal", "block", "wallet",
           "interrupted", "retry"}
ErrorsNoRetry == {"noRetry", "never", "interrupted"}
NeverRetryFailures == {"never", "unavailable"}

\* Where a worker may be.
Places == {"loop", "receive", "try", "reprocess", "download", "rlock", "rlockUpdate",
           "name", "create", "update", "mark", "error", "block", "lock", "setup", "fail",
           "done"}

ClaimsOf(v) == {c \in chain: c.video = v}
ClaimById(i) == CHOOSE c \in chain: c.id = i
NamesOf(rows) == {rows[v].name: v \in Videos} \ {0}
Published(c) == [status |-> "published", never |-> FALSE,
                 claim |-> c.id, name |-> c.name, version |-> c.version]
Failed(row, never, version) == [status |-> "failed", never |-> never,
                                claim |-> row.claim, name |-> row.name, version |-> version]

---------------------------------------------------------------------------
OldNumber == CHOOSE f \in [Old -> 1..Cardinality(Old)]: \A v, u \in Old: f[v] = f[u] => v = u

\* The videos in Old were published by a version of ytsync that wrote metadata 1.
Init ==
    /\ chain = {[id |-> OldNumber[v], video |-> v, name |-> OldNumber[v], version |-> 1]:
                  v \in Old}
    /\ lastId = Cardinality(Old)
    /\ db = [v \in Videos |-> IF ClaimsOf(v) = {} THEN NoRow
                              ELSE Published(CHOOSE c \in ClaimsOf(v): TRUE)]
    /\ synced = db /\ names = {}
    /\ run = "down" /\ todo = {} /\ result = "none" /\ runs = 0 /\ listed = {}
    /\ prod = "closed"
    /\ pc = [w \in Workers |-> "done"] /\ video = [w \in Workers |-> None]
    /\ tries = [w \in Workers |-> 0] /\ err = [w \in Workers |-> "none"]
    /\ arg = [w \in Workers |-> 0] /\ upgrade = [w \in Workers |-> FALSE]
    /\ writer = None /\ readers = {}
    /\ stopped = FALSE /\ hard = None
    /\ lost = {} /\ gone = {} /\ fatals = {} /\ refused = FALSE

---------------------------------------------------------------------------
(* doSync up to the workers *)

\* setStatusSyncing: the rows of the database and the names in them.
SetStatusSyncing == synced' = db /\ names' = NamesOf(db)

Return(r) == run' = "returned" /\ result' = r

\* A new Sync value, with nothing of the last run in it.
NewSync ==
    /\ todo' = {} /\ prod' = "closed" /\ listed' = {}
    /\ pc' = [w \in Workers |-> "done"] /\ video' = [w \in Workers |-> None]
    /\ tries' = [w \in Workers |-> 0] /\ err' = [w \in Workers |-> "none"]
    /\ arg' = [w \in Workers |-> 0] /\ upgrade' = [w \in Workers |-> FALSE]
    /\ writer' = None /\ readers' = {}
    /\ stopped' = FALSE /\ hard' = None /\ fatals' = {}

\* FullCycle's setStatusSyncing, and doSync up to and including the first walletSetup.
StartSync ==
    /\ run \in {"down", "returned"} /\ runs < MaxRuns
    /\ runs' = runs + 1
    /\ SetStatusSyncing
    /\ \/ run' = "fixDupes" /\ result' = "none"
       \/ Return("error")
    /\ NewSync
    /\ UNCHANGED <<persistent, lost, gone, refused>>

\* Mutant: the comparison with the claim's own id is gone.
AreDupesSelf(c, d) == c.video = d.video

AreDupes(c, d) == c.video = d.video /\ c.id # d.id

\* One StreamAbandon of fixDupes.  The higher block wins; two claims of one block,
\* or not in any block yet, go by the order of the list, so either may be abandoned.
FixDupes ==
    /\ run = "fixDupes"
    /\ \/ /\ \E c, d \in chain: AreDupes(c, d) /\ chain' = chain \ {d}
          /\ UNCHANGED mainVars
       \/ Return("error") /\ UNCHANGED <<chain, todo, runs, listed>>
    /\ UNCHANGED <<lastId, db, synced, names, prod, workerVars, lockVars, grpVars, history>>

\* Mutant: a video that is in the database is not compared any further.
MismatchMissingOnly(c) == synced[c.video].status = "none"

\* updateRemoteDB: the row does not say what the wallet has.
Mismatch(c) == synced[c.video] # Published(c)

\* No duplicates (left): the claims are listed again and compared.
CompareClaims ==
    /\ run = "fixDupes" /\ ~\E c, d \in chain: AreDupes(c, d)
    /\ todo' = {c.video: c \in {d \in chain: Mismatch(d)}}
    /\ run' = IF todo' = {} THEN "remove" ELSE "fixDB"
    /\ UNCHANGED <<persistent, synced, names, result, runs, listed, prod, workerVars,
                   lockVars, grpVars, history>>

\* One MarkVideoStatus of updateRemoteDB; an error ends doSync.
FixDB(v) ==
    /\ run = "fixDB" /\ v \in todo
    /\ \/ /\ db' = [db EXCEPT ![v] = Published(CHOOSE c \in ClaimsOf(v): TRUE)]
          /\ todo' = todo \ {v}
          /\ run' = IF todo' = {} THEN "reload" ELSE run
          /\ UNCHANGED result
       \/ Return("error") /\ UNCHANGED <<db, todo>>
    /\ UNCHANGED <<chain, lastId, synced, names, runs, listed, prod, workerVars,
                   lockVars, grpVars, history>>

\* Mutant: the map is not loaded again after rows were fixed.
ReloadNever(next) == run' = next /\ UNCHANGED <<synced, names, result>>

\* "reload the synced videos map before we use it for further processing"
Reload(next) ==
    \/ SetStatusSyncing /\ run' = next /\ UNCHANGED result
    \/ Return("error") /\ UNCHANGED <<synced, names>>

ReloadFixed ==
    /\ run = "reload" /\ Reload("remove")
    /\ UNCHANGED <<persistent, todo, runs, listed, prod, workerVars, lockVars, grpVars, history>>

\* The second loop of updateRemoteDB.
RemoveUnpublished ==
    LET idsToRemove == {v \in Videos: synced[v].status = "published" /\ ClaimsOf(v) = {}}
    IN
    /\ run = "remove"
    /\ IF ~RemoveDBUnpublished \/ idsToRemove = {}
       THEN run' = "cert" /\ UNCHANGED <<db, result>>
       ELSE \/ /\ db' = [v \in Videos |-> IF v \in idsToRemove THEN NoRow ELSE db[v]]
               /\ run' = "reloadRemoved" /\ UNCHANGED result
            \/ Return("error") /\ UNCHANGED db
    /\ UNCHANGED <<chain, lastId, synced, names, todo, runs, listed, prod, workerVars,
                   lockVars, grpVars, history>>

ReloadRemoved ==
    /\ run = "reloadRemoved" /\ Reload("cert")
    /\ UNCHANGED <<persistent, todo, runs, listed, prod, workerVars, lockVars, grpVars, history>>

\* The channel certificate, the workers, and GetVideosToSync: it may fail, and it is
\* not called when the channel is gone from YouTube; the queue is closed then.
StartWorkers ==
    /\ run = "cert"
    /\ \/ Return("error") /\ UNCHANGED <<prod, todo, listed, pc>>
       \/ /\ run' = "work" /\ pc' = [w \in Workers |-> "loop"]
          /\ \/ listed' = Videos /\ prod' = "check" /\ result' = "none"
             \/ listed' = {} /\ prod' = "closed" /\ result' \in {"none", "error"}
          /\ todo' = listed'
    /\ lost' = {}
    /\ UNCHANGED <<persistent, synced, names, runs, video, tries, err, arg, upgrade, lockVars,
                   grpVars, gone, fatals, refused>>

\* grp.Wait and the result.
Finish ==
    /\ run = "work" /\ prod = "closed" /\ \A w \in Workers: pc[w] = "done"
    /\ Return(IF result = "error" \/ hard # None THEN "error" ELSE "ok")
    /\ UNCHANGED <<persistent, synced, names, todo, runs, listed, prod, workerVars,
                   lockVars, grpVars, history>>

---------------------------------------------------------------------------
(* enqueueYoutubeVideos *)

\* The check before each video.
Enqueue ==
    /\ prod = "check"
    /\ prod' = IF stopped \/ todo = {} THEN "closed" ELSE "send"
    /\ UNCHANGED <<persistent, synced, names, mainVars, workerVars, lockVars, grpVars, history>>

\* The select takes the stop case.
StopEnqueue ==
    /\ prod = "send" /\ stopped
    /\ prod' = "closed"
    /\ UNCHANGED <<persistent, synced, names, mainVars, workerVars, lockVars, grpVars, history>>

---------------------------------------------------------------------------
(* startWorker *)

Goto(w, l) == pc' = [pc EXCEPT ![w] = l]

\* The worker is through with its video.
NextVideo(w) ==
    /\ Goto(w, "loop")
    /\ video' = [video EXCEPT ![w] = None] /\ tries' = [tries EXCEPT ![w] = 0]
    /\ err' = [err EXCEPT ![w] = "none"] /\ arg' = [arg EXCEPT ![w] = 0]
    /\ upgrade' = [upgrade EXCEPT ![w] = FALSE]

\* processVideo returned an error of kind k.
Fail(w, k) ==
    /\ Goto(w, "error") /\ err' = [err EXCEPT ![w] = k]
    /\ arg' = [arg EXCEPT ![w] = 0]
    /\ UNCHANGED <<video, tries, upgrade>>

\* The check at the top of the loop.
CheckStop(w) ==
    /\ pc[w] = "loop"
    /\ Goto(w, IF stopped THEN "done" ELSE "receive")
    /\ UNCHANGED <<persistent, synced, names, mainVars, prod, video, tries, err, arg, upgrade,
                   lockVars, grpVars, history>>

\* A video passes through the unbuffered queue, also when the group was stopped
\* after both sides had looked.
Receive(w, v) ==
    /\ prod = "send" /\ pc[w] = "receive" /\ v \in todo
    /\ todo' = todo \ {v} /\ prod' = "check"
    /\ Goto(w, "try") /\ video' = [video EXCEPT ![w] = v]
    /\ UNCHANGED <<persistent, synced, names, run, result, runs, listed, tries, err, arg, upgrade,
                   lockVars, grpVars, history>>

\* The queue was closed, or the select takes the stop case.
StopReceive(w) ==
    /\ pc[w] = "receive" /\ (prod = "closed" \/ stopped)
    /\ Goto(w, "done")
    /\ UNCHANGED <<persistent, synced, names, mainVars, prod, video, tries, err, arg, upgrade,
                   lockVars, grpVars, history>>

RequiresUpgrade(v) == UpgradeMetadata /\ synced[v].status # "none" /\ synced[v].version < 2

\* The early returns of processVideo.
Skips(v) ==
    \/ synced[v].status = "failed" /\ synced[v].never
    \/ synced[v].status = "published" /\ ~RequiresUpgrade(v)
    \/ synced[v].version >= 2
    \/ ~RequiresUpgrade(v) /\ v \notin Recent

\* The stop check of the retry loop, and processVideo up to v.Sync: the space on the
\* disk (fatal) and the default account.
Try(w) ==
    LET v == video[w] IN
    /\ pc[w] = "try"
    /\ \/ stopped /\ Goto(w, "done") /\ UNCHANGED <<video, tries, err, arg, upgrade>>
       \/ ~stopped /\ Skips(v) /\ NextVideo(w)
       \/ /\ ~stopped /\ ~Skips(v)
          /\ tries' = [tries EXCEPT ![w] = @ + 1]
          /\ \/ /\ upgrade' = [upgrade EXCEPT ![w] = RequiresUpgrade(v)
                                                     /\ synced[v].status = "published"]
                /\ Goto(w, IF upgrade'[w] THEN "reprocess" ELSE "download")
                /\ UNCHANGED err
             \/ /\ upgrade' = [upgrade EXCEPT ![w] = FALSE]
                /\ Goto(w, "error")
                /\ \E k \in {"fatal", "retry"}: err' = [err EXCEPT ![w] = k]
          /\ UNCHANGED <<video, arg>>
    /\ UNCHANGED <<persistent, synced, names, mainVars, prod, lockVars, grpVars, history>>

---------------------------------------------------------------------------
(* YoutubeVideo.Sync *)

\* downloadAndPublish up to publish.
Download(w) ==
    /\ pc[w] = "download"
    /\ \/ Goto(w, "rlock") /\ UNCHANGED <<video, tries, err, arg, upgrade>>
       \/ \E k \in {"noRetry", "never", "unavailable", "fatal", "interrupted", "retry"}:
             Fail(w, k)
    /\ UNCHANGED <<persistent, synced, names, mainVars, prod, lockVars, grpVars, history>>

\* reprocess up to the lock.  A claim whose size is not known is abandoned and the video
\* published anew.
Reprocess(w) ==
    LET old == {c \in ClaimsOf(video[w]): c.id = synced[video[w]].claim} IN
    /\ pc[w] = "reprocess"
    /\ \/ /\ old # {} /\ Goto(w, "rlockUpdate")
          /\ UNCHANGED <<chain, video, tries, err, arg, upgrade, gone>>
       \/ /\ old # {} /\ Goto(w, "download")
          /\ chain' = chain \ old /\ gone' = gone \cup {video[w]}
          /\ UNCHANGED <<video, tries, err, arg, upgrade>>
       \/ /\ \E k \in {"noRetry", "retry"}: Fail(w, k)
          /\ UNCHANGED <<chain, gone>>
    /\ UNCHANGED <<lastId, db, synced, names, mainVars, prod, lockVars, grpVars, lost, fatals, refused>>

\* Mutant: the lock is not taken.
RLockNever(w) ==
    /\ pc[w] \in {"rlock", "rlockUpdate"}
    /\ Goto(w, IF pc[w] = "rlock" THEN "name" ELSE "update")
    /\ UNCHANGED <<persistent, synced, names, mainVars, prod, video, tries, err, arg, upgrade,
                   lockVars, grpVars, history>>

\* walletLock.RLock: a writer that waits keeps new readers out.
RLock(w) ==
    /\ pc[w] \in {"rlock", "rlockUpdate"}
    /\ writer = None /\ ~\E u \in Workers: pc[u] = "lock"
    /\ readers' = readers \cup {w}
    /\ Goto(w, IF pc[w] = "rlock" THEN "name" ELSE "update")
    /\ UNCHANGED <<persistent, synced, names, mainVars, prod, video, tries, err, arg, upgrade,
                   writer, grpVars, history>>

\* Mutant: a name is not remembered.
NameTakenNever(n) == UNCHANGED names

NameTaken(n) == names' = names \cup {n}

\* Namer.GetNextName: the first name nobody has.
GetNextName(w) ==
    /\ pc[w] = "name"
    /\ \E n \in 1..(Cardinality(names) + 1):
          /\ n \notin names /\ 1..(n - 1) \subseteq names
          /\ NameTaken(n) /\ arg' = [arg EXCEPT ![w] = n]
    /\ Goto(w, "create")
    /\ UNCHANGED <<persistent, synced, mainVars, prod, video, tries, err, upgrade,
                   lockVars, grpVars, history>>

\* The daemon makes the claim.
MakeClaim(v, n) ==
    /\ lastId < MaxClaims /\ lastId' = lastId + 1
    /\ chain' = chain \cup {[id |-> lastId + 1, video |-> v, name |-> n, version |-> 2]}

\* StreamCreate and RUnlock.  The claim is made and the answer comes; the claim is made
\* and the answer does not come (a time-out, a reset connection, an end of file); the
\* name has multiple claims and the next one is tried, under the lock; it fails.
StreamCreate(w) ==
    LET v == video[w]
        n == arg[w]
        mine == \E c \in chain: c.name = n
    IN
    /\ pc[w] = "create"
    /\ \/ /\ ~mine /\ MakeClaim(v, n) /\ gone' = gone \ {v}
          /\ readers' = readers \ {w}
          /\ \/ /\ Goto(w, "mark") /\ arg' = [arg EXCEPT ![w] = lastId']
                /\ UNCHANGED <<video, tries, err, upgrade, lost>>
             \/ \E k \in {"noRetry", "fatal", "retry"}:
                   /\ Fail(w, k)
                   /\ lost' = IF k = "retry" THEN lost \cup {v} ELSE lost
          /\ UNCHANGED refused
       \/ /\ ~mine /\ n < MaxNames
          /\ Goto(w, "name") /\ arg' = [arg EXCEPT ![w] = 0]
          /\ UNCHANGED <<chain, lastId, readers, video, tries, err, upgrade, lost, gone, refused>>
       \/ /\ readers' = readers \ {w}
          /\ \E k \in (IF mine THEN {"fatal"} ELSE {"noRetry", "fatal", "block", "wallet", "retry"}):
                Fail(w, k)
          /\ refused' = (refused \/ mine)
          /\ UNCHANGED <<chain, lastId, lost, gone>>
    /\ UNCHANGED <<db, synced, names, mainVars, prod, writer, grpVars, fatals>>

\* StreamUpdate and RUnlock; the answer may be lost here, too.
StreamUpdate(w) ==
    LET old == ClaimById(synced[video[w]].claim) IN
    /\ pc[w] = "update"
    /\ readers' = readers \ {w}
    /\ chain' \in {chain, (chain \ {old}) \cup {[old EXCEPT !.version = 2]}}
    /\ \/ /\ chain' # chain
          /\ Goto(w, "mark") /\ arg' = [arg EXCEPT ![w] = old.id]
          /\ UNCHANGED <<video, tries, err, upgrade>>
       \/ \E k \in {"noRetry", "fatal", "block", "wallet", "retry"}: Fail(w, k)
    /\ UNCHANGED <<lastId, db, synced, names, mainVars, prod, writer, grpVars, history>>

\* The end of processVideo.  An error of MarkVideoStatus is only logged.
MarkPublished(w) ==
    LET row == Published(ClaimById(arg[w])) IN
    /\ pc[w] = "mark"
    /\ synced' = [synced EXCEPT ![video[w]] = row]
    /\ db' \in {db, [db EXCEPT ![video[w]] = row]}
    /\ NextVideo(w)
    /\ UNCHANGED <<chain, lastId, names, mainVars, prod, lockVars, grpVars, history>>

---------------------------------------------------------------------------
(* What startWorker does with an error *)

\* Mutant: the tries are not counted.
ShouldRetryForever(w) == MaxTries > 1 /\ err[w] \notin ErrorsNoRetry

ShouldRetry(w) == MaxTries > 1 /\ err[w] \notin ErrorsNoRetry /\ tries[w] < MaxTries

\* Mutant: the failure is not flagged.
FlagFailureNever(v) == UNCHANGED hard

\* flagFailure keeps the first.
FlagFailure(v) == hard' = IF hard = None THEN v ELSE hard

HandleError(w) ==
    /\ pc[w] = "error"
    /\ \/ /\ err[w] = "interrupted"
          /\ stopped' = TRUE /\ Goto(w, "fail") /\ UNCHANGED <<hard, err, fatals>>
       \/ /\ err[w] = "fatal"
          /\ stopped' = TRUE /\ FlagFailure(video[w]) /\ Goto(w, "fail")
          /\ fatals' = fatals \cup {video[w]} /\ UNCHANGED err
       \/ /\ err[w] \notin {"interrupted", "fatal"} /\ ShouldRetry(w)
          /\ Goto(w, IF err[w] = "block" THEN "block"
                     ELSE IF err[w] = "wallet" THEN "lock" ELSE "try")
          /\ err' = [err EXCEPT ![w] = "none"]
          /\ UNCHANGED <<stopped, hard, fatals>>
       \/ /\ err[w] \notin {"interrupted", "fatal"} /\ ~ShouldRetry(w)
          /\ Goto(w, "fail") /\ UNCHANGED <<stopped, hard, err, fatals>>
    /\ UNCHANGED <<persistent, synced, names, mainVars, prod, video, tries, arg, upgrade,
                   lockVars, lost, gone, refused>>

\* waitForNewBlock; when it fails the group is stopped and the video is left as it is.
WaitForNewBlock(w) ==
    /\ pc[w] = "block"
    /\ \/ Goto(w, "try") /\ UNCHANGED <<video, tries, err, arg, upgrade, stopped>>
       \/ stopped' = TRUE /\ NextVideo(w)
    /\ UNCHANGED <<persistent, synced, names, mainVars, prod, lockVars, hard, history>>

\* walletMux.Lock at the top of walletSetup.
Lock(w) ==
    /\ pc[w] = "lock"
    /\ writer = None /\ readers = {}
    /\ writer' = w /\ Goto(w, "setup")
    /\ UNCHANGED <<persistent, synced, names, mainVars, prod, video, tries, err, arg, upgrade,
                   readers, grpVars, history>>

\* Mutant: the early return with an error leaves the lock.
WalletSetupKeepsLock(w) ==
    /\ pc[w] = "setup"
    /\ \/ /\ writer' = None /\ Goto(w, "try")
          /\ UNCHANGED <<video, tries, err, arg, upgrade, stopped>>
       \/ stopped' = TRUE /\ NextVideo(w) /\ UNCHANGED writer
    /\ UNCHANGED <<persistent, synced, names, mainVars, prod, readers, hard, history>>

\* The rest of walletSetup; when it fails the group is stopped and the video is left.
WalletSetup(w) ==
    /\ pc[w] = "setup"
    /\ writer' = None
    /\ \/ Goto(w, "try") /\ UNCHANGED <<video, tries, err, arg, upgrade, stopped>>
       \/ stopped' = TRUE /\ NextVideo(w)
    /\ UNCHANGED <<persistent, synced, names, mainVars, prod, readers, hard, history>>

\* The video is given up.  A failed upgrade leaves syncedVideos alone and the row
\* published (upgradefailed); an error of MarkVideoStatus is only logged.
MarkFailed(w) ==
    LET v == video[w]
        never == err[w] \in NeverRetryFailures
    IN
    /\ pc[w] = "fail"
    /\ IF upgrade[w]
       THEN UNCHANGED <<synced, db>>
       ELSE /\ synced' = [synced EXCEPT ![v] = Failed(synced[v], never, 0)]
            /\ db' \in {db, [db EXCEPT ![v] = Failed(db[v], never, db[v].version)]}
    /\ NextVideo(w)
    /\ UNCHANGED <<chain, lastId, names, mainVars, prod, lockVars, grpVars, history>>

---------------------------------------------------------------------------
(* The outside *)

\* SIGINT or SIGTERM.
Interrupt ==
    /\ run \notin {"down", "returned"} /\ ~stopped
    /\ stopped' = TRUE
    /\ UNCHANGED <<persistent, synced, names, mainVars, prod, workerVars, lockVars,
                   hard, history>>

\* The process dies.  In the last run that would show nothing new.
Crash ==
    /\ run \notin {"down", "returned"} /\ runs < MaxRuns
    /\ run' = "down" /\ result' = "none" /\ NewSync
    /\ synced' = [v \in Videos |-> NoRow] /\ names' = {}
    /\ UNCHANGED <<persistent, runs, lost, gone, refused>>

\* The bound on runs is reached.
Over == run \in {"down", "returned"} /\ runs = MaxRuns /\ UNCHANGED vars

Main ==
    \/ FixDupes \/ CompareClaims \/ (\E v \in Videos: FixDB(v)) \/ ReloadFixed
    \/ RemoveUnpublished \/ ReloadRemoved \/ StartWorkers \/ Finish
    \/ Enqueue \/ StopEnqueue

Worker(w) ==
    /\ run = "work"
    /\ \/ CheckStop(w) \/ (\E v \in Videos: Receive(w, v)) \/ StopReceive(w) \/ Try(w)
       \/ Download(w) \/ Reprocess(w) \/ RLock(w) \/ GetNextName(w)
       \/ StreamCreate(w) \/ StreamUpdate(w) \/ MarkPublished(w)
       \/ HandleError(w) \/ WaitForNewBlock(w) \/ Lock(w) \/ WalletSetup(w) \/ MarkFailed(w)

Next == StartSync \/ Main \/ (\E w \in Workers: Worker(w)) \/ Interrupt \/ Crash \/ Over

Spec == Init /\ [][Next]_vars

\* The Go scheduler runs every goroutine that can run.
FairSpec == Spec /\ WF_vars(Main) /\ \A w \in Workers: WF_vars(Worker(w))

---------------------------------------------------------------------------
(* Properties *)

\* Every variable keeps its type.
TypeOK ==
    /\ chain \subseteq Claim /\ lastId \in 0..MaxClaims
    /\ {db, synced} \subseteq [Videos -> Row]
    /\ names \subseteq Nat \ {0}
    /\ run \in {"down", "fixDupes", "fixDB", "reload", "remove", "reloadRemoved",
                "cert", "work", "returned"}
    /\ result \in {"none", "ok", "error"} /\ runs \in 0..MaxRuns
    /\ {todo, listed, lost, gone, fatals} \subseteq SUBSET Videos
    /\ prod \in {"check", "send", "closed"}
    /\ pc \in [Workers -> Places]
    /\ video \in [Workers -> Videos \cup {None}]
    /\ tries \in [Workers -> 0..(MaxTries + 1)]
    /\ err \in [Workers -> Errors \cup {"none"}]
    /\ arg \in [Workers -> Nat] /\ upgrade \in [Workers -> BOOLEAN]
    /\ writer \in Workers \cup {None} /\ readers \subseteq Workers
    /\ {stopped, refused} \subseteq BOOLEAN /\ hard \in Videos \cup {None}

\* checkIntegrity does what it is there for: when the workers start, no video has two
\* claims and syncedVideos says of every claim exactly what the wallet has, whatever
\* crash, lost answer or failed MarkVideoStatus the earlier runs ended with; with
\* RemoveDBUnpublished it also names no video the wallet has not.
InLine ==
    /\ \A c, d \in chain: c.video = d.video => c = d
    /\ \A c \in chain: synced[c.video] = Published(c)
    /\ RemoveDBUnpublished =>
         \A v \in Videos: synced[v].status = "published" => ClaimsOf(v) # {}
IntegrityRepairs == [][run' = "work" /\ run # "work" => InLine']_vars

\* A video gets a second claim only when processVideo was tried again after the answer
\* to its StreamCreate was lost with an error that is not in ErrorsNoRetry: no other
\* worker, no later run and no retry after a time-out publishes it again.
DupesOnlyAfterLostAnswer ==
    \A v \in Videos: Cardinality(ClaimsOf(v)) > 1 => v \in lost

\* The Namer never proposes a name the wallet already has, which the daemon answers with
\* "You already have a stream claim published under the name", fatal for the process.
NamesAreFree == ~refused

\* A video the database has as published has a claim, unless an upgrade abandoned it.
PublishedHasClaim ==
    \A v \in Videos: db[v].status = "published" => ClaimsOf(v) # {} \/ v \in gone

\* "prevent unnecessary concurrent execution and publishing while refilling": while one
\* worker refills the wallet no other refills it or publishes.
NoPublishWhileRefilling ==
    \A w, u \in Workers:
        pc[w] = "setup" /\ u # w => pc[u] \notin {"setup", "name", "create", "update"}

\* doSync reports a clean end only when no video failed fatally and, unless the group was
\* stopped, every listed video was settled: published, or recorded as failed.
CleanEndIsComplete ==
    run = "returned" /\ result = "ok" =>
        /\ fatals = {}
        /\ stopped \/ \A v \in listed \cap Recent: synced[v].status # "none"

\* The workers and the queue come to an end, whatever the daemon answers: no deadlock
\* around walletMux or the queue, and no endless retry.
SyncEnds == run = "work" ~> run # "work"
===========================================================================
