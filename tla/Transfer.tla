------------------------------ MODULE Transfer ------------------------------
(***************************************************************************)
(* Sync.processTransfers: handing a channel over to its YouTuber, run after *)
(* run.  The supports on its claims are abandoned, every published stream   *)
(* is updated to the user's address by a producer and a pool of workers,    *)
(* then the channel itself, and what the supports released goes back to the *)
(* channel as one tip.  lbrynet may do what it was told and its answer be   *)
(* lost; the rows of the database are written by calls of their own, and    *)
(* updateRemoteDB brings them in line at the start of the next run.         *)
(*                                                                         *)
(* A support is worth 1.  Nothing here looks at the stop group.  The claims *)
(* stay recognisable: a user does not edit what was moved to his account,   *)
(* and --remove-db-unpublished, which would delete rows, is not given.      *)
(***************************************************************************)
EXTENDS Naturals, Sequences, FiniteSets

CONSTANTS
    Videos,         \* the videos that the database has as published
    Supports,       \* the claims of the wallet that have supports
    Workers,        \* ConcurrentJobs goroutines
    None,
    PublicKey,      \* did the user give a public key to import?
    MaxRuns         \* bound

ASSUME TransferAssumption ==
    /\ IsFiniteSet(Videos) /\ IsFiniteSet(Supports)
    /\ IsFiniteSet(Workers) /\ Workers # {} /\ None \notin Videos
    /\ PublicKey \in BOOLEAN /\ MaxRuns \in Nat \ {0}

VARIABLES
    claims,         \* where each video's claim is: "ours", "theirs" or "gone"
    channel,        \* and the channel's: "ours" or "theirs"
    supports,       \* the supports that were not abandoned yet
    db,             \* the videos whose row says transferred
    transferState,  \* the channel's row
    run, failed,    \* where processTransfers is; it (or its shutdown) has an error
    synced,         \* syncedVideos: the videos it has as transferred
    todo,           \* what the loop at hand still has to do
    streams,        \* the answer of StreamList
    streamChan, closed,     \* the channel of update jobs; it was closed
    pc, job, moved, erred,  \* each worker: where it is, its job, what StreamUpdate said
    cleanTransfer,
    supportAmount,
    \* history
    runs,
    attempt,        \* the run: "open", the channel's update was "agreed" to, or it "panicked"
    failedUpdate,   \* videos whose StreamUpdate failed in this run
    released, reported, tipped      \* over all runs: abandoned, reported as such, tipped

persistent == <<claims, channel, supports, db, transferState>>
poolVars   == <<streams, streamChan, closed, pc, job, moved, erred, cleanTransfer, failedUpdate>>
amounts    == <<supportAmount, released, reported, tipped>>
vars == <<persistent, run, failed, synced, todo, poolVars, amounts, runs, attempt>>

Ours == {v \in Videos: claims[v] = "ours"}
Theirs == {v \in Videos: claims[v] = "theirs"}

---------------------------------------------------------------------------
\* Every video is published and not transferred; an upgrade may have lost its claim.
Init ==
    /\ claims \in [Videos -> {"ours", "gone"}] /\ channel = "ours"
    /\ supports = Supports /\ db = {} /\ transferState = "pending"
    /\ run = "down" /\ failed = FALSE /\ synced = {} /\ todo = {} /\ streams = {}
    /\ streamChan = <<>> /\ closed = FALSE
    /\ pc = [w \in Workers |-> "done"] /\ job = [w \in Workers |-> None]
    /\ moved = [w \in Workers |-> FALSE] /\ erred = [w \in Workers |-> FALSE]
    /\ cleanTransfer = TRUE /\ supportAmount = 0
    /\ runs = 0 /\ attempt = "open" /\ failedUpdate = {} /\ released = 0 /\ reported = 0 /\ tipped = 0

Goto(l) == run' = l /\ UNCHANGED failed
Error == run' = "status" /\ failed' = TRUE

\* Mutant: transferStatusMismatch is not looked at.
ReconciledNever(rows) == rows

\* updateRemoteDB: a claim of the default account is ours, one of another account is
\* theirs; those the wallet does not list keep their row.
Reconciled(rows) == (rows \ Ours) \cup (IF PublicKey THEN Theirs ELSE {})

\* A new run up to processTransfers; the rows are written one by one, and an error ends
\* the run.  It is made for a channel whose transfer is complete, too.  Without the
\* user's key the wallet does not list a channel it gave away, and
\* ensureChannelOwnership ends the run.  A nil IP pool panics on the way: the deferred
\* functions run with a nil error.
Begin ==
    /\ run = "down" /\ runs < MaxRuns
    /\ runs' = runs + 1
    /\ failedUpdate' = {} /\ cleanTransfer' = TRUE /\ supportAmount' = 0
    /\ \/ /\ channel = "ours" \/ PublicKey
          /\ db' = Reconciled(db) /\ synced' = db'
          /\ Goto("confirm") /\ attempt' = "open"
       \/ /\ db' \in {db \cup S: S \in SUBSET (Reconciled(db) \ db)}
          /\ \/ Error /\ attempt' = "open"
             \/ Goto("status") /\ attempt' = "panicked"
          /\ UNCHANGED synced
    /\ UNCHANGED <<claims, channel, supports, transferState, todo, streams, streamChan, closed,
                   pc, job, moved, erred, released, reported, tipped>>

\* waitConfirmations, and SupportList at the top of abandonSupports.
ListSupports ==
    /\ run = "confirm"
    /\ \/ Goto("abandon") /\ todo' = supports
       \/ Error /\ UNCHANGED todo
    /\ UNCHANGED <<persistent, synced, poolVars, amounts, runs, attempt>>

---------------------------------------------------------------------------
(* abandonSupports *)

\* Mutant: what a TxoSpend that timed out released is guessed.
CountedGuess(spent, answered) == 1

\* What one abandonResponse adds.
Counted(spent, answered) == IF spent /\ answered THEN 1 ELSE 0

\* One claim id through a consumer.  TxoSpend may spend and not answer in time; the
\* retry then has no outputs, or fails, and the amount stays unknown.
AbandonSupport(s) ==
    /\ run = "abandon" /\ s \in todo
    /\ todo' = todo \ {s}
    /\ \E spent, answered \in BOOLEAN:
         /\ supports' = IF spent THEN supports \ {s} ELSE supports
         /\ released' = released + (IF spent THEN 1 ELSE 0)
         /\ supportAmount' = supportAmount + Counted(spent, answered)
    /\ UNCHANGED <<claims, channel, db, transferState, run, failed, synced, poolVars,
                   reported, tipped, runs, attempt>>

\* All responses are in: the amount is reported, whatever failed.
ReportSupports ==
    /\ run = "abandon" /\ todo = {}
    /\ reported' = reported + supportAmount
    /\ Goto("list")
    /\ UNCHANGED <<persistent, synced, todo, poolVars, supportAmount, released, tipped, runs, attempt>>

---------------------------------------------------------------------------
(* transferVideos *)

\* StreamList, the producer and the workers.
StartTransfer ==
    /\ run = "list"
    /\ \/ /\ Goto("videos")
          /\ streams' = Ours /\ todo' = Videos \ synced
          /\ closed' = FALSE /\ pc' = [w \in Workers |-> "receive"]
       \/ Error /\ UNCHANGED <<todo, streams, closed, pc>>
    /\ UNCHANGED <<persistent, synced, streamChan, job, moved, erred, cleanTransfer,
                   failedUpdate, amounts, runs, attempt>>

\* Mutant: the channel is given room for every video.
HasRoomForAll == TRUE

\* The channel holds one job for each worker.
HasRoom == Len(streamChan) < Cardinality(Workers)

\* The producer's loop over a map, in any order.  A video without a stream in the list
\* ends the whole goroutine.
Produce(v) ==
    /\ run = "videos" /\ ~closed /\ v \in todo
    /\ IF v \in streams
       THEN /\ HasRoom
            /\ streamChan' = Append(streamChan, v) /\ todo' = todo \ {v}
       ELSE todo' = {} /\ UNCHANGED streamChan
    /\ UNCHANGED <<persistent, run, failed, synced, streams, closed, pc, job, moved, erred,
                   cleanTransfer, failedUpdate, amounts, runs, attempt>>

\* Mutant: the channel is not closed.
ClosedNever == closed' = closed

Closed == closed' = TRUE

\* producerWG.Wait() and close(streamChan).
Close ==
    /\ run = "videos" /\ ~closed /\ todo = {}
    /\ Closed
    /\ UNCHANGED <<persistent, run, failed, synced, todo, streams, streamChan, pc, job, moved,
                   erred, cleanTransfer, failedUpdate, amounts, runs, attempt>>

Receive(w) ==
    /\ pc[w] = "receive"
    /\ \/ /\ streamChan # <<>>
          /\ pc' = [pc EXCEPT ![w] = "update"] /\ job' = [job EXCEPT ![w] = Head(streamChan)]
          /\ streamChan' = Tail(streamChan)
       \/ /\ streamChan = <<>> /\ closed
          /\ pc' = [pc EXCEPT ![w] = "done"] /\ UNCHANGED <<streamChan, job>>
    /\ UNCHANGED <<persistent, run, failed, synced, todo, streams, closed, moved, erred,
                   cleanTransfer, failedUpdate, amounts, runs, attempt>>

\* streamUpdate up to the answer: it is done; it has no outputs, which is no error; it
\* fails, or was done and the answer is lost.
StreamUpdate(w) ==
    /\ pc[w] = "update"
    /\ pc' = [pc EXCEPT ![w] = "mark"]
    /\ \E done, error \in BOOLEAN:
         /\ claims' = IF done THEN [claims EXCEPT ![job[w]] = "theirs"] ELSE claims
         /\ moved' = [moved EXCEPT ![w] = done /\ ~error]
         /\ erred' = [erred EXCEPT ![w] = error]
         /\ failedUpdate' = IF error THEN failedUpdate \cup {job[w]} ELSE failedUpdate
    /\ UNCHANGED <<channel, supports, db, transferState, run, failed, synced, todo, streams,
                   streamChan, closed, job, cleanTransfer, amounts, runs, attempt>>

\* Mutant: IsTransferred keeps the TRUE it was made with.
IsTransferredAlways(w) == TRUE

IsTransferred(w) == moved[w]

CleanAfter(w) == cleanTransfer /\ ~erred[w]

\* MarkVideoStatus and the result of streamUpdate.  errors.Prefix(statusErr, nil) is nil,
\* so a row that could not be written is no error.
MarkTransferred(w) ==
    /\ pc[w] = "mark"
    /\ db' \in {db, IF IsTransferred(w) THEN db \cup {job[w]} ELSE db \ {job[w]}}
    /\ cleanTransfer' = CleanAfter(w)
    /\ pc' = [pc EXCEPT ![w] = "receive"] /\ job' = [job EXCEPT ![w] = None]
    /\ moved' = [moved EXCEPT ![w] = FALSE] /\ erred' = [erred EXCEPT ![w] = FALSE]
    /\ UNCHANGED <<claims, channel, supports, transferState, run, failed, synced, todo, streams,
                   streamChan, closed, failedUpdate, amounts, runs, attempt>>

\* Mutant: consumerWG is not waited for.
JoinedEarly == closed

Joined == closed /\ \A w \in Workers: pc[w] = "done"

\* "A video has failed to transfer for the channel...skipping channel transfer"
EndTransfer ==
    /\ run = "videos" /\ Joined
    /\ IF cleanTransfer THEN Goto("channel") ELSE Error
    /\ UNCHANGED <<persistent, synced, todo, poolVars, amounts, runs, attempt>>

---------------------------------------------------------------------------
(* transferChannel, the tip and the end of the cycle *)

\* Mutant: an update of the channel that failed is only logged, too.
TransferChannelLogged ==
    /\ run = "channel"
    /\ Goto("tip") /\ channel' \in {channel, "theirs"}
    /\ attempt' \in {attempt, "agreed"}
    /\ UNCHANGED <<claims, supports, db, transferState, synced, todo, poolVars, amounts, runs>>

\* A channel that is not in the default account was transferred before.  An update that
\* comes back without outputs is only logged; one that fails may have been done.
TransferChannel ==
    /\ run = "channel"
    /\ \/ Goto("tip") /\ attempt' = "agreed"
       \/ Error /\ UNCHANGED attempt
    /\ channel' \in {channel, "theirs"}
    /\ UNCHANGED <<claims, supports, db, transferState, synced, todo, poolVars, amounts, runs>>

\* The rest of processTransfers.
Tip ==
    /\ run = "tip"
    /\ \/ supportAmount = 0 /\ Goto("status") /\ UNCHANGED tipped
       \/ /\ supportAmount > 0
          /\ \/ Goto("status") /\ tipped' = tipped + supportAmount
             \/ Error /\ tipped' \in {tipped, tipped + supportAmount}
       \/ Error /\ UNCHANGED tipped
    /\ UNCHANGED <<persistent, synced, todo, poolVars, supportAmount, released, reported, runs, attempt>>

\* The deferred functions: the shutdown may add an error of its own, and the call that
\* sets the status may fail.
Terminate ==
    /\ run = "status"
    /\ run' = "down" /\ failed' = FALSE
    /\ transferState' \in (IF failed THEN {transferState} ELSE {transferState, "complete"})
    /\ UNCHANGED <<claims, channel, supports, db, synced, todo, poolVars, amounts, runs, attempt>>

\* The process dies, and its goroutines with it.
Crash ==
    /\ run # "down"
    /\ run' = "down" /\ failed' = FALSE /\ todo' = {} /\ streams' = {}
    /\ streamChan' = <<>> /\ closed' = FALSE
    /\ pc' = [w \in Workers |-> "done"] /\ job' = [w \in Workers |-> None]
    /\ moved' = [w \in Workers |-> FALSE] /\ erred' = [w \in Workers |-> FALSE]
    /\ UNCHANGED <<persistent, synced, cleanTransfer, failedUpdate, amounts, runs, attempt>>

\* The bound on runs is reached.
Over == run = "down" /\ runs = MaxRuns /\ UNCHANGED vars

Main ==
    \/ ListSupports \/ (\E s \in Supports: AbandonSupport(s)) \/ ReportSupports
    \/ StartTransfer \/ (\E v \in Videos: Produce(v)) \/ Close \/ EndTransfer
    \/ TransferChannel \/ Tip \/ Terminate
Worker(w) == run = "videos" /\ (Receive(w) \/ StreamUpdate(w) \/ MarkTransferred(w))

Next == Begin \/ Main \/ (\E w \in Workers: Worker(w)) \/ Crash \/ Over

Spec == Init /\ [][Next]_vars

\* The Go scheduler runs every goroutine that can run, and every call comes back.
FairSpec == Spec /\ WF_vars(Main) /\ \A w \in Workers: WF_vars(Worker(w))

---------------------------------------------------------------------------
(* Properties *)

\* Every variable keeps its type.
TypeOK ==
    /\ claims \in [Videos -> {"ours", "theirs", "gone"}] /\ channel \in {"ours", "theirs"}
    /\ supports \subseteq Supports /\ db \subseteq Videos
    /\ transferState \in {"pending", "complete"}
    /\ run \in {"down", "confirm", "abandon", "list", "videos", "channel", "tip", "status"}
    /\ {synced, streams, failedUpdate} \subseteq SUBSET Videos
    /\ todo \subseteq Videos \cup Supports
    /\ streamChan \in Seq(Videos) /\ Len(streamChan) <= Cardinality(Workers)
    /\ pc \in [Workers -> {"receive", "update", "mark", "done"}]
    /\ job \in [Workers -> Videos \cup {None}]
    /\ moved \in [Workers -> BOOLEAN] /\ erred \in [Workers -> BOOLEAN]
    /\ {failed, closed, cleanTransfer} \subseteq BOOLEAN
    /\ {supportAmount, released, reported, tipped, runs} \subseteq Nat
    /\ attempt \in {"open", "agreed", "panicked"}

\* When the channel is about to be handed over no StreamUpdate of this run failed and
\* none is under way: "A video has failed to transfer for the channel...skipping
\* channel transfer" (transfer.go:285), whichever worker failed and however late.
ChannelWaitsForUpdates ==
    run \in {"channel", "tip"} =>
        failedUpdate = {} /\ \A w \in Workers: pc[w] \notin {"update", "mark"}

\* The transfer as Handover sees it.
Transferred == INSTANCE Handover WITH
    given <- Theirs, channel <- channel = "theirs", recorded <- db,
    complete <- transferState = "complete", attempt <- attempt

\* Runs, crashes and lost answers together hand over as Handover says: the database never
\* claims more than the chain, nothing is taken back, and the transfer is recorded as
\* complete only after lbrynet agreed to update the channel in that very run, or after a
\* panic (transfer.go:342-348 takes an update without outputs for done).
ImplementsHandover == Transferred!Spec

\* With the user's key imported the producer gives up only for a claim that nobody has:
\* what was moved in an earlier run, with its answer or its row lost, does not stop it.
OnlyGoneStopsProducer ==
    run = "videos" /\ PublicKey => \A v \in todo: v \in streams \/ claims[v] = "gone"

\* What is tipped to the channel was released from its supports before, however often
\* TxoSpend timed out and the transfer was run.
TipIsCovered == tipped <= released

\* transferVideos comes to its end: the producer, the bounded channel and the workers
\* never wait for one another for ever.
TransferEnds == run = "videos" ~> run # "videos"

---------------------------------------------------------------------------
(* What the code says, and what it does not do *)

\* transfer.go:285: the channel is only transferred when no video is left behind.
NoVideoLeftBehind == run = "tip" => Ours = {}

\* ytsync.go:303: the supports that were abandoned "should be used as support": when a
\* run is about to record the transfer as complete, they were.
AbandonedIsTipped == run = "status" /\ ~failed /\ attempt = "agreed" => tipped = reported
===========================================================================
