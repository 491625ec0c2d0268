---------------------------- MODULE ChannelQueue ----------------------------
(***************************************************************************)
(* SyncManager.Start: which channels are cycled, in which order, and when  *)
(* the process ends.  ChannelCycle lets the loop take any channel; here    *)
(* are the queues, the guard against loops, the limit, .freeze and         *)
(* .update, and the videos that each cycle selects.  A cycle is two steps, *)
(* up to the selection and from there to its status.                       *)
(***************************************************************************)
EXTENDS VideoSelection, Sequences, FiniteSets, SequencesExt

CONSTANTS
    Channels,
    Limit,              \* --limit; 0: none
    UpgradeMetadata,    \* --upgrade-metadata
    RemoveDBUnpublished,    \* --remove-db-unpublished
    Modes,              \* what the flags may ask for, of AllModes
    MaxFreezes,         \* bound: how often somebody makes .freeze
    MaxStarts           \* bound: how often the process is started

Statuses == {"queued", "syncing", "synced", "failed"}

\* One channel (--channelID), or the queues in their order: "syncing" and then --status,
\* or "synced" with --update, or "queued"; and --status2.  The channels of every other
\* status are fetched as those of "queued" are.
Single == <<>>
AllModes == {Single} \cup {<<"syncing", s>>: s \in Statuses}
                \cup {<<"syncing", s, t>>: s, t \in Statuses}

ASSUME QueueAssumption ==
    /\ IsFiniteSet(Channels) /\ Channels # {} /\ None \notin Channels
    /\ Modes \subseteq AllModes
    /\ UpgradeMetadata \in BOOLEAN /\ RemoveDBUnpublished \in BOOLEAN
    /\ Limit \in Nat /\ MaxFreezes \in Nat /\ MaxStarts \in Nat \ {0}

VARIABLES
    status, rows,           \* the database: each channel's status, its videos' rows
    mode,                   \* --channelID, --status, --update and --status2
    frozen,                 \* is there a .freeze?
    starts, made,           \* bounds: of the process, of .freeze
    mostRecentlyFailedChannel,          \* of ytapi
    lastChannelProcessed, secondLastChannelProcessed,
    queue,                  \* channelsToSync, from the current one on
    syncCount, shouldInterrupt,
    interrupted,            \* the stop group is closed
    pc, listed,             \* place in Start; what GetVideosToSync returned
    \* history
    streak,                 \* cycles in a row of lastChannelProcessed
    freezes,                \* how often a cycle ended while there was a .freeze
    after                   \* cycles that began after the interrupt

db   == <<status, rows>>
file == <<frozen, made>>
seen == <<mostRecentlyFailedChannel, lastChannelProcessed, secondLastChannelProcessed>>
hist == <<streak, freezes, after>>
vars == <<db, mode, file, starts, seen, queue, syncCount, shouldInterrupt, interrupted,
          pc, listed, hist>>

\* A process that starts: nothing is remembered from the one before.
Fresh ==
    /\ mostRecentlyFailedChannel = None
    /\ lastChannelProcessed = None /\ secondLastChannelProcessed = None
    /\ queue = <<>> /\ syncCount = 0 /\ shouldInterrupt = FALSE
    /\ interrupted = FALSE /\ pc = "top" /\ listed = Nothing
    /\ streak = 0 /\ freezes = 0 /\ after = 0

Init ==
    /\ status \in [Channels -> {"queued", "synced"}]
    /\ rows \in [Channels -> [Videos -> {"none", "old"}]]
    /\ mode \in Modes /\ frozen = FALSE /\ made = 0 /\ starts = 1
    /\ Fresh

Goto(l) == pc' = l

---------------------------------------------------------------------------
(* One round *)

With(s) == {c \in Channels: status[c] = s}
QueueAll(s) == s \in {"failed", "syncing"}

\* A queue that is not drained ends the search if it has a channel.
IsLastQueue(s) == ~QueueAll(s) /\ With(s) # {}

\* All channels of a queue, or one of them.
Taken(s) == IF QueueAll(s) THEN SetToSeqs(With(s))
            ELSE IF With(s) = {} THEN {<<>>} ELSE {<<c>>: c \in With(s)}

\* What the k-th queue may add: nothing after the search has ended.
Added(k) ==
    IF k \in DOMAIN mode /\ (\A j \in 1 .. k - 1: ~IsLastQueue(mode[j]))
    THEN Taken(mode[k]) ELSE {<<>>}

\* What may be enqueued, the order within a queue being the database's.
Enqueued ==
    IF mode = Single THEN {<<c>>: c \in Channels}
    ELSE {q[1] \o q[2] \o q[3]: q \in Added(1) \X Added(2) \X Added(3)}

\* The top of the loop, where a .freeze holds it; no space or no answer ends it.
StartRound ==
    /\ pc = "top" /\ ~frozen
    /\ \/ Goto("over") /\ queue' = <<>>
       \/ Goto("loop") /\ queue' \in Enqueued
    /\ shouldInterrupt' = (mode = Single)
    /\ UNCHANGED <<db, mode, file, starts, seen, syncCount, interrupted, listed, hist>>

\* The round is over: no channel is left.  With --run-once the process ends as well.
EndRound ==
    /\ pc = "loop" /\ queue = <<>>
    /\ Goto("over") \/ (~shouldInterrupt /\ Goto("top"))
    /\ UNCHANGED <<db, mode, file, starts, seen, queue, syncCount, shouldInterrupt,
                   interrupted, listed, hist>>

\* Somebody made .update: the process ends before the next channel.
Update ==
    /\ pc = "loop" /\ queue # <<>>
    /\ Goto("over") /\ queue' = <<>> /\ shouldInterrupt' = TRUE
    /\ UNCHANGED <<db, mode, file, starts, seen, syncCount, interrupted, listed, hist>>

\* The channel was processed the last two times.
IsLooping(c) == lastChannelProcessed = c /\ secondLastChannelProcessed = lastChannelProcessed

\* "We just killed a sync to stop looping": the channel is marked as failed, if the
\* database takes it.
StopLooping ==
    /\ pc = "loop" /\ queue # <<>> /\ IsLooping(Head(queue))
    /\ status' \in {status, [status EXCEPT ![Head(queue)] = "failed"]}
    /\ queue' = Tail(queue)
    /\ UNCHANGED <<rows, mode, file, starts, seen, syncCount, shouldInterrupt, interrupted,
                   pc, listed, hist>>

\* Mutant: the second last channel is kept while a channel repeats.
RememberLast(c) ==
    /\ lastChannelProcessed' = c
    /\ secondLastChannelProcessed' =
           IF c = lastChannelProcessed THEN secondLastChannelProcessed ELSE lastChannelProcessed

Remember(c) ==
    /\ secondLastChannelProcessed' = lastChannelProcessed
    /\ lastChannelProcessed' = c

\* FullCycle begins: the channel is marked as syncing, unless another server has it or
\* the database does not answer.
BeginCycle ==
    /\ pc = "loop" /\ queue # <<>> /\ ~IsLooping(Head(queue))
    /\ LET c == Head(queue) IN
       /\ Remember(c)
       /\ streak' = IF c = lastChannelProcessed THEN streak + 1 ELSE 1
       /\ \/ Goto("cycle") /\ status' = [status EXCEPT ![c] = "syncing"]
          \/ Goto("notCounted") /\ UNCHANGED status
          \/ Goto("counted") /\ UNCHANGED status
    /\ after' = IF interrupted THEN after + 1 ELSE after
    /\ UNCHANGED <<rows, mode, file, starts, mostRecentlyFailedChannel, queue, syncCount,
                   shouldInterrupt, interrupted, listed, freezes>>

\* Mutant: a status that the database does not know.
StatusAfterKilled(e, s) == IF e = "panic" THEN "killed" ELSE s

\* What setChannelTerminationStatus makes of status s after error e; after a panic the
\* deferred functions see no error.
StatusAfter(e, s) ==
    CASE e \in {"nil", "panic"} -> IF interrupted THEN s ELSE "synced"
      [] e = "noFail"           -> s
      [] OTHER                  -> "failed"

\* The end of FullCycle with error e: the channel's status, if the database takes it,
\* and whether the error ends the process, as a panic does.
EndCycle(e) ==
    LET c == Head(queue)
    IN  /\ status' \in {status, [status EXCEPT ![c] = StatusAfter(e, status[c])]}
        /\ Goto(IF e \in {"fatal", "panic"} THEN "over" ELSE "counted")
        /\ listed' = Nothing

Errors == {"nil", "noFail", "other", "fatal", "panic"}

\* What comes before the videos fails: wallet, daemon, setup, or updateRemoteDB on its
\* way.
FailEarly ==
    /\ pc = "cycle"
    /\ \E n \in PartlyReconciled(rows[Head(queue)], RemoveDBUnpublished):
          rows' = [rows EXCEPT ![Head(queue)] = n]
    /\ \E e \in Errors \ {"nil"}: EndCycle(e)
    /\ UNCHANGED <<mode, file, starts, seen, queue, syncCount, shouldInterrupt,
                   interrupted, hist>>

\* GetVideosToSync, after updateRemoteDB.  A channel that has nothing to look up for the
\* second time, with no other such channel in between, fails; otherwise the videos are
\* looked up, and marked as failed when that fails, until an interrupt or an answer of
\* the API that makes no sense.
SelectVideos ==
    /\ pc = "cycle"
    /\ \E playlist \in Playlists, lastUploaded \in Videos \cup {None},
          r \in ReconciledRows(rows[Head(queue)], RemoveDBUnpublished):
       LET c == Head(queue)
           ids == VideoIDs(r, playlist, lastUploaded)
           looked == LookedUp(r, ids)
       IN IF ids = Nothing /\ mostRecentlyFailedChannel = c
          THEN /\ EndCycle("other") /\ rows' = [rows EXCEPT ![c] = r]
               /\ UNCHANGED mostRecentlyFailedChannel
          ELSE /\ mostRecentlyFailedChannel' =
                      IF ids = Nothing THEN c ELSE mostRecentlyFailedChannel
               /\ \E found \in Found(looked):
                  /\ \E n \in RowsAfter(r, looked, found): rows' = [rows EXCEPT ![c] = n]
                  /\ \/ /\ Goto("work") /\ UNCHANGED status
                        /\ listed' = VideosToSync(r, ids, found)
                     \/ EndCycle("other")
                     \/ interrupted /\ EndCycle("noFail")
    /\ UNCHANGED <<mode, file, starts, lastChannelProcessed, secondLastChannelProcessed,
                   queue, syncCount, shouldInterrupt, interrupted, hist>>

\* The workers are done with the videos, or were stopped before.
ProcessVideos ==
    /\ pc = "work"
    /\ LET c == Head(queue) IN
       \E n \in [Videos -> Rows]:
          /\ \A v \in Videos: n[v] \in IF listed[v] > 0
                                       THEN Outcomes(rows[c][v], UpgradeMetadata)
                                       ELSE {rows[c][v]}
          /\ rows' = [rows EXCEPT ![c] = n]
    /\ \E e \in Errors: EndCycle(e)
    /\ UNCHANGED <<mode, file, starts, seen, queue, syncCount, shouldInterrupt, interrupted,
                   hist>>

\* Mutant: one channel more.
ReachedLimitLate(n) == Limit # 0 /\ n > Limit

ReachedLimit(n) == Limit # 0 /\ n >= Limit

\* Mutant: only the limit ends the process.
EndsProcessNever(n) == ReachedLimit(n)

EndsProcess(n) == interrupted \/ ReachedLimit(n)

\* After a cycle: blobs are reflected, or the process ends; the cycle counts unless the
\* channel is another server's.  A .freeze ends the round before anybody asks whether
\* the process was interrupted or the limit reached.
NextChannel ==
    /\ pc \in {"counted", "notCounted"}
    /\ syncCount' = IF pc = "counted" THEN syncCount + 1 ELSE syncCount
    /\ IF frozen
       THEN /\ Goto(IF shouldInterrupt THEN "over" ELSE "top") /\ queue' = <<>>
            /\ freezes' = freezes + 1 /\ UNCHANGED shouldInterrupt
       ELSE /\ UNCHANGED freezes
            /\ IF EndsProcess(syncCount')
               THEN Goto("over") /\ queue' = <<>> /\ shouldInterrupt' = TRUE
               ELSE Goto("loop") /\ queue' = Tail(queue) /\ UNCHANGED shouldInterrupt
    /\ UNCHANGED <<db, mode, file, starts, seen, interrupted, listed, streak, after>>

\* ReflectAndClean failed.
FailReflection ==
    /\ pc \in {"counted", "notCounted"}
    /\ Goto("over") /\ queue' = <<>>
    /\ UNCHANGED <<db, mode, file, starts, seen, syncCount, shouldInterrupt, interrupted,
                   listed, hist>>

---------------------------------------------------------------------------
(* Around the process *)

\* A signal during FullCycle closes the stop group.
Interrupt ==
    /\ pc \in {"cycle", "work"} /\ ~interrupted /\ interrupted' = TRUE
    /\ UNCHANGED <<db, mode, file, starts, seen, queue, syncCount, shouldInterrupt, pc,
                   listed, hist>>

\* Somebody makes or removes .freeze.
Freeze ==
    /\ frozen' = ~frozen
    /\ made' = IF frozen THEN made ELSE made + 1
    /\ made' <= MaxFreezes
    /\ UNCHANGED <<db, mode, starts, seen, queue, syncCount, shouldInterrupt, interrupted,
                   pc, listed, hist>>

\* The channel's owner, or the service, puts a channel back into the queue.
Requeue(c) ==
    /\ status[c] \in {"synced", "failed"}
    /\ status' = [status EXCEPT ![c] = "queued"]
    /\ UNCHANGED <<rows, mode, file, starts, seen, queue, syncCount, shouldInterrupt,
                   interrupted, pc, listed, hist>>

\* The process dies at any time, or it ended; it is started again.
Restart ==
    /\ starts < MaxStarts /\ starts' = starts + 1
    /\ mode' \in Modes
    /\ mostRecentlyFailedChannel' = None
    /\ lastChannelProcessed' = None /\ secondLastChannelProcessed' = None
    /\ queue' = <<>> /\ syncCount' = 0 /\ shouldInterrupt' = FALSE
    /\ interrupted' = FALSE /\ pc' = "top" /\ listed' = Nothing
    /\ streak' = 0 /\ freezes' = 0 /\ after' = 0
    /\ UNCHANGED <<db, file>>

Over == pc = "over" /\ starts = MaxStarts /\ UNCHANGED vars

Manager ==
    \/ StartRound \/ EndRound \/ Update \/ StopLooping \/ BeginCycle
    \/ FailEarly \/ SelectVideos \/ ProcessVideos \/ NextChannel \/ FailReflection

Next ==
    \/ Manager \/ Interrupt \/ Freeze \/ Restart \/ Over
    \/ \E c \in Channels: Requeue(c)

Spec == Init /\ [][Next]_vars

---------------------------------------------------------------------------
(* Properties *)

Places == {"top", "loop", "cycle", "work", "counted", "notCounted", "over"}

\* The manager's and the database's variables have their types.
TypeOK ==
    /\ status \in [Channels -> Statuses] /\ rows \in [Channels -> [Videos -> Rows]]
    /\ mode \in Modes /\ frozen \in BOOLEAN /\ made \in 0 .. MaxFreezes
    /\ starts \in 1 .. MaxStarts
    /\ {mostRecentlyFailedChannel, lastChannelProcessed, secondLastChannelProcessed}
           \subseteq Channels \cup {None}
    /\ queue \in Seq(Channels)
    /\ syncCount \in Nat /\ shouldInterrupt \in BOOLEAN /\ interrupted \in BOOLEAN
    /\ pc \in Places /\ listed \in [Videos -> Nat]
    /\ streak \in Nat /\ freezes \in Nat /\ after \in Nat

\* No process cycles a channel three times in a row, whatever rounds, queues, .freeze
\* files and failed cycles lie in between (manager.go:131-138).
NeverThreeTimes == streak <= 2

\* --limit is kept but for one cycle per .freeze that was there at the end of one
\* (README.md:56, manager.go:179-186).
LimitKept == Limit # 0 => syncCount <= Limit + freezes

\* After an interrupt no cycle begins in the process, unless a .freeze kept the manager
\* from noticing it (ytsync.go:199, manager.go:179-186).
InterruptIsLast == after <= freezes

\* A video that is published, and whose upgrade has not failed before, stays so in the
\* database but for an upgrade by the workers and, with --remove-db-unpublished, for the
\* removal of the row before the videos are selected, after which the video may be looked
\* up like a new one; looking videos up never marks a published one as failed
\* (ytapi.go:215-231, ytsync.go:699-712, 954).
PublishedStaysPublished ==
    [][\A c \in Channels, v \in Videos:
          rows[c][v] \in {"old", "new"} /\ rows'[c][v] \notin {"old", "new", "upgradefailed"}
              => \/ pc = "work" /\ UpgradeMetadata /\ rows[c][v] = "old"
                 \/ pc = "cycle" /\ RemoveDBUnpublished /\ rows'[c][v] # "lost"]_vars
=============================================================================
