------------------------- MODULE ChannelQueueProofs -------------------------
(***************************************************************************)
(* Proofs about ChannelQueue, for any number of channels, videos, limits,  *)
(* .freeze files and restarts: the guard against loops, the limit, the     *)
(* interrupt, and what the selection of videos does to their rows.         *)
(***************************************************************************)
EXTENDS ChannelQueue, FiniteSetTheorems, SequenceTheorems, TLAPS

---------------------------------------------------------------------------
(* The inductive invariant, in parts *)

\* A channel is cycled, or was just, only while it is at the head of the queue.
HeadInv == pc \in {"cycle", "work", "counted", "notCounted"} => queue # <<>>

\* A channel that had two cycles in a row is both of the remembered ones.
StreakInv == streak <= 2 /\ (streak = 2 => secondLastChannelProcessed = lastChannelProcessed)

\* While the process goes on the limit is not reached, but for the cycles that ended
\* while there was a .freeze.
LimitInv ==
    Limit # 0 => /\ syncCount <= Limit + freezes
                 /\ pc # "over" => syncCount < Limit + freezes

\* An interrupt is noticed before the next cycle, but for a .freeze.
InterruptInv ==
    /\ ~interrupted => after = 0
    /\ after <= freezes
    /\ interrupted /\ pc \in {"top", "loop"} => after < freezes

\* No video that is published with the new metadata is given to the workers, and nobody
\* else writes the rows meanwhile.
GivenInv ==
    /\ pc # "work" => listed = Nothing
    /\ \A v \in Videos: listed[v] > 0 => rows[Head(queue)][v] # "new"

QueueInv == HeadInv /\ StreakInv /\ LimitInv /\ InterruptInv /\ GivenInv

---------------------------------------------------------------------------
(* The operators *)

\* A queue's channels in any order are sequences of channels.
LEMMA OrdersAreSeqs ==
    ASSUME NEW S, IsFiniteSet(S)
    PROVE  SetToSeqs(S) \subseteq Seq(S)
<1>1. Cardinality(S) \in Nat
  BY FS_CardinalityType
<1>2. SetToSeqs(S) \subseteq [1..Cardinality(S) -> S]
  BY DEF SetToSeqs
<1> QED
  BY <1>1, <1>2, SeqDef

LEMMA TakenType == \A s: Taken(s) \subseteq Seq(Channels)
<1> TAKE s
<1>1. With(s) \subseteq Channels /\ IsFiniteSet(With(s))
  BY QueueAssumption, FS_Subset DEF With
<1>2. SetToSeqs(With(s)) \subseteq Seq(Channels)
  <2>1. SetToSeqs(With(s)) \subseteq Seq(With(s))
    BY <1>1, OrdersAreSeqs
  <2>2. Seq(With(s)) \subseteq Seq(Channels)
    BY <1>1, SeqMonotonic
  <2> QED
    BY <2>1, <2>2
<1>3. <<>> \in Seq(Channels)
  BY EmptySeq
<1>4. \A c \in Channels: <<c>> \in Seq(Channels)
  OBVIOUS
<1> QED
  BY <1>1, <1>2, <1>3, <1>4 DEF Taken

LEMMA EnqueuedType == Enqueued \subseteq Seq(Channels)
<1>1. \A k: Added(k) \subseteq Seq(Channels)
  BY TakenType, EmptySeq DEF Added
<1>2. \A q, r \in Seq(Channels): q \o r \in Seq(Channels)
  BY ConcatProperties
<1>4. CASE mode = Single
  <2>1. Enqueued = {<<c>>: c \in Channels}
    BY <1>4 DEF Enqueued
  <2>2. \A c \in Channels: <<c>> \in Seq(Channels)
    OBVIOUS
  <2> QED
    BY <2>1, <2>2
<1>5. CASE mode # Single
  <2>1. Enqueued = {q[1] \o q[2] \o q[3]: q \in Added(1) \X Added(2) \X Added(3)}
    BY <1>5 DEF Enqueued
  <2>2. ASSUME NEW q \in Added(1) \X Added(2) \X Added(3)
        PROVE  q[1] \o q[2] \o q[3] \in Seq(Channels)
    <3>1. q[1] \in Added(1) /\ q[2] \in Added(2) /\ q[3] \in Added(3)
      OBVIOUS
    <3>2. q[1] \in Seq(Channels) /\ q[2] \in Seq(Channels) /\ q[3] \in Seq(Channels)
      BY <3>1, <1>1
    <3> QED
      BY <3>2, <1>2
  <2> QED
    BY <2>1, <2>2
<1> QED
  BY <1>4, <1>5

---------------------------------------------------------------------------
(* Types *)

\* The type invariant, split by what an action disturbs.
DbTypes ==
    /\ status \in [Channels -> Statuses] /\ rows \in [Channels -> [Videos -> Rows]]
    /\ listed \in [Videos -> Nat]
ProcessTypes ==
    /\ mode \in Modes /\ starts \in 1 .. MaxStarts
    /\ frozen \in BOOLEAN /\ made \in 0 .. MaxFreezes
    /\ shouldInterrupt \in BOOLEAN /\ interrupted \in BOOLEAN /\ pc \in Places
SeenTypes ==
    /\ mostRecentlyFailedChannel \in Channels \cup {None}
    /\ lastChannelProcessed \in Channels \cup {None}
    /\ secondLastChannelProcessed \in Channels \cup {None}
    /\ queue \in Seq(Channels)
    /\ syncCount \in Nat /\ streak \in Nat /\ freezes \in Nat /\ after \in Nat

LEMMA TypeParts == TypeOK <=> DbTypes /\ ProcessTypes /\ SeenTypes
BY DEF TypeOK, DbTypes, ProcessTypes, SeenTypes

LEMMA TypeInit == Init => TypeOK
<1> SUFFICES ASSUME Init PROVE TypeOK
  OBVIOUS
<1>1. DbTypes
  BY DEF Init, Fresh, DbTypes, Statuses, Rows, Nothing
<1>2. ProcessTypes
  <2>1. 1 \in 1 .. MaxStarts /\ 0 \in 0 .. MaxFreezes
    BY QueueAssumption
  <2>2. shouldInterrupt \in BOOLEAN /\ interrupted \in BOOLEAN /\ frozen \in BOOLEAN
    BY DEF Init, Fresh
  <2>3. mode \in Modes /\ starts = 1 /\ made = 0 /\ pc = "top"
    BY DEF Init, Fresh
  <2> QED
    BY <2>1, <2>2, <2>3 DEF ProcessTypes, Places
<1>3. SeenTypes
  BY EmptySeq DEF Init, Fresh, SeenTypes
<1> QED
  BY <1>1, <1>2, <1>3, TypeParts

\* The channel of the cycle.
LEMMA HeadType ==
    ASSUME SeenTypes, queue # <<>>
    PROVE  Head(queue) \in Channels /\ Tail(queue) \in Seq(Channels)
BY HeadTailProperties DEF SeenTypes

LEMMA EndCycleTypes ==
    ASSUME DbTypes, SeenTypes, queue # <<>>, NEW e, EndCycle(e)
    PROVE  /\ status' \in [Channels -> Statuses]
           /\ pc' \in {"over", "counted"} /\ listed' = Nothing
<1> DEFINE c == Head(queue)
           s == StatusAfter(e, status[c])
<1>1. c \in Channels
  BY HeadType
<1>2. s \in Statuses
  <2>1. status[c] \in Statuses
    BY <1>1 DEF DbTypes
  <2> QED
    BY <2>1 DEF StatusAfter, Statuses
<1>3. status' \in {status, [status EXCEPT ![c] = s]}
  BY DEF EndCycle
<1>4. pc' \in {"over", "counted"} /\ listed' = Nothing
  BY DEF EndCycle, Goto
<1> HIDE DEF c, s
<1> QED
  BY <1>1, <1>2, <1>3, <1>4 DEF DbTypes

LEMMA NothingType == Nothing \in [Videos -> Nat]
BY DEF Nothing

\* updateRemoteDB keeps what is published, unless rows are removed; a row that it removes
\* is not one whose claim is there.
LEMMA ReconciledKeeps ==
    ASSUME NEW x \in Rows, NEW y \in {x} \cup Reconciled(x, RemoveDBUnpublished),
           x \in {"old", "new"}
    PROVE  y \in {"old", "new"} \/ (RemoveDBUnpublished /\ y = "none")
BY DEF Reconciled

\* No finished video is looked up, and none whose row says published.
LEMMA LookedUpType ==
    ASSUME NEW r \in [Videos -> Rows], NEW playlist \in Playlists, NEW lastUploaded,
           NEW ids, ids = VideoIDs(r, playlist, lastUploaded)
    PROVE  /\ ids \in [Videos -> Nat]
           /\ \A v \in Videos: IsDone(r[v]) => ids[v] = 0
           /\ \A v \in Videos: LookedUp(r, ids)[v] > 0 => r[v] \notin {"old", "new", "never"}
<1>1. \A v \in Videos: playlist[v] \in Nat
  BY SelectionAssumption DEF Playlists
<1>2. ids \in [Videos -> Nat]
  BY <1>1 DEF VideoIDs
<1>3. \A v \in Videos: IsDone(r[v]) => ids[v] = 0
  BY DEF VideoIDs
<1>4. \A v \in Videos: LookedUp(r, ids)[v] > 0 => r[v] \notin {"old", "new", "never"}
  BY <1>3 DEF LookedUp, IsSkipped, IsDone
<1> QED
  BY <1>2, <1>3, <1>4

\* What a selection that goes through makes of the rows, and which videos it gives out.
LEMMA SelectionResult ==
    ASSUME NEW r \in [Videos -> Rows], NEW playlist \in Playlists, NEW lastUploaded,
           NEW ids, ids = VideoIDs(r, playlist, lastUploaded),
           NEW found \in Found(LookedUp(r, ids)),
           NEW n \in RowsAfter(r, LookedUp(r, ids), found)
    PROVE  /\ n \in [Videos -> Rows]
           /\ \A v \in Videos: r[v] \in {"old", "new"} => n[v] = r[v]
           /\ \A v \in Videos: r[v] = "none" => n[v] # "lost"
           /\ VideosToSync(r, ids, found) \in [Videos -> Nat]
<1> DEFINE looked == LookedUp(r, ids)
<1>1. /\ ids \in [Videos -> Nat]
      /\ \A v \in Videos: IsDone(r[v]) => ids[v] = 0
      /\ \A v \in Videos: looked[v] > 0 => r[v] \notin {"old", "new", "never"}
  BY LookedUpType
<1>2. found \in [Videos -> Nat] /\ \A v \in Videos: found[v] <= looked[v]
  BY SelectionAssumption DEF Found, Playlists
<1>3. \A v \in Videos: looked[v] \in Nat
  BY <1>1 DEF LookedUp
<1>4. /\ n \in [Videos -> Rows]
      /\ \A v \in Videos: n[v] \in IF found[v] < looked[v] THEN MarkedFailed(r[v]) ELSE {r[v]}
  BY DEF RowsAfter
<1> HIDE DEF looked
<1>5. ASSUME NEW v \in Videos, r[v] \in {"old", "new"} PROVE n[v] = r[v]
  <2>1. looked[v] = 0 /\ found[v] \in Nat
    BY <1>1, <1>2, <1>3, <1>5
  <2> QED
    BY <1>4, <2>1
<1>6. ASSUME NEW v \in Videos, r[v] = "none" PROVE n[v] # "lost"
  BY <1>4, <1>6 DEF MarkedFailed, NeedsUpgrade
<1>7. VideosToSync(r, ids, found) \in [Videos -> Nat]
  BY <1>2 DEF VideosToSync
<1> QED
  BY <1>4, <1>5, <1>6, <1>7

---------------------------------------------------------------------------
(* The two steps that write rows *)

\* A video that is given out is not one that is published with the new metadata.
LEMMA GivenNotDone ==
    ASSUME NEW r \in [Videos -> Rows], NEW playlist \in Playlists, NEW lastUploaded,
           NEW ids, ids = VideoIDs(r, playlist, lastUploaded),
           NEW found \in Found(LookedUp(r, ids)),
           NEW n \in RowsAfter(r, LookedUp(r, ids), found),
           NEW v \in Videos, VideosToSync(r, ids, found)[v] > 0
    PROVE  n[v] # "new"
<1> DEFINE looked == LookedUp(r, ids)
<1>1. /\ IsDone(r[v]) => ids[v] = 0
      /\ ids[v] \in Nat
  BY LookedUpType
<1>2. found[v] \in Nat /\ found[v] <= looked[v]
  BY SelectionAssumption DEF Found, Playlists
<1>3. n[v] \in MarkedFailed(r[v]) \cup {r[v]}
  BY DEF RowsAfter
<1>4. r[v] # "new"
  <2> SUFFICES ASSUME r[v] = "new" PROVE FALSE
    OBVIOUS
  <2>1. ids[v] = 0 /\ ~IsMocked(v, r, ids)
    BY <1>1 DEF IsDone, IsMocked, NeedsUpgrade
  <2>2. looked[v] = 0
    BY <2>1 DEF LookedUp
  <2>3. VideosToSync(r, ids, found)[v] = found[v]
    BY <2>1 DEF VideosToSync
  <2> HIDE DEF looked
  <2> QED
    BY <1>2, <2>2, <2>3
<1> QED
  BY <1>3, <1>4 DEF MarkedFailed

\* What the selection leaves: the head's rows, and who is given what.
LEMMA SelectStep ==
    ASSUME DbTypes, SeenTypes, HeadInv, SelectVideos
    PROVE  /\ Head(queue) \in Channels
           /\ status' \in [Channels -> Statuses]
           /\ mostRecentlyFailedChannel' \in Channels \cup {None}
           /\ pc' \in {"over", "counted", "work"}
           /\ pc' # "work" => listed' = Nothing
           /\ listed' \in [Videos -> Nat]
           /\ \E n \in [Videos -> Rows]:
                 /\ rows' = [rows EXCEPT ![Head(queue)] = n]
                 /\ \A v \in Videos:
                       rows[Head(queue)][v] \in {"old", "new"}
                          => n[v] \in {"old", "new"} \/ (RemoveDBUnpublished /\ n[v] # "lost")
                 /\ \A v \in Videos: listed'[v] > 0 => n[v] # "new"
<1> DEFINE c == Head(queue)
<1>1. c \in Channels /\ queue # <<>>
  BY HeadType DEF SelectVideos, HeadInv
<1>2. rows[c] \in [Videos -> Rows]
  BY <1>1 DEF DbTypes
<1>3. ASSUME NEW e, EndCycle(e)
      PROVE  /\ status' \in [Channels -> Statuses]
             /\ pc' \in {"over", "counted"} /\ listed' = Nothing
  BY <1>1, <1>3, EndCycleTypes
<1>4. mostRecentlyFailedChannel \in Channels \cup {None} /\ status \in [Channels -> Statuses]
  BY DEF SeenTypes, DbTypes
<1>5. PICK playlist \in Playlists, lastUploaded \in Videos \cup {None},
           r \in ReconciledRows(rows[c], RemoveDBUnpublished):
       LET ids == VideoIDs(r, playlist, lastUploaded)
           looked == LookedUp(r, ids)
       IN IF ids = Nothing /\ mostRecentlyFailedChannel = c
          THEN /\ EndCycle("other") /\ rows' = [rows EXCEPT ![c] = r]
               /\ UNCHANGED mostRecentlyFailedChannel
          ELSE /\ mostRecentlyFailedChannel' =
                      IF ids = Nothing THEN c ELSE mostRecentlyFailedChannel
               /\ \E found \in Found(looked):
                  /\ \E n \in RowsAfter(r, looked, found): rows' = [rows EXCEPT ![c] = n]
                  /\ \/ /\ Goto("work") /\ UNCHANGED status
                        /\ listed' = VideosToSync(r, ids, found)
                     \/ EndCycle("other")
                     \/ interrupted /\ EndCycle("noFail")
  BY DEF SelectVideos
<1> DEFINE ids == VideoIDs(r, playlist, lastUploaded)
           looked == LookedUp(r, ids)
<1>6. /\ r \in [Videos -> Rows]
      /\ \A v \in Videos: rows[c][v] \in {"old", "new"}
            => r[v] \in {"old", "new"} \/ (RemoveDBUnpublished /\ r[v] = "none")
  BY <1>2, ReconciledKeeps DEF ReconciledRows
<1>n. Nothing \in [Videos -> Nat] /\ \A v \in Videos: ~(Nothing[v] > 0)
  BY NothingType DEF Nothing
<1>7. CASE ids = Nothing /\ mostRecentlyFailedChannel = c
  <2>1. /\ EndCycle("other") /\ rows' = [rows EXCEPT ![c] = r]
        /\ UNCHANGED mostRecentlyFailedChannel
    BY <1>5, <1>7
  <2>2. /\ status' \in [Channels -> Statuses]
        /\ pc' \in {"over", "counted"} /\ listed' = Nothing
    BY <1>3, <2>1
  <2> HIDE DEF c, ids, looked
  <2>3. \A v \in Videos: rows[c][v] \in {"old", "new"}
            => r[v] \in {"old", "new"} \/ (RemoveDBUnpublished /\ r[v] # "lost")
    BY <1>6
  <2> QED
    BY <1>1, <1>4, <1>6, <1>n, <2>1, <2>2, <2>3 DEF c
<1>8. CASE ~(ids = Nothing /\ mostRecentlyFailedChannel = c)
  <2>1. PICK found \in Found(looked):
           /\ \E n \in RowsAfter(r, looked, found): rows' = [rows EXCEPT ![c] = n]
           /\ \/ /\ Goto("work") /\ UNCHANGED status
                 /\ listed' = VideosToSync(r, ids, found)
              \/ EndCycle("other")
              \/ interrupted /\ EndCycle("noFail")
    BY <1>5, <1>8
  <2>2. PICK n \in RowsAfter(r, looked, found): rows' = [rows EXCEPT ![c] = n]
    BY <2>1
  <2>3. mostRecentlyFailedChannel' \in Channels \cup {None}
    <3>1. mostRecentlyFailedChannel' = IF ids = Nothing THEN c ELSE mostRecentlyFailedChannel
      BY <1>5, <1>8
    <3> HIDE DEF c, ids
    <3> QED
      BY <3>1, <1>1, <1>4
  <2>4. /\ n \in [Videos -> Rows]
        /\ \A v \in Videos: r[v] \in {"old", "new"} => n[v] = r[v]
        /\ \A v \in Videos: r[v] = "none" => n[v] # "lost"
        /\ VideosToSync(r, ids, found) \in [Videos -> Nat]
    BY <1>6, SelectionResult
  <2>5. \A v \in Videos: VideosToSync(r, ids, found)[v] > 0 => n[v] # "new"
    BY <1>6, GivenNotDone
  <2>6. \A v \in Videos: rows[c][v] \in {"old", "new"}
            => n[v] \in {"old", "new"} \/ (RemoveDBUnpublished /\ n[v] # "lost")
    BY <1>6, <2>4
  <2>7. \/ /\ Goto("work") /\ UNCHANGED status
           /\ listed' = VideosToSync(r, ids, found)
        \/ EndCycle("other") \/ EndCycle("noFail")
    BY <2>1
  <2> HIDE DEF c, ids, looked
  <2>8. CASE /\ Goto("work") /\ UNCHANGED status
             /\ listed' = VideosToSync(r, ids, found)
    <3>1. pc' = "work" /\ status' \in [Channels -> Statuses]
      BY <2>8, <1>4 DEF Goto
    <3> QED
      BY <1>1, <2>2, <2>3, <2>4, <2>5, <2>6, <2>8, <3>1 DEF c
  <2>9. CASE EndCycle("other") \/ EndCycle("noFail")
    <3>1. /\ status' \in [Channels -> Statuses]
          /\ pc' \in {"over", "counted"} /\ listed' = Nothing
      BY <1>3, <2>9
    <3> QED
      BY <1>1, <1>n, <2>2, <2>3, <2>4, <2>6, <2>9, <3>1 DEF c
  <2> QED
    BY <2>7, <2>8, <2>9
<1> QED
  BY <1>7, <1>8

\* What the workers leave: only rows of videos they were given are other ones.
LEMMA ProcessStep ==
    ASSUME DbTypes, SeenTypes, HeadInv, ProcessVideos
    PROVE  /\ Head(queue) \in Channels
           /\ status' \in [Channels -> Statuses]
           /\ pc' \in {"over", "counted"} /\ listed' = Nothing
           /\ \E n \in [Videos -> Rows]:
                 /\ rows' = [rows EXCEPT ![Head(queue)] = n]
                 /\ \A v \in Videos:
                       \/ n[v] = rows[Head(queue)][v]
                       \/ /\ listed[v] > 0
                          /\ n[v] \in Outcomes(rows[Head(queue)][v], UpgradeMetadata)
<1>1. Head(queue) \in Channels /\ queue # <<>>
  BY HeadType DEF ProcessVideos, HeadInv
<1>2. PICK e \in Errors: EndCycle(e)
  BY DEF ProcessVideos
<1>3. /\ status' \in [Channels -> Statuses]
      /\ pc' \in {"over", "counted"} /\ listed' = Nothing
  BY <1>1, <1>2, EndCycleTypes
<1>4. PICK n \in [Videos -> Rows]:
         /\ \A v \in Videos: n[v] \in IF listed[v] > 0
                                      THEN Outcomes(rows[Head(queue)][v], UpgradeMetadata)
                                      ELSE {rows[Head(queue)][v]}
         /\ rows' = [rows EXCEPT ![Head(queue)] = n]
  BY DEF ProcessVideos
<1>5. \A v \in Videos: \/ n[v] = rows[Head(queue)][v]
                       \/ /\ listed[v] > 0
                          /\ n[v] \in Outcomes(rows[Head(queue)][v], UpgradeMetadata)
  BY <1>4
<1> QED
  BY <1>1, <1>3, <1>4, <1>5

\* What a cycle that fails before the selection leaves.
LEMMA FailStep ==
    ASSUME DbTypes, SeenTypes, HeadInv, FailEarly
    PROVE  /\ Head(queue) \in Channels
           /\ status' \in [Channels -> Statuses]
           /\ pc' \in {"over", "counted"} /\ listed' = Nothing
           /\ \E n \in [Videos -> Rows]:
                 /\ rows' = [rows EXCEPT ![Head(queue)] = n]
                 /\ \A v \in Videos:
                       rows[Head(queue)][v] \in {"old", "new"}
                          => n[v] \in {"old", "new"} \/ (RemoveDBUnpublished /\ n[v] = "none")
<1>1. Head(queue) \in Channels /\ queue # <<>>
  BY HeadType DEF FailEarly, HeadInv
<1>2. rows[Head(queue)] \in [Videos -> Rows]
  BY <1>1 DEF DbTypes
<1>3. PICK e \in Errors: EndCycle(e)
  BY DEF FailEarly
<1>4. /\ status' \in [Channels -> Statuses]
      /\ pc' \in {"over", "counted"} /\ listed' = Nothing
  BY <1>1, <1>3, EndCycleTypes
<1>5. PICK n \in PartlyReconciled(rows[Head(queue)], RemoveDBUnpublished):
         rows' = [rows EXCEPT ![Head(queue)] = n]
  BY DEF FailEarly
<1>6. /\ n \in [Videos -> Rows]
      /\ \A v \in Videos: rows[Head(queue)][v] \in {"old", "new"}
            => n[v] \in {"old", "new"} \/ (RemoveDBUnpublished /\ n[v] = "none")
  BY <1>2, ReconciledKeeps DEF PartlyReconciled
<1> QED
  BY <1>1, <1>4, <1>5, <1>6

---------------------------------------------------------------------------
(* The invariant is inductive: one lemma per part *)

LEMMA DbNext == DbTypes /\ SeenTypes /\ HeadInv /\ [Next]_vars => DbTypes'
<1> SUFFICES ASSUME DbTypes, SeenTypes, HeadInv, [Next]_vars PROVE DbTypes'
  OBVIOUS
<1>a. ASSUME UNCHANGED <<status, rows, listed>> PROVE DbTypes'
  BY <1>a DEF DbTypes
<1>b. ASSUME UNCHANGED <<rows, listed>>, status' \in [Channels -> Statuses] PROVE DbTypes'
  BY <1>b DEF DbTypes
<1>c. Nothing \in [Videos -> Nat]
  BY NothingType
<1>d. \A ch \in Channels, x \in Statuses: [status EXCEPT ![ch] = x] \in [Channels -> Statuses]
  BY DEF DbTypes
<1>e. "failed" \in Statuses /\ "syncing" \in Statuses /\ "queued" \in Statuses
  BY DEF Statuses
<1>1. ASSUME StartRound \/ EndRound \/ Update \/ NextChannel \/ FailReflection \/ Interrupt
                 \/ Freeze \/ Over \/ UNCHANGED vars
      PROVE  DbTypes'
  BY <1>1, <1>a DEF StartRound, EndRound, Update, NextChannel, FailReflection, Interrupt,
                    Freeze, Over, vars, db
<1>2. CASE StopLooping
  <2>1. Head(queue) \in Channels
    BY <1>2, HeadType DEF StopLooping
  <2>2. status' \in [Channels -> Statuses]
    BY <1>2, <1>d, <1>e, <2>1 DEF StopLooping, DbTypes
  <2> QED
    BY <1>2, <1>b, <2>2 DEF StopLooping
<1>3. CASE BeginCycle
  <2>1. Head(queue) \in Channels
    BY <1>3, HeadType DEF BeginCycle
  <2>2. status' \in {status, [status EXCEPT ![Head(queue)] = "syncing"]}
    BY <1>3 DEF BeginCycle
  <2>3. status' \in [Channels -> Statuses]
    BY <1>d, <1>e, <2>1, <2>2 DEF DbTypes
  <2> QED
    BY <1>3, <1>b, <2>3 DEF BeginCycle
<1>4. CASE FailEarly
  <2>1. PICK n \in [Videos -> Rows]: rows' = [rows EXCEPT ![Head(queue)] = n]
    BY <1>4, FailStep
  <2>2. rows' \in [Channels -> [Videos -> Rows]]
    BY <2>1 DEF DbTypes
  <2>3. status' \in [Channels -> Statuses] /\ listed' = Nothing
    BY <1>4, FailStep
  <2> QED
    BY <2>2, <2>3, <1>c DEF DbTypes
<1>5. CASE SelectVideos
  <2>1. PICK n \in [Videos -> Rows]: rows' = [rows EXCEPT ![Head(queue)] = n]
    BY <1>5, SelectStep
  <2>2. rows' \in [Channels -> [Videos -> Rows]]
    BY <2>1 DEF DbTypes
  <2>3. /\ status' \in [Channels -> Statuses]
        /\ listed' \in [Videos -> Nat]
    BY <1>5, SelectStep
  <2> QED
    BY <2>2, <2>3 DEF DbTypes
<1>6. CASE ProcessVideos
  <2>1. PICK n \in [Videos -> Rows]: rows' = [rows EXCEPT ![Head(queue)] = n]
    BY <1>6, ProcessStep
  <2>2. rows' \in [Channels -> [Videos -> Rows]]
    BY <2>1 DEF DbTypes
  <2>3. status' \in [Channels -> Statuses] /\ listed' = Nothing
    BY <1>6, ProcessStep
  <2> QED
    BY <2>2, <2>3, <1>c DEF DbTypes
<1>7. CASE Restart
  BY <1>7, <1>c DEF Restart, DbTypes, db
<1>8. ASSUME NEW ch \in Channels, Requeue(ch) PROVE DbTypes'
  BY <1>8, <1>b, <1>d, <1>e DEF Requeue
<1> QED
  BY <1>1, <1>2, <1>3, <1>4, <1>5, <1>6, <1>7, <1>8 DEF Next, Manager

LEMMA ProcessNext == DbTypes /\ ProcessTypes /\ SeenTypes /\ HeadInv /\ [Next]_vars => ProcessTypes'
<1> SUFFICES ASSUME DbTypes, ProcessTypes, SeenTypes, HeadInv, [Next]_vars PROVE ProcessTypes'
  OBVIOUS
<1>a. ASSUME UNCHANGED <<mode, starts, frozen, made, shouldInterrupt, interrupted>>,
             pc' \in Places
      PROVE  ProcessTypes'
  BY <1>a DEF ProcessTypes
<1>b. ASSUME UNCHANGED <<mode, starts, frozen, made, interrupted>>,
             shouldInterrupt' \in BOOLEAN, pc' \in Places
      PROVE  ProcessTypes'
  BY <1>b DEF ProcessTypes
<1>c. pc \in Places /\ shouldInterrupt \in BOOLEAN
  BY DEF ProcessTypes
<1>d. \A l: l \in {"top", "loop", "cycle", "work", "counted", "notCounted", "over"} => l \in Places
  BY DEF Places
<1>1. ASSUME EndRound \/ StopLooping \/ BeginCycle \/ FailReflection \/ Over
                 \/ UNCHANGED vars
      PROVE  ProcessTypes'
  BY <1>1, <1>a, <1>c, <1>d DEF EndRound, StopLooping, BeginCycle, FailReflection, Over, vars,
                                file, Goto
<1>2. CASE StartRound
  <2>1. shouldInterrupt' \in BOOLEAN
    BY <1>2 DEF StartRound
  <2>2. pc' \in Places /\ UNCHANGED <<mode, starts, frozen, made, interrupted>>
    BY <1>2, <1>d DEF StartRound, Goto, file
  <2> QED
    BY <2>1, <2>2, <1>b
<1>3. CASE Update
  BY <1>3, <1>b, <1>d DEF Update, Goto, file
<1>4. CASE NextChannel
  <2>1. shouldInterrupt' \in BOOLEAN
    BY <1>4, <1>c DEF NextChannel
  <2>2. pc' \in Places
    BY <1>4, <1>d DEF NextChannel, Goto
  <2>3. UNCHANGED <<mode, starts, frozen, made, interrupted>>
    BY <1>4 DEF NextChannel, file
  <2> QED
    BY <2>1, <2>2, <2>3, <1>b
<1>5. CASE FailEarly
  <2>1. queue # <<>>
    BY <1>5 DEF FailEarly, HeadInv
  <2>2. pc' \in Places
    BY <1>5, <2>1, <1>d, EndCycleTypes DEF FailEarly
  <2>3. UNCHANGED <<mode, starts, frozen, made, shouldInterrupt, interrupted>>
    BY <1>5 DEF FailEarly, file
  <2> QED
    BY <2>2, <2>3, <1>a
<1>6. CASE SelectVideos
  <2>1. pc' \in Places
    BY <1>6, <1>d, SelectStep
  <2>2. UNCHANGED <<mode, starts, frozen, made, shouldInterrupt, interrupted>>
    BY <1>6 DEF SelectVideos, file
  <2> QED
    BY <2>1, <2>2, <1>a
<1>7. CASE ProcessVideos
  <2>1. pc' \in Places
    BY <1>7, <1>d, ProcessStep
  <2>2. UNCHANGED <<mode, starts, frozen, made, shouldInterrupt, interrupted>>
    BY <1>7 DEF ProcessVideos, file
  <2> QED
    BY <2>1, <2>2, <1>a
<1>8. CASE Interrupt
  <2>1. interrupted' \in BOOLEAN
    BY <1>8 DEF Interrupt
  <2> QED
    BY <1>8, <2>1 DEF Interrupt, file, ProcessTypes
<1>9. CASE Freeze
  <2>1. frozen' \in BOOLEAN
    BY <1>9 DEF Freeze
  <2>2. made' \in 0 .. MaxFreezes
    <3>1. made \in 0 .. MaxFreezes
      BY DEF ProcessTypes
    <3>2. made' \in {made, made + 1} /\ made' <= MaxFreezes
      BY <1>9 DEF Freeze
    <3> QED
      BY <3>1, <3>2, QueueAssumption
  <2>3. UNCHANGED <<mode, starts, shouldInterrupt, interrupted, pc>>
    BY <1>9 DEF Freeze
  <2> QED
    BY <2>1, <2>2, <2>3 DEF ProcessTypes
<1>10. CASE Restart
  <2>1. starts' \in 1 .. MaxStarts
    BY <1>10, QueueAssumption DEF Restart, ProcessTypes
  <2>2. shouldInterrupt' \in BOOLEAN /\ interrupted' \in BOOLEAN
    BY <1>10 DEF Restart
  <2>3. mode' \in Modes /\ pc' \in Places /\ UNCHANGED <<frozen, made>>
    BY <1>10, <1>d DEF Restart, file
  <2> QED
    BY <2>1, <2>2, <2>3 DEF ProcessTypes
<1>11. ASSUME NEW ch \in Channels, Requeue(ch) PROVE ProcessTypes'
  BY <1>11, <1>a, <1>c DEF Requeue, file
<1> QED
  BY <1>1, <1>2, <1>3, <1>4, <1>5, <1>6, <1>7, <1>8, <1>9, <1>10, <1>11 DEF Next, Manager

LEMMA SeenNext == DbTypes /\ SeenTypes /\ HeadInv /\ [Next]_vars => SeenTypes'
<1> SUFFICES ASSUME DbTypes, SeenTypes, HeadInv, [Next]_vars PROVE SeenTypes'
  OBVIOUS
<1>a. ASSUME UNCHANGED <<seen, syncCount, hist>>, queue' \in Seq(Channels) PROVE SeenTypes'
  BY <1>a DEF SeenTypes, seen, hist
<1>b. queue \in Seq(Channels) /\ <<>> \in Seq(Channels)
  BY EmptySeq DEF SeenTypes
<1>1. ASSUME EndRound \/ FailEarly \/ ProcessVideos \/ Interrupt \/ Freeze \/ Over
                 \/ UNCHANGED vars
      PROVE  SeenTypes'
  BY <1>1, <1>a, <1>b DEF EndRound, FailEarly, ProcessVideos, Interrupt, Freeze, Over, vars
<1>2. CASE StartRound
  BY <1>2, <1>a, <1>b, EnqueuedType DEF StartRound
<1>3. CASE Update \/ FailReflection
  BY <1>3, <1>a, <1>b DEF Update, FailReflection
<1>4. CASE StopLooping
  BY <1>4, <1>a, HeadType DEF StopLooping
<1>5. CASE BeginCycle
  <2>1. Head(queue) \in Channels
    BY <1>5, HeadType DEF BeginCycle
  <2>2. /\ lastChannelProcessed' = Head(queue)
        /\ secondLastChannelProcessed' = lastChannelProcessed
        /\ streak' \in {streak + 1, 1} /\ after' \in {after, after + 1}
    BY <1>5 DEF BeginCycle, Remember
  <2>3. UNCHANGED <<mostRecentlyFailedChannel, queue, syncCount, freezes>>
    BY <1>5 DEF BeginCycle
  <2>4. streak' \in Nat /\ after' \in Nat
    BY <2>2 DEF SeenTypes
  <2> QED
    BY <2>1, <2>2, <2>3, <2>4 DEF SeenTypes
<1>6. CASE SelectVideos
  <2>1. mostRecentlyFailedChannel' \in Channels \cup {None}
    BY <1>6, SelectStep
  <2> QED
    BY <1>6, <2>1 DEF SelectVideos, SeenTypes, hist
<1>7. CASE NextChannel
  <2>1. queue # <<>>
    BY <1>7 DEF NextChannel, HeadInv
  <2>2. queue' \in Seq(Channels)
    BY <1>7, <1>b, <2>1, HeadType DEF NextChannel
  <2>3. syncCount' \in Nat /\ freezes' \in Nat
    BY <1>7 DEF NextChannel, SeenTypes
  <2> QED
    BY <1>7, <2>2, <2>3 DEF NextChannel, SeenTypes, seen
<1>8. CASE Restart
  BY <1>8, <1>b DEF Restart, SeenTypes
<1>9. ASSUME NEW ch \in Channels, Requeue(ch) PROVE SeenTypes'
  BY <1>9, <1>a, <1>b DEF Requeue
<1> QED
  BY <1>1, <1>2, <1>3, <1>4, <1>5, <1>6, <1>7, <1>8, <1>9 DEF Next, Manager

LEMMA HeadNext == DbTypes /\ SeenTypes /\ HeadInv /\ [Next]_vars => HeadInv'
<1> SUFFICES ASSUME DbTypes, SeenTypes, HeadInv, [Next]_vars PROVE HeadInv'
  OBVIOUS
<1>a. ASSUME UNCHANGED <<pc, queue>> PROVE HeadInv'
  BY <1>a DEF HeadInv
<1>1. ASSUME StartRound \/ EndRound \/ Update \/ StopLooping \/ NextChannel \/ FailReflection
                 \/ Restart
      PROVE  HeadInv'
  BY <1>1 DEF StartRound, EndRound, Update, StopLooping, NextChannel, FailReflection, Restart,
              Goto, HeadInv
<1>2. CASE BeginCycle \/ SelectVideos \/ ProcessVideos \/ FailEarly
  BY <1>2 DEF BeginCycle, SelectVideos, ProcessVideos, FailEarly, HeadInv
<1>3. ASSUME Interrupt \/ Freeze \/ Over \/ UNCHANGED vars PROVE HeadInv'
  BY <1>3, <1>a DEF Interrupt, Freeze, Over, vars
<1>4. ASSUME NEW ch \in Channels, Requeue(ch) PROVE HeadInv'
  BY <1>4, <1>a DEF Requeue
<1> QED
  BY <1>1, <1>2, <1>3, <1>4 DEF Next, Manager

LEMMA StreakNext == SeenTypes /\ StreakInv /\ [Next]_vars => StreakInv'
<1> SUFFICES ASSUME SeenTypes, StreakInv, [Next]_vars PROVE StreakInv'
  OBVIOUS
<1>a. ASSUME UNCHANGED <<streak, lastChannelProcessed, secondLastChannelProcessed>>
      PROVE  StreakInv'
  BY <1>a DEF StreakInv
<1>1. ASSUME StartRound \/ EndRound \/ Update \/ StopLooping \/ FailEarly \/ ProcessVideos
                 \/ NextChannel \/ FailReflection \/ Interrupt \/ Freeze \/ Over
                 \/ UNCHANGED vars
      PROVE  StreakInv'
  BY <1>1, <1>a DEF StartRound, EndRound, Update, StopLooping, FailEarly, ProcessVideos,
                    NextChannel, FailReflection, Interrupt, Freeze, Over, vars, seen, hist
<1>2. CASE SelectVideos
  BY <1>2, <1>a DEF SelectVideos, hist
<1>3. CASE BeginCycle
  <2> DEFINE c == Head(queue)
  <2>1. /\ lastChannelProcessed' = c /\ secondLastChannelProcessed' = lastChannelProcessed
        /\ streak' = IF c = lastChannelProcessed THEN streak + 1 ELSE 1
        /\ ~(lastChannelProcessed = c /\ secondLastChannelProcessed = lastChannelProcessed)
    BY <1>3 DEF BeginCycle, Remember, IsLooping
  <2> HIDE DEF c
  <2>2. streak \in Nat
    BY DEF SeenTypes
  <2>3. CASE c = lastChannelProcessed
    BY <2>1, <2>2, <2>3 DEF StreakInv
  <2>4. CASE c # lastChannelProcessed
    BY <2>1, <2>4 DEF StreakInv
  <2> QED
    BY <2>3, <2>4
<1>4. CASE Restart
  BY <1>4 DEF Restart, StreakInv
<1>5. ASSUME NEW ch \in Channels, Requeue(ch) PROVE StreakInv'
  BY <1>5, <1>a DEF Requeue, seen, hist
<1> QED
  BY <1>1, <1>2, <1>3, <1>4, <1>5 DEF Next, Manager

LEMMA LimitNext == ProcessTypes /\ SeenTypes /\ LimitInv /\ [Next]_vars => LimitInv'
<1> SUFFICES ASSUME ProcessTypes, SeenTypes, LimitInv, [Next]_vars PROVE LimitInv'
  OBVIOUS
<1>a. ASSUME UNCHANGED <<syncCount, freezes>>, pc # "over" \/ pc' = "over" PROVE LimitInv'
  BY <1>a DEF LimitInv
<1>b. Limit \in Nat /\ syncCount \in Nat /\ freezes \in Nat
  BY QueueAssumption DEF SeenTypes
<1>1. ASSUME StartRound \/ EndRound \/ Update \/ StopLooping \/ BeginCycle \/ FailEarly
                 \/ SelectVideos \/ ProcessVideos \/ FailReflection \/ Interrupt
      PROVE  LimitInv'
  BY <1>1, <1>a DEF StartRound, EndRound, Update, StopLooping, BeginCycle, FailEarly,
                    SelectVideos, ProcessVideos, FailReflection, Interrupt, hist
<1>2. ASSUME Freeze \/ Over \/ UNCHANGED vars PROVE LimitInv'
  BY <1>2, <1>a DEF Freeze, Over, vars, hist
<1>3. CASE NextChannel
  <2>1. syncCount' \in {syncCount, syncCount + 1} /\ pc # "over"
    BY <1>3 DEF NextChannel
  <2>2. CASE frozen
    BY <1>3, <1>b, <2>1, <2>2 DEF NextChannel, LimitInv
  <2>3. CASE ~frozen
    <3>1. freezes' = freezes /\ (pc' # "over" => ~ReachedLimit(syncCount'))
      BY <1>3, <2>3 DEF NextChannel, EndsProcess, Goto
    <3> QED
      BY <1>b, <2>1, <3>1 DEF LimitInv, ReachedLimit
  <2> QED
    BY <2>2, <2>3
<1>4. CASE Restart
  BY <1>4, <1>b DEF Restart, LimitInv
<1>5. ASSUME NEW ch \in Channels, Requeue(ch) PROVE LimitInv'
  BY <1>5, <1>a DEF Requeue, hist
<1> QED
  BY <1>1, <1>2, <1>3, <1>4, <1>5 DEF Next, Manager

LEMMA InterruptNext == ProcessTypes /\ SeenTypes /\ InterruptInv /\ [Next]_vars => InterruptInv'
<1> SUFFICES ASSUME ProcessTypes, SeenTypes, InterruptInv, [Next]_vars PROVE InterruptInv'
  OBVIOUS
<1>a. ASSUME UNCHANGED <<interrupted, freezes, after>>,
             pc \in {"top", "loop"} \/ pc' \notin {"top", "loop"}
      PROVE  InterruptInv'
  BY <1>a DEF InterruptInv
<1>b. after \in Nat /\ freezes \in Nat
  BY DEF SeenTypes
<1>1. ASSUME StartRound \/ EndRound \/ Update \/ StopLooping \/ FailReflection
      PROVE  InterruptInv'
  BY <1>1, <1>a DEF StartRound, EndRound, Update, StopLooping, FailReflection, Goto, hist
<1>2. CASE FailEarly \/ SelectVideos \/ ProcessVideos
  <2>1. pc' \notin {"top", "loop"}
    BY <1>2 DEF FailEarly, SelectVideos, ProcessVideos, EndCycle, Goto
  <2> QED
    BY <1>2, <1>a, <2>1 DEF FailEarly, SelectVideos, ProcessVideos, hist
<1>3. CASE BeginCycle
  <2>1. /\ pc = "loop" /\ pc' \notin {"top", "loop"}
        /\ UNCHANGED <<interrupted, freezes>>
        /\ after' = IF interrupted THEN after + 1 ELSE after
    BY <1>3 DEF BeginCycle, Goto
  <2> QED
    BY <1>b, <2>1 DEF InterruptInv
<1>4. CASE NextChannel
  <2>1. UNCHANGED <<interrupted, after>>
    BY <1>4 DEF NextChannel
  <2>2. CASE frozen
    BY <1>4, <1>b, <2>1, <2>2 DEF NextChannel, InterruptInv
  <2>3. CASE ~frozen
    <3>1. freezes' = freezes /\ (interrupted => pc' = "over")
      BY <1>4, <2>3 DEF NextChannel, EndsProcess, Goto
    <3> QED
      BY <2>1, <3>1 DEF InterruptInv
  <2> QED
    BY <2>2, <2>3
<1>5. CASE Interrupt
  BY <1>5 DEF Interrupt, InterruptInv, hist
<1>6. CASE Restart
  BY <1>6 DEF Restart, InterruptInv
<1>7. ASSUME Freeze \/ Over \/ UNCHANGED vars PROVE InterruptInv'
  BY <1>7, <1>a DEF Freeze, Over, vars, hist
<1>8. ASSUME NEW ch \in Channels, Requeue(ch) PROVE InterruptInv'
  BY <1>8, <1>a DEF Requeue, hist
<1> QED
  BY <1>1, <1>2, <1>3, <1>4, <1>5, <1>6, <1>7, <1>8 DEF Next, Manager

LEMMA GivenNext ==
    DbTypes /\ SeenTypes /\ HeadInv /\ GivenInv /\ [Next]_vars => GivenInv'
<1> SUFFICES ASSUME DbTypes, SeenTypes, HeadInv, GivenInv, [Next]_vars PROVE GivenInv'
  OBVIOUS
<1>a. ASSUME UNCHANGED <<listed, rows, queue, pc>> PROVE GivenInv'
  BY <1>a DEF GivenInv
<1>b. ASSUME listed' = Nothing PROVE GivenInv'
  BY <1>b DEF GivenInv, Nothing
<1>1. ASSUME StartRound \/ EndRound \/ Update \/ StopLooping \/ BeginCycle \/ NextChannel
                 \/ FailReflection
      PROVE  GivenInv'
  <2>1. pc # "work" /\ listed' = listed
    BY <1>1 DEF StartRound, EndRound, Update, StopLooping, BeginCycle, NextChannel,
                FailReflection
  <2> QED
    BY <1>b, <2>1 DEF GivenInv
<1>2. CASE FailEarly
  BY <1>2, <1>b, FailStep
<1>3. CASE ProcessVideos
  BY <1>3, <1>b, ProcessStep
<1>4. CASE SelectVideos
  <2>1. /\ Head(queue) \in Channels
        /\ pc' # "work" => listed' = Nothing
    BY <1>4, SelectStep
  <2>2. PICK n \in [Videos -> Rows]: /\ rows' = [rows EXCEPT ![Head(queue)] = n]
                                     /\ \A v \in Videos: listed'[v] > 0 => n[v] # "new"
    BY <1>4, SelectStep
  <2>3. queue' = queue
    BY <1>4 DEF SelectVideos
  <2>4. rows'[Head(queue)'] = n
    BY <2>1, <2>2, <2>3 DEF DbTypes
  <2> QED
    BY <2>1, <2>2, <2>4 DEF GivenInv
<1>5. CASE Restart
  BY <1>5, <1>b DEF Restart
<1>6. ASSUME Interrupt \/ Freeze \/ Over \/ UNCHANGED vars PROVE GivenInv'
  BY <1>6, <1>a DEF Interrupt, Freeze, Over, vars, db
<1>7. ASSUME NEW ch \in Channels, Requeue(ch) PROVE GivenInv'
  BY <1>7, <1>a DEF Requeue
<1> QED
  BY <1>1, <1>2, <1>3, <1>4, <1>5, <1>6, <1>7 DEF Next, Manager

---------------------------------------------------------------------------
(* The theorems *)

\* The manager's loop keeps its types and the inductive invariant, whatever the flags,
\* the files and the signals (manager.go:41-203).
THEOREM QueueInvariant == Spec => [](TypeOK /\ QueueInv)
<1>1. Init => QueueInv
  BY QueueAssumption DEF Init, Fresh, QueueInv, HeadInv, StreakInv, LimitInv, InterruptInv,
                         GivenInv, Nothing
<1>2. TypeOK /\ QueueInv /\ [Next]_vars => (TypeOK /\ QueueInv)'
  <2>1. TypeOK /\ QueueInv /\ [Next]_vars => DbTypes' /\ ProcessTypes' /\ SeenTypes'
    BY TypeParts, DbNext, ProcessNext, SeenNext DEF QueueInv
  <2>2. TypeOK /\ QueueInv /\ [Next]_vars => QueueInv'
    BY TypeParts, HeadNext, StreakNext, LimitNext, InterruptNext, GivenNext DEF QueueInv
  <2> QED
    BY <2>1, <2>2, TypeParts, PTL
<1> QED
  BY TypeInit, <1>1, <1>2, PTL DEF Spec

\* The variables of the manager and of the database keep their types.
THEOREM QueueTypes == Spec => []TypeOK
BY QueueInvariant, PTL

\* No process cycles a channel three times in a row (manager.go:131-138).
THEOREM LoopsEnd == Spec => []NeverThreeTimes
<1>1. QueueInv => NeverThreeTimes
  BY DEF QueueInv, StreakInv, NeverThreeTimes
<1> QED
  BY QueueInvariant, <1>1, PTL

\* --limit is kept but for one cycle per .freeze (manager.go:179-186).
THEOREM LimitIsKept == Spec => []LimitKept
<1>1. QueueInv => LimitKept
  BY DEF QueueInv, LimitInv, LimitKept
<1> QED
  BY QueueInvariant, <1>1, PTL

\* No cycle begins after an interrupt, but for one per .freeze (ytsync.go:199,
\* manager.go:179-186).
THEOREM InterruptStops == Spec => []InterruptIsLast
<1>1. QueueInv => InterruptIsLast
  BY DEF QueueInv, InterruptInv, InterruptIsLast
<1> QED
  BY QueueInvariant, <1>1, PTL

\* A video that is published stays so in the database but for an upgrade by the workers
\* and the removal by --remove-db-unpublished: the look-up marks no published video, and
\* the workers get none that has the new metadata (ytapi.go:215-231, ytsync.go:699-712,
\* 954).
THEOREM PublishedStays == Spec => PublishedStaysPublished
<1> DEFINE Kept ==
      \A c \in Channels, v \in Videos:
          rows[c][v] \in {"old", "new"} /\ rows'[c][v] \notin {"old", "new", "upgradefailed"}
              => \/ pc = "work" /\ UpgradeMetadata /\ rows[c][v] = "old"
                 \/ pc = "cycle" /\ RemoveDBUnpublished /\ rows'[c][v] # "lost"
<1>1. TypeOK /\ QueueInv /\ Next => Kept
  <2> SUFFICES ASSUME DbTypes, ProcessTypes, SeenTypes, HeadInv, GivenInv, Next,
                      NEW c \in Channels, NEW v \in Videos, rows[c][v] \in {"old", "new"},
                      rows'[c][v] \notin {"old", "new", "upgradefailed"}
               PROVE  \/ pc = "work" /\ UpgradeMetadata /\ rows[c][v] = "old"
                      \/ pc = "cycle" /\ RemoveDBUnpublished /\ rows'[c][v] # "lost"
    BY TypeParts DEF QueueInv
  <2>a. rows' # rows
    OBVIOUS
  <2>1. FailEarly \/ SelectVideos \/ ProcessVideos
    BY <2>a DEF Next, Manager, StartRound, EndRound, Update, StopLooping, BeginCycle,
                NextChannel, FailReflection, Interrupt, Freeze, Restart, Over, Requeue, db,
                vars
  <2>2. CASE SelectVideos \/ FailEarly
    <3>1. PICK n \in [Videos -> Rows]:
             /\ rows' = [rows EXCEPT ![Head(queue)] = n]
             /\ \A w \in Videos: rows[Head(queue)][w] \in {"old", "new"}
                    => n[w] \in {"old", "new"} \/ (RemoveDBUnpublished /\ n[w] # "lost")
      <4>1. CASE SelectVideos
        BY <4>1, SelectStep
      <4>2. CASE FailEarly
        <5>1. PICK n \in [Videos -> Rows]:
                 /\ rows' = [rows EXCEPT ![Head(queue)] = n]
                 /\ \A w \in Videos: rows[Head(queue)][w] \in {"old", "new"}
                        => n[w] \in {"old", "new"} \/ (RemoveDBUnpublished /\ n[w] = "none")
          BY <4>2, FailStep
        <5> QED
          BY <5>1
      <4> QED
        BY <2>2, <4>1, <4>2
    <3>2. c = Head(queue) /\ rows'[c][v] = n[v]
      BY <3>1 DEF DbTypes
    <3>3. RemoveDBUnpublished /\ rows'[c][v] # "lost"
      BY <3>1, <3>2
    <3>4. pc = "cycle"
      BY <2>2 DEF SelectVideos, FailEarly
    <3> QED
      BY <3>3, <3>4
  <2>3. CASE ProcessVideos
    <3>1. PICK n \in [Videos -> Rows]:
             /\ rows' = [rows EXCEPT ![Head(queue)] = n]
             /\ \A w \in Videos:
                   \/ n[w] = rows[Head(queue)][w]
                   \/ /\ listed[w] > 0
                      /\ n[w] \in Outcomes(rows[Head(queue)][w], UpgradeMetadata)
      BY <2>3, ProcessStep
    <3>2. c = Head(queue) /\ rows'[c][v] = n[v]
      BY <3>1 DEF DbTypes
    <3>3. listed[v] > 0
      BY <3>1, <3>2
    <3>4. rows[c][v] = "old"
      BY <3>2, <3>3 DEF GivenInv
    <3>5. rows'[c][v] \in Outcomes("old", UpgradeMetadata)
      BY <3>1, <3>2, <3>4
    <3>6. UpgradeMetadata
      BY <3>4, <3>5, QueueAssumption DEF Outcomes, NeedsUpgrade
    <3> QED
      BY <2>3, <3>4, <3>6 DEF ProcessVideos
  <2> QED
    BY <2>1, <2>2, <2>3
<1>2. TypeOK /\ QueueInv /\ [Next]_vars => [Kept]_vars
  BY <1>1
<1> QED
  BY QueueInvariant, <1>2, PTL DEF Spec, PublishedStaysPublished
=============================================================================
