--------------------------- MODULE TransferProofs ---------------------------
(***************************************************************************)
(* Proofs about Transfer, for any number of videos, supports, workers and  *)
(* runs: the channel waits for every update, only a lost claim stops the   *)
(* producer, no more is tipped than was released, and the whole transfer   *)
(* implements Handover.                                                    *)
(***************************************************************************)
EXTENDS Transfer, FiniteSetTheorems, SequenceTheorems, TLAPS

LEMMA WorkersSize == Cardinality(Workers) \in Nat /\ Cardinality(Workers) > 0
<1>1. IsFiniteSet(Workers) /\ Workers # {}
  BY TransferAssumption
<1>2. Cardinality(Workers) \in Nat /\ Cardinality(Workers) # 0
  BY <1>1, FS_CardinalityType, FS_EmptySet
<1> QED
  BY <1>2

---------------------------------------------------------------------------
(* The inductive invariant, in parts *)

\* The places of a run before, in and after the pool of workers.
Preparing == {"confirm", "abandon", "list"}
HandingOver == {"channel", "tip"}

\* Workers are there only while the videos are transferred, an update is for a video,
\* and an answer is kept only until the row is written.
WorkersInv ==
    \A w \in Workers:
        /\ run # "videos" => pc[w] = "done"
        /\ pc[w] \in {"update", "mark"} <=> job[w] \in Videos
        /\ moved[w] \/ erred[w] => pc[w] = "mark"

\* The channel of jobs holds videos of the list, is empty outside transferVideos, and a
\* worker that is done saw it closed and empty.
JobsInv ==
    /\ run # "videos" => streamChan = <<>>
    /\ run = "videos" => streamChan \in Seq(streams)
    /\ \A w \in Workers: run = "videos" /\ pc[w] = "done" => closed /\ streamChan = <<>>
    /\ \A w \in Workers: job[w] \in Videos => job[w] \in streams

\* A failed update is remembered by cleanTransfer or still in a worker's hands.
FailuresInv ==
    /\ run \in Preparing \cup HandingOver => failedUpdate = {}
    /\ run = "videos" /\ failedUpdate # {} => ~cleanTransfer \/ \E w \in Workers: erred[w]

\* With the user's key updateRemoteDB knows every video that was moved before.
ProducerInv ==
    PublicKey =>
        /\ run \in Preparing => Theirs \subseteq synced
        /\ run = "videos" =>
             \A v \in todo: v \in streams \/ (v \in Videos /\ claims[v] = "gone")

\* What may still be tipped was released, and not tipped in an earlier run.
TipInv ==
    /\ tipped <= released
    /\ run \in Preparing \cup {"videos", "channel", "tip"} => tipped + supportAmount <= released

\* The rows, and an answer that is about to become one, are about moved claims; up to
\* transferChannel nothing was agreed to, and past it without an error something was.
HandoverInv ==
    /\ db \subseteq Theirs
    /\ \A w \in Workers: moved[w] => claims[job[w]] = "theirs"
    /\ run \in Preparing \cup {"videos", "channel"} => attempt = "open"
    /\ run = "tip" \/ (run = "status" /\ ~failed) => attempt # "open"

TransferInv ==
    WorkersInv /\ JobsInv /\ FailuresInv /\ ProducerInv /\ TipInv /\ HandoverInv
---------------------------------------------------------------------------
(* Every variable keeps its type *)

LEMMA NoJobs == <<>> \in Seq(Videos) /\ Len(<<>>) = 0
BY EmptySeq

LEMMA TypeInit == Init => TypeOK
<1> SUFFICES ASSUME Init PROVE TypeOK
  OBVIOUS
<1>1. streamChan \in Seq(Videos) /\ Len(streamChan) <= Cardinality(Workers)
  BY NoJobs, WorkersSize DEF Init
<1>2. claims \in [Videos -> {"ours", "theirs", "gone"}]
  BY DEF Init
<1>3. /\ pc \in [Workers -> {"receive", "update", "mark", "done"}]
      /\ job \in [Workers -> Videos \cup {None}]
      /\ moved \in [Workers -> BOOLEAN] /\ erred \in [Workers -> BOOLEAN]
  <2>1. /\ pc = [w \in Workers |-> "done"] /\ job = [w \in Workers |-> None]
        /\ moved = [w \in Workers |-> FALSE] /\ erred = [w \in Workers |-> FALSE]
    BY DEF Init
  <2> QED
    BY <2>1
<1>4. /\ {synced, streams, failedUpdate} \subseteq SUBSET Videos
      /\ {failed, closed, cleanTransfer} \subseteq BOOLEAN
      /\ {supportAmount, released, reported, tipped, runs} \subseteq Nat
  <2>1. synced = {} /\ streams = {} /\ failedUpdate = {}
    BY DEF Init
  <2>2. failed = FALSE /\ closed = FALSE /\ cleanTransfer = TRUE
    BY DEF Init
  <2>3. supportAmount = 0 /\ released = 0 /\ reported = 0 /\ tipped = 0 /\ runs = 0
    BY DEF Init
  <2>4. {failed, closed, cleanTransfer} \subseteq BOOLEAN
    BY <2>2, Zenon
  <2>5. {synced, streams, failedUpdate} \subseteq SUBSET Videos
    BY <2>1
  <2>6. {supportAmount, released, reported, tipped, runs} \subseteq Nat
    BY <2>3
  <2> QED
    BY <2>4, <2>5, <2>6
<1>5. /\ channel \in {"ours", "theirs"} /\ transferState \in {"pending", "complete"}
      /\ run = "down" /\ supports \subseteq Supports /\ db \subseteq Videos
      /\ todo \subseteq Videos \cup Supports /\ attempt = "open"
  BY DEF Init
<1> QED
  BY <1>1, <1>2, <1>3, <1>4, <1>5 DEF TypeOK

LEMMA TypeBegin == TypeOK /\ Begin => TypeOK'
<1> SUFFICES ASSUME TypeOK, Begin PROVE TypeOK'
  OBVIOUS
<1>1. Reconciled(db) \subseteq Videos
  BY DEF TypeOK, Reconciled, Theirs
<1>2. db' \subseteq Videos /\ synced' \subseteq Videos
  BY <1>1 DEF TypeOK, Begin
<1>3. run' \in {"confirm", "status"} /\ failed' \in BOOLEAN
  BY DEF TypeOK, Begin, Goto, Error
<1> QED
  BY <1>2, <1>3 DEF TypeOK, Begin

LEMMA TypeSupports ==
    ASSUME TypeOK
    PROVE  /\ ListSupports => TypeOK'
           /\ \A s \in Supports: AbandonSupport(s) => TypeOK'
           /\ ReportSupports => TypeOK'
<1>1. ASSUME ListSupports PROVE TypeOK'
  BY <1>1 DEF TypeOK, ListSupports, Goto, Error, persistent, poolVars, amounts
<1>2. ASSUME NEW s \in Supports, AbandonSupport(s) PROVE TypeOK'
  <2>1. /\ supports' \subseteq Supports /\ todo' \subseteq Videos \cup Supports
        /\ supportAmount' \in Nat /\ released' \in Nat
    BY <1>2 DEF TypeOK, AbandonSupport, Counted
  <2> QED
    BY <1>2, <2>1 DEF TypeOK, AbandonSupport, poolVars
<1>3. ASSUME ReportSupports PROVE TypeOK'
  BY <1>3 DEF TypeOK, ReportSupports, Goto, persistent, poolVars
<1> QED
  BY <1>1, <1>2, <1>3

LEMMA TypeProducer ==
    ASSUME TypeOK
    PROVE  /\ StartTransfer => TypeOK'
           /\ \A v \in Videos: Produce(v) => TypeOK'
           /\ Close => TypeOK'
           /\ EndTransfer => TypeOK'
<1>1. ASSUME StartTransfer PROVE TypeOK'
  BY <1>1 DEF TypeOK, StartTransfer, Goto, Error, persistent, amounts, Ours
<1>2. ASSUME NEW v \in Videos, Produce(v) PROVE TypeOK'
  <2>1. streamChan' \in Seq(Videos) /\ Len(streamChan') <= Cardinality(Workers)
    <3>1. CASE v \in streams
      BY <1>2, <3>1, WorkersSize, AppendProperties DEF TypeOK, Produce, HasRoom
    <3>2. CASE v \notin streams
      BY <1>2, <3>2 DEF TypeOK, Produce
    <3> QED
      BY <3>1, <3>2
  <2>2. todo' \subseteq Videos \cup Supports
    BY <1>2 DEF TypeOK, Produce
  <2> QED
    BY <1>2, <2>1, <2>2 DEF TypeOK, Produce, persistent, amounts
<1>3. ASSUME Close PROVE TypeOK'
  BY <1>3 DEF TypeOK, Close, Closed, persistent, amounts
<1>4. ASSUME EndTransfer PROVE TypeOK'
  BY <1>4 DEF TypeOK, EndTransfer, Goto, Error, persistent, poolVars, amounts
<1> QED
  BY <1>1, <1>2, <1>3, <1>4

LEMMA TypeWorker ==
    ASSUME TypeOK, WorkersInv, NEW w \in Workers, Worker(w)
    PROVE  TypeOK'
<1>1. CASE Receive(w)
  <2>1. /\ streamChan' \in Seq(Videos) /\ Len(streamChan') <= Cardinality(Workers)
        /\ pc' \in [Workers -> {"receive", "update", "mark", "done"}]
        /\ job' \in [Workers -> Videos \cup {None}]
    <3>1. CASE streamChan # <<>>
      <4>1. Head(streamChan) \in Videos /\ Tail(streamChan) \in Seq(Videos)
            /\ Len(Tail(streamChan)) = Len(streamChan) - 1 /\ Len(streamChan) \in Nat
        BY <3>1, HeadTailProperties, LenProperties DEF TypeOK
      <4>2. /\ streamChan' = Tail(streamChan)
            /\ pc' = [pc EXCEPT ![w] = "update"] /\ job' = [job EXCEPT ![w] = Head(streamChan)]
        BY <1>1, <3>1 DEF Receive
      <4> QED
        BY <4>1, <4>2, WorkersSize DEF TypeOK
    <3>2. CASE streamChan = <<>>
      BY <1>1, <3>2 DEF TypeOK, Receive
    <3> QED
      BY <3>1, <3>2
  <2> QED
    BY <1>1, <2>1 DEF TypeOK, Receive, persistent, amounts
<1>2. CASE StreamUpdate(w)
  <2>1. job[w] \in Videos
    BY <1>2 DEF StreamUpdate, WorkersInv
  <2>2. /\ claims' \in [Videos -> {"ours", "theirs", "gone"}]
        /\ pc' \in [Workers -> {"receive", "update", "mark", "done"}]
        /\ moved' \in [Workers -> BOOLEAN] /\ erred' \in [Workers -> BOOLEAN]
        /\ failedUpdate' \in SUBSET Videos
    BY <1>2, <2>1 DEF TypeOK, StreamUpdate
  <2> QED
    BY <1>2, <2>2 DEF TypeOK, StreamUpdate, amounts
<1>3. CASE MarkTransferred(w)
  <2>1. job[w] \in Videos
    BY <1>3 DEF MarkTransferred, WorkersInv
  <2>2. /\ db' \subseteq Videos /\ cleanTransfer' \in BOOLEAN
        /\ pc' \in [Workers -> {"receive", "update", "mark", "done"}]
        /\ job' \in [Workers -> Videos \cup {None}]
        /\ moved' \in [Workers -> BOOLEAN] /\ erred' \in [Workers -> BOOLEAN]
    BY <1>3, <2>1 DEF TypeOK, MarkTransferred, CleanAfter
  <2> QED
    BY <1>3, <2>2 DEF TypeOK, MarkTransferred, amounts
<1> QED
  BY <1>1, <1>2, <1>3 DEF Worker

LEMMA TypeHandover ==
    ASSUME TypeOK
    PROVE  (TransferChannel \/ Tip \/ Terminate \/ Crash) => TypeOK'
<1>1. ASSUME TransferChannel PROVE TypeOK'
  BY <1>1 DEF TypeOK, TransferChannel, Goto, Error, poolVars, amounts
<1>2. ASSUME Tip PROVE TypeOK'
  <2>1. tipped' \in Nat
    BY <1>2 DEF TypeOK, Tip
  <2> QED
    BY <1>2, <2>1 DEF TypeOK, Tip, Goto, Error, persistent, poolVars
<1>3. ASSUME Terminate PROVE TypeOK'
  BY <1>3 DEF TypeOK, Terminate, poolVars, amounts
<1>4. ASSUME Crash PROVE TypeOK'
  <2>1. streamChan' \in Seq(Videos) /\ Len(streamChan') <= Cardinality(Workers)
    BY <1>4, WorkersSize, NoJobs DEF Crash
  <2> QED
    BY <1>4, <2>1 DEF TypeOK, Crash, persistent, amounts
<1> QED
  BY <1>1, <1>2, <1>3, <1>4

LEMMA TypeStep ==
    ASSUME TypeOK, WorkersInv, [Next]_vars
    PROVE  TypeOK'
<1>1. CASE Begin
  BY <1>1, TypeBegin
<1>2. CASE Main
  BY <1>2, TypeSupports, TypeProducer, TypeHandover DEF Main
<1>3. ASSUME NEW w \in Workers, Worker(w) PROVE TypeOK'
  BY <1>3, TypeWorker
<1>4. CASE Crash
  BY <1>4, TypeHandover
<1>5. CASE UNCHANGED vars
  BY <1>5 DEF TypeOK, vars, persistent, poolVars, amounts
<1> QED
  BY <1>1, <1>2, <1>3, <1>4, <1>5 DEF Next, Over

---------------------------------------------------------------------------
(* The pool of workers *)

\* A step that leaves the workers alone, outside or inside transferVideos.
LEMMA WorkersFrame ==
    ASSUME WorkersInv, UNCHANGED <<pc, job, moved, erred>>,
           run' # "videos" => run # "videos"
    PROVE  WorkersInv'
BY DEF WorkersInv

LEMMA WorkersStep ==
    ASSUME TypeOK, WorkersInv, [Next]_vars
    PROVE  WorkersInv'
<1>1. CASE Begin
  BY <1>1, WorkersFrame DEF Begin, Goto, Error
<1>2. CASE Main
  <2>1. CASE ListSupports
    BY <2>1, WorkersFrame DEF ListSupports, Goto, Error, poolVars
  <2>2. ASSUME NEW s \in Supports, AbandonSupport(s) PROVE WorkersInv'
    BY <2>2, WorkersFrame DEF AbandonSupport, poolVars
  <2>3. CASE ReportSupports
    BY <2>3, WorkersFrame DEF ReportSupports, poolVars
  <2>4. CASE StartTransfer
    <3>1. CASE run' = "videos"
      BY <2>4, <3>1, TransferAssumption DEF StartTransfer, Goto, Error, WorkersInv, TypeOK
    <3>2. CASE run' # "videos"
      BY <2>4, <3>2, WorkersFrame DEF StartTransfer, Goto, Error
    <3> QED
      BY <3>1, <3>2
  <2>5. ASSUME NEW v \in Videos, Produce(v) PROVE WorkersInv'
    BY <2>5, WorkersFrame DEF Produce
  <2>6. CASE Close
    BY <2>6, WorkersFrame DEF Close
  <2>7. CASE EndTransfer
    BY <2>7 DEF EndTransfer, Joined, WorkersInv, poolVars
  <2>8. CASE TransferChannel
    BY <2>8, WorkersFrame DEF TransferChannel, poolVars
  <2>9. CASE Tip
    BY <2>9, WorkersFrame DEF Tip, poolVars
  <2>10. CASE Terminate
    BY <2>10, WorkersFrame DEF Terminate, poolVars
  <2> QED
    BY <1>2, <2>1, <2>2, <2>3, <2>4, <2>5, <2>6, <2>7, <2>8, <2>9, <2>10 DEF Main
<1>3. ASSUME NEW w \in Workers, Worker(w) PROVE WorkersInv'
  <2>1. CASE Receive(w)
    <3>1. CASE streamChan # <<>>
      <4>1. Head(streamChan) \in Videos
        BY <3>1, HeadTailProperties DEF TypeOK
      <4> QED
        BY <1>3, <2>1, <3>1, <4>1 DEF Receive, Worker, WorkersInv, TypeOK
    <3>2. CASE streamChan = <<>>
      BY <1>3, <2>1, <3>2 DEF Receive, Worker, WorkersInv, TypeOK
    <3> QED
      BY <3>1, <3>2
  <2>2. CASE StreamUpdate(w)
    BY <1>3, <2>2 DEF StreamUpdate, Worker, WorkersInv, TypeOK
  <2>3. CASE MarkTransferred(w)
    BY <1>3, <2>3, TransferAssumption DEF MarkTransferred, Worker, WorkersInv, TypeOK
  <2> QED
    BY <1>3, <2>1, <2>2, <2>3 DEF Worker
<1>4. CASE Crash
  BY <1>4, TransferAssumption DEF Crash, WorkersInv
<1>5. CASE UNCHANGED vars
  BY <1>5, WorkersFrame DEF vars, poolVars
<1> QED
  BY <1>1, <1>2, <1>3, <1>4, <1>5 DEF Next, Over

LEMMA JobsFrame ==
    ASSUME JobsInv, UNCHANGED <<streams, streamChan, closed, pc, job>>,
           run' # "videos" /\ run # "videos"
    PROVE  JobsInv'
BY DEF JobsInv

LEMMA JobsStep ==
    ASSUME TypeOK, WorkersInv, JobsInv, [Next]_vars
    PROVE  JobsInv'
<1>1. CASE Begin
  BY <1>1, JobsFrame DEF Begin, Goto, Error
<1>2. CASE Main
  <2>1. CASE ListSupports
    BY <2>1, JobsFrame DEF ListSupports, Goto, Error, poolVars
  <2>2. ASSUME NEW s \in Supports, AbandonSupport(s) PROVE JobsInv'
    BY <2>2, JobsFrame DEF AbandonSupport, poolVars
  <2>3. CASE ReportSupports
    BY <2>3, JobsFrame DEF ReportSupports, Goto, poolVars
  <2>4. CASE StartTransfer
    <3>1. CASE run' = "videos"
      <4>1. streamChan' = <<>> /\ job' = job /\ \A w \in Workers: job[w] \notin Videos
        BY <2>4 DEF StartTransfer, WorkersInv, JobsInv
      <4>2. \A w \in Workers: pc'[w] # "done"
        BY <2>4, <3>1 DEF StartTransfer, Error
      <4>3. streamChan' \in Seq(streams')
        BY <4>1, EmptySeq
      <4> QED
        BY <3>1, <4>1, <4>2, <4>3 DEF JobsInv
    <3>2. CASE run' # "videos"
      BY <2>4, <3>2, JobsFrame DEF StartTransfer, Goto, Error
    <3> QED
      BY <3>1, <3>2
  <2>5. ASSUME NEW v \in Videos, Produce(v) PROVE JobsInv'
    <3>1. streamChan' \in Seq(streams')
      BY <2>5, AppendProperties DEF Produce, JobsInv
    <3>2. \A w \in Workers: pc[w] # "done"
      BY <2>5 DEF Produce, JobsInv
    <3> QED
      BY <2>5, <3>1, <3>2 DEF Produce, JobsInv
  <2>6. CASE Close
    BY <2>6 DEF Close, Closed, JobsInv
  <2>7. CASE EndTransfer
    <3>1. streamChan = <<>>
      BY <2>7, TransferAssumption DEF EndTransfer, Joined, JobsInv
    <3> QED
      BY <2>7, <3>1 DEF EndTransfer, Goto, Error, JobsInv, poolVars
  <2>8. CASE TransferChannel
    BY <2>8, JobsFrame DEF TransferChannel, Goto, Error, poolVars
  <2>9. CASE Tip
    BY <2>9, JobsFrame DEF Tip, Goto, Error, poolVars
  <2>10. CASE Terminate
    BY <2>10, JobsFrame DEF Terminate, poolVars
  <2> QED
    BY <1>2, <2>1, <2>2, <2>3, <2>4, <2>5, <2>6, <2>7, <2>8, <2>9, <2>10 DEF Main
<1>3. ASSUME NEW w \in Workers, Worker(w) PROVE JobsInv'
  <2>1. CASE Receive(w)
    <3>1. CASE streamChan # <<>>
      <4>1. Head(streamChan) \in streams /\ Tail(streamChan) \in Seq(streams)
        BY <1>3, <3>1, HeadTailProperties DEF Worker, JobsInv
      <4>2. \A u \in Workers: pc[u] # "done"
        BY <1>3, <3>1 DEF Worker, JobsInv
      <4> QED
        BY <1>3, <2>1, <3>1, <4>1, <4>2 DEF Receive, Worker, JobsInv, TypeOK
    <3>2. CASE streamChan = <<>>
      BY <1>3, <2>1, <3>2 DEF Receive, Worker, JobsInv, TypeOK
    <3> QED
      BY <3>1, <3>2
  <2>2. CASE StreamUpdate(w)
    BY <1>3, <2>2 DEF StreamUpdate, Worker, JobsInv, TypeOK
  <2>3. CASE MarkTransferred(w)
    BY <1>3, <2>3, TransferAssumption DEF MarkTransferred, Worker, JobsInv, TypeOK
  <2> QED
    BY <1>3, <2>1, <2>2, <2>3 DEF Worker
<1>4. CASE Crash
  BY <1>4, TransferAssumption DEF Crash, JobsInv
<1>5. CASE UNCHANGED vars
  BY <1>5 DEF vars, poolVars, JobsInv
<1> QED
  BY <1>1, <1>2, <1>3, <1>4, <1>5 DEF Next, Over
---------------------------------------------------------------------------
(* What the channel waits for, what stops the producer and what is tipped *)

LEMMA FailuresStep ==
    ASSUME TypeOK, WorkersInv, FailuresInv, [Next]_vars
    PROVE  FailuresInv'
<1>1. CASE Begin
  BY <1>1 DEF Begin, FailuresInv
<1>2. CASE Main
  <2>1. CASE ListSupports
    BY <2>1 DEF ListSupports, Goto, Error, poolVars, FailuresInv, Preparing, HandingOver
  <2>2. ASSUME NEW s \in Supports, AbandonSupport(s) PROVE FailuresInv'
    BY <2>2 DEF AbandonSupport, poolVars, FailuresInv
  <2>3. CASE ReportSupports
    BY <2>3 DEF ReportSupports, Goto, poolVars, FailuresInv, Preparing
  <2>4. CASE StartTransfer
    BY <2>4 DEF StartTransfer, Goto, Error, FailuresInv, Preparing, HandingOver
  <2>5. ASSUME NEW v \in Videos, Produce(v) PROVE FailuresInv'
    BY <2>5 DEF Produce, FailuresInv
  <2>6. CASE Close
    BY <2>6 DEF Close, FailuresInv
  <2>7. CASE EndTransfer
    <3>1. \A w \in Workers: ~erred[w]
      BY <2>7 DEF EndTransfer, Joined, WorkersInv
    <3> QED
      BY <2>7, <3>1 DEF EndTransfer, Goto, Error, poolVars, FailuresInv, Preparing, HandingOver
  <2>8. CASE TransferChannel
    BY <2>8 DEF TransferChannel, Goto, Error, poolVars, FailuresInv, Preparing, HandingOver
  <2>9. CASE Tip
    BY <2>9 DEF Tip, Goto, Error, poolVars, FailuresInv, Preparing, HandingOver
  <2>10. CASE Terminate
    BY <2>10 DEF Terminate, poolVars, FailuresInv, Preparing, HandingOver
  <2> QED
    BY <1>2, <2>1, <2>2, <2>3, <2>4, <2>5, <2>6, <2>7, <2>8, <2>9, <2>10 DEF Main
<1>3. ASSUME NEW w \in Workers, Worker(w) PROVE FailuresInv'
  <2>1. CASE Receive(w)
    BY <1>3, <2>1 DEF Receive, FailuresInv
  <2>2. CASE StreamUpdate(w)
    <3>1. ~erred[w]
      BY <2>2 DEF StreamUpdate, WorkersInv
    <3>2. run = "videos" /\ run' = "videos"
      BY <1>3, <2>2 DEF Worker, StreamUpdate
    <3>3. CASE failedUpdate' = failedUpdate
      <4>1. ASSUME NEW u \in Workers, erred[u] PROVE erred'[u]
        BY <3>1, <4>1, <2>2 DEF StreamUpdate, TypeOK
      <4> QED
        BY <2>2, <3>2, <3>3, <4>1 DEF StreamUpdate, FailuresInv, Preparing, HandingOver
    <3>4. CASE failedUpdate' # failedUpdate
      <4>1. erred'[w]
        BY <3>4, <2>2 DEF StreamUpdate, TypeOK
      <4> QED
        BY <3>2, <4>1 DEF FailuresInv, Preparing, HandingOver
    <3> QED
      BY <3>3, <3>4
  <2>3. CASE MarkTransferred(w)
    <3>1. ASSUME NEW u \in Workers, erred[u], cleanTransfer' PROVE erred'[u]
      BY <3>1, <2>3 DEF MarkTransferred, CleanAfter, TypeOK
    <3> QED
      BY <1>3, <2>3, <3>1 DEF Worker, MarkTransferred, CleanAfter, FailuresInv
  <2> QED
    BY <1>3, <2>1, <2>2, <2>3 DEF Worker
<1>4. CASE Crash
  BY <1>4 DEF Crash, FailuresInv, Preparing, HandingOver
<1>5. CASE UNCHANGED vars
  BY <1>5 DEF vars, poolVars, FailuresInv
<1> QED
  BY <1>1, <1>2, <1>3, <1>4, <1>5 DEF Next, Over

LEMMA ProducerStep ==
    ASSUME TypeOK, WorkersInv, JobsInv, ProducerInv, [Next]_vars
    PROVE  ProducerInv'
<1> SUFFICES ASSUME PublicKey PROVE ProducerInv'
  BY DEF ProducerInv
<1>1. CASE Begin
  BY <1>1 DEF Begin, Goto, Error, Reconciled, Theirs, ProducerInv, Preparing
<1>2. CASE Main
  <2>1. CASE ListSupports
    BY <2>1 DEF ListSupports, Goto, Error, persistent, Theirs, ProducerInv, Preparing
  <2>2. ASSUME NEW s \in Supports, AbandonSupport(s) PROVE ProducerInv'
    BY <2>2 DEF AbandonSupport, Theirs, ProducerInv
  <2>3. CASE ReportSupports
    BY <2>3 DEF ReportSupports, Goto, persistent, Theirs, ProducerInv, Preparing
  <2>4. CASE StartTransfer
    <3>1. CASE run' = "videos"
      <4>1. streams' = Ours /\ todo' = Videos \ synced /\ claims' = claims
        BY <2>4, <3>1 DEF StartTransfer, Error, persistent
      <4>2. Theirs \subseteq synced
        BY <2>4 DEF StartTransfer, ProducerInv, Preparing
      <4>3. \A v \in Videos: claims[v] \in {"ours", "theirs", "gone"}
        BY DEF TypeOK
      <4>4. \A v \in todo': v \in streams' \/ (v \in Videos /\ claims'[v] = "gone")
        BY <4>1, <4>2, <4>3 DEF Ours, Theirs
      <4> QED
        BY <3>1, <4>4 DEF ProducerInv, Preparing
    <3>2. CASE run' # "videos"
      BY <2>4, <3>2 DEF StartTransfer, Goto, Error, ProducerInv, Preparing
    <3> QED
      BY <3>1, <3>2
  <2>5. ASSUME NEW v \in Videos, Produce(v) PROVE ProducerInv'
    <3>1. todo' \subseteq todo
      BY <2>5 DEF Produce
    <3> QED
      BY <2>5, <3>1 DEF Produce, persistent, ProducerInv, Preparing
  <2>6. CASE Close
    BY <2>6 DEF Close, persistent, ProducerInv, Preparing
  <2>7. CASE EndTransfer
    BY <2>7 DEF EndTransfer, Goto, Error, ProducerInv, Preparing
  <2>8. CASE TransferChannel
    BY <2>8 DEF TransferChannel, Goto, Error, ProducerInv, Preparing
  <2>9. CASE Tip
    BY <2>9 DEF Tip, Goto, Error, ProducerInv, Preparing
  <2>10. CASE Terminate
    BY <2>10 DEF Terminate, ProducerInv, Preparing
  <2> QED
    BY <1>2, <2>1, <2>2, <2>3, <2>4, <2>5, <2>6, <2>7, <2>8, <2>9, <2>10 DEF Main
<1>3. ASSUME NEW w \in Workers, Worker(w) PROVE ProducerInv'
  <2>0. run = "videos" /\ run' = "videos"
    BY <1>3 DEF Worker, Receive, StreamUpdate, MarkTransferred
  <2>1. CASE Receive(w)
    BY <2>0, <2>1 DEF Receive, persistent, ProducerInv, Preparing
  <2>2. CASE StreamUpdate(w)
    <3>1. job[w] \in streams
      BY <2>2 DEF StreamUpdate, WorkersInv, JobsInv
    <3>2. \A v \in Videos: v # job[w] => claims'[v] = claims[v]
      BY <2>2 DEF StreamUpdate, TypeOK
    <3>3. todo' = todo /\ streams' = streams
      BY <2>2 DEF StreamUpdate
    <3>4. \A v \in todo: v \in streams \/ (v \in Videos /\ claims'[v] = "gone")
      BY <2>0, <3>1, <3>2 DEF ProducerInv
    <3> QED
      BY <2>0, <3>3, <3>4 DEF ProducerInv, Preparing
  <2>3. CASE MarkTransferred(w)
    BY <2>0, <2>3 DEF MarkTransferred, ProducerInv, Preparing
  <2> QED
    BY <1>3, <2>1, <2>2, <2>3 DEF Worker
<1>4. CASE Crash
  BY <1>4 DEF Crash, ProducerInv, Preparing
<1>5. CASE UNCHANGED vars
  BY <1>5 DEF vars, persistent, poolVars, Theirs, ProducerInv
<1> QED
  BY <1>1, <1>2, <1>3, <1>4, <1>5 DEF Next, Over
LEMMA TipStep ==
    ASSUME TypeOK, TipInv, [Next]_vars
    PROVE  TipInv'
<1>0. supportAmount \in Nat /\ released \in Nat /\ tipped \in Nat
  BY DEF TypeOK
<1>1. CASE Begin
  BY <1>0, <1>1 DEF Begin, TipInv
<1>2. CASE Main
  <2>1. CASE ListSupports
    BY <2>1 DEF ListSupports, Goto, Error, amounts, TipInv, Preparing
  <2>2. ASSUME NEW s \in Supports, AbandonSupport(s) PROVE TipInv'
    <3>1. PICK spent \in BOOLEAN, answered \in BOOLEAN:
             /\ released' = released + (IF spent THEN 1 ELSE 0)
             /\ supportAmount' = supportAmount + Counted(spent, answered)
      BY <2>2 DEF AbandonSupport
    <3>2. Counted(spent, answered) <= (IF spent THEN 1 ELSE 0) /\ Counted(spent, answered) \in Nat
      BY DEF Counted
    <3>3. tipped' = tipped /\ tipped + supportAmount <= released
      BY <2>2 DEF AbandonSupport, TipInv, Preparing
    <3>4. tipped' + supportAmount' <= released'
      BY <1>0, <3>1, <3>2, <3>3
    <3>5. tipped' <= released'
      BY <1>0, <3>1, <3>3
    <3> QED
      BY <3>4, <3>5 DEF TipInv
  <2>3. CASE ReportSupports
    BY <2>3 DEF ReportSupports, Goto, TipInv, Preparing
  <2>4. CASE StartTransfer
    BY <2>4 DEF StartTransfer, Goto, Error, amounts, TipInv, Preparing
  <2>5. ASSUME NEW v \in Videos, Produce(v) PROVE TipInv'
    BY <2>5 DEF Produce, amounts, TipInv
  <2>6. CASE Close
    BY <2>6 DEF Close, amounts, TipInv
  <2>7. CASE EndTransfer
    BY <2>7 DEF EndTransfer, Goto, Error, amounts, TipInv, Preparing
  <2>8. CASE TransferChannel
    BY <2>8 DEF TransferChannel, Goto, Error, amounts, TipInv, Preparing
  <2>9. CASE Tip
    <3>1. run' = "status" /\ released' = released /\ tipped' \in {tipped, tipped + supportAmount}
      BY <2>9 DEF Tip, Goto, Error
    <3>2. tipped' <= released'
      BY <1>0, <2>9, <3>1 DEF Tip, TipInv
    <3> QED
      BY <3>1, <3>2 DEF TipInv, Preparing
  <2>10. CASE Terminate
    BY <2>10 DEF Terminate, amounts, TipInv, Preparing
  <2> QED
    BY <1>2, <2>1, <2>2, <2>3, <2>4, <2>5, <2>6, <2>7, <2>8, <2>9, <2>10 DEF Main
<1>3. ASSUME NEW w \in Workers, Worker(w) PROVE TipInv'
  BY <1>3 DEF Worker, Receive, StreamUpdate, MarkTransferred, amounts, TipInv
<1>4. CASE Crash
  BY <1>4 DEF Crash, amounts, TipInv, Preparing
<1>5. CASE UNCHANGED vars
  BY <1>5 DEF vars, amounts, TipInv
<1> QED
  BY <1>1, <1>2, <1>3, <1>4, <1>5 DEF Next, Over

---------------------------------------------------------------------------
(* What the user was given *)

\* No step of the program takes a claim back.
LEMMA TheirsGrow ==
    ASSUME TypeOK, WorkersInv, [Next]_vars
    PROVE  Theirs \subseteq Theirs'
<1>1. ASSUME NEW w \in Workers, StreamUpdate(w) PROVE Theirs \subseteq Theirs'
  BY <1>1 DEF StreamUpdate, TypeOK, Theirs
<1>2. ASSUME claims' = claims PROVE Theirs \subseteq Theirs'
  BY <1>2 DEF Theirs
<1>3. ASSUME Begin PROVE claims' = claims
  BY <1>3 DEF Begin
<1>4. ASSUME Main PROVE claims' = claims
  BY <1>4 DEF Main, ListSupports, AbandonSupport, ReportSupports, StartTransfer, Produce, Close,
              EndTransfer, TransferChannel, Tip, Terminate, persistent
<1>5. ASSUME NEW w \in Workers, Worker(w), ~StreamUpdate(w) PROVE claims' = claims
  BY <1>5 DEF Worker, Receive, MarkTransferred, persistent
<1>6. ASSUME Crash \/ UNCHANGED vars PROVE claims' = claims
  BY <1>6 DEF Crash, vars, persistent
<1> QED
  BY <1>1, <1>2, <1>3, <1>4, <1>5, <1>6 DEF Next, Over

LEMMA HandoverStep ==
    ASSUME TypeOK, WorkersInv, HandoverInv, [Next]_vars
    PROVE  HandoverInv'
<1>0. Theirs \subseteq Theirs'
  BY TheirsGrow
<1>1. CASE Begin
  <2>1. db' \subseteq Theirs /\ claims' = claims
    BY <1>1 DEF Begin, Reconciled, HandoverInv, Theirs
  <2> QED
    BY <1>0, <1>1, <2>1 DEF Begin, Goto, Error, HandoverInv, Preparing
<1>2. CASE Main
  <2>1. CASE ListSupports
    BY <1>0, <2>1 DEF ListSupports, Goto, Error, persistent, poolVars, HandoverInv, Preparing
  <2>2. ASSUME NEW s \in Supports, AbandonSupport(s) PROVE HandoverInv'
    BY <1>0, <2>2 DEF AbandonSupport, poolVars, HandoverInv, Preparing
  <2>3. CASE ReportSupports
    BY <1>0, <2>3 DEF ReportSupports, Goto, persistent, poolVars, HandoverInv, Preparing
  <2>4. CASE StartTransfer
    BY <1>0, <2>4 DEF StartTransfer, Goto, Error, persistent, HandoverInv, Preparing
  <2>5. ASSUME NEW v \in Videos, Produce(v) PROVE HandoverInv'
    BY <1>0, <2>5 DEF Produce, persistent, HandoverInv, Preparing
  <2>6. CASE Close
    BY <1>0, <2>6 DEF Close, persistent, HandoverInv, Preparing
  <2>7. CASE EndTransfer
    BY <1>0, <2>7 DEF EndTransfer, Goto, Error, persistent, poolVars, HandoverInv, Preparing
  <2>8. CASE TransferChannel
    BY <1>0, <2>8 DEF TransferChannel, Goto, Error, poolVars, HandoverInv, Preparing
  <2>9. CASE Tip
    BY <1>0, <2>9 DEF Tip, Goto, Error, persistent, poolVars, HandoverInv, Preparing
  <2>10. CASE Terminate
    BY <1>0, <2>10 DEF Terminate, poolVars, HandoverInv, Preparing
  <2> QED
    BY <1>2, <2>1, <2>2, <2>3, <2>4, <2>5, <2>6, <2>7, <2>8, <2>9, <2>10 DEF Main
<1>3. ASSUME NEW w \in Workers, Worker(w) PROVE HandoverInv'
  <2>1. CASE Receive(w)
    <3>1. ~moved[w]
      BY <2>1 DEF Receive, WorkersInv
    <3>2. \A u \in Workers: u # w => job'[u] = job[u]
      BY <2>1 DEF Receive, TypeOK
    <3> QED
      BY <1>0, <2>1, <3>1, <3>2 DEF Receive, persistent, HandoverInv
  <2>2. CASE StreamUpdate(w)
    <3>1. job[w] \in Videos
      BY <2>2 DEF StreamUpdate, WorkersInv
    <3>2. moved'[w] => claims'[job[w]] = "theirs"
      BY <2>2, <3>1 DEF StreamUpdate, TypeOK
    <3>3. ASSUME NEW u \in Workers, u # w, moved'[u] PROVE claims'[job[u]] = "theirs"
      <4>1. moved[u] /\ job[u] \in Videos
        BY <2>2, <3>3 DEF StreamUpdate, TypeOK, WorkersInv
      <4> QED
        BY <1>0, <4>1 DEF HandoverInv, Theirs
    <3> QED
      BY <1>0, <2>2, <3>2, <3>3 DEF StreamUpdate, HandoverInv
  <2>3. CASE MarkTransferred(w)
    <3>1. job[w] \in Videos
      BY <2>3 DEF MarkTransferred, WorkersInv
    <3>2. db' \subseteq Theirs
      BY <2>3, <3>1 DEF MarkTransferred, IsTransferred, HandoverInv, Theirs
    <3>3. ASSUME NEW u \in Workers, moved'[u] PROVE moved[u] /\ job'[u] = job[u]
      BY <2>3, <3>3 DEF MarkTransferred, TypeOK
    <3> QED
      BY <1>0, <2>3, <3>2, <3>3 DEF MarkTransferred, HandoverInv
  <2> QED
    BY <1>3, <2>1, <2>2, <2>3 DEF Worker
<1>4. CASE Crash
  BY <1>0, <1>4 DEF Crash, persistent, HandoverInv, Preparing
<1>5. CASE UNCHANGED vars
  BY <1>0, <1>5 DEF vars, persistent, poolVars, HandoverInv
<1> QED
  BY <1>1, <1>2, <1>3, <1>4, <1>5 DEF Next, Over
---------------------------------------------------------------------------
(* The theorems *)

LEMMA InvInit == Init => TransferInv
<1> SUFFICES ASSUME Init PROVE TransferInv
  OBVIOUS
<1>1. WorkersInv /\ JobsInv
  BY TransferAssumption DEF Init, WorkersInv, JobsInv
<1>2. FailuresInv /\ ProducerInv /\ TipInv /\ HandoverInv
  BY DEF Init, FailuresInv, ProducerInv, TipInv, HandoverInv, Preparing, HandingOver
<1> QED
  BY <1>1, <1>2 DEF TransferInv

\* Spec keeps the types and the invariant: what every theorem below rests on.
THEOREM TransferInvariant == Spec => [](TypeOK /\ TransferInv)
<1>1. Init => TypeOK /\ TransferInv
  BY TypeInit, InvInit
<1>2. TypeOK /\ TransferInv /\ [Next]_vars => (TypeOK /\ TransferInv)'
  <2> SUFFICES ASSUME TypeOK, TransferInv, [Next]_vars PROVE (TypeOK /\ TransferInv)'
    OBVIOUS
  <2>1. WorkersInv /\ JobsInv /\ FailuresInv /\ ProducerInv /\ TipInv /\ HandoverInv
    BY DEF TransferInv
  <2>2. TypeOK' /\ WorkersInv' /\ JobsInv'
    BY <2>1, TypeStep, WorkersStep, JobsStep
  <2>3. FailuresInv' /\ ProducerInv' /\ TipInv' /\ HandoverInv'
    BY <2>1, FailuresStep, ProducerStep, TipStep, HandoverStep
  <2> QED
    BY <2>2, <2>3 DEF TransferInv
<1> QED
  BY <1>1, <1>2, PTL DEF Spec

\* Every variable of the transfer keeps its type; the channel of jobs never holds more
\* than one job for each worker (transfer.go: make(chan ..., ConcurrentJobs)).
THEOREM TransferTypes == Spec => []TypeOK
BY TransferInvariant, PTL

\* transferVideos' cleanTransfer: when the channel is handed over no StreamUpdate of the
\* run has failed and none is under way, whichever worker it was and however late.
THEOREM ChannelWaits == Spec => []ChannelWaitsForUpdates
<1>1. TransferInv => ChannelWaitsForUpdates
  BY DEF TransferInv, WorkersInv, FailuresInv, HandingOver, ChannelWaitsForUpdates
<1> QED
  BY <1>1, TransferInvariant, PTL

\* The producer of transferVideos, with the user's key: only a video whose claim is gone
\* ends it early.
THEOREM ProducerGoesOn == Spec => []OnlyGoneStopsProducer
<1>1. TransferInv => OnlyGoneStopsProducer
  BY DEF TransferInv, ProducerInv, OnlyGoneStopsProducer
<1> QED
  BY <1>1, TransferInvariant, PTL

\* abandonSupports and the tip of processTransfers: over all runs no more is tipped than
\* the supports that were abandoned released.
THEOREM TipCovered == Spec => []TipIsCovered
<1>1. TransferInv => TipIsCovered
  BY DEF TransferInv, TipInv, TipIsCovered
<1> QED
  BY <1>1, TransferInvariant, PTL

LEMMA HandoverInit == Init => Transferred!Init
BY DEF Init, Transferred!Init, Theirs

\* What a step of Handover may do, as the program's steps show it.
LEMMA HandoverSteps ==
    ASSUME TypeOK, WorkersInv, HandoverInv, HandoverInv', [Next]_vars
    PROVE  [Transferred!Next]_(Transferred!vars)
<1> USE DEF Transferred!vars
<1>1. ASSUME UNCHANGED <<claims, channel, db, transferState, attempt>>
      PROVE  UNCHANGED Transferred!vars
  BY <1>1 DEF Theirs
<1>2. ASSUME UNCHANGED <<claims, channel, transferState>>, Begin \/ UNCHANGED attempt
      PROVE  Transferred!Record \/ Transferred!Attempt
  <2>1. Theirs' = Theirs /\ db' \subseteq Theirs'
    BY <1>2 DEF Theirs, HandoverInv
  <2>2. CASE Begin
    <3>1. attempt' \in {"open", "panicked"}
      BY <2>2 DEF Begin
    <3> QED
      BY <1>2, <2>1, <3>1 DEF Transferred!Attempt
  <2>3. CASE UNCHANGED attempt
    BY <1>2, <2>1, <2>3 DEF Transferred!Record
  <2> QED
    BY <1>2, <2>2, <2>3
<1>3. ASSUME TransferChannel
      PROVE  [Transferred!GiveChannel \/ Transferred!Agree]_(Transferred!vars)
  <2>1. /\ UNCHANGED <<claims, db, transferState>> /\ channel' \in {channel, "theirs"}
        /\ attempt = "open" /\ attempt' \in {attempt, "agreed"}
    BY <1>3 DEF TransferChannel, HandoverInv, Preparing
  <2> QED
    BY <2>1 DEF Transferred!GiveChannel, Transferred!Agree, Theirs
<1>4. ASSUME Terminate PROVE [Transferred!Complete]_(Transferred!vars)
  BY <1>4 DEF Terminate, HandoverInv, Transferred!Complete, Theirs
<1>5. ASSUME NEW w \in Workers, StreamUpdate(w)
      PROVE  [\E v \in Videos: Transferred!GiveVideo(v)]_(Transferred!vars)
  <2>1. job[w] \in Videos
    BY <1>5 DEF StreamUpdate, WorkersInv
  <2>2. UNCHANGED <<channel, db, transferState, attempt>>
    BY <1>5 DEF StreamUpdate
  <2>3. CASE claims' = claims
    BY <1>1, <2>2, <2>3
  <2>4. CASE claims' = [claims EXCEPT ![job[w]] = "theirs"]
    <3>1. Theirs' = Theirs \cup {job[w]}
      BY <2>1, <2>4 DEF Theirs, TypeOK
    <3> QED
      BY <2>1, <2>2, <3>1 DEF Transferred!GiveVideo
  <2> QED
    BY <1>5, <2>3, <2>4 DEF StreamUpdate
<1>6. ASSUME Begin \/ (\E w \in Workers: MarkTransferred(w))
      PROVE  UNCHANGED <<claims, channel, transferState>> /\ (Begin \/ UNCHANGED attempt)
  BY <1>6 DEF Begin, MarkTransferred
<1>7. ASSUME \/ ListSupports \/ (\E s \in Supports: AbandonSupport(s)) \/ ReportSupports
             \/ StartTransfer \/ (\E v \in Videos: Produce(v)) \/ Close \/ EndTransfer
             \/ Tip \/ Crash \/ (\E w \in Workers: Receive(w)) \/ UNCHANGED vars
      PROVE  UNCHANGED <<claims, channel, db, transferState, attempt>>
  BY <1>7 DEF ListSupports, AbandonSupport, ReportSupports, StartTransfer, Produce, Close,
              EndTransfer, Tip, Crash, Receive, persistent, vars
<1> QED
  <2>1. CASE Begin \/ (\E w \in Workers: MarkTransferred(w))
    BY <1>2, <1>6, <2>1 DEF Transferred!Next
  <2>2. CASE TransferChannel
    BY <1>3, <2>2 DEF Transferred!Next
  <2>3. CASE Terminate
    BY <1>4, <2>3 DEF Transferred!Next
  <2>4. CASE \E w \in Workers: StreamUpdate(w)
    BY <1>5, <2>4 DEF Transferred!Next
  <2>5. CASE \/ ListSupports \/ (\E s \in Supports: AbandonSupport(s)) \/ ReportSupports
             \/ StartTransfer \/ (\E v \in Videos: Produce(v)) \/ Close \/ EndTransfer
             \/ Tip \/ Crash \/ (\E w \in Workers: Receive(w)) \/ UNCHANGED vars
    BY <1>1, <1>7, <2>5
  <2> QED
    BY <2>1, <2>2, <2>3, <2>4, <2>5 DEF Next, Main, Worker, Over

\* processTransfers implements Handover: nothing that was given is taken back, no row of
\* the database says more than the chain, and the transfer is recorded as complete only
\* after a run in which lbrynet agreed to update the channel or no longer had it, or that
\* panicked, through crashes, lost answers and later runs.
THEOREM TransferRefines == Spec => ImplementsHandover
<1>1. Init => Transferred!Init
  BY HandoverInit
<1>2. (TypeOK /\ TransferInv) /\ (TypeOK /\ TransferInv)' /\ [Next]_vars
        => [Transferred!Next]_(Transferred!vars)
  BY HandoverSteps DEF TransferInv
<1> QED
  BY <1>1, <1>2, TransferInvariant, PTL DEF Spec, ImplementsHandover, Transferred!Spec
===========================================================================
