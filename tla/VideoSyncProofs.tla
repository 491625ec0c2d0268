-------------------------- MODULE VideoSyncProofs --------------------------
(***************************************************************************)
(* Proofs about VideoSync, for any number of videos, workers and tries:    *)
(* walletMux keeps publishing and refilling apart, and doSync's clean end  *)
(* means that no video was forgotten.                                      *)
(***************************************************************************)
EXTENDS VideoSync, TLAPS

LEMMA NoneIsNobody == None \notin Workers /\ None \notin Videos
BY SyncAssumption

---------------------------------------------------------------------------
(* walletMux *)

PcOK == pc \in [Workers -> Places]

\* The places of a worker that holds the lock for reading.
Publishing == {"name", "create", "update"}

\* walletMux is held exactly by the workers whose place says so, by one writer or by
\* readers.
LockInv ==
    /\ readers \subseteq Workers
    /\ \A w \in Workers: w \in readers <=> pc[w] \in Publishing
    /\ \A w \in Workers: pc[w] = "setup" <=> writer = w
    /\ writer # None => readers = {}

\* Worker w goes somewhere else, and nobody else does.
Moves(w) == pc' = [pc EXCEPT ![w] = pc'[w]] /\ pc'[w] \in Places

\* A step that ends outside the lock and did not begin inside it.
LEMMA Outside ==
    ASSUME PcOK, LockInv, NEW w \in Workers, Moves(w),
           pc[w] \notin Publishing, pc[w] # "setup", pc'[w] \notin Publishing, pc'[w] # "setup",
           readers' = readers, writer' = writer
    PROVE  LockInv'
BY DEF PcOK, LockInv, Moves

\* RLock.
LEMMA EnterRead ==
    ASSUME PcOK, LockInv, NEW w \in Workers, Moves(w),
           writer = None, pc[w] # "setup", pc'[w] \in Publishing, pc'[w] # "setup",
           readers' = readers \cup {w}, writer' = writer
    PROVE  LockInv'
BY DEF PcOK, LockInv, Moves

\* A step between two places inside the read lock.
LEMMA StayRead ==
    ASSUME PcOK, LockInv, NEW w \in Workers, Moves(w),
           pc[w] \in Publishing, pc[w] # "setup", pc'[w] \in Publishing, pc'[w] # "setup",
           readers' = readers, writer' = writer
    PROVE  LockInv'
BY DEF PcOK, LockInv, Moves

\* RUnlock.
LEMMA LeaveRead ==
    ASSUME PcOK, LockInv, NEW w \in Workers, Moves(w),
           pc[w] # "setup", pc'[w] \notin Publishing, pc'[w] # "setup",
           readers' = readers \ {w}, writer' = writer
    PROVE  LockInv'
BY DEF PcOK, LockInv, Moves

\* Lock.
LEMMA EnterWrite ==
    ASSUME PcOK, LockInv, NEW w \in Workers, Moves(w),
           writer = None, readers = {}, pc'[w] = "setup", pc'[w] \notin Publishing,
           readers' = readers, writer' = w
    PROVE  LockInv'
BY NoneIsNobody DEF PcOK, LockInv, Moves

\* Unlock.
LEMMA LeaveWrite ==
    ASSUME PcOK, LockInv, NEW w \in Workers, Moves(w),
           pc[w] = "setup", pc'[w] # "setup", pc'[w] \notin Publishing,
           readers' = readers, writer' = None
    PROVE  LockInv'
BY NoneIsNobody DEF PcOK, LockInv, Moves

\* Every step of a worker keeps walletMux and the workers' places together.
LEMMA WorkerLock ==
    ASSUME PcOK, LockInv, NEW w \in Workers, Worker(w) PROVE PcOK' /\ LockInv'
<1>0. SUFFICES Moves(w) /\ LockInv'
  BY DEF PcOK, Moves
<1>1. CASE CheckStop(w)
  <2>1. Moves(w) /\ pc[w] \notin Publishing /\ pc[w] # "setup" /\ pc'[w] \notin Publishing /\ pc'[w] # "setup"
    BY <1>1 DEF CheckStop, Goto, PcOK, Moves, Publishing, Places
  <2>2. readers' = readers /\ writer' = writer
    BY <1>1 DEF CheckStop, lockVars
  <2> QED  BY <2>1, <2>2, Outside
<1>2. CASE \E v \in Videos: Receive(w, v)
  <2>1. Moves(w) /\ pc[w] \notin Publishing /\ pc[w] # "setup" /\ pc'[w] \notin Publishing /\ pc'[w] # "setup"
    BY <1>2 DEF Receive, Goto, PcOK, Moves, Publishing, Places
  <2>2. readers' = readers /\ writer' = writer
    BY <1>2 DEF Receive, lockVars
  <2> QED  BY <2>1, <2>2, Outside
<1>3. CASE StopReceive(w)
  <2>1. Moves(w) /\ pc[w] \notin Publishing /\ pc[w] # "setup" /\ pc'[w] \notin Publishing /\ pc'[w] # "setup"
    BY <1>3 DEF StopReceive, Goto, PcOK, Moves, Publishing, Places
  <2>2. readers' = readers /\ writer' = writer
    BY <1>3 DEF StopReceive, lockVars
  <2> QED  BY <2>1, <2>2, Outside
<1>4. CASE Try(w)
  <2>1. Moves(w) /\ pc[w] \notin Publishing /\ pc[w] # "setup" /\ pc'[w] \notin Publishing /\ pc'[w] # "setup"
    BY <1>4 DEF Try, NextVideo, Goto, PcOK, Moves, Publishing, Places
  <2>2. readers' = readers /\ writer' = writer
    BY <1>4 DEF Try, lockVars
  <2> QED  BY <2>1, <2>2, Outside
<1>5. CASE Download(w)
  <2>1. Moves(w) /\ pc[w] \notin Publishing /\ pc[w] # "setup" /\ pc'[w] \notin Publishing /\ pc'[w] # "setup"
    BY <1>5 DEF Download, Fail, Goto, PcOK, Moves, Publishing, Places
  <2>2. readers' = readers /\ writer' = writer
    BY <1>5 DEF Download, lockVars
  <2> QED  BY <2>1, <2>2, Outside
<1>6. CASE Reprocess(w)
  <2>1. Moves(w) /\ pc[w] \notin Publishing /\ pc[w] # "setup" /\ pc'[w] \notin Publishing /\ pc'[w] # "setup"
    BY <1>6 DEF Reprocess, Fail, Goto, PcOK, Moves, Publishing, Places
  <2>2. readers' = readers /\ writer' = writer
    BY <1>6 DEF Reprocess, lockVars
  <2> QED  BY <2>1, <2>2, Outside
<1>7. CASE RLock(w)
  <2>1. Moves(w) /\ writer = None /\ pc[w] # "setup" /\ pc'[w] \in Publishing /\ pc'[w] # "setup"
    BY <1>7 DEF RLock, Goto, PcOK, Moves, Publishing, Places
  <2>2. readers' = readers \cup {w} /\ writer' = writer
    BY <1>7 DEF RLock, lockVars
  <2> QED  BY <2>1, <2>2, EnterRead
<1>8. CASE GetNextName(w)
  <2>1. Moves(w) /\ pc[w] \in Publishing /\ pc[w] # "setup" /\ pc'[w] \in Publishing /\ pc'[w] # "setup"
    BY <1>8 DEF GetNextName, Goto, PcOK, Moves, Publishing, Places
  <2>2. readers' = readers /\ writer' = writer
    BY <1>8 DEF GetNextName, lockVars
  <2> QED  BY <2>1, <2>2, StayRead
<1>9. CASE StreamCreate(w)
  <2>1. Moves(w) /\ pc[w] \in Publishing /\ pc[w] # "setup" /\ pc'[w] # "setup"
    BY <1>9 DEF StreamCreate, Fail, Goto, PcOK, Moves, Publishing, Places
  <2>2. writer' = writer
    BY <1>9 DEF StreamCreate
  <2>3. CASE pc'[w] = "name"
    <3>1. readers' = readers
      BY <1>9, <2>3 DEF StreamCreate, Fail, Goto, PcOK
    <3> QED  BY <2>1, <2>2, <2>3, <3>1, StayRead DEF Publishing
  <2>4. CASE pc'[w] # "name"
    <3>1. readers' = readers \ {w} /\ pc'[w] \in {"mark", "error"}
      BY <1>9, <2>4 DEF StreamCreate, Fail, Goto, PcOK
    <3>2. pc'[w] \notin Publishing
      BY <3>1 DEF Publishing
    <3> QED  BY <2>1, <2>2, <3>1, <3>2, LeaveRead
  <2> QED  BY <2>3, <2>4
<1>10. CASE StreamUpdate(w)
  <2>1. Moves(w) /\ pc[w] # "setup" /\ pc'[w] \notin Publishing /\ pc'[w] # "setup"
    BY <1>10 DEF StreamUpdate, Fail, Goto, PcOK, Moves, Publishing, Places
  <2>2. readers' = readers \ {w} /\ writer' = writer
    BY <1>10 DEF StreamUpdate, lockVars
  <2> QED  BY <2>1, <2>2, LeaveRead
<1>11. CASE MarkPublished(w)
  <2>1. Moves(w) /\ pc[w] \notin Publishing /\ pc[w] # "setup" /\ pc'[w] \notin Publishing /\ pc'[w] # "setup"
    BY <1>11 DEF MarkPublished, NextVideo, Goto, PcOK, Moves, Publishing, Places
  <2>2. readers' = readers /\ writer' = writer
    BY <1>11 DEF MarkPublished, lockVars
  <2> QED  BY <2>1, <2>2, Outside
<1>12. CASE HandleError(w)
  <2>1. Moves(w) /\ pc[w] \notin Publishing /\ pc[w] # "setup" /\ pc'[w] \notin Publishing /\ pc'[w] # "setup"
    BY <1>12 DEF HandleError, Goto, PcOK, Moves, Publishing, Places
  <2>2. readers' = readers /\ writer' = writer
    BY <1>12 DEF HandleError, lockVars
  <2> QED  BY <2>1, <2>2, Outside
<1>13. CASE WaitForNewBlock(w)
  <2>1. Moves(w) /\ pc[w] \notin Publishing /\ pc[w] # "setup" /\ pc'[w] \notin Publishing /\ pc'[w] # "setup"
    BY <1>13 DEF WaitForNewBlock, NextVideo, Goto, PcOK, Moves, Publishing, Places
  <2>2. readers' = readers /\ writer' = writer
    BY <1>13 DEF WaitForNewBlock, lockVars
  <2> QED  BY <2>1, <2>2, Outside
<1>14. CASE Lock(w)
  <2>1. Moves(w) /\ writer = None /\ readers = {} /\ pc'[w] = "setup" /\ pc'[w] \notin Publishing
    BY <1>14 DEF Lock, Goto, PcOK, Moves, Publishing, Places
  <2>2. readers' = readers /\ writer' = w
    BY <1>14 DEF Lock, lockVars
  <2> QED  BY <2>1, <2>2, EnterWrite
<1>15. CASE WalletSetup(w)
  <2>1. Moves(w) /\ pc[w] = "setup" /\ pc'[w] # "setup" /\ pc'[w] \notin Publishing
    BY <1>15 DEF WalletSetup, NextVideo, Goto, PcOK, Moves, Publishing, Places
  <2>2. readers' = readers /\ writer' = None
    BY <1>15 DEF WalletSetup, lockVars
  <2> QED  BY <2>1, <2>2, LeaveWrite
<1>16. CASE MarkFailed(w)
  <2>1. Moves(w) /\ pc[w] \notin Publishing /\ pc[w] # "setup" /\ pc'[w] \notin Publishing /\ pc'[w] # "setup"
    BY <1>16 DEF MarkFailed, NextVideo, Goto, PcOK, Moves, Publishing, Places
  <2>2. readers' = readers /\ writer' = writer
    BY <1>16 DEF MarkFailed, lockVars
  <2> QED  BY <2>1, <2>2, Outside
<1> QED  BY <1>1, <1>2, <1>3, <1>4, <1>5, <1>6, <1>7, <1>8, <1>9, <1>10, <1>11, <1>12,
            <1>13, <1>14, <1>15, <1>16 DEF Worker

---------------------------------------------------------------------------
(* The videos *)

\* The rows of db and synced; only a row that says nothing has no version.
RowsOK ==
    /\ db = [v \in Videos |-> db[v]] /\ synced = [v \in Videos |-> synced[v]]
    /\ \A v \in Videos: db[v].status = "none" => db[v].version = 0
    /\ \A v \in Videos: synced[v].status = "none" => synced[v].version = 0

\* What the functions of the workers are, and what was listed.
ShapeOK ==
    /\ video \in [Workers -> Videos \cup {None}]
    /\ upgrade \in [Workers -> BOOLEAN]
    /\ listed \subseteq Videos

\* Outside the work nobody has anything to do.
Idle ==
    run \notin {"work", "returned"} =>
        prod = "closed" /\ \A w \in Workers: pc[w] = "done" /\ video[w] = None /\ ~upgrade[w]

\* A worker has a video exactly while it works on one; one that stopped may keep it.
Held ==
    \A w \in Workers:
        /\ pc[w] \in {"loop", "receive"} => video[w] = None
        /\ pc[w] = "done" => stopped \/ video[w] = None
        /\ pc[w] \notin {"loop", "receive", "done"} => video[w] \in Videos
        /\ upgrade[w] => video[w] \in Videos /\ synced[video[w]].status # "none"

\* Until the group is stopped every listed video is in the queue, in someone's hands or
\* settled, and the queue is closed only when it is empty.
Settled(v) == v \in todo \/ (\E w \in Workers: video[w] = v) \/ synced[v].status # "none"
Accounted ==
    run = "work" /\ ~stopped =>
        /\ \A v \in listed \cap Recent: Settled(v)
        /\ prod = "closed" => todo = {}

\* A fatal error is flagged.
Flagged == fatals # {} => hard # None

VideoInv == RowsOK /\ ShapeOK /\ Idle /\ Held /\ Accounted /\ Flagged /\ CleanEndIsComplete

\* The variables a worker's step has nothing to do with.
Aside == UNCHANGED <<run, listed, result>>

\* A step that neither takes up a video nor lays one down.
LEMMA Keep ==
    ASSUME PcOK, VideoInv, NEW w \in Workers, Moves(w), run = "work", Aside,
           UNCHANGED <<video, todo, prod, db, synced>>,
           upgrade' = [upgrade EXCEPT ![w] = upgrade'[w]], upgrade'[w] \in BOOLEAN,
           upgrade'[w] => video[w] \in Videos /\ synced[video[w]].status # "none",
           pc'[w] \in {"loop", "receive"} => video[w] = None,
           pc'[w] = "done" => stopped \/ video[w] = None,
           pc'[w] \notin {"loop", "receive", "done"} => video[w] \in Videos,
           stopped => stopped', Flagged'
    PROVE  VideoInv'
<1>1. RowsOK' /\ ShapeOK' /\ Idle' /\ CleanEndIsComplete'
  BY DEF VideoInv, RowsOK, ShapeOK, Idle, CleanEndIsComplete, Aside
<1>2. Held'
  BY DEF VideoInv, Held, ShapeOK, PcOK, Moves
<1>3. Accounted'
  BY DEF VideoInv, Accounted, Settled, Aside
<1> QED  BY <1>1, <1>2, <1>3 DEF VideoInv

\* The worker is through with its video, which is settled, not wanted, or left because
\* the group was stopped.
LEMMA Drop ==
    ASSUME PcOK, VideoInv, NEW w \in Workers, NextVideo(w), run = "work", Aside,
           UNCHANGED <<todo, prod, fatals, hard>>, RowsOK',
           \A v \in Videos: synced[v].status # "none" => synced'[v].status # "none",
           stopped => stopped',
           stopped' \/ video[w] \notin Recent \/ synced'[video[w]].status # "none"
    PROVE  VideoInv'
<1>1. pc' = [pc EXCEPT ![w] = "loop"] /\ video' = [video EXCEPT ![w] = None]
      /\ upgrade' = [upgrade EXCEPT ![w] = FALSE]
  BY DEF NextVideo, Goto
<1>2. ShapeOK' /\ Idle' /\ CleanEndIsComplete' /\ Flagged'
  BY <1>1 DEF VideoInv, ShapeOK, Idle, CleanEndIsComplete, Aside, Flagged
<1>3. Held'
  BY <1>1 DEF VideoInv, Held, ShapeOK, PcOK
<1>4. ASSUME ~stopped', NEW v \in listed \cap Recent PROVE Settled(v)'
  <2>1. v \in Videos /\ Settled(v)
    BY <1>4 DEF VideoInv, Accounted, ShapeOK
  <2>2. CASE video[w] = v
    BY <1>4, <2>2 DEF Settled
  <2>3. ASSUME NEW u \in Workers, u # w, video[u] = v PROVE Settled(v)'
    BY <1>1, <2>3 DEF Settled, VideoInv, ShapeOK
  <2> QED  BY <2>1, <2>2, <2>3 DEF Settled
<1>5. Accounted'
  BY <1>4 DEF VideoInv, Accounted, Aside
<1> QED  BY <1>2, <1>3, <1>5 DEF VideoInv

\* Every step of a worker keeps account of the videos.
LEMMA WorkerVideos ==
    ASSUME PcOK, VideoInv, run = "work", NEW w \in Workers, Worker(w) PROVE VideoInv'
<1> USE DEF Goto
<1>h. /\ pc \in [Workers -> Places] /\ upgrade \in [Workers -> BOOLEAN]
      /\ video \in [Workers -> Videos \cup {None}]
      /\ pc[w] \in {"loop", "receive"} => video[w] = None
      /\ pc[w] \notin {"loop", "receive", "done"} => video[w] \in Videos
      /\ upgrade[w] => video[w] \in Videos /\ synced[video[w]].status # "none"
      /\ Flagged
  BY DEF PcOK, VideoInv, Held, ShapeOK
<1>1. CASE CheckStop(w)
  <2>1. Aside /\ UNCHANGED <<video, todo, prod, db, synced>>
    BY <1>1 DEF CheckStop, Aside, mainVars, persistent
  <2>2. Moves(w)
    BY <1>1, <1>h DEF CheckStop, Moves, Places
  <2>3. /\ pc'[w] \in {"loop", "receive"} => video[w] = None
        /\ pc'[w] = "done" => stopped \/ video[w] = None
        /\ pc'[w] \notin {"loop", "receive", "done"} => video[w] \in Videos
    BY <1>1, <1>h DEF CheckStop
  <2>4. upgrade' = [upgrade EXCEPT ![w] = upgrade'[w]] /\ upgrade'[w] \in BOOLEAN
    BY <1>1, <1>h DEF CheckStop
  <2>5. upgrade'[w] => video[w] \in Videos /\ synced[video[w]].status # "none"
    BY <1>1, <1>h DEF CheckStop
  <2>6. (stopped => stopped') /\ Flagged'
    BY <1>1, <1>h DEF CheckStop, Flagged, grpVars, history
  <2> QED  BY <2>1, <2>2, <2>3, <2>4, <2>5, <2>6, Keep
<1>2. CASE StopReceive(w)
  <2>1. Aside /\ UNCHANGED <<video, todo, prod, db, synced>>
    BY <1>2 DEF StopReceive, Aside, mainVars, persistent
  <2>2. Moves(w)
    BY <1>2, <1>h DEF StopReceive, Moves, Places
  <2>3. /\ pc'[w] \in {"loop", "receive"} => video[w] = None
        /\ pc'[w] = "done" => stopped \/ video[w] = None
        /\ pc'[w] \notin {"loop", "receive", "done"} => video[w] \in Videos
    BY <1>2, <1>h DEF StopReceive
  <2>4. upgrade' = [upgrade EXCEPT ![w] = upgrade'[w]] /\ upgrade'[w] \in BOOLEAN
    BY <1>2, <1>h DEF StopReceive
  <2>5. upgrade'[w] => video[w] \in Videos /\ synced[video[w]].status # "none"
    BY <1>2, <1>h DEF StopReceive
  <2>6. (stopped => stopped') /\ Flagged'
    BY <1>2, <1>h DEF StopReceive, Flagged, grpVars, history
  <2> QED  BY <2>1, <2>2, <2>3, <2>4, <2>5, <2>6, Keep
<1>3. CASE Download(w)
  <2>1. Aside /\ UNCHANGED <<video, todo, prod, db, synced>>
    BY <1>3 DEF Download, Fail, Aside, mainVars, persistent
  <2>2. Moves(w)
    BY <1>3, <1>h DEF Download, Fail, Moves, Places
  <2>3. /\ pc'[w] \in {"loop", "receive"} => video[w] = None
        /\ pc'[w] = "done" => stopped \/ video[w] = None
        /\ pc'[w] \notin {"loop", "receive", "done"} => video[w] \in Videos
    BY <1>3, <1>h DEF Download, Fail
  <2>4. upgrade' = [upgrade EXCEPT ![w] = upgrade'[w]] /\ upgrade'[w] \in BOOLEAN
    BY <1>3, <1>h DEF Download, Fail
  <2>5. upgrade'[w] => video[w] \in Videos /\ synced[video[w]].status # "none"
    BY <1>3, <1>h DEF Download, Fail
  <2>6. (stopped => stopped') /\ Flagged'
    BY <1>3, <1>h DEF Download, Fail, Flagged, grpVars, history
  <2> QED  BY <2>1, <2>2, <2>3, <2>4, <2>5, <2>6, Keep
<1>4. CASE Reprocess(w)
  <2>1. Aside /\ UNCHANGED <<video, todo, prod, db, synced>>
    BY <1>4 DEF Reprocess, Fail, Aside, mainVars, persistent
  <2>2. Moves(w)
    BY <1>4, <1>h DEF Reprocess, Fail, Moves, Places
  <2>3. /\ pc'[w] \in {"loop", "receive"} => video[w] = None
        /\ pc'[w] = "done" => stopped \/ video[w] = None
        /\ pc'[w] \notin {"loop", "receive", "done"} => video[w] \in Videos
    BY <1>4, <1>h DEF Reprocess, Fail
  <2>4. upgrade' = [upgrade EXCEPT ![w] = upgrade'[w]] /\ upgrade'[w] \in BOOLEAN
    BY <1>4, <1>h DEF Reprocess, Fail
  <2>5. upgrade'[w] => video[w] \in Videos /\ synced[video[w]].status # "none"
    BY <1>4, <1>h DEF Reprocess, Fail
  <2>6. (stopped => stopped') /\ Flagged'
    BY <1>4, <1>h DEF Reprocess, Fail, Flagged, grpVars, history
  <2> QED  BY <2>1, <2>2, <2>3, <2>4, <2>5, <2>6, Keep
<1>5. CASE RLock(w)
  <2>1. Aside /\ UNCHANGED <<video, todo, prod, db, synced>>
    BY <1>5 DEF RLock, Aside, mainVars, persistent
  <2>2. Moves(w)
    BY <1>5, <1>h DEF RLock, Moves, Places
  <2>3. /\ pc'[w] \in {"loop", "receive"} => video[w] = None
        /\ pc'[w] = "done" => stopped \/ video[w] = None
        /\ pc'[w] \notin {"loop", "receive", "done"} => video[w] \in Videos
    BY <1>5, <1>h DEF RLock
  <2>4. upgrade' = [upgrade EXCEPT ![w] = upgrade'[w]] /\ upgrade'[w] \in BOOLEAN
    BY <1>5, <1>h DEF RLock
  <2>5. upgrade'[w] => video[w] \in Videos /\ synced[video[w]].status # "none"
    BY <1>5, <1>h DEF RLock
  <2>6. (stopped => stopped') /\ Flagged'
    BY <1>5, <1>h DEF RLock, Flagged, grpVars, history
  <2> QED  BY <2>1, <2>2, <2>3, <2>4, <2>5, <2>6, Keep
<1>6. CASE GetNextName(w)
  <2>1. Aside /\ UNCHANGED <<video, todo, prod, db, synced>>
    BY <1>6 DEF GetNextName, Aside, mainVars, persistent
  <2>2. Moves(w)
    BY <1>6, <1>h DEF GetNextName, Moves, Places
  <2>3. /\ pc'[w] \in {"loop", "receive"} => video[w] = None
        /\ pc'[w] = "done" => stopped \/ video[w] = None
        /\ pc'[w] \notin {"loop", "receive", "done"} => video[w] \in Videos
    BY <1>6, <1>h DEF GetNextName
  <2>4. upgrade' = [upgrade EXCEPT ![w] = upgrade'[w]] /\ upgrade'[w] \in BOOLEAN
    BY <1>6, <1>h DEF GetNextName
  <2>5. upgrade'[w] => video[w] \in Videos /\ synced[video[w]].status # "none"
    BY <1>6, <1>h DEF GetNextName
  <2>6. (stopped => stopped') /\ Flagged'
    BY <1>6, <1>h DEF GetNextName, Flagged, grpVars, history
  <2> QED  BY <2>1, <2>2, <2>3, <2>4, <2>5, <2>6, Keep
<1>7. CASE StreamCreate(w)
  <2>1. Aside /\ UNCHANGED <<video, todo, prod, db, synced>>
    BY <1>7 DEF StreamCreate, Fail, Aside, mainVars, persistent
  <2>2. Moves(w)
    BY <1>7, <1>h DEF StreamCreate, Fail, Moves, Places
  <2>3. /\ pc'[w] \in {"loop", "receive"} => video[w] = None
        /\ pc'[w] = "done" => stopped \/ video[w] = None
        /\ pc'[w] \notin {"loop", "receive", "done"} => video[w] \in Videos
    BY <1>7, <1>h DEF StreamCreate, Fail
  <2>4. upgrade' = [upgrade EXCEPT ![w] = upgrade'[w]] /\ upgrade'[w] \in BOOLEAN
    BY <1>7, <1>h DEF StreamCreate, Fail
  <2>5. upgrade'[w] => video[w] \in Videos /\ synced[video[w]].status # "none"
    BY <1>7, <1>h DEF StreamCreate, Fail
  <2>6. (stopped => stopped') /\ Flagged'
    BY <1>7, <1>h DEF StreamCreate, Fail, Flagged, grpVars, history
  <2> QED  BY <2>1, <2>2, <2>3, <2>4, <2>5, <2>6, Keep
<1>8. CASE StreamUpdate(w)
  <2>1. Aside /\ UNCHANGED <<video, todo, prod, db, synced>>
    BY <1>8 DEF StreamUpdate, Fail, Aside, mainVars, persistent
  <2>2. Moves(w)
    BY <1>8, <1>h DEF StreamUpdate, Fail, Moves, Places
  <2>3. /\ pc'[w] \in {"loop", "receive"} => video[w] = None
        /\ pc'[w] = "done" => stopped \/ video[w] = None
        /\ pc'[w] \notin {"loop", "receive", "done"} => video[w] \in Videos
    BY <1>8, <1>h DEF StreamUpdate, Fail
  <2>4. upgrade' = [upgrade EXCEPT ![w] = upgrade'[w]] /\ upgrade'[w] \in BOOLEAN
    BY <1>8, <1>h DEF StreamUpdate, Fail
  <2>5. upgrade'[w] => video[w] \in Videos /\ synced[video[w]].status # "none"
    BY <1>8, <1>h DEF StreamUpdate, Fail
  <2>6. (stopped => stopped') /\ Flagged'
    BY <1>8, <1>h DEF StreamUpdate, Fail, Flagged, grpVars, history
  <2> QED  BY <2>1, <2>2, <2>3, <2>4, <2>5, <2>6, Keep
<1>9. CASE HandleError(w)
  <2>1. Aside /\ UNCHANGED <<video, todo, prod, db, synced>>
    BY <1>9 DEF HandleError, FlagFailure, Aside, mainVars, persistent
  <2>2. Moves(w)
    BY <1>9, <1>h DEF HandleError, FlagFailure, Moves, Places
  <2>3. /\ pc'[w] \in {"loop", "receive"} => video[w] = None
        /\ pc'[w] = "done" => stopped \/ video[w] = None
        /\ pc'[w] \notin {"loop", "receive", "done"} => video[w] \in Videos
    BY <1>9, <1>h DEF HandleError, FlagFailure
  <2>4. upgrade' = [upgrade EXCEPT ![w] = upgrade'[w]] /\ upgrade'[w] \in BOOLEAN
    BY <1>9, <1>h DEF HandleError, FlagFailure
  <2>5. upgrade'[w] => video[w] \in Videos /\ synced[video[w]].status # "none"
    BY <1>9, <1>h DEF HandleError, FlagFailure
  <2>6. (stopped => stopped') /\ Flagged'
    <3>1. video[w] \in Videos
      BY <1>9, <1>h DEF HandleError
    <3>2. stopped' = TRUE \/ stopped' = stopped
      BY <1>9 DEF HandleError
    <3>3. CASE UNCHANGED <<fatals, hard>>
      BY <1>h, <3>2, <3>3 DEF Flagged
    <3>4. CASE FlagFailure(video[w])
      BY <3>1, <3>2, <3>4, NoneIsNobody DEF FlagFailure, Flagged
    <3> QED  BY <1>9, <3>3, <3>4 DEF HandleError
  <2> QED  BY <2>1, <2>2, <2>3, <2>4, <2>5, <2>6, Keep
<1>10. CASE Lock(w)
  <2>1. Aside /\ UNCHANGED <<video, todo, prod, db, synced>>
    BY <1>10 DEF Lock, Aside, mainVars, persistent
  <2>2. Moves(w)
    BY <1>10, <1>h DEF Lock, Moves, Places
  <2>3. /\ pc'[w] \in {"loop", "receive"} => video[w] = None
        /\ pc'[w] = "done" => stopped \/ video[w] = None
        /\ pc'[w] \notin {"loop", "receive", "done"} => video[w] \in Videos
    BY <1>10, <1>h DEF Lock
  <2>4. upgrade' = [upgrade EXCEPT ![w] = upgrade'[w]] /\ upgrade'[w] \in BOOLEAN
    BY <1>10, <1>h DEF Lock
  <2>5. upgrade'[w] => video[w] \in Videos /\ synced[video[w]].status # "none"
    BY <1>10, <1>h DEF Lock
  <2>6. (stopped => stopped') /\ Flagged'
    BY <1>10, <1>h DEF Lock, Flagged, grpVars, history
  <2> QED  BY <2>1, <2>2, <2>3, <2>4, <2>5, <2>6, Keep
<1>11. CASE MarkPublished(w)
  <2>1. Aside /\ UNCHANGED <<todo, prod, fatals, hard>> /\ NextVideo(w) /\ stopped' = stopped
    BY <1>11 DEF MarkPublished, Aside, mainVars, grpVars, history
  <2>2. RowsOK' /\ synced'[video[w]].status # "none"
        /\ \A v \in Videos: synced[v].status # "none" => synced'[v].status # "none"
    <3>1. PICK row: /\ row.status = "published"
                    /\ synced' = [synced EXCEPT ![video[w]] = row]
                    /\ db' \in {db, [db EXCEPT ![video[w]] = row]}
      BY <1>11 DEF MarkPublished, Published
    <3>2. video[w] \in Videos /\ RowsOK
      BY <1>11, <1>h DEF MarkPublished, VideoInv
    <3> QED  BY <3>1, <3>2 DEF RowsOK
  <2> QED  BY <2>1, <2>2, Drop
<1>12. CASE MarkFailed(w)
  <2>1. Aside /\ UNCHANGED <<todo, prod, fatals, hard>> /\ NextVideo(w) /\ stopped' = stopped
    BY <1>12 DEF MarkFailed, Aside, mainVars, grpVars, history
  <2>2. RowsOK' /\ synced'[video[w]].status # "none"
        /\ \A v \in Videos: synced[v].status # "none" => synced'[v].status # "none"
    BY <1>12, <1>h DEF MarkFailed, Failed, VideoInv, RowsOK
  <2> QED  BY <2>1, <2>2, Drop
<1>13. CASE Try(w)
  <2>1. /\ Aside /\ UNCHANGED <<todo, prod, fatals, hard, db, synced, stopped>>
        /\ pc[w] = "try" /\ video[w] \in Videos
    BY <1>13, <1>h DEF Try, Aside, mainVars, persistent, grpVars, history
  <2>2. CASE NextVideo(w) /\ Skips(video[w])
    <3>1. video[w] \notin Recent \/ synced[video[w]].status # "none"
      BY <2>1, <2>2 DEF Skips, VideoInv, RowsOK
    <3> QED  BY <2>1, <2>2, <3>1, Drop DEF VideoInv, RowsOK
  <2>3. CASE /\ video' = video /\ pc' = [pc EXCEPT ![w] = pc'[w]]
             /\ pc'[w] \in {"done", "reprocess", "download", "error"}
             /\ pc'[w] = "done" => stopped
             /\ upgrade' = [upgrade EXCEPT ![w] = upgrade'[w]]
             /\ upgrade'[w] = FALSE \/ upgrade'[w] = upgrade[w]
                \/ upgrade'[w] = (RequiresUpgrade(video[w]) /\ synced[video[w]].status = "published")
    <3>1. Moves(w)
      BY <2>3 DEF Moves, Places
    <3>2. upgrade'[w] \in BOOLEAN
      BY <2>3, <1>h DEF RequiresUpgrade
    <3>3. ASSUME upgrade'[w] PROVE video[w] \in Videos /\ synced[video[w]].status # "none"
      <4>1. upgrade[w] \/ synced[video[w]].status = "published"
        BY <2>3, <3>3, Zenon
      <4> QED  BY <1>h, <2>1, <4>1
    <3>4. Flagged'
      BY <2>1, <1>h DEF Flagged
    <3> QED  BY <2>1, <2>3, <3>1, <3>2, <3>3, <3>4, Keep
  <2>4. CASE stopped /\ Goto(w, "done") /\ UNCHANGED <<video, upgrade>>
    BY <1>h, <2>3, <2>4
  <2>5. CASE /\ UNCHANGED video
             /\ \/ /\ upgrade' = [upgrade EXCEPT ![w] = RequiresUpgrade(video[w])
                                                        /\ synced[video[w]].status = "published"]
                   /\ pc' = [pc EXCEPT ![w] = IF upgrade'[w] THEN "reprocess" ELSE "download"]
                \/ upgrade' = [upgrade EXCEPT ![w] = FALSE] /\ Goto(w, "error")
    BY <1>h, <2>3, <2>5
  <2> QED  BY <1>13, <2>2, <2>4, <2>5 DEF Try
<1>14. CASE WaitForNewBlock(w)
  <2>1. /\ Aside /\ UNCHANGED <<todo, prod, fatals, hard, db, synced>>
        /\ pc[w] = "block"
    BY <1>14, <1>h DEF WaitForNewBlock, Aside, mainVars, persistent, history
  <2>2. RowsOK' /\ Flagged'
    BY <2>1 DEF VideoInv, RowsOK, Flagged
  <2>3. CASE stopped' = TRUE /\ NextVideo(w)
    BY <2>1, <2>2, <2>3, Drop
  <2>4. CASE Goto(w, "try") /\ UNCHANGED <<video, upgrade, stopped>>
    <3>1. Moves(w) /\ pc'[w] = "try"
      BY <1>h, <2>4 DEF Moves, Places
    <3>2. upgrade' = [upgrade EXCEPT ![w] = upgrade'[w]] /\ upgrade'[w] \in BOOLEAN
      BY <1>h, <2>4
    <3> QED  BY <1>h, <2>1, <2>2, <2>4, <3>1, <3>2, Keep
  <2> QED  BY <1>14, <2>3, <2>4 DEF WaitForNewBlock
<1>15. CASE WalletSetup(w)
  <2>1. /\ Aside /\ UNCHANGED <<todo, prod, fatals, hard, db, synced>>
        /\ pc[w] = "setup"
    BY <1>15, <1>h DEF WalletSetup, Aside, mainVars, persistent, history
  <2>2. RowsOK' /\ Flagged'
    BY <2>1 DEF VideoInv, RowsOK, Flagged
  <2>3. CASE stopped' = TRUE /\ NextVideo(w)
    BY <2>1, <2>2, <2>3, Drop
  <2>4. CASE Goto(w, "try") /\ UNCHANGED <<video, upgrade, stopped>>
    <3>1. Moves(w) /\ pc'[w] = "try"
      BY <1>h, <2>4 DEF Moves, Places
    <3>2. upgrade' = [upgrade EXCEPT ![w] = upgrade'[w]] /\ upgrade'[w] \in BOOLEAN
      BY <1>h, <2>4
    <3> QED  BY <1>h, <2>1, <2>2, <2>4, <3>1, <3>2, Keep
  <2> QED  BY <1>15, <2>3, <2>4 DEF WalletSetup
<1>16. ASSUME NEW v \in Videos, Receive(w, v) PROVE VideoInv'
  <2>1. /\ Aside /\ UNCHANGED <<fatals, hard, db, synced, stopped, upgrade>>
        /\ pc' = [pc EXCEPT ![w] = "try"] /\ video' = [video EXCEPT ![w] = v]
        /\ pc[w] = "receive" /\ prod' = "check" /\ todo' = todo \ {v}
    BY <1>16 DEF Receive, Aside, mainVars, persistent, grpVars, history
  <2>2. RowsOK' /\ ShapeOK' /\ Idle' /\ Flagged' /\ CleanEndIsComplete'
    BY <2>1 DEF VideoInv, RowsOK, ShapeOK, Idle, Flagged, CleanEndIsComplete, Aside
  <2>3. Held'
    BY <1>h, <2>1, NoneIsNobody DEF VideoInv, Held, ShapeOK
  <2>4. ASSUME NEW x \in Videos, Settled(x) PROVE Settled(x)'
    BY <1>h, <2>1, <2>4, NoneIsNobody DEF Settled
  <2>5. Accounted'
    BY <2>1, <2>4 DEF VideoInv, Accounted, Aside, ShapeOK
  <2> QED  BY <2>2, <2>3, <2>5 DEF VideoInv
<1> QED  BY <1>1, <1>2, <1>3, <1>4, <1>5, <1>6, <1>7, <1>8, <1>9, <1>10, <1>11, <1>12,
            <1>13, <1>14, <1>15, <1>16 DEF Worker

---------------------------------------------------------------------------
(* The specification *)

Inv == PcOK /\ LockInv /\ VideoInv

LEMMA InitInv == Init => Inv
<1> SUFFICES ASSUME Init PROVE Inv  OBVIOUS
<1>1. /\ pc = [w \in Workers |-> "done"] /\ video = [w \in Workers |-> None]
      /\ upgrade = [w \in Workers |-> FALSE] /\ writer = None /\ readers = {}
      /\ run = "down" /\ prod = "closed" /\ listed = {} /\ fatals = {} /\ synced = db
  BY DEF Init
<1>2. PcOK /\ LockInv
  BY <1>1, NoneIsNobody DEF PcOK, LockInv, Places, Publishing
<1>3. RowsOK
  BY DEF Init, RowsOK, NoRow, Published
<1>4. ShapeOK /\ Idle /\ Held /\ Accounted /\ Flagged /\ CleanEndIsComplete
  BY <1>1 DEF ShapeOK, Idle, Held, Accounted, Flagged, CleanEndIsComplete
<1> QED  BY <1>2, <1>3, <1>4 DEF Inv, VideoInv

\* A step of doSync before the workers, which leaves them as they are.
LEMMA Prepare ==
    ASSUME Inv, run \notin {"work", "returned"}, run' # "work",
           run' = "returned" => result' # "ok",
           UNCHANGED <<pc, video, upgrade, writer, readers, prod, listed, fatals, hard>>,
           RowsOK'
    PROVE  Inv'
<1>1. PcOK' /\ LockInv'
  BY DEF Inv, PcOK, LockInv
<1>2. ShapeOK' /\ Idle' /\ Accounted' /\ Flagged' /\ CleanEndIsComplete'
  BY DEF Inv, VideoInv, ShapeOK, Idle, Accounted, Flagged, CleanEndIsComplete
<1>3. Held'
  BY DEF Inv, VideoInv, Idle, Held
<1> QED  BY <1>1, <1>2, <1>3 DEF Inv, VideoInv

\* Nothing has run yet, or nothing runs any more.
LEMMA Fresh ==
    ASSUME NewSync, run' # "work", run' = "returned" => result' # "ok", RowsOK'
    PROVE  Inv'
<1>1. PcOK' /\ LockInv'
  BY NoneIsNobody DEF NewSync, PcOK, LockInv, Places, Publishing
<1>2. ShapeOK' /\ Idle' /\ Held' /\ Accounted' /\ Flagged' /\ CleanEndIsComplete'
  BY DEF NewSync, ShapeOK, Idle, Held, Accounted, Flagged, CleanEndIsComplete
<1> QED  BY <1>1, <1>2 DEF Inv, VideoInv

\* Every step of doSync's own goroutine keeps the invariant.
LEMMA MainInv == ASSUME Inv, Main PROVE Inv'
<1> DEFINE Workless == UNCHANGED <<pc, video, upgrade, writer, readers, prod, listed, fatals, hard>>
<1> USE DEF Return, workerVars, lockVars, grpVars, history, persistent, mainVars
<1>1. CASE FixDupes
  <2>1. run \notin {"work", "returned"} /\ run' # "work" /\ (run' = "returned" => result' # "ok")
    BY <1>1 DEF FixDupes
  <2>2. Workless
    BY <1>1 DEF FixDupes
  <2>3. RowsOK'
    BY <1>1 DEF FixDupes, Inv, VideoInv, RowsOK
  <2> QED  BY <2>1, <2>2, <2>3, Prepare
<1>2. CASE CompareClaims
  <2>1. run \notin {"work", "returned"} /\ run' # "work" /\ (run' = "returned" => result' # "ok")
    BY <1>2 DEF CompareClaims
  <2>2. Workless
    BY <1>2 DEF CompareClaims
  <2>3. RowsOK'
    BY <1>2 DEF CompareClaims, Inv, VideoInv, RowsOK
  <2> QED  BY <2>1, <2>2, <2>3, Prepare
<1>3. ASSUME NEW v \in Videos, FixDB(v) PROVE Inv'
  <2>1. run \notin {"work", "returned"} /\ run' # "work" /\ (run' = "returned" => result' # "ok")
    BY <1>3 DEF FixDB
  <2>2. Workless
    BY <1>3 DEF FixDB
  <2>3. RowsOK'
    BY <1>3 DEF FixDB, Inv, VideoInv, RowsOK, Published
  <2> QED  BY <2>1, <2>2, <2>3, Prepare
<1>4. CASE ReloadFixed
  <2>1. run \notin {"work", "returned"} /\ run' # "work" /\ (run' = "returned" => result' # "ok")
    BY <1>4 DEF ReloadFixed, Reload, SetStatusSyncing
  <2>2. Workless
    BY <1>4 DEF ReloadFixed, Reload, SetStatusSyncing
  <2>3. RowsOK'
    BY <1>4 DEF ReloadFixed, Reload, SetStatusSyncing, Inv, VideoInv, RowsOK
  <2> QED  BY <2>1, <2>2, <2>3, Prepare
<1>5. CASE RemoveUnpublished
  <2>1. run \notin {"work", "returned"} /\ run' # "work" /\ (run' = "returned" => result' # "ok")
    BY <1>5 DEF RemoveUnpublished
  <2>2. Workless
    BY <1>5 DEF RemoveUnpublished
  <2>3. RowsOK'
    <3>1. /\ UNCHANGED synced
          /\ \E ids: db' \in {db, [v \in Videos |-> IF v \in ids THEN NoRow ELSE db[v]]}
      BY <1>5 DEF RemoveUnpublished
    <3> QED  BY <3>1 DEF Inv, VideoInv, RowsOK, NoRow
  <2> QED  BY <2>1, <2>2, <2>3, Prepare
<1>6. CASE ReloadRemoved
  <2>1. run \notin {"work", "returned"} /\ run' # "work" /\ (run' = "returned" => result' # "ok")
    BY <1>6 DEF ReloadRemoved, Reload, SetStatusSyncing
  <2>2. Workless
    BY <1>6 DEF ReloadRemoved, Reload, SetStatusSyncing
  <2>3. RowsOK'
    BY <1>6 DEF ReloadRemoved, Reload, SetStatusSyncing, Inv, VideoInv, RowsOK
  <2> QED  BY <2>1, <2>2, <2>3, Prepare
<1>7. CASE StartWorkers
  <2>1. RowsOK' /\ Flagged'
    BY <1>7 DEF StartWorkers, Inv, VideoInv, RowsOK, Flagged
  <2>2. CASE Return("error") /\ UNCHANGED <<prod, todo, listed, pc>>
    BY <1>7, <2>1, <2>2, Prepare DEF StartWorkers
  <2>3. CASE /\ run' = "work" /\ pc' = [w \in Workers |-> "loop"]
             /\ listed' \subseteq Videos /\ todo' = listed' /\ (prod' = "closed" => listed' = {})
    <3>1. /\ UNCHANGED <<video, upgrade, writer, readers>> /\ run = "cert"
      BY <1>7 DEF StartWorkers
    <3>2. PcOK' /\ LockInv'
      BY <2>3, <3>1 DEF Inv, VideoInv, Idle, PcOK, LockInv, Places, Publishing
    <3>3. ShapeOK' /\ Idle' /\ Accounted' /\ CleanEndIsComplete'
      BY <2>3, <3>1 DEF Inv, VideoInv, ShapeOK, Idle, Accounted, Settled, CleanEndIsComplete
    <3>4. Held'
      BY <2>3, <3>1 DEF Inv, VideoInv, Idle, Held
    <3> QED  BY <2>1, <3>2, <3>3, <3>4 DEF Inv, VideoInv
  <2> QED  BY <1>7, <2>2, <2>3 DEF StartWorkers
<1>8. CASE Finish
  <2>1. /\ run = "work" /\ prod = "closed" /\ run' = "returned"
        /\ \A w \in Workers: pc[w] = "done"
        /\ result' = "ok" => hard = None
        /\ UNCHANGED <<pc, video, upgrade, writer, readers, prod, todo, listed, fatals, hard,
                       db, synced, stopped>>
    BY <1>8 DEF Finish
  <2>2. PcOK' /\ LockInv'
    BY <2>1 DEF Inv, PcOK, LockInv
  <2>3. RowsOK' /\ ShapeOK' /\ Idle' /\ Accounted' /\ Flagged'
    BY <2>1 DEF Inv, VideoInv, RowsOK, ShapeOK, Idle, Accounted, Flagged
  <2>4. Held'
    BY <2>1 DEF Inv, VideoInv, Held
  <2>5. ASSUME ~stopped, NEW v \in listed \cap Recent PROVE synced[v].status # "none"
    <3>1. Settled(v) /\ todo = {}
      BY <2>1, <2>5 DEF Inv, VideoInv, Accounted
    <3>2. \A w \in Workers: video[w] = None
      BY <2>1, <2>5 DEF Inv, VideoInv, Held
    <3> QED  BY <2>5, <3>1, <3>2, NoneIsNobody DEF Settled, Inv, VideoInv, ShapeOK
  <2>6. CleanEndIsComplete'
    BY <2>1, <2>5 DEF CleanEndIsComplete, Inv, VideoInv, Flagged
  <2> QED  BY <2>2, <2>3, <2>4, <2>6 DEF Inv, VideoInv
<1>9. CASE Enqueue \/ StopEnqueue
  <2>1. /\ UNCHANGED <<pc, video, upgrade, writer, readers, todo, listed, fatals, hard, run,
                       result, db, synced, stopped>>
        /\ prod # "closed" /\ (prod' = "closed" => stopped \/ todo = {})
    BY <1>9 DEF Enqueue, StopEnqueue
  <2>2. PcOK' /\ LockInv'
    BY <2>1 DEF Inv, PcOK, LockInv
  <2>3. RowsOK' /\ ShapeOK' /\ Idle' /\ Flagged' /\ CleanEndIsComplete'
    BY <2>1 DEF Inv, VideoInv, RowsOK, ShapeOK, Idle, Flagged, CleanEndIsComplete
  <2>4. Held'
    BY <2>1 DEF Inv, VideoInv, Held
  <2>5. Accounted'
    BY <2>1 DEF Inv, VideoInv, Accounted, Settled
  <2> QED  BY <2>2, <2>3, <2>4, <2>5 DEF Inv, VideoInv
<1> QED  BY <1>1, <1>2, <1>3, <1>4, <1>5, <1>6, <1>7, <1>8, <1>9 DEF Main

\* Every step keeps the invariant.
LEMMA NextInv == Inv /\ [Next]_vars => Inv'
<1> SUFFICES ASSUME Inv, [Next]_vars PROVE Inv'  OBVIOUS
<1> USE DEF workerVars, lockVars, grpVars, history, persistent, mainVars
<1>1. CASE StartSync
  <2>1. RowsOK' /\ NewSync /\ run' # "work" /\ (run' = "returned" => result' # "ok")
    BY <1>1 DEF StartSync, SetStatusSyncing, Return, Inv, VideoInv, RowsOK
  <2> QED  BY <2>1, Fresh
<1>2. CASE Crash
  <2>1. RowsOK' /\ NewSync /\ run' = "down"
    BY <1>2 DEF Crash, NoRow, Inv, VideoInv, RowsOK
  <2> QED  BY <2>1, Fresh
<1>3. CASE Main
  BY <1>3, MainInv
<1>4. ASSUME NEW w \in Workers, Worker(w) PROVE Inv'
  <2>1. PcOK' /\ LockInv'
    BY <1>4, WorkerLock DEF Inv
  <2>2. run = "work"
    BY <1>4 DEF Worker
  <2> QED  BY <1>4, <2>1, <2>2, WorkerVideos DEF Inv
<1>5. CASE Interrupt
  <2>1. /\ UNCHANGED <<pc, video, upgrade, writer, readers, todo, listed, fatals, hard, run,
                       result, db, synced, prod>>
        /\ stopped' /\ run # "returned"
    BY <1>5 DEF Interrupt
  <2>2. PcOK' /\ LockInv'
    BY <2>1 DEF Inv, PcOK, LockInv
  <2>3. RowsOK' /\ ShapeOK' /\ Idle' /\ Accounted' /\ Flagged' /\ CleanEndIsComplete'
    BY <2>1 DEF Inv, VideoInv, RowsOK, ShapeOK, Idle, Accounted, Flagged, CleanEndIsComplete
  <2>4. Held'
    BY <2>1 DEF Inv, VideoInv, Held
  <2> QED  BY <2>2, <2>3, <2>4 DEF Inv, VideoInv
<1>6. CASE UNCHANGED vars
  <2>1. PcOK' /\ LockInv'
    BY <1>6 DEF vars, Inv, PcOK, LockInv
  <2>2. RowsOK' /\ ShapeOK' /\ Idle' /\ Accounted' /\ Flagged' /\ CleanEndIsComplete'
    BY <1>6 DEF vars, Inv, VideoInv, RowsOK, ShapeOK, Idle, Accounted, Settled, Flagged,
                CleanEndIsComplete
  <2>3. Held'
    BY <1>6 DEF vars, Inv, VideoInv, Held
  <2> QED  BY <2>1, <2>2, <2>3 DEF Inv, VideoInv
<1> QED  BY <1>1, <1>2, <1>3, <1>4, <1>5, <1>6 DEF Next, Over

LEMMA Invariance == Spec => []Inv
BY InitInv, NextInv, PTL DEF Spec

\* While one worker refills the wallet nobody else refills it or publishes
\* (setup.go: "prevent unnecessary concurrent execution and publishing while refilling").
THEOREM RefillAlone == Spec => []NoPublishWhileRefilling
<1>1. Inv => NoPublishWhileRefilling
  <2> SUFFICES ASSUME LockInv, NEW w \in Workers, NEW u \in Workers, pc[w] = "setup", u # w
               PROVE  pc[u] \notin {"setup", "name", "create", "update"}
    BY DEF Inv, NoPublishWhileRefilling
  <2>1. writer = w /\ readers = {} /\ writer # u
    BY NoneIsNobody DEF LockInv
  <2>2. pc[u] # "setup" /\ pc[u] \notin Publishing
    BY <2>1 DEF LockInv
  <2> QED  BY <2>2 DEF Publishing
<1> QED  BY <1>1, Invariance, PTL

\* doSync's clean end: no fatal failure, and no listed video forgotten unless the group
\* was stopped.
THEOREM CleanEnd == Spec => []CleanEndIsComplete
<1>1. Inv => CleanEndIsComplete
  BY DEF Inv, VideoInv
<1> QED  BY <1>1, Invariance, PTL
===========================================================================
