--------------------------- MODULE ChannelCycle ---------------------------
(***************************************************************************)
(* One ytsync server taking channels through Sync.FullCycle, with what the *)
(* cycle moves about: the channel's wallet and blockchain.db (on disk, in  *)
(* the lbrynet daemon, on S3), the blobs and the status in the remote      *)
(* database.  The lbrynet service runs on its own: it boots, loads or      *)
(* creates default_wallet, rewrites it and exits while ytsync goes on, and *)
(* it outlives a crash of ytsync.                                          *)
(*                                                                         *)
(* pc is where the ytsync process is; "down" means it is not running.      *)
(* The Go error *e is the set of the messages that were put together in    *)
(* it, because the code only ever asks whether it is nil and whether it    *)
(* contains a given message; {} is nil.                                    *)
(***************************************************************************)
EXTENDS Naturals

CONSTANTS
    Channels,       \* the YouTube channels this server syncs
    None,           \* "no file", "no object on S3"
    ToTransfer,     \* the channels for which shouldTransfer() holds
    MaxVersion,     \* bound: how often a wallet is rewritten
    UnattendedBoot  \* may lbrynet be left booting by a ytsync that is gone?

Wallet == [owner: Channels, ver: Nat \ {0}]

ASSUME ConstantsAssumption ==
    /\ None \notin Channels
    /\ None \notin Wallet
    /\ ToTransfer \subseteq Channels
    /\ MaxVersion \in Nat
    /\ UnattendedBoot \in BOOLEAN

VARIABLES
    pc,         \* where the process is
    cur,        \* chanToSync
    e,          \* the error of the cycle, as the set of its messages
    walletDownloaded, newWalletCreated,     \* runState
    grpStopped, \* stopGroup, shared by every cycle of the process
    panicking,  \* FullCycle's goroutine panicked and runs its deferred functions
    hotRestarted,                           \* waitForDaemonStart's local
    daemon,     \* the lbrynet process: "off", "boot" or "on"
    stopping,   \* lbrynet was told to stop
    startedFor, \* the channel whose cycle started the lbrynet that boots
    mem,        \* the wallet lbrynet holds in memory
    wallet,     \* the file default_wallet
    s3Wallet,   \* the wallet bucket
    bdb,        \* is there a file blockchain.db?  (the bucket may hold any, or none)
    blobs,      \* blob files that were not reflected yet
    status, transfer,                       \* the channel's row in the DB
    \* history
    latest,     \* the newest version of each channel's wallet
    transferred,\* the channels whose processTransfers came to its end
    unmoved,    \* the running cycle left its wallet on disk
    blobsLost   \* unreflected blobs were deleted

procVars   == <<pc, cur, e, grpStopped, panicking>>
cycleVars  == <<walletDownloaded, newWalletCreated, hotRestarted, unmoved>>
daemonVars == <<daemon, stopping, startedFor, mem>>
walletVars == <<wallet, s3Wallet, latest>>
blobVars   == <<blobs, blobsLost>>
dbVars     == <<status, transfer, transferred>>
vars == <<procVars, cycleVars, daemonVars, walletVars, bdb, blobVars, dbVars>>

InCycle == {"wallet", "fetch", "bdb", "prepare", "wait", "sync", "transfer",
            "stop", "death", "upload", "remove", "uploadBdb", "status"}
Locations == InCycle \cup {"down", "idle", "manager", "reflect", "clean", "next"}

\* What the code tells apart in an error message.
Messages == {"otherServer", "interrupted", "walletExists", "missingInputs",
             "fatal", "walletUpload", "bdb", "bdbPrefix",
             "walletNotMoved", "other"}

\* setChannelTerminationStatus: errors that leave the channel's status alone.
NoFailConditions == {"otherServer", "interrupted", "bdbPrefix", "walletExists"}

\* Manager.Start: errors after which the process exits.
FatalErrors == {"walletExists", "walletNotMoved", "fatal", "walletUpload"}

---------------------------------------------------------------------------
Init ==
    /\ pc = "down" /\ cur \in Channels /\ e = {} /\ grpStopped = FALSE /\ panicking = FALSE
    /\ walletDownloaded = FALSE /\ newWalletCreated = FALSE
    /\ hotRestarted = FALSE /\ unmoved = FALSE
    /\ daemon = "off" /\ stopping = FALSE /\ startedFor = None /\ mem = None
    /\ wallet = None /\ s3Wallet = [c \in Channels |-> None]
    /\ bdb = FALSE
    /\ latest = [c \in Channels |-> 0]
    /\ blobs = FALSE /\ blobsLost = FALSE
    /\ status = [c \in Channels |-> "queued"]
    /\ transfer = [c \in Channels |->
                     IF c \in ToTransfer THEN "pending" ELSE "notTouched"]
    /\ transferred = {}

\* The Sync value of the cycle is out of scope; the next one starts from zero.
NewSync ==
    /\ walletDownloaded' = FALSE /\ newWalletCreated' = FALSE
    /\ hotRestarted' = FALSE /\ unmoved' = FALSE

\* The step goes to location l and the error becomes m.
Goto(l, m) == pc' = l /\ e' = m /\ UNCHANGED <<cur, grpStopped, panicking>>

\* The process ends: what is left are the files, S3, the DB and lbrynet.
Exit ==
    /\ pc' = "down" /\ e' = {} /\ grpStopped' = FALSE /\ panicking' = FALSE
    /\ UNCHANGED cur

---------------------------------------------------------------------------
(* The manager *)

\* main and the top of SyncManager.Start.
Start ==
    /\ pc = "down"
    /\ Goto("idle", {})
    /\ UNCHANGED <<cycleVars, daemonVars, walletVars, bdb, blobVars, dbVars>>

\* The next channel of channelsToSync, and FullCycle up to and including
\* setStatusSyncing.  When that fails nothing was deferred yet.
FullCycle(c) ==
    /\ pc = "idle"
    /\ cur' = c
    /\ \/ /\ pc' = "wallet" /\ e' = {}
          /\ status' = [status EXCEPT ![c] = "syncing"]
       \/ /\ pc' = "manager" /\ e' \in {{"otherServer"}, {"other"}}
          /\ UNCHANGED status
    /\ UNCHANGED <<grpStopped, panicking, cycleVars, transfer, transferred,
                   daemonVars, walletVars, bdb, blobVars>>

\* What Start does with the error of the cycle.
HandleError ==
    /\ pc = "manager"
    /\ IF e \cap FatalErrors # {} THEN Exit ELSE Goto("reflect", {})
    /\ NewSync
    /\ UNCHANGED <<daemonVars, walletVars, bdb, blobVars, dbVars>>

\* reflectBlobs: a running daemon is answered with errors.Prefix(msg, nil),
\* which is nil, so the caller goes on to CleanupLbrynet.
ReflectBlobs ==
    /\ pc = "reflect"
    /\ \/ /\ daemon # "off"
          /\ Goto("clean", {}) /\ UNCHANGED blobs
       \/ /\ daemon = "off"
          /\ Goto("clean", {}) /\ blobs' = FALSE
       \/ Exit /\ UNCHANGED blobs
    /\ UNCHANGED <<cycleVars, daemonVars, walletVars, bdb, blobsLost, dbVars>>

\* CleanupLbrynet: again a running daemon is no error, it only keeps the files.
CleanupLbrynet ==
    /\ pc = "clean"
    /\ \/ /\ daemon # "off"
          /\ Goto("next", {}) /\ UNCHANGED <<blobs, blobsLost, bdb>>
       \/ /\ daemon = "off"
          /\ Goto("next", {})
          /\ blobsLost' = (blobsLost \/ blobs) /\ blobs' = FALSE
          /\ bdb' = FALSE
       \/ Exit /\ UNCHANGED <<blobs, blobsLost, bdb>>
    /\ UNCHANGED <<cycleVars, daemonVars, walletVars, dbVars>>

\* The end of the loop body.  A .freeze file leaves the loop over the channels
\* before IsInterrupted is asked; a limit or a single run ends the process.
NextChannel ==
    /\ pc = "next"
    /\ Goto("idle", {}) \/ Exit
    /\ UNCHANGED <<cycleVars, daemonVars, walletVars, bdb, blobVars, dbVars>>

---------------------------------------------------------------------------
(* FullCycle, up to the deferred functions *)

\* Mutant: the check for default_wallet is gone.
GetWalletPathsUnchecked ==
    /\ pc = "wallet"
    /\ Goto("fetch", {})
    /\ UNCHANGED <<cycleVars, daemonVars, walletVars, bdb, blobVars, dbVars>>

\* getWalletPaths: the check that nobody else's wallet is on disk.
GetWalletPaths ==
    /\ pc = "wallet"
    /\ IF wallet # None THEN Goto("stop", {"walletExists"})
                        ELSE Goto("fetch", {})
    /\ UNCHANGED <<cycleVars, daemonVars, walletVars, bdb, blobVars, dbVars>>

\* Mutant: any error of the download is taken for "wallet not on S3".
DownloadWalletAnyError ==
    /\ pc = "fetch"
    /\ Goto("bdb", {})
    /\ \/ /\ s3Wallet[cur] # None
          /\ wallet' = s3Wallet[cur] /\ walletDownloaded' = TRUE
          /\ UNCHANGED newWalletCreated
       \/ /\ newWalletCreated' = TRUE
          /\ UNCHANGED <<wallet, walletDownloaded>>
    /\ UNCHANGED <<hotRestarted, unmoved, daemonVars, s3Wallet, latest, bdb,
                   blobVars, dbVars>>

\* The rest of downloadWallet (S3 to tmp_wallet, tmp_wallet over default_wallet)
\* and how FullCycle tells "wallet not on S3" from a failure.
DownloadWallet ==
    /\ pc = "fetch"
    /\ \/ /\ s3Wallet[cur] # None
          /\ Goto("bdb", {})
          /\ wallet' = s3Wallet[cur] /\ walletDownloaded' = TRUE
          /\ UNCHANGED newWalletCreated
       \/ /\ s3Wallet[cur] = None
          /\ Goto("bdb", {})
          /\ newWalletCreated' = TRUE
          /\ UNCHANGED <<wallet, walletDownloaded>>
       \/ /\ Goto("stop", {"other"})
          /\ UNCHANGED <<wallet, walletDownloaded, newWalletCreated>>
    /\ UNCHANGED <<hotRestarted, unmoved, daemonVars, s3Wallet, latest, bdb,
                   blobVars, dbVars>>

\* downloadBlockchainDB: whatever is on disk is removed first; a channel to be
\* wiped (WipeDB) or without an object on S3 goes on without one.
DownloadBlockchainDB ==
    /\ pc = "bdb"
    /\ \/ Goto("prepare", {}) /\ bdb' \in BOOLEAN
       \/ Goto("stop", {"other"}) /\ bdb' \in {FALSE, bdb}
    /\ UNCHANGED <<cycleVars, daemonVars, walletVars, blobVars, dbVars>>

\* The video directory, the VPN, the IP pool and StartDaemon: systemctl start
\* does nothing when the service is already active.
StartDaemon ==
    /\ pc = "prepare"
    /\ \/ /\ Goto("wait", {})
          /\ IF daemon = "off"
             THEN /\ daemon' = "boot" /\ startedFor' = cur
             ELSE UNCHANGED <<daemon, startedFor>>
       \/ Goto("stop", {"other"}) /\ UNCHANGED <<daemon, startedFor>>
    /\ UNCHANGED <<stopping, mem, cycleVars, walletVars, bdb, blobVars, dbVars>>

\* One turn of waitForDaemonStart that does something.
WaitForDaemonStart ==
    /\ pc = "wait"
    /\ \/ /\ grpStopped /\ Goto("stop", {"interrupted"})
          /\ UNCHANGED <<daemonVars, hotRestarted>>
       \/ /\ ~grpStopped /\ daemon = "on" /\ Goto("sync", {})
          /\ UNCHANGED <<daemonVars, hotRestarted>>
       \/ /\ ~grpStopped /\ ~hotRestarted /\ hotRestarted' = TRUE
          /\ \/ /\ daemon' = "boot" /\ startedFor' = cur
                /\ mem' = None /\ stopping' = FALSE
                /\ Goto("wait", {})
             \/ Goto("stop", {"other"}) /\ UNCHANGED daemonVars
       \/ /\ ~grpStopped /\ hotRestarted        \* more than two hours
          /\ pc' = "stop" /\ e' = {"other"} /\ grpStopped' = TRUE
          /\ UNCHANGED <<cur, panicking>>
          /\ UNCHANGED <<daemonVars, hotRestarted>>
    /\ UNCHANGED <<walletDownloaded, newWalletCreated, unmoved, walletVars,
                   bdb, blobVars, dbVars>>

SyncErrors == {"interrupted", "fatal", "missingInputs", "other"}

\* doSync and what FullCycle does with its result.  VideoSync models it; here only
\* that it ends, and that lbrynet rewrites the wallet meanwhile.  A worker that meets
\* a fatal error or cannot refill the wallet stops the group; after the latter
\* doSync still returns nil.
DoSync ==
    /\ pc = "sync"
    /\ \/ pc' = (IF cur \in ToTransfer THEN "transfer" ELSE "stop") /\ e' = {}
       \/ \E m \in SyncErrors: pc' = "stop" /\ e' = {m}
    /\ grpStopped' \in {grpStopped, TRUE} /\ UNCHANGED <<cur, panicking>>
    /\ UNCHANGED <<cycleVars, daemonVars, walletVars, bdb, blobVars, dbVars>>

\* processTransfers.
ProcessTransfers ==
    /\ pc = "transfer"
    /\ \/ Goto("stop", {}) /\ transferred' = transferred \cup {cur}
       \/ \E m \in SyncErrors: Goto("stop", {m}) /\ UNCHANGED transferred
    /\ UNCHANGED <<cycleVars, daemonVars, walletVars, bdb, blobVars,
                   status, transfer>>

\* GetIPPool failed and its error was dropped: the nil pool panics in FullCycle, and in
\* doSync when the videos are looked up.  The deferred functions run with a nil error.
Panic ==
    /\ pc \in {"prepare", "sync"}
    /\ pc' = "stop" /\ e' = {} /\ panicking' = TRUE
    /\ UNCHANGED <<cur, grpStopped, cycleVars, daemonVars, walletVars, bdb, blobVars,
                   dbVars>>

---------------------------------------------------------------------------
(* The deferred functions: performShutdownTasks, then the status *)

\* The VPN and StopDaemon.  Both may fail; a failure to stop lbrynet is only
\* reported to Slack.
StopDaemon ==
    /\ pc = "stop"
    /\ Goto("death", e) \/ Goto("death", e \cup {"other"})
    /\ stopping' \in {stopping, daemon # "off"}
    /\ UNCHANGED <<daemon, startedFor, mem, cycleVars, walletVars, bdb,
                   blobVars, dbVars>>

\* Mutant: the answer of IsLbrynetRunning is read the wrong way round.
WaitForDaemonProcessInverted ==
    /\ pc = "death" /\ daemon # "off"
    /\ Goto("upload", e)
    /\ UNCHANGED <<cycleVars, daemonVars, walletVars, bdb, blobVars, dbVars>>

\* waitForDaemonProcess: polls the process list.  Its time-out never comes:
\* timeout * time.Second overflows to some twelve years.
WaitForDaemonProcess ==
    /\ pc = "death" /\ daemon = "off"
    /\ Goto("upload", e)
    /\ UNCHANGED <<cycleVars, daemonVars, walletVars, bdb, blobVars, dbVars>>

\* IsLbrynetRunning cannot read the process list: waitForDaemonProcess returns
\* the error, which goes to Slack and nowhere else; nothing is uploaded.
ProcessListError ==
    /\ pc = "death"
    /\ daemon = "boot" => UnattendedBoot
    /\ Goto("status", e)
    /\ unmoved' = (wallet # None /\ (walletDownloaded \/ newWalletCreated))
    /\ UNCHANGED <<walletDownloaded, newWalletCreated, hotRestarted, daemonVars,
                   walletVars, bdb, blobVars, dbVars>>

\* Mutant: a wallet that was created in this cycle is not uploaded.
OwnsDownloadedWallet == walletDownloaded

\* The cycle's own wallet is on disk: it may be moved to S3.
OwnsWallet == walletDownloaded \/ newWalletCreated

\* Mutant: the wallet is removed after a failed upload, too.
UploadWalletUnchecked ==
    /\ pc = "upload"
    /\ OwnsWallet /\ wallet # None
    /\ Goto("remove", e)
    /\ s3Wallet' \in {s3Wallet, [s3Wallet EXCEPT ![cur] = wallet]}
    /\ UNCHANGED <<cycleVars, daemonVars, wallet, latest, bdb, blobVars, dbVars>>

\* uploadWallet up to the end of the Upload loop.
UploadWallet ==
    /\ pc = "upload"
    /\ IF OwnsWallet
       THEN \/ /\ wallet # None
               /\ Goto("remove", e)
               /\ s3Wallet' = [s3Wallet EXCEPT ![cur] = wallet]
            \/ /\ \E m \in {"walletUpload", "other"}:
                     Goto("uploadBdb", e \cup {IF wallet = None THEN "other" ELSE m})
               /\ UNCHANGED s3Wallet
       ELSE Goto("uploadBdb", e) /\ UNCHANGED s3Wallet
    /\ UNCHANGED <<cycleVars, daemonVars, wallet, latest, bdb, blobVars, dbVars>>

\* The last line of uploadWallet.
RemoveWallet ==
    /\ pc = "remove"
    /\ \/ Goto("uploadBdb", e) /\ wallet' = None
       \/ Goto("uploadBdb", e \cup {"other"}) /\ UNCHANGED wallet
    /\ UNCHANGED <<cycleVars, daemonVars, s3Wallet, latest, bdb, blobVars, dbVars>>

\* uploadBlockchainDB, for any blockchain.db that is on disk.  The message that
\* keeps the channel from being marked failed is only added to another error.
UploadBlockchainDB ==
    /\ pc = "uploadBdb"
    /\ LET failed == IF e = {} THEN {"bdb"} ELSE e \cup {"bdbPrefix"} IN
         \/ ~bdb /\ Goto("status", e) /\ UNCHANGED bdb
         \/ bdb /\ Goto("status", e) /\ bdb' = FALSE
         \/ bdb /\ Goto("status", failed) /\ bdb' \in BOOLEAN
    /\ UNCHANGED <<cycleVars, daemonVars, walletVars, blobVars, dbVars>>

\* Mutant: the transfer counts as complete however the cycle ended.
CompletesTransferAlways == cur \in ToTransfer

\* When setChannelTerminationStatus sends TransferStateComplete.
CompletesTransfer == cur \in ToTransfer /\ e = {}

\* Mutant: a status the rest of the system does not know.
TerminationStatusUnknown == {"done"}

\* The status that setChannelTerminationStatus asks for, if any.
TerminationStatus ==
    IF e = {} THEN (IF grpStopped THEN {} ELSE {"synced"})
    ELSE IF e \cap NoFailConditions # {} THEN {}
    ELSE {IF "missingInputs" \in e THEN "pendingDbWipe" ELSE "failed"}

\* The last deferred function is done: FullCycle returns, or the panic ends the process.
EndCycle(m) ==
    IF panicking THEN Exit /\ NewSync
    ELSE Goto("manager", m) /\ UNCHANGED cycleVars

SetChannelTerminationStatus ==
    /\ pc = "status"
    /\ \/ TerminationStatus = {} /\ EndCycle(e) /\ UNCHANGED <<status, transfer>>
       \/ \E s \in TerminationStatus:
            /\ EndCycle(e)
            /\ status' = [status EXCEPT ![cur] = s]
            /\ transfer' = [transfer EXCEPT ![cur] =
                              IF CompletesTransfer THEN "complete" ELSE @]
       \/ /\ TerminationStatus # {}
          /\ EndCycle(e \cup {"other"}) /\ UNCHANGED <<status, transfer>>
    /\ UNCHANGED <<daemonVars, walletVars, bdb, blobVars, transferred>>

---------------------------------------------------------------------------
(* What happens to the process from outside *)

\* SIGINT or SIGTERM: FullCycle's goroutine stops the group.
Interrupt ==
    /\ pc \in InCycle /\ ~grpStopped
    /\ grpStopped' = TRUE
    /\ UNCHANGED <<pc, cur, e, panicking, cycleVars, daemonVars, walletVars, bdb,
                   blobVars, dbVars>>

\* The process is killed, or a goroutine other than FullCycle's panics: no deferred
\* function of FullCycle runs.
Crash ==
    /\ pc # "down"
    /\ daemon = "boot" => UnattendedBoot
    /\ Exit /\ NewSync
    /\ UNCHANGED <<daemonVars, walletVars, bdb, blobVars, dbVars>>

\* Manual intervention after "this requires manual intervention! Exiting...":
\* the wallet left behind is put where it belongs.
MoveWalletByHand ==
    /\ pc = "down" /\ daemon = "off" /\ wallet # None
    /\ s3Wallet' = [s3Wallet EXCEPT ![wallet.owner] = wallet]
    /\ wallet' = None
    /\ UNCHANGED <<latest, procVars, cycleVars, daemonVars, bdb, blobVars, dbVars>>

---------------------------------------------------------------------------
(* The lbrynet service *)

\* It opens default_wallet, or creates one, and builds blockchain.db.
DaemonLoad ==
    /\ daemon = "boot"
    /\ daemon' = "on" /\ startedFor' = None
    /\ LET w == IF wallet # None THEN wallet ELSE [owner |-> startedFor, ver |-> 1] IN
       /\ mem' = w /\ wallet' = w
       /\ latest' = [latest EXCEPT ![w.owner] = IF @ < w.ver THEN w.ver ELSE @]
    /\ bdb' = TRUE
    /\ UNCHANGED <<stopping, s3Wallet, procVars, cycleVars,
                   blobVars, dbVars>>

\* It saves the wallet it holds over default_wallet; publishing adds blobs.
DaemonWrite ==
    /\ daemon = "on" /\ mem.ver < MaxVersion
    /\ LET w == [mem EXCEPT !.ver = @ + 1] IN
       /\ mem' = w /\ wallet' = w
       /\ latest' = [latest EXCEPT ![w.owner] = IF @ < w.ver THEN w.ver ELSE @]
    /\ blobs' = (blobs \/ pc = "sync")
    /\ UNCHANGED <<daemon, stopping, startedFor, s3Wallet, bdb, procVars,
                   cycleVars, blobsLost, dbVars>>

\* It exits, because it was told to or on its own.
DaemonExit ==
    /\ daemon # "off"
    /\ daemon' = "off" /\ mem' = None /\ stopping' = FALSE /\ startedFor' = None
    /\ UNCHANGED <<walletVars, bdb, blobVars, dbVars, procVars, cycleVars>>

---------------------------------------------------------------------------
CycleStep ==
    \/ GetWalletPaths \/ DownloadWallet \/ DownloadBlockchainDB \/ StartDaemon
    \/ WaitForDaemonStart \/ DoSync \/ ProcessTransfers
    \/ StopDaemon \/ WaitForDaemonProcess \/ UploadWallet \/ RemoveWallet
    \/ UploadBlockchainDB \/ SetChannelTerminationStatus
ManagerStep ==
    \/ Start \/ (\E c \in Channels: FullCycle(c)) \/ HandleError
    \/ ReflectBlobs \/ CleanupLbrynet \/ NextChannel
Environment == ProcessListError \/ Panic \/ Interrupt \/ Crash \/ MoveWalletByHand
DaemonStep == DaemonLoad \/ DaemonWrite \/ DaemonExit

Next == CycleStep \/ ManagerStep \/ Environment \/ DaemonStep

Spec == Init /\ [][Next]_vars

\* A running process takes its steps, and lbrynet obeys when it was told to
\* stop.  Nothing makes it exit when StopDaemon failed, and the process list
\* need not ever fail.
FairSpec == Spec /\ WF_vars(CycleStep) /\ WF_vars(stopping /\ DaemonExit)

---------------------------------------------------------------------------
(* Properties *)

WalletOrNone == Wallet \cup {None}

ProcTypeOK ==
    /\ pc \in Locations /\ cur \in Channels /\ e \subseteq Messages
    /\ grpStopped \in BOOLEAN /\ panicking \in BOOLEAN
CycleTypeOK ==
    /\ walletDownloaded \in BOOLEAN /\ newWalletCreated \in BOOLEAN
    /\ hotRestarted \in BOOLEAN /\ unmoved \in BOOLEAN
DaemonTypeOK ==
    /\ daemon \in {"off", "boot", "on"} /\ stopping \in BOOLEAN
    /\ startedFor \in Channels \cup {None} /\ mem \in WalletOrNone
    /\ daemon = "boot" => startedFor # None
    /\ daemon = "on" => mem # None
WalletTypeOK ==
    /\ wallet \in WalletOrNone /\ s3Wallet \in [Channels -> WalletOrNone]
    /\ latest \in [Channels -> Nat]
FileTypeOK ==
    /\ bdb \in BOOLEAN
    /\ blobs \in BOOLEAN /\ blobsLost \in BOOLEAN
DbTypeOK ==
    /\ status \in [Channels -> {"queued", "syncing", "synced", "failed", "pendingDbWipe"}]
    /\ transfer \in [Channels -> {"notTouched", "pending", "complete"}]
    /\ transferred \subseteq Channels

\* Every variable has the values the code can give it.
TypeOK ==
    /\ ProcTypeOK /\ CycleTypeOK /\ DaemonTypeOK
    /\ WalletTypeOK /\ FileTypeOK /\ DbTypeOK

\* A wallet is only ever stored on S3 under the channel it was created for,
\* whatever crash, failed shutdown or leftover daemon came before the cycle.
WalletUnderItsKey ==
    \A c \in Channels: s3Wallet[c] # None => s3Wallet[c].owner = c

\* The newest state of every wallet (the keys to its funds and claims) exists on
\* this machine or on S3: no order of downloads, saves by the daemon, uploads,
\* removals and crashes loses it.
NewestWalletKept ==
    \A c \in Channels:
        latest[c] # 0 => [owner |-> c, ver |-> latest[c]] \in {wallet, s3Wallet[c]}

\* What S3 holds for a channel is never deleted or replaced by an older wallet.
NoRollback ==
    [][\A c \in Channels: s3Wallet[c] # None =>
            s3Wallet'[c] # None /\ s3Wallet'[c].ver >= s3Wallet[c].ver]_vars

\* While a channel is synced or transferred the daemon, if it has a wallet open,
\* has that channel's: nothing is published or paid from another wallet.
DaemonServesChannel ==
    pc \in {"sync", "transfer"} /\ daemon = "on" => mem.owner = cur

\* A cycle that ends without an error has its wallet on S3 and off this
\* machine, unless the daemon could not be seen to stop.
CleanEndMeansStored ==
    pc = "manager" /\ e = {} /\ ~unmoved =>
        wallet = None /\ latest[cur] # 0 /\ s3Wallet[cur].ver = latest[cur]

\* A channel is newly recorded as transferred only when its processTransfers came to its
\* end, or by a cycle that panicked: setChannelTerminationStatus then finds a nil error and
\* completes a transfer that may never have run (ytsync.go:365-372).
TransferCompleteIsEarned ==
    [][\A c \in Channels: transfer[c] # "complete" /\ transfer'[c] = "complete" =>
            c = cur /\ (c \in transferred \/ panicking)]_vars

\* Once lbrynet was told to stop, the shutdown tasks come to their end.
ShutdownEnds ==
    (pc = "death" /\ (stopping \/ daemon = "off")) ~> pc \in {"manager", "down"}

Version(w) == IF w = None THEN 0 ELSE w.ver

\* The wallet that is out is the one on disk, whoever put it there.
Wallets == INSTANCE WalletCustody WITH
    newest <- latest,
    stored <- [c \in Channels |-> Version(s3Wallet[c])],
    out <- IF wallet = None THEN None ELSE wallet.owner

\* Cycles, crashes, lbrynet and the operator together treat the wallets as WalletCustody
\* says: one is out at a time, a channel gets a new one only if it never had any, only
\* what is out changes, and it goes when S3 has its newest version.
ImplementsCustody == Wallets!Spec

---------------------------------------------------------------------------
(* Why the wallets are safe: the strengthening that makes the properties
   above inductive.  It holds when lbrynet is not left booting by a process
   that is gone. *)

\* Where the cycle's wallet is settled (downloaded, or to be created).
Settled == {"bdb", "prepare", "wait", "sync", "transfer"}

\* Every copy of a wallet is dated: the one on disk is the newest, the one on S3
\* is not newer than that.
CopiesAreDated ==
    /\ wallet # None => wallet.ver = latest[wallet.owner]
    /\ \A c \in Channels: s3Wallet[c] # None => s3Wallet[c].ver <= latest[c]

\* A daemon that runs holds what is on disk; one that boots belongs to this cycle;
\* and where the process moves the wallet about there is none.
DaemonKnown ==
    /\ daemon = "on" => mem # None /\ mem = wallet
    /\ daemon = "boot" => pc \in {"wait", "stop", "death"} /\ startedFor = cur /\ OwnsWallet
    /\ pc \in {"fetch", "bdb", "prepare", "upload", "remove"} => daemon = "off"

\* A cycle owns a wallet from its download to the end of its upload; until then
\* the file is the cycle's, or the channel has no wallet at all.
OwnershipKnown ==
    /\ pc \in {"down", "idle", "wallet", "fetch", "reflect", "clean", "next"} => ~OwnsWallet
    /\ pc \in Settled => OwnsWallet
    /\ pc = "fetch" => wallet = None
    /\ OwnsWallet /\ pc \in Settled \cup {"stop", "death", "upload", "remove"} =>
          IF wallet = None THEN s3Wallet[cur] = None ELSE wallet.owner = cur
    /\ pc = "remove" => wallet # None /\ OwnsWallet /\ s3Wallet[cur] = wallet

\* The inductive invariant: TypeOK, the two properties of the wallets, and why.
CustodyInv ==
    /\ TypeOK
    /\ WalletUnderItsKey
    /\ NewestWalletKept
    /\ CopiesAreDated
    /\ DaemonKnown
    /\ OwnershipKnown

---------------------------------------------------------------------------
(* What the code and its comments say, and what it does not do *)

\* reflect.go:50-56: blobs are neither reflected nor, then, deleted while lbrynet
\* may be running; deleted blobs were reflected.
NoBlobLost == ~blobsLost

\* s3_storage.go:191-193: "default_wallet already exists" ends the cycle, so that a
\* download never replaces a wallet that is there.
NoWalletOverwritten ==
    [][walletDownloaded' /\ ~walletDownloaded => wallet = None]_vars
===========================================================================
