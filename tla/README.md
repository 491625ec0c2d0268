# TLA+ models of ytsync

ytsync takes YouTube channels one at a time, downloads their videos and publishes them
to LBRY: it fetches the channel's wallet from S3, starts an `lbrynet` daemon on it, makes
sure the channel has a claim and credits, publishes what is missing, hands the channel to
its YouTuber if asked to, and puts the wallet back. Its hard parts are what survives a
crash, a lost answer or a failed call between any two of these steps, and the goroutines
that share a wallet, a queue and a pool of addresses. This directory models them in TLA+,
checks the models with TLC and proves the most important results with TLAPS.

Files: one module per component (`ChannelQueue`, `ChannelCycle`, `ChannelSetup`,
`VideoSync`, `VideoDownload`, `Transfer`), two modules of operators and operations that these
extend (`VideoSelection`, `IPPool`), two abstract specifications (`WalletCustody`,
`Handover`), an `MC` module and `.cfg` files for each component, a module of proofs for each
component (`ChannelQueueProofs`, `ChannelCycleProofs`, `ChannelSetupProofs`, `VideoDownloadProofs`
with the pool's, `TransferProofs`, and two for the video sync, `VideoSyncProofs` and
`VideoSyncClaimsProofs`) and `PROJECT.json`, which lists components, runs, mutants, the map from
definitions to source lines, findings, hazards and theorems.

    tlc -config MCChannelCycle.cfg MCChannelCycle     # one run
    tlapm ChannelCycleProofs.tla                      # the proofs of a module

Contents: 1 the system; 2 the modules; 3 the runs; 4 fairness; 5 proofs; 6 where the code
and what it says differ; 7 what is not modelled; 8 plan.

## 1. The system

| component | source | state | operations | talks to |
|---|---|---|---|---|
| Sync manager | `manager/manager.go` | `channelsToSync`, stop group, counters | `Start`: pick channels, `FullCycle`, tell errors apart, reflect, clean up, freeze | API, Sync, reflector |
| Channel cycle | `manager/ytsync.go` 181-493, 1168-1185 | the cycle's error, `walletDownloaded`, `newWalletCreated` | `FullCycle`, `waitForDaemonStart`, deferred `performShutdownTasks` and `setChannelTerminationStatus` | S3, lbrynet, API |
| Wallet on S3 | `manager/s3_storage.go` | `default_wallet`, `blockchain.db`, two buckets | download, upload, removal of each | disk, S3; lbrynet writes the same files |
| Wallet setup | `manager/setup.go` | `ChannelClaimID`, balance, outputs, `walletMux` | `walletSetup`, `ensureChannelOwnership`, `addCredits`, `ensureEnoughUTXOs`, `waitForNewBlock` | lbrynet, lbrycrd, API |
| Video sync | `manager/ytsync.go` 500-1097 | `syncedVideos`, queue, stop group, `hardVideoFailure` | `doSync`: `checkIntegrity`, `fixDupes`, `updateRemoteDB`, producer, workers, retries | lbrynet, API, namer, sources, IP pool |
| Video sources | `sources/` | one video's file and size | `Sync`, `downloadAndPublish`, `reprocess`, `publishAndRetryExistingNames`, the yt-dlp loop | lbrynet, namer, IP pool |
| Namer | `namer/names.go` | set of names | `SetNames`, `GetNextName` | video sync |
| Transfer | `manager/transfer.go` | supports, streams, rows `transferred` | `processTransfers`: `abandonSupports`, `transferVideos`, `transferChannel`, tip | lbrynet, API |
| IP pool | `ip_manager/throttle.go` | slice of addresses with flags, unban goroutines | `GetIP`, `ReleaseIP`, `SetThrottled`, `UpdateIps` | downloader, sources |
| Metadata downloader | `downloader/` | attempts, address in hand | `run`, `runCmd` | IP pool |
| API client | `sdk/api.go` | none (rows of the remote database) | status, video, claim id, cert calls | internal-apis |
| Reflector and clean-up | `blobs_reflector/`, `util/util.go` | blob files | `ReflectAndClean`, `CleanupLbrynet`, daemon control | disk, blob store |
| Video selection | `ytapi/ytapi.go`, `shared/shared.go` | `mostRecentlyFailedChannel` | `GetVideosToSync`, `VideosToSync` | YouTube |
| Rest | `tags_manager`, `thumbs`, `timing`, `metrics`, `configs`, archives, `e2e` | tables, counters | pure I/O | |

What makes each hard, and what makes it correct:

* **Cycle and wallets.** The wallet holds the keys of a channel's claims and funds, and
  there is one current copy: on S3, on disk, or in a daemon that rewrites the disk. A crash,
  a signal, an error at any call or a daemon that outlives its process must not lose it,
  roll it back, store it under another channel, or serve one channel from another's wallet.
  What the cycle reports must be so.
* **Video sync.** The claim is made first and recorded afterwards. An answer of lbrynet may
  be lost, the row may not be written, the process may die between the two; every run begins
  by comparing wallet and database. Workers share the queue, the names, the stop group and
  `walletMux`. Correct: no second claim for a video, no taken name, rows that are true, no
  publishing while the wallet is refilled, a clean end only when nothing was dropped, an end
  at all.
* **Wallet setup.** `channel_create` may succeed after its caller gave up. Correct: one
  channel per YouTuber, recorded and paid for.
* **Transfer.** Four irreversible things in a row, each done by calls whose answers may be
  lost, by a producer and workers. Correct: the channel goes last and only after every
  update went well, rows are true, what is tipped was released.
* **Choice of channels and videos.** The manager remembers the last two channels, `ytapi` the
  last one without news, the database the rest; flags, `.freeze`, `.update` and signals come
  in between. Correct: no endless loop over a channel, limit and interrupt are kept,
  and looking for new videos does no harm to published ones.
* **Download.** yt-dlp is called through an address that may be throttled, for one quality
  after the other; a later try finds what an earlier one left. Correct: success means a file,
  throttling costs nothing.
* **IP pool.** The pool hands out pointers into a slice that it sorts in place. Correct: an
  address is used by one caller, rotates, comes back after a ban.

The full list, with lines, is under `hazards` in `PROJECT.json`; each names the
properties that would catch it, or why none does.

## 2. The modules

How they fit together: `ChannelQueue` is the loop around cycles, `ChannelCycle` one cycle
after the other for any channels, and `ChannelSetup`, `VideoSync` and `Transfer` what a cycle
does; `VideoDownload` is what the producer and the workers of `VideoSync` do outside the
wallet. `ChannelCycle` implements `WalletCustody`, `Transfer` implements `Handover`.

### ChannelQueue and VideoSelection

`SyncManager.Start`, process after process. `mode` is what the flags ask for: one channel, or a
list of up to three queues. `AllModes` are the modes that the flags can ask for, the constant
`Modes` those of an instance. `Enqueued` are the orders in which channels may then be enqueued. A
cycle is two steps, up to the selection of the videos and from there to its status; `EndCycle` has
the outcomes of the deferred status, by what the error means to it: nothing, not to be marked, to
be marked, fatal, or a panic, which it does not see and which ends the process. `status` and
`rows` are the database; it also changes by `Requeue`. `.freeze` is made and removed by `Freeze`.
A status that no queue asks for here (`pendingdbwipe` after "Missing inputs") counts as failed.

`VideoSelection` holds `updateRemoteDB`, `GetVideosToSync` and `getVideos` as operators over a
row per video. `Reconciled` is what may become of a row before the selection, its removal under
`--remove-db-unpublished` included. Then come the ids that are looked up, those that are skipped,
the rows that are marked as failed (or as never to be tried again) on the way, and the old videos
that are mocked so that they can be upgraded. The code's lists are sequences in which a video may
come more than once, since the tabs of a channel are put one after the other; here a list is how
often it holds each video, at most once per tab. Which videos the playlist has is open, since
`maxVideos` and YouTube decide it.

### ChannelCycle and WalletCustody

The server: manager, `FullCycle`, S3 and the lbrynet service. `pc` is the place of the ytsync
process; each action is one call of `FullCycle` or of its deferred functions with all its
outcomes, failure included. `e` is the Go error as the set of messages put together in it, since
the code only asks if it is nil and whether it contains a message. `wallet`, `s3Wallet` and `mem`
hold wallets as records of owner and version; `daemon` boots, loads (or creates) the wallet,
rewrites it and exits by actions of its own, interleaved with everything; `Crash` (the process is
killed, or another goroutine panics) and `Interrupt` come at any time. `Panic` is a panic in
`FullCycle`'s own goroutine: the deferred functions run, with an error that is nil, and the
process ends after them. `MoveWalletByHand` is the operator after "this requires manual
intervention".

`doSync` is one action here (it ends with some error or none, and the daemon writes
meanwhile); `VideoSync` is its detail, and `Transfer` that of `ProcessTransfers`.

`UnattendedBoot` says whether lbrynet may be left booting by a process that died. When it
may, the check for `default_wallet` can pass just before the daemon creates one, and the
properties of the wallets fail (run `cycle_overwrite`); they are checked and proved for the
case that it may not, and say so.

`WalletCustody` is a library with one reading place: a wallet is taken out or begun, gets
newer only while it is out, and is put away only when the store has its newest version.
The mapping takes `latest` for `newest`, the versions in the bucket for `stored`, and the owner
of the file `default_wallet` for `out`; daemon, errors and places in the code disappear.
Crashes and failed calls are stutters; a transfer by hand is a `Return`.

### VideoSync

`doSync` run after run. `chain` are the wallet's claims, `db` the rows, `synced` the map
in memory, `names` the Namer's. Each worker has a place in the code between two points
where another may come in: take a video, try it, take the read lock, get a name, create
the claim, mark it, handle the error, wait for a block, lock, refill. `err` is the class of
the error, as the lists in `shared.go` tell them apart. `StreamCreate` may create and
lose the answer; `MarkPublished` may not write; `Crash` leaves `chain` and `db`. All videos
have the same title, the case in which names collide.

### ChannelSetup

`walletSetup` call after call, alone (VideoSync shows that `walletMux` makes calls take
turns). `channels` are the claims in the wallet, `row` the recorded id, `claimID` the
one in memory; `late` is a `channel_create` that lbrynet is still doing; credits are
`inFlight` until the wallet sees them. Amounts are LBC, a batch of videos costs 1.
`ExtraRefill` is `CliFlags.Refill`, which `addCredits` adds but no flag of the command line sets:
any number in the proofs, 0 in the runs.

### Transfer and Handover

`processTransfers` run after run: `claims` says where each video's claim is (ours,
theirs, gone), `streamChan` is the bounded Go channel between the producer and the
workers. Lost answers (`done` and `error` both hold), rows that are not written, updates
without outputs, panics and crashes are outcomes of the actions. An update without outputs
changes nothing and is no error, neither of a video nor of the channel. `Reconciled` is what
`updateRemoteDB` makes of the rows at the start of a run.

`Handover` says that videos and channel are given once and for all, that the rows may be behind
but never ahead, and that the transfer is complete only after lbrynet agreed to update the channel
in that attempt or had it no more, or after a panic. That the user has the channel then is more
than the code sees to, because an update that changed nothing is agreed to as well. The mapping
takes the claims in the user's account for `given`, the rows for `recorded`, and what this run saw
of the channel for `attempt`; the supports and the tip have no part in it (`TipIsCovered` is about
them).

### VideoDownload

The callers of the pool. The producer calls `run`: an attempt is counted unless it was
throttled. A worker's `Download` looks for a file first; then `qualityIndex` and
`remainingAttempts` go through the loop as in the code, `Attempt` at its top, `RawDownload`
with everything that yt-dlp, the watcher for slow downloads and the parsers of their output
can make of a command. `file` is the video on disk: a failed command may leave it or not,
`Delete` removes it, `Publish` may leave it when the probe or the thumbnail fails.
Producer and workers use the pool one after the other, as `doSync` has it: no video is in the
queue before `GetVideosToSync` is done.

### IPPool

`slot` is the array as it lies in memory, `lru` the order of `LastUse`, a pointer is an
index into `slot`. `NextIP` sorts and marks under the lock, `ReadIP` reads through the
pointer later, `Unban` writes through its pointer after the ban. `UpdateIps` makes a new
array; `Refresh` models it with `ReleaseAll`. The module has the pool's operations and what it
promises; `VideoDownload` extends it. The history `avoid` is the address that a caller of `GetIP`
should not be given: the one released last, when `nextIP` had another one free for it.

### How state corresponds to code

Names are the source's where possible (`syncedVideos` is `synced`, `hardVideoFailure` is
`hard`, `s.grp` is `stopped` or `grpStopped`). `map` in `PROJECT.json` gives the lines of
each definition. Definitions whose comment begins with "Mutant:" are not part of a
model: each is a plausible bug that a property catches when it takes the place of the
definition below it. History variables are declared under "history" and guard nothing.

## 3. The runs

All on sets of model values; "bound" names the constants that make the state space finite.

| run | checks | instance and why it is enough |
|---|---|---|
| `queue` | `TypeOK`, `NeverThreeTimes`, `LimitKept`, `InterruptIsLast`, `PublishedStaysPublished` | two interchangeable channels, so that a repeat and an alternation exist; one video, in each of its rows, in up to two tabs; one channel, three pairs of queues and one triple (one pair holds a queue twice, the triple one that is drained), not every list of queues; rows are upgraded and removed; `Limit` 2, the least at which a channel can come up again before it; one `.freeze` and one restart at any time; 3.7 M states |
| `cycle` | `TypeOK`, `WalletUnderItsKey`, `NewestWalletKept`, `NoRollback`, `DaemonServesChannel`, `CleanEndMeansStored`, `TransferCompleteIsEarned`, `ShutdownEnds`, `ImplementsCustody` | two channels, so that one's leftovers can meet the other; `MaxVersion` 2, so that a newer and an older copy can exist; 1.7 M states |
| `video` | `TypeOK`, `NoPublishWhileRefilling`, `CleanEndIsComplete`, `SyncEnds` | two videos, two workers, two tries, one run: every pair of places of two workers |
| `video_runs` | `NamesAreFree`, `PublishedHasClaim`, `DupesOnlyAfterLostAnswer`, `IntegrityRepairs` | three runs of one worker over two videos, one of them old, with upgrades and removals: what a run leaves, the next repairs, the one after uses |
| `setup` | `TypeOK`, `OneChannel`, `SetupMeansChannel`, `PaidSetup`, `ClaimIdIsKept` | `MaxCalls` 4, in one run or several; `MaxBalance` 8, over the 5 LBC from which extra credits are sent back |
| `transfer` | `TypeOK`, `ChannelWaitsForUpdates`, `ImplementsHandover`, `OnlyGoneStopsProducer`, `TipIsCovered`, `TransferEnds` | three videos through a channel of two places with two workers, so that the producer has to wait; two supports, two runs |
| `download` | `TypeOK`, `HoldersBounded`, `DownloadedMeansFile`, `GivesUpAtLadderEnd`, `NotTwiceInARow`, `InterruptFreesCallers` | two addresses (the third that `NotTwiceInARow` is hardest with is in its theorem, which holds for any number), a producer with two attempts and two workers with three qualities (the code has 3 attempts and 3 or 4 qualities: one to begin with, one to go down to, one that is never tried); two refreshes: an address can leave and come back, and a timer can outlive its array |

What they show, by property:

* `WalletUnderItsKey`, `NewestWalletKept`, `NoRollback`, `DaemonServesChannel`: the wallets are
  safe. `CleanEndMeansStored`: an error-free cycle stored its wallet, unless the process list
  could not be read. `TransferCompleteIsEarned`: the row comes to say complete only after
  `processTransfers` ended well in that cycle, or after a panic. `ShutdownEnds`: the shutdown is
  over once lbrynet is. `ImplementsCustody`: all of it together does nothing to wallets that
  `WalletCustody` does not.
* `NeverThreeTimes`: no process cycles a channel three times in a row, whatever the queues and
  the database say. `LimitKept`, `InterruptIsLast`: the process does not go past its limit or
  an interrupt, except once for each `.freeze` that hides them. `PublishedStaysPublished`: the row
  of a published video is lost only by an upgrade that failed without saying so, or removed by
  `--remove-db-unpublished` before the selection; looking videos up marks none as failed.
* `DownloadedMeansFile`: when `Download` returns nil the video is on disk, whatever earlier
  tries left. `GivesUpAtLadderEnd`: a worker that ran out of qualities tried all but the
  lowest; throttled commands cost nothing.
* `IntegrityRepairs`: when the workers start, wallet, rows and map agree, whatever earlier
  runs left. `DupesOnlyAfterLostAnswer`: the only way to two claims is a retry after a
  lost answer whose error is not in `ErrorsNoRetry`. `NamesAreFree`: the Namer never
  proposes a name the wallet has, which would end the whole process.
  `PublishedHasClaim`: a published row has a claim, except after an upgrade that abandoned
  one and could not replace it. `NoPublishWhileRefilling`, `CleanEndIsComplete`,
  `SyncEnds` speak of the workers.
* `OneChannel`, `SetupMeansChannel`, `PaidSetup`, `ClaimIdIsKept`: a setup without error
  means a channel whose claim is in the wallet and whose id is recorded (or one that is gone from
  YouTube and has neither), and paid videos; nobody gets a second channel and a recorded id is
  not replaced.
* `ChannelWaitsForUpdates`, `ImplementsHandover`, `OnlyGoneStopsProducer`, `TipIsCovered`,
  `TransferEnds`: no update failed or runs when the channel goes; the database never
  claims more than the chain, nothing is taken back, and the transfer is complete only after an
  agreed update of the channel (or without the channel, or after a panic); with the user's key
  imported, only a claim that nobody has makes the producer give up; no tip exceeds what was
  released; `transferVideos` comes to an end.
* `HoldersBounded`, `NotTwiceInARow`, `InterruptFreesCallers`: what the pool promises in
  spite of its pointers. `NotTwiceInARow` is about the address that `GetIP` returns: the one
  released last comes again only if no other was free when `nextIP` chose, or if a later call
  sorted another entry under the pointer before it was read.

Deadlock is checked in every run; where a bound ends the behaviour an action `Over`
stutters, so the absence of deadlock says that goroutines and locks never block each other
before that. The remaining runs expect a violation; section 6 describes them.

## 4. Fairness

* `ChannelCycle!FairSpec`: a running process takes its steps (`WF` of the cycle's steps),
  and lbrynet exits after `systemctl stop` reached it (`WF(stopping /\ DaemonExit)`): systemd
  kills it if it does not. Nothing is assumed when `StopDaemon` failed.
* `VideoSync!FairSpec`, `Transfer!FairSpec`: `WF` of the main goroutine and of each worker,
  the Go scheduler's guarantee; a blocked goroutine is a disabled action. Calls come back,
  with an answer or an error, because the RPC client and the HTTP client have time-outs, and
  a new block comes. A mutex that is free may go to any of its waiters; none is assumed to
  win eventually, and `SyncEnds` holds all the same because tries are bounded.
* `VideoDownload!FairSpec`: `WF` of each goroutine inside `run` or `Download`; commands end,
  since a stalled download is killed. That a worker takes a further video is not forced.

Crashes, signals, failures of calls and refreshes are never forced to happen, nor not to.

## 5. Proofs

Theorems hold for every value of the constants that the named assumptions allow: any number of
channels, videos, workers, addresses, any flags and any bounds. Every type invariant, every safety
invariant, every action property and both refinements that a run checks are proved. Each module
proves one inductive invariant, a conjunction of named parts, in the same way: `Init` gives it, one
lemma per action or group of actions keeps it, frame lemmas say which parts a step cannot touch,
and the theorems follow from it. Each of these invariants was also checked by TLC on the run's instance.

The assumptions are on the constants only: `None` is none of the values, sets are finite where code
iterates over them, bounds are natural numbers, there is at least one worker, address or channel,
the quality ladder has two rungs, and the claims that exist at first fit `MaxClaims`. One more,
`~UnattendedBoot`, is a hypothesis of the theorems on wallets and explained there.

### ChannelCycleProofs (`ConstantsAssumption`)

* `TypeCorrect`: `Spec => []TypeOK`. Six frame lemmas say which actions touch which group
  of variables, so each group is handled with the few actions that change it.
* `WalletKeys`, `WalletSafety`, `RightWallet`, `NoWalletRollback`: under `~UnattendedBoot`,
  `WalletUnderItsKey`, `NewestWalletKept`, `DaemonServesChannel` and `NoRollback`. None of
  them is inductive: the upload stores what is on disk, so one has to know whose it is and
  that nobody rewrites it meanwhile. `CustodyInv` adds `CopiesAreDated` (the copy on disk is
  the newest and the one on S3 not newer), `DaemonKnown` (a running daemon holds what is on
  disk, a booting one belongs to this cycle, and there is none where files are moved) and
  `OwnershipKnown` (from download to upload the file is the cycle's own, or the channel
  never had one). `NoWalletRollback` is an action property from the same invariant.
* `CustodyImplemented`: `Spec => ImplementsCustody`, under `~UnattendedBoot`. Each action is
  mapped to a step of `WalletCustody` or a stutter; the invariant says that the file on disk is
  the newest version, that a wallet is begun only for a channel that never had one, and that
  the upload before a removal stored what is on disk.
* `CleanEndStored` (`CleanEndMeansStored`, under `~UnattendedBoot`): from the upload on there is
  no error, or the wallet is stored, or the process list could not be read. `TransferEarned`
  (the action property `TransferCompleteIsEarned`) needs no hypothesis: it follows the transfer's
  result to the status, and where there was none, the panic.

### ChannelQueueProofs (`QueueAssumption`, `SelectionAssumption`)

`QueueInv` relates the manager's two remembered channels to the streak that the history counts
(`StreakInv`: a streak of two means that both remembered channels are one), the counter and the
stop group to the `.freeze` files seen (`LimitInv`, `InterruptInv`: while the process goes on
there is still one cycle less than allowed), and what was given to the workers to the rows
(`GivenInv`: no video with the new metadata is given out). From it: `QueueTypes`, `LoopsEnd`
(`NeverThreeTimes`), `LimitIsKept`, `InterruptStops` (`InterruptIsLast`) and the action property
`PublishedStays` (`PublishedStaysPublished`), which goes through every outcome of
`updateRemoteDB`, of `GetVideosToSync` and of the workers for a row.

### ChannelSetupProofs (`SetupAssumption`)

`SetupInv` has three parts. `ClaimInv`: there is one channel or none, one that lbrynet may still
make comes from a call that has failed, and there is none then. `RowInv`: the id in memory is the
recorded one, but for a channel that was just made, and past `ensureChannelOwnership` its claim is
in the wallet, or the channel is gone from YouTube and there is no id. `FundsInv`: the balance
that was read is there, and past the refill balance and credits in flight cover the videos. From
it: `SetupTypes`, `NoSecondChannel` (`OneChannel`), `SetupRecordsChannel` (`SetupMeansChannel`),
`SetupPays` (`PaidSetup`) and the action property `ClaimIdKept`.

### VideoSyncProofs and VideoSyncClaimsProofs (`SyncAssumption`)

* `RefillAlone`: `Spec => []NoPublishWhileRefilling`, from `LockInv`: `walletMux` is held
  exactly by the workers whose place says so. Six lemmas are the ways in, on and out of
  the lock; each action cites one.
* `CleanEnd`: `Spec => []CleanEndIsComplete`. The invariant follows a listed video through
  the queue, a worker's hands and the map: until the group is stopped every listed video is
  queued, in work, or settled, and a fatal error has flagged `hard`. A worker that ends found
  the queue empty and closed, or the group stopped.
* `ClaimInvariant`: what the wallet has. `RepairInv` says stage by stage what `checkIntegrity` has
  reached: after `fixDupes` no duplicates, while rows are fixed every claim is fixed or still to
  do, after the reload the map is the database. `HandsInv` says place by place what a worker
  relies on: no video is in two hands or in a hand and in the queue; one that may be
  published has no claim, one that is upgraded still has the claim of its row, one that is marked has
  the claim it is marked with. `SingleInv` and `NamesInv` are the same for duplicates and names. A
  retry is where this could break, so the invariant knows which errors `processVideo` is tried again
  after: an error that lost its answer is in `ErrorsNoRetry`, fatal, or leaves the video in `lost`.
* From it: `CheckRepairs` (the action property `IntegrityRepairs`), `NoOtherDupes`
  (`DupesOnlyAfterLostAnswer`), `NamesFree` (`NamesAreFree`), `PublishedIsClaimed`
  (`PublishedHasClaim`) and `SyncTypes`. The type invariant needs all of it: `ClaimById` is a
  `CHOOSE`, and only `HandsInv` says that there is a claim to choose.

### TransferProofs (`TransferAssumption`)

`TransferInv` is `WorkersInv` (a worker has a job exactly while it works on one), `JobsInv` (the
Go channel holds listed videos and is empty outside `transferVideos`, and a worker that is done
saw it closed and empty), `FailuresInv` (a failed update is remembered by `cleanTransfer` or still
in a worker's hands), `ProducerInv` (with the user's key `synced` knows every video that was
moved, so what is left without a stream is gone), `TipInv` (the amount in hand and what was tipped
are no more than what was released) and `HandoverInv` (rows, and answers about to become rows, are
about moved claims; past `transferChannel` without an error there was an agreed update, or no
channel). From it: `TransferTypes`, `ChannelWaits` (`ChannelWaitsForUpdates`), `ProducerGoesOn`
(`OnlyGoneStopsProducer`), `TipCovered` (`TipIsCovered`), and `TransferRefines`: `Spec =>
ImplementsHandover`, where each action is a step of `Handover` or a stutter; the step that
completes the transfer needs an attempt that agreed or panicked.

### VideoDownloadProofs (`DownloadAssumption`, `PoolAssumption`)

`PoolInv` is about the pool alone: the order is one of the addresses in it, pointers of callers
and timers stay inside their array, and `HoldersBounded`. That callers never outnumber marks is
not seen from one caller, since two may hold one address and one mark may be another's: a step
that adds a holder adds a mark, and one that takes a mark takes a holder. `ReleasedInv` says that
the address released last comes last in the order; so the first free one is not it if another is
free (`FirstFreeTakesTurns`), and `TurnInv` follows that entry through the sorts to the read. The
steps of the program are first classified as steps of the pool or none (`NextIsPoolStep`), so the
pool's invariant is proved without the download. `DownloadInv` follows `qualityIndex` and
`remainingAttempts` through the loop. From them: `DownloadTypes`, `PoolServesWithinMarks`
(`HoldersBounded`), `DownloadedIsThere` (`DownloadedMeansFile`), `LadderIsUsedUp`
(`GivesUpAtLadderEnd`) and `AddressesTakeTurns` (`NotTwiceInARow`).

Only model-checked: what happens eventually (`ShutdownEnds`, `SyncEnds`, `TransferEnds`,
`InterruptFreesCallers`), since liveness under fairness is out of the prover's reach, and that nothing
deadlocks. The theorems are about `Spec`, which `FairSpec` implies where a run checks that.

## 6. Where the code and what it says differ

Each is a run that expects a violation of one property; `findings` in `PROJECT.json` quotes
the lines.

| run | property | in short |
|---|---|---|
| `cycle_blobs` | `NoBlobLost` | `errors.Prefix(msg, nil)` is nil: reflection is skipped, clean-up is not |
| `cycle_overwrite` | `NoWalletOverwritten` | `default_wallet` is looked for long before the renaming, which replaces the wallet that a lbrynet left booting made in between |
| `setup_recovered` | `RecoveredIdIsUsed` | the recovered channel id is dropped with the error it was recovered from |
| `transfer_videos` | `NoVideoLeftBehind` | the producer returns at the first video without a stream, without an error |
| `transfer_tip` | `AbandonedIsTipped` | the abandoned amount is a local of a function that may fail afterwards |

Smaller ones are in the models as the code has them and have no run:

* `ytsync.go:490-493`: the message about a wallet left on disk goes to Slack and not into the
  cycle's error, though `manager.go:149` lists it among the fatal ones.
* `ytsync.go:481-484`: the prefix that excuses a failed upload of `blockchain.db` is added
  only when there is another error.
* `ytsync.go:1170`: `8*time.Minute * time.Second` overflows to years; when `StopDaemon` failed
  the wait for lbrynet has no time-out. `ShutdownEnds` is about the other case.
* `ytsync.go:102-103`: `IsInterrupted` reads a group that workers stop as well.
* `setup.go:264-268`: the second look at a negative balance parses the first answer.
* `transfer.go:342-348`: an update of the channel without outputs is logged and is no error; the
  tip goes to the channel that is still ours, and the row says that the transfer is complete.
* `throttle.go:205,250-254`: the address is read through a pointer after the unlock, so two
  callers may have one address, or one caller the address that was released last though another
  is free. `HoldersBounded` is what is left of exclusive use.
* `throttle.go:155-181`: SetThrottled "schedules its unban", but the goroutine writes to a place
  in a slice that is sorted and replaced meanwhile: two days later it unbans whatever address is
  there by then, and the throttled one may stay so for good.
* `manager.go:179-186`: `.freeze` ends the round before the stop group and the limit are looked
  at; a process that was interrupted or is done begins one more cycle when the file is gone.
* `manager.go:131-136`: a channel that is well is marked as failed when it comes up for the third
  time in a row; with `--status failed` and one such channel the loop turns without a pause.
  `--status syncing` enqueues every channel twice (`:85-101`), and `--status2` is reached only if
  the queue before it was empty or is one that is drained.
* `ytapi.go:89-94` ("fix this hack!"): under `--update` a channel with nothing new fails the
  second time, unless another such channel came in between.
* `ytapi.go:111-119, 215-217`: a published video with old metadata that is in the playlist is
  looked up, found "published" and dropped ("this should never happen anymore"), and because it is
  in the list it is not mocked either: `--upgrade-metadata` never reaches it. One whose last
  upgrade failed is looked up in full, and marked as failed if its information cannot be had.
* `ytsync.go:248-253` and `ytapi.go:170`: `FullCycle` goes on with a nil pool when `GetIPPool`
  failed, and `ChannelInfo` calls itself with one; both panic. The deferred functions run with no
  error, so the channel ends as synced, and as transferred if it was to be (`Panic`).
* `newYtDownload.go:320-327`: the loop ends before the lowest quality is tried.
  `youtubeVideo.go:576`: the retry on "HTTP Error 429" never happens, since `Download`
  reports throttling as "throttled", and only while it goes on.
* `ytsync.go:248` works around an "IP LOCKUP BUG": an address released through another caller's
  pointer stays marked. `ReleaseAll` does not reach those that are throttled as well.

## 7. What is not modelled

* Pure I/O and tables: S3's and the blob store's protocols, archives and compression, tags,
  thumbnails, metrics, timing, configuration, docker and the end-to-end environment. A
  failure there is a failing step of the component that calls it.
* In `ChannelQueue`: the clean-up on start-up, the sleep until the quota is reset. In
  `VideoSelection`: how many videos are looked at (`VideosToSync`), their order, more than one
  page; `ChannelInfo`. In `VideoDownload`: the progress bar, user agents (`ChangeUserAgent` is
  never set), cookies and metadata beyond being there or not, and which message means what beyond
  the classes that the parsers make.
* Panics other than those of `FullCycle`'s goroutine, which `ChannelCycle`, `Transfer` and
  `ChannelQueue` have: in any other goroutine, and in `VideoSync`, a panic is a
  crash. The monitor of the VPN (`CheckVpn`: it shares the variable `running` with the monitor of
  the cycle before, and gives up when that one has not ended).
* In `ChannelCycle`: what the bucket of `blockchain.db` holds (any outcome of the download; the
  file is a cache of the chain that lbrynet rebuilds), and which channels are chosen: a loop
  over any channels covers every order, `ChannelQueue` has the real ones.
* In `VideoSync`: how a name is made from a title; claims in the user's account; the text
  of errors beyond their class; a video that the producer enqueues twice, which takes one that
  YouTube lists in two tabs, since nothing in the code removes duplicates (`VideoSelection` has
  them). In `ChannelSetup`: metadata upgrades' credits, fees, counts of outputs. In `Transfer`:
  pages of long lists, confirmations, amounts other than one per support, moved claims that their
  user edits until they are not recognised, rows that `--remove-db-unpublished` removes.
* lbrynet, S3, the database, lbrycrd and the operator are modelled from how the code uses
  them.

## 8. Plan

Done, in this order: `ChannelCycle` (the wallets come first), its proofs, `IPPool`,
`VideoSync`, its proofs, `Transfer`, `ChannelSetup`, `WalletCustody` and its refinement with
proof, `VideoDownload`, `VideoSelection`, `ChannelQueue`, `Handover` and its refinement; then the
proofs of every safety property that a run checks, component by component. Next:

1. `ClaimLedger` (a video is unpublished, published, recorded), implemented by `VideoSync`, with
   its refinement proved from `ClaimInv`.
2. What of the wallets holds without `~UnattendedBoot`: which of `CustodyInv`'s parts survive a
   lbrynet that is left booting, as theorems without a hypothesis.
3. A video twice in the queue of `VideoSync`: which of `ClaimInv`'s parts two workers with the same
   video leave.
4. The VPN's monitor, next to `ChannelCycle`.
