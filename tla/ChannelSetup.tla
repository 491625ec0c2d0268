---------------------------- MODULE ChannelSetup ----------------------------
(***************************************************************************)
(* Sync.walletSetup, run after run: the channel's claim is found in the    *)
(* wallet, or made and recorded in the database (ensureChannelOwnership),  *)
(* the wallet is given the credits its videos need, and its outputs are    *)
(* split.  doSync calls it once and any worker may call it again; walletMux *)
(* makes the calls take turns.  lbrynet may do what it was told and its     *)
(* answer be lost, or go on with it; credits take a while to be seen.       *)
(*                                                                         *)
(* Amounts are LBC.  A batch of videos costs 1, a channel claim next to     *)
(* nothing (but not nothing), fees nothing.  Upgrades of the metadata of    *)
(* streams are left out.                                                    *)
(***************************************************************************)
EXTENDS Integers, FiniteSets, FiniteSetsExt

CONSTANTS
    None,
    Videos,         \* bound on the batches of videos that have no row yet
    MaxBalance,     \* bound on what an old wallet has at first
    MaxCalls,       \* bound
    ExtraRefill     \* CliFlags.Refill, which no flag of the command line sets: 0

ASSUME SetupAssumption ==
    /\ None \notin Int
    /\ Videos \in Nat /\ MaxBalance \in Nat /\ MaxCalls \in Nat \ {0}
    /\ ExtraRefill \in Nat

ChannelCredits == 5             \* what ensureChannelOwnership asks for
MinimumAccountBalance == 1
MinimumRefillAmount == 1

VARIABLES
    channels,       \* the channel claims in the wallet
    oldMetadata,    \* the claim has no thumbnail or language
    late,           \* lbrynet still works on a ChannelCreate that was given up
    balance,        \* what the wallet has
    inFlight,       \* what was sent to it and it has not seen
    row,            \* channel_claim_id in the database
    transferState, deleted,     \* the channel's row, too
    unallocated,    \* batches of videos without a row
    pc,             \* where the call is
    claimID,        \* s.DbChannelData.ChannelClaimID
    recovered,      \* recoveredChannelClaimID
    bal,            \* the balance that was read
    made, calls      \* history: channel claims made, calls of walletSetup

wallet == <<channels, oldMetadata, late, made>>
credits == <<balance, inFlight>>
dbVars == <<row, transferState, deleted>>
vars == <<wallet, credits, dbVars, unallocated, pc, claimID, recovered, bal, calls>>

Fresh == channels = {} /\ row = None /\ made = 0 /\ balance = 0 /\ oldMetadata = FALSE
Known == channels = {1} /\ row = 1 /\ made = 1
\* The user has the channel already, or gave it up.
Gone == channels = {} /\ row = 1 /\ made = 1 /\ oldMetadata = FALSE

---------------------------------------------------------------------------
Init ==
    /\ balance \in 0..MaxBalance /\ channels \in {{}, {1}} /\ row \in {None, 1}
    /\ made \in {0, 1} /\ oldMetadata \in BOOLEAN
    /\ transferState \in {"notTouched", "pending", "complete", "manual"}
    /\ \/ Fresh /\ transferState \in {"notTouched", "pending"}
       \/ Known
       \/ Gone /\ transferState # "notTouched"
    /\ deleted \in BOOLEAN /\ unallocated \in 0..Videos
    /\ late = FALSE /\ inFlight = 0
    /\ pc = "down" /\ claimID = None /\ recovered = None /\ bal = 0 /\ calls = 0

Goto(l) == pc' = l
Fail == pc' = "failed"

\* The channel's data is fetched, and doSync comes to walletSetup.  There may be new
\* videos, or rows that were removed.  The lbrynet of the last run is gone.
Begin ==
    /\ pc = "down" /\ calls < MaxCalls
    /\ calls' = calls + 1 /\ Goto("own")
    /\ claimID' = row /\ recovered' = None /\ late' = FALSE
    /\ unallocated' \in 0..Videos
    /\ UNCHANGED <<channels, oldMetadata, made, credits, dbVars, bal>>

---------------------------------------------------------------------------
(* ensureChannelOwnership *)

\* Mutant: a channel in the wallet that the database does not know is no mismatch.
MismatchedRecorded == channels # {} /\ claimID # None /\ claimID \notin channels

\* "this channel does not have a recorded claimID in the database", "this wallet has
\* channels but not a single one is ours!"
Mismatched == channels # {} /\ claimID \notin channels

\* Mutant: a recorded channel that is not in the wallet is made anew.
AbandonedTransferred == channels = {} /\ transferState = "complete"

\* "the channel was transferred but appears to have been abandoned!", "the database has
\* a channel recorded but nothing was found in our control"
Abandoned == channels = {} /\ (transferState = "complete" \/ claimID # None)

\* What is asked of the channel before anything is done about it.
FindChannel ==
    /\ pc = "own"
    /\ \/ Fail
       \/ /\ ~Mismatched /\ ~Abandoned
          /\ IF deleted \/ transferState = "complete" \/ (claimID \in channels /\ ~oldMetadata)
             THEN Goto("balance") ELSE Goto("credits")
    /\ UNCHANGED <<wallet, credits, dbVars, unallocated, claimID, recovered, bal, calls>>

\* addCredits.  SimpleSend may send and fail; nobody looks whether the credits came.
AddCredits(amount, l) ==
    \/ Goto(l) /\ inFlight' = inFlight + amount
    \/ Fail /\ inFlight' \in {inFlight, inFlight + amount}

EnsureCredits ==
    /\ pc = "credits"
    /\ IF balance > 0 THEN pc' \in {"claim", "failed"} /\ UNCHANGED inFlight
                      ELSE AddCredits(ChannelCredits, "claim")
    /\ UNCHANGED <<wallet, balance, dbVars, unallocated, claimID, recovered, bal, calls>>

\* ChannelUpdate.  The error of a failed one is assigned to an err of the inner block;
\* what ends the call is that its answer has no outputs.
UpdateChannel ==
    /\ pc = "claim" /\ claimID \in channels
    /\ \/ /\ transferState \in {"notTouched", "pending"}
          /\ \/ oldMetadata' = FALSE /\ pc' \in {"record", "failed"}
             \/ Fail /\ UNCHANGED oldMetadata
       \/ /\ transferState = "manual"       \* not in our control: ignored
          /\ Goto("balance") /\ UNCHANGED oldMetadata
       \/ Fail /\ UNCHANGED oldMetadata      \* ChannelInfo, MirrorThumbnail
    /\ UNCHANGED <<channels, late, made, credits, dbVars, unallocated, claimID, recovered,
                   bal, calls>>

\* ChannelCreate: it is made; it is made and the answer lost; it takes too long; it is
\* not made.
CreateChannel ==
    /\ pc = "claim" /\ claimID \notin channels
    /\ \/ /\ balance > 0
          /\ channels' = channels \cup {made + 1} /\ made' = made + 1
          /\ \/ Goto("record") /\ claimID' = made'
             \/ Goto("recover") /\ UNCHANGED claimID
          /\ UNCHANGED late
       \/ Goto("recover") /\ late' = TRUE /\ UNCHANGED <<channels, made, claimID>>
       \/ pc' \in {"recover", "failed"} /\ UNCHANGED <<channels, made, late, claimID>>
    /\ UNCHANGED <<oldMetadata, credits, dbVars, unallocated, recovered, bal, calls>>

\* lbrynet gets to the end of it.
CreateLate ==
    /\ late /\ balance > 0
    /\ late' = FALSE /\ channels' = channels \cup {made + 1} /\ made' = made + 1
    /\ UNCHANGED <<oldMetadata, credits, dbVars, unallocated, pc, claimID, recovered, bal, calls>>

\* getChannelClaimIDForTimedOutCreation.  err keeps what ChannelCreate returned, so the
\* call fails whether or not the claim was found.
RecoverChannel ==
    /\ pc = "recover" /\ Fail
    /\ recovered' \in {None} \cup (IF Cardinality(channels) = 1 THEN channels ELSE {})
    /\ UNCHANGED <<wallet, credits, dbVars, unallocated, claimID, bal, calls>>

\* Mutant: the error of SetChannelClaimID is dropped.
AfterRecordAlways(ok) == "balance"

AfterRecord(ok) == IF ok THEN "balance" ELSE "failed"

\* SetChannelClaimID: a lost call is repeated, an answer that is not ok is an error.
RecordChannel ==
    /\ pc = "record"
    /\ \E ok, stored \in BOOLEAN:
         /\ ok => stored
         /\ row' = IF stored THEN claimID ELSE row
         /\ Goto(AfterRecord(ok))
    /\ UNCHANGED <<wallet, credits, transferState, deleted, unallocated, claimID, recovered,
                   bal, calls>>

---------------------------------------------------------------------------
(* The rest of walletSetup *)

\* A channel without videos needs nothing.
ReadBalance ==
    /\ pc = "balance"
    /\ bal' = balance
    /\ pc' \in {"refill", "failed"} \cup (IF unallocated = 0 THEN {"done"} ELSE {})
    /\ UNCHANGED <<wallet, credits, dbVars, unallocated, claimID, recovered, calls>>

\* requiredBalance, for the videos without a row.
Required == unallocated

\* Mutant: the minimum is sent, whatever is missing.
MissingMinimum == IF bal < Required \/ bal = 0 THEN MinimumRefillAmount ELSE 0

MissingCredits ==
    IF bal >= Required /\ bal >= MinimumAccountBalance THEN 0
    ELSE Max({Required - bal, MinimumAccountBalance - bal, MinimumRefillAmount})

\* CliFlags.Refill is sent on every call.
RefillAmount == MissingCredits + ExtraRefill

\* Mutant: one more is sent back instead of being kept.
ExtraSentAll == bal - Required + 1

\* sendBackAmount
ExtraSent == bal - Required - 1

\* A wallet whose transfer is manual gives back what it does not need.
Refill ==
    /\ pc = "refill"
    /\ \/ RefillAmount > 0 /\ AddCredits(RefillAmount, "utxo") /\ UNCHANGED balance
       \/ /\ RefillAmount = 0 /\ transferState = "manual" /\ bal - Required > 5
          /\ \/ pc' \in {"utxo", "failed"} /\ balance' = balance - ExtraSent
             \/ Fail /\ UNCHANGED balance
          /\ UNCHANGED inFlight
       \/ /\ RefillAmount = 0 /\ ~(transferState = "manual" /\ bal - Required > 5)
          /\ Goto("utxo") /\ UNCHANGED credits
    /\ UNCHANGED <<wallet, dbVars, unallocated, claimID, recovered, bal, calls>>

\* The claim address and the first half of ensureEnoughUTXOs: there are enough outputs,
\* at most a block is waited for; or there are not, and the balance is read.  lbrynet
\* may say it is negative.  What is done then is to parse the same answer again.
ListUTXOs ==
    /\ pc = "utxo"
    /\ \/ pc' \in {"done", "failed"} /\ UNCHANGED bal
       \/ Goto("split") /\ bal' \in {balance, -1}
    /\ UNCHANGED <<wallet, credits, dbVars, unallocated, claimID, recovered, calls>>

\* The second half.  uint64 of a negative number depends on the machine: it is 0, and
\* nothing is split, or it is over the maximum, and there is "not enough balance to split".
SplitUTXOs ==
    /\ pc = "split"
    /\ pc' \in {"done", "failed"}
    /\ UNCHANGED <<wallet, credits, dbVars, unallocated, claimID, recovered, bal, calls>>

---------------------------------------------------------------------------
(* Around the call *)

Return ==
    /\ pc = "done" /\ Goto("sync")
    /\ UNCHANGED <<wallet, credits, dbVars, unallocated, claimID, recovered, bal, calls>>

\* A batch of videos is published, or fails and costs nothing but a row, or had rows.
Publish ==
    /\ pc = "sync"
    /\ balance' \in {balance, balance - 1} \cap Nat
    /\ unallocated' \in {unallocated, unallocated - 1} \cap Nat
    /\ UNCHANGED <<wallet, inFlight, dbVars, pc, claimID, recovered, bal, calls>>

\* A worker met an error of the wallet.
SetupAgain ==
    /\ pc = "sync" /\ calls < MaxCalls
    /\ calls' = calls + 1 /\ Goto("own")
    /\ UNCHANGED <<wallet, credits, dbVars, unallocated, claimID, recovered, bal>>

\* The run ends, or the process dies.
End ==
    /\ pc # "down" /\ Goto("down")
    /\ claimID' = None /\ recovered' = None /\ bal' = 0
    /\ UNCHANGED <<wallet, credits, dbVars, unallocated, calls>>

\* The wallet sees what was sent to it.
Arrive ==
    /\ inFlight > 0
    /\ balance' = balance + inFlight /\ inFlight' = 0
    /\ UNCHANGED <<wallet, dbVars, unallocated, pc, claimID, recovered, bal, calls>>

\* The bound on calls is reached.
Over == pc = "down" /\ calls = MaxCalls /\ UNCHANGED vars

Next ==
    \/ Begin \/ FindChannel \/ EnsureCredits \/ UpdateChannel \/ CreateChannel
    \/ CreateLate \/ RecoverChannel \/ RecordChannel \/ ReadBalance \/ Refill
    \/ ListUTXOs \/ SplitUTXOs \/ Return \/ Publish \/ SetupAgain \/ End \/ Arrive \/ Over

Spec == Init /\ [][Next]_vars

---------------------------------------------------------------------------
(* Properties *)

\* Every variable keeps its type; the wallet never owes anything.
TypeOK ==
    /\ channels \subseteq 1..made /\ {made, calls, balance, inFlight, unallocated} \subseteq Nat
    /\ {oldMetadata, late, deleted} \subseteq BOOLEAN
    /\ {row, claimID, recovered} \subseteq 1..made \cup {None} /\ bal \in Nat \cup {-1}
    /\ transferState \in {"notTouched", "pending", "complete", "manual"}
    /\ pc \in {"down", "own", "credits", "claim", "recover", "record", "balance", "refill",
               "utxo", "split", "done", "sync", "failed"}

\* A YouTuber never gets a second channel claim, whatever answer of ChannelCreate was
\* lost or late and whatever crash came before its claim id was recorded.
OneChannel == Cardinality(channels) <= 1

\* When walletSetup returns without error the channel that the videos will be signed
\* with is in the wallet and is the one the database has, also when it is to be
\* transferred; only a channel that is gone from YouTube may have no claim at all, and then
\* the database has none either (setup.go:381-407).
SetupMeansChannel ==
    pc \in {"done", "sync"} =>
        \/ claimID \in channels /\ row = claimID
        \/ deleted /\ claimID = None /\ row = None

\* When walletSetup returns without error the videos without a row are paid for, by what
\* the wallet has and what is on its way to it, also after extra credits were sent back.
PaidSetup == pc = "done" => balance + inFlight >= Required

\* A recorded claim id is never replaced by the one of another channel.
ClaimIdIsKept == [][row # None => row' = row]_vars

---------------------------------------------------------------------------
(* What the code and its comments say, and what it does not do *)

\* setup.go:542-543: getChannelClaimIDForTimedOutCreation is there for a ChannelCreate
\* that did not return in time; :531-532 take over the claim id it found.
RecoveredIdIsUsed == recovered # None => claimID = recovered
===========================================================================
