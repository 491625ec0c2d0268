------------------------- MODULE ChannelSetupProofs -------------------------
(***************************************************************************)
(* Proofs about ChannelSetup, for any number of videos, credits and calls: *)
(* there is never a second channel claim, a recorded claim id is kept, and *)
(* what walletSetup returns with is the recorded channel and enough        *)
(* credits.                                                                *)
(***************************************************************************)
EXTENDS ChannelSetup, FiniteSetTheorems, TLAPS

LEMMA NoneIsNoClaim == \A n \in Nat: None \notin 1..n /\ None # n
BY SetupAssumption

\* Max of the three amounts that refill compares.
LEMMA MaxOfThree ==
    ASSUME NEW a \in Int, NEW b \in Int, NEW c \in Int
    PROVE  LET m == Max({a, b, c}) IN m \in Int /\ m >= a /\ m >= b /\ m >= c
<1>1. \E x \in {a, b, c}: \A y \in {a, b, c}: x >= y
  <2>1. CASE a >= b /\ a >= c
    BY <2>1
  <2>2. CASE b >= a /\ b >= c
    BY <2>2
  <2>3. CASE c >= a /\ c >= b
    BY <2>3
  <2> QED
    BY <2>1, <2>2, <2>3
<1>2. /\ Max({a, b, c}) \in {a, b, c}
      /\ \A y \in {a, b, c}: Max({a, b, c}) >= y
  BY <1>1 DEF Max
<1> QED
  BY <1>2

---------------------------------------------------------------------------
(* The inductive invariant, in parts *)

\* The places of a call from its start to where the channel's claim is touched.
Looking == {"own", "credits", "claim"}
\* And the places after that.
Funding == {"balance", "refill", "utxo", "split", "done", "sync"}

\* There is no channel or one, and a ChannelCreate that was given up is the only one
\* that can still be made: the call that began it has failed.
ClaimInv ==
    /\ channels = {} \/ \E c \in 1..made: channels = {c}
    /\ late => channels = {} /\ pc \in {"recover", "failed", "down"}
    /\ pc \in {"credits", "claim"} =>
         claimID \in channels \/ (channels = {} /\ claimID = None)

\* The claim id of the call is the recorded one, but for a channel that was just made.
RowInv ==
    /\ pc \in Looking \cup Funding => claimID = row
    /\ pc = "record" => claimID \in channels /\ row \in {None, claimID}
    /\ pc \in Funding => claimID \in channels \/ (deleted /\ claimID = None)

\* The balance that was read is there, and then what the videos need.
FundsInv ==
    /\ pc = "refill" => bal \in Nat /\ bal <= balance
    /\ pc \in {"utxo", "split", "done"} => balance + inFlight >= Required

SetupInv == ClaimInv /\ RowInv /\ FundsInv
---------------------------------------------------------------------------
(* Types *)

\* The type invariant, split by what an action disturbs.
ClaimTypes ==
    /\ channels \subseteq 1..made /\ made \in Nat
    /\ row \in 1..made \cup {None} /\ claimID \in 1..made \cup {None}
    /\ recovered \in 1..made \cup {None}
CreditTypes ==
    /\ calls \in Nat /\ balance \in Nat /\ inFlight \in Nat /\ unallocated \in Nat
    /\ bal \in Nat \cup {-1}
PlaceTypes ==
    /\ oldMetadata \in BOOLEAN /\ late \in BOOLEAN /\ deleted \in BOOLEAN
    /\ transferState \in {"notTouched", "pending", "complete", "manual"}
    /\ pc \in {"down", "own", "credits", "claim", "recover", "record", "balance", "refill",
               "utxo", "split", "done", "sync", "failed"}

LEMMA TypeParts == TypeOK <=> ClaimTypes /\ CreditTypes /\ PlaceTypes
<1>1. {oldMetadata, late, deleted} \subseteq BOOLEAN
        <=> oldMetadata \in BOOLEAN /\ late \in BOOLEAN /\ deleted \in BOOLEAN
  BY Zenon
<1>2. {made, calls, balance, inFlight, unallocated} \subseteq Nat
        <=> /\ made \in Nat /\ calls \in Nat /\ balance \in Nat
            /\ inFlight \in Nat /\ unallocated \in Nat
  OBVIOUS
<1>3. {row, claimID, recovered} \subseteq 1..made \cup {None}
        <=> /\ row \in 1..made \cup {None} /\ claimID \in 1..made \cup {None}
            /\ recovered \in 1..made \cup {None}
  OBVIOUS
<1> QED
  BY <1>1, <1>2, <1>3 DEF TypeOK, ClaimTypes, CreditTypes, PlaceTypes

LEMMA TypeInit == Init => TypeOK
<1> SUFFICES ASSUME Init PROVE TypeOK
  OBVIOUS
<1>1. ClaimTypes
  BY SetupAssumption DEF Init, Fresh, Known, Gone, ClaimTypes
<1>2. CreditTypes
  BY SetupAssumption DEF Init, CreditTypes
<1>3. PlaceTypes
  BY DEF Init, PlaceTypes
<1> QED
  BY <1>1, <1>2, <1>3, TypeParts

LEMMA PlaceStep ==
    ASSUME PlaceTypes, [Next]_vars
    PROVE  PlaceTypes'
<1> USE DEF PlaceTypes, Goto, Fail
<1>1. ASSUME Begin \/ FindChannel \/ EnsureCredits \/ UpdateChannel PROVE PlaceTypes'
  BY <1>1 DEF Begin, FindChannel, EnsureCredits, AddCredits, UpdateChannel, wallet, dbVars
<1>2. ASSUME CreateChannel \/ CreateLate \/ RecoverChannel \/ RecordChannel PROVE PlaceTypes'
  BY <1>2 DEF CreateChannel, CreateLate, RecoverChannel, RecordChannel, AfterRecord, wallet, dbVars
<1>3. ASSUME ReadBalance \/ Refill \/ ListUTXOs \/ SplitUTXOs PROVE PlaceTypes'
  BY <1>3 DEF ReadBalance, Refill, AddCredits, ListUTXOs, SplitUTXOs, wallet, dbVars
<1>4. ASSUME Return \/ Publish \/ SetupAgain \/ End \/ Arrive PROVE PlaceTypes'
  BY <1>4 DEF Return, Publish, SetupAgain, End, Arrive, wallet, dbVars
<1>5. CASE UNCHANGED vars
  BY <1>5 DEF vars, wallet, dbVars
<1> QED
  BY <1>1, <1>2, <1>3, <1>4, <1>5 DEF Next, Over

LEMMA RefillAmountType ==
    ASSUME CreditTypes, bal \in Nat
    PROVE  /\ RefillAmount \in Nat
           /\ bal + RefillAmount >= Required
<1> DEFINE missing == MissingCredits
<1>1. missing \in Nat /\ bal + missing >= Required
  <2>1. CASE bal >= Required /\ bal >= MinimumAccountBalance
    BY <2>1 DEF MissingCredits, Required, CreditTypes
  <2>2. CASE ~(bal >= Required /\ bal >= MinimumAccountBalance)
    <3> DEFINE m == Max({Required - bal, MinimumAccountBalance - bal, MinimumRefillAmount})
    <3>1. m \in Int /\ m >= Required - bal /\ m >= MinimumRefillAmount
      <4>1. /\ Required - bal \in Int /\ MinimumAccountBalance - bal \in Int
            /\ MinimumRefillAmount \in Int
        BY DEF CreditTypes, Required, MinimumAccountBalance, MinimumRefillAmount
      <4> QED
        BY <4>1, MaxOfThree
    <3>2. missing = m
      BY <2>2 DEF MissingCredits
    <3> HIDE DEF m, missing
    <3> QED
      BY <3>1, <3>2 DEF Required, MinimumRefillAmount, CreditTypes
  <2> QED
    BY <2>1, <2>2
<1>2. RefillAmount = missing + ExtraRefill /\ ExtraRefill \in Nat
  BY SetupAssumption DEF RefillAmount
<1> HIDE DEF missing
<1>3. Required \in Nat
  BY DEF Required, CreditTypes
<1> QED
  BY <1>1, <1>2, <1>3

LEMMA CreditStep ==
    ASSUME CreditTypes, FundsInv, [Next]_vars
    PROVE  CreditTypes'
<1> USE DEF CreditTypes
<1>1. ASSUME Begin PROVE CreditTypes'
  BY <1>1, SetupAssumption DEF Begin, credits
<1>2. ASSUME FindChannel \/ EnsureCredits \/ UpdateChannel PROVE CreditTypes'
  BY <1>2 DEF FindChannel, EnsureCredits, AddCredits, ChannelCredits, UpdateChannel, credits
<1>3. ASSUME CreateChannel \/ CreateLate \/ RecoverChannel \/ RecordChannel PROVE CreditTypes'
  BY <1>3 DEF CreateChannel, CreateLate, RecoverChannel, RecordChannel, credits
<1>4. ASSUME ReadBalance \/ ListUTXOs \/ SplitUTXOs PROVE CreditTypes'
  BY <1>4 DEF ReadBalance, ListUTXOs, SplitUTXOs, credits
<1>5. ASSUME Refill PROVE CreditTypes'
  <2>1. bal \in Nat /\ bal <= balance
    BY <1>5 DEF Refill, FundsInv
  <2>2. RefillAmount \in Nat
    BY <2>1, RefillAmountType
  <2>3. inFlight' \in Nat
    BY <1>5, <2>2 DEF Refill, AddCredits, credits
  <2>4. balance' \in Nat
    BY <1>5, <2>1 DEF Refill, AddCredits, ExtraSent, Required, credits
  <2> QED
    BY <1>5, <2>3, <2>4 DEF Refill
<1>6. ASSUME Return \/ Publish \/ SetupAgain \/ End \/ Arrive PROVE CreditTypes'
  BY <1>6 DEF Return, Publish, SetupAgain, End, Arrive, credits
<1>7. CASE UNCHANGED vars
  BY <1>7 DEF vars, credits
<1> QED
  BY <1>1, <1>2, <1>3, <1>4, <1>5, <1>6, <1>7 DEF Next, Over

\* A channel claim more keeps what was known of the others.
LEMMA ClaimMade ==
    ASSUME ClaimTypes, made' = made + 1, channels' = channels \cup {made + 1},
           row' = row, recovered' = recovered, claimID' \in {claimID, made + 1}
    PROVE  ClaimTypes'
<1>1. 1..made \subseteq 1..made' /\ made + 1 \in 1..made' /\ made' \in Nat
  BY DEF ClaimTypes
<1> QED
  BY <1>1 DEF ClaimTypes

LEMMA ClaimTypesStep ==
    ASSUME ClaimTypes, [Next]_vars
    PROVE  ClaimTypes'
<1>1. ASSUME UNCHANGED <<channels, made, row>>, claimID' \in {claimID, row, None},
             recovered' \in {recovered, None} \cup channels
      PROVE  ClaimTypes'
  BY <1>1 DEF ClaimTypes
<1>2. ASSUME CreateChannel PROVE ClaimTypes'
  <2>1. CASE made' = made + 1
    BY <1>2, <2>1, ClaimMade DEF CreateChannel, dbVars
  <2>2. CASE made' # made + 1
    BY <1>1, <1>2, <2>2 DEF CreateChannel, dbVars
  <2> QED
    BY <2>1, <2>2
<1>3. ASSUME CreateLate PROVE ClaimTypes'
  BY <1>3, ClaimMade DEF CreateLate, dbVars
<1>4. ASSUME RecordChannel PROVE ClaimTypes'
  BY <1>4 DEF RecordChannel, wallet, ClaimTypes
<1>5. ASSUME Begin \/ FindChannel \/ EnsureCredits \/ UpdateChannel PROVE ClaimTypes'
  BY <1>1, <1>5 DEF Begin, FindChannel, EnsureCredits, UpdateChannel, wallet, dbVars
<1>6. ASSUME RecoverChannel \/ ReadBalance \/ Refill \/ ListUTXOs \/ SplitUTXOs
      PROVE  ClaimTypes'
  BY <1>1, <1>6 DEF RecoverChannel, ReadBalance, Refill, ListUTXOs, SplitUTXOs, wallet, dbVars
<1>7. ASSUME Return \/ Publish \/ SetupAgain \/ End \/ Arrive \/ UNCHANGED vars
      PROVE  ClaimTypes'
  BY <1>1, <1>7 DEF Return, Publish, SetupAgain, End, Arrive, vars, wallet, dbVars
<1> QED
  BY <1>2, <1>3, <1>4, <1>5, <1>6, <1>7 DEF Next, Over
---------------------------------------------------------------------------
(* The invariant is kept *)

LEMMA ClaimInvStep ==
    ASSUME ClaimTypes, PlaceTypes, ClaimInv, RowInv, [Next]_vars
    PROVE  ClaimInv'
<1>1. CASE Begin
  BY <1>1 DEF Begin, Goto, ClaimInv
<1>2. CASE FindChannel
  BY <1>2 DEF FindChannel, Mismatched, Abandoned, Goto, Fail, wallet, ClaimInv
<1>3. CASE EnsureCredits
  BY <1>3 DEF EnsureCredits, AddCredits, Goto, Fail, wallet, ClaimInv
<1>4. CASE UpdateChannel
  BY <1>4 DEF UpdateChannel, Goto, Fail, ClaimInv
<1>5. CASE CreateChannel
  <2>1. channels = {} /\ ~late
    BY <1>5 DEF CreateChannel, ClaimInv
  <2>2. CASE made' = made + 1
    <3>1. channels' = {made'} /\ made' \in 1..made' /\ late' = late
      BY <1>5, <2>1, <2>2 DEF CreateChannel, ClaimTypes
    <3>2. pc' \in {"record", "recover"}
      BY <1>5, <2>2 DEF CreateChannel, Goto, Fail, ClaimTypes
    <3> QED
      BY <2>1, <3>1, <3>2 DEF ClaimInv
  <2>3. CASE made' # made + 1
    BY <1>5, <2>1, <2>3 DEF CreateChannel, Goto, ClaimInv
  <2> QED
    BY <2>2, <2>3
<1>6. CASE CreateLate
  <2>1. channels' = {made'} /\ made' \in 1..made'
    <3>1. channels = {} /\ channels' = channels \cup {made + 1} /\ made' = made + 1
      BY <1>6 DEF CreateLate, ClaimInv
    <3> QED
      BY <3>1 DEF ClaimTypes
  <2> QED
    BY <1>6, <2>1 DEF CreateLate, ClaimInv
<1>7. CASE RecoverChannel
  BY <1>7 DEF RecoverChannel, Fail, wallet, ClaimInv
<1>8. CASE RecordChannel
  BY <1>8 DEF RecordChannel, Goto, AfterRecord, wallet, ClaimInv
<1>9. ASSUME ReadBalance \/ ListUTXOs \/ SplitUTXOs \/ Refill PROVE ClaimInv'
  BY <1>9 DEF ReadBalance, ListUTXOs, SplitUTXOs, Refill, AddCredits, Goto, Fail, wallet, ClaimInv
<1>10. ASSUME Return \/ Publish \/ SetupAgain \/ End \/ Arrive PROVE ClaimInv'
  BY <1>10 DEF Return, Publish, SetupAgain, End, Arrive, Goto, wallet, ClaimInv
<1>11. CASE UNCHANGED vars
  BY <1>11 DEF vars, wallet, ClaimInv
<1> QED
  BY <1>1, <1>2, <1>3, <1>4, <1>5, <1>6, <1>7, <1>8, <1>9, <1>10, <1>11 DEF Next, Over

LEMMA RowInvStep ==
    ASSUME ClaimTypes, PlaceTypes, ClaimInv, RowInv, [Next]_vars
    PROVE  RowInv'
<1> USE DEF Looking, Funding
<1>1. CASE Begin
  BY <1>1 DEF Begin, Goto, dbVars, RowInv
<1>2. CASE FindChannel
  BY <1>2 DEF FindChannel, Mismatched, Abandoned, Goto, Fail, wallet, dbVars, RowInv
<1>3. CASE EnsureCredits
  BY <1>3 DEF EnsureCredits, AddCredits, Goto, Fail, dbVars, RowInv
<1>4. CASE UpdateChannel
  BY <1>4 DEF UpdateChannel, Goto, Fail, dbVars, RowInv
<1>5. CASE CreateChannel
  <2>1. row = None
    BY <1>5 DEF CreateChannel, ClaimInv, RowInv
  <2>2. pc' = "record" => claimID' \in channels'
    BY <1>5 DEF CreateChannel, Goto, Fail
  <2>3. pc' \in {"record", "recover", "failed"} /\ row' = row
    BY <1>5 DEF CreateChannel, Goto, Fail, dbVars
  <2> QED
    BY <2>1, <2>2, <2>3 DEF RowInv
<1>6. CASE CreateLate
  BY <1>6 DEF CreateLate, dbVars, ClaimInv, RowInv
<1>7. CASE RecoverChannel
  BY <1>7 DEF RecoverChannel, Fail, RowInv
<1>8. CASE RecordChannel
  BY <1>8 DEF RecordChannel, Goto, AfterRecord, wallet, RowInv
<1>9. ASSUME ReadBalance \/ ListUTXOs \/ SplitUTXOs \/ Refill PROVE RowInv'
  BY <1>9 DEF ReadBalance, ListUTXOs, SplitUTXOs, Refill, AddCredits, Goto, Fail, wallet, dbVars,
              RowInv
<1>10. ASSUME Return \/ Publish \/ SetupAgain \/ End \/ Arrive PROVE RowInv'
  BY <1>10 DEF Return, Publish, SetupAgain, End, Arrive, Goto, wallet, dbVars, RowInv
<1>11. CASE UNCHANGED vars
  BY <1>11 DEF vars, wallet, dbVars, RowInv
<1> QED
  BY <1>1, <1>2, <1>3, <1>4, <1>5, <1>6, <1>7, <1>8, <1>9, <1>10, <1>11 DEF Next, Over

LEMMA FundsInvStep ==
    ASSUME CreditTypes, PlaceTypes, FundsInv, [Next]_vars
    PROVE  FundsInv'
<1> USE DEF CreditTypes, Required
<1>1. ASSUME pc' \notin {"refill", "utxo", "split", "done"} PROVE FundsInv'
  BY <1>1 DEF FundsInv
<1>2. CASE Begin
  BY <1>1, <1>2 DEF Begin, Goto
<1>3. ASSUME FindChannel \/ EnsureCredits \/ UpdateChannel PROVE FundsInv'
  BY <1>1, <1>3 DEF FindChannel, EnsureCredits, AddCredits, UpdateChannel, Goto, Fail
<1>4. ASSUME CreateChannel \/ RecoverChannel \/ RecordChannel PROVE FundsInv'
  BY <1>1, <1>4 DEF CreateChannel, RecoverChannel, RecordChannel, AfterRecord, Goto, Fail
<1>5. CASE CreateLate
  BY <1>5 DEF CreateLate, credits, FundsInv
<1>6. CASE ReadBalance
  BY <1>6 DEF ReadBalance, credits, FundsInv
<1>7. CASE Refill
  <2>1. bal \in Nat /\ bal <= balance
    BY <1>7 DEF Refill, FundsInv
  <2>2. RefillAmount \in Nat /\ bal + RefillAmount >= Required
    BY <2>1, RefillAmountType
  <2>3. pc' \in {"utxo", "failed"} /\ unallocated' = unallocated
    BY <1>7 DEF Refill, AddCredits, Goto, Fail
  <2>4. pc' = "utxo" => balance' + inFlight' >= Required'
    <3>1. CASE RefillAmount > 0
      BY <1>7, <2>1, <2>2, <2>3, <3>1 DEF Refill, AddCredits, Fail
    <3>2. CASE RefillAmount = 0 /\ transferState = "manual" /\ bal - Required > 5
      BY <1>7, <2>1, <2>2, <2>3, <3>2 DEF Refill, ExtraSent, Fail
    <3>3. CASE RefillAmount = 0 /\ ~(transferState = "manual" /\ bal - Required > 5)
      BY <1>7, <2>1, <2>2, <2>3, <3>3 DEF Refill, credits
    <3> QED
      BY <2>2, <3>1, <3>2, <3>3
  <2> QED
    BY <2>3, <2>4 DEF FundsInv
<1>8. ASSUME ListUTXOs \/ SplitUTXOs PROVE FundsInv'
  BY <1>8 DEF ListUTXOs, SplitUTXOs, Goto, credits, FundsInv
<1>9. ASSUME Return \/ Publish \/ SetupAgain \/ End PROVE FundsInv'
  BY <1>1, <1>9 DEF Return, Publish, SetupAgain, End, Goto
<1>10. CASE Arrive
  BY <1>10 DEF Arrive, FundsInv
<1>11. CASE UNCHANGED vars
  BY <1>11 DEF vars, credits, FundsInv
<1> QED
  BY <1>2, <1>3, <1>4, <1>5, <1>6, <1>7, <1>8, <1>9, <1>10, <1>11 DEF Next, Over

LEMMA InvInit == Init => SetupInv
BY DEF Init, Fresh, Known, Gone, SetupInv, ClaimInv, RowInv, FundsInv, Looking, Funding

---------------------------------------------------------------------------
(* The theorems *)

\* Spec keeps the types and the invariant: what every theorem below rests on.
THEOREM SetupInvariant == Spec => [](TypeOK /\ SetupInv)
<1>1. Init => TypeOK /\ SetupInv
  BY TypeInit, InvInit
<1>2. TypeOK /\ SetupInv /\ [Next]_vars => (TypeOK /\ SetupInv)'
  <2> SUFFICES ASSUME TypeOK, SetupInv, [Next]_vars PROVE (TypeOK /\ SetupInv)'
    OBVIOUS
  <2>1. ClaimTypes /\ CreditTypes /\ PlaceTypes /\ ClaimInv /\ RowInv /\ FundsInv
    BY TypeParts DEF SetupInv
  <2>2. ClaimTypes' /\ CreditTypes' /\ PlaceTypes'
    BY <2>1, ClaimTypesStep, CreditStep, PlaceStep
  <2>3. TypeOK'
    BY <2>2, TypeParts, PTL
  <2>4. ClaimInv' /\ RowInv' /\ FundsInv'
    BY <2>1, ClaimInvStep, RowInvStep, FundsInvStep
  <2> QED
    BY <2>3, <2>4 DEF SetupInv
<1> QED
  BY <1>1, <1>2, PTL DEF Spec

\* Every variable of walletSetup keeps its type; the wallet is never asked for more than
\* it has, also when extra credits are sent back.
THEOREM SetupTypes == Spec => []TypeOK
BY SetupInvariant, PTL

\* ensureChannelOwnership never makes a second channel claim, whatever answer of
\* ChannelCreate was lost or late.
THEOREM NoSecondChannel == Spec => []OneChannel
<1>1. ClaimInv => OneChannel
  <2>1. ASSUME channels = {} PROVE Cardinality(channels) = 0
    BY <2>1, FS_EmptySet
  <2>2. ASSUME NEW c \in 1..made, channels = {c} PROVE Cardinality(channels) = 1
    BY <2>2, FS_Singleton
  <2> QED
    BY <2>1, <2>2 DEF ClaimInv, OneChannel
<1> QED
  BY <1>1, SetupInvariant, PTL DEF SetupInv

\* When walletSetup returns without error the channel is in the wallet and recorded, or is
\* gone from YouTube and never had a claim.
THEOREM SetupRecordsChannel == Spec => []SetupMeansChannel
<1>1. SetupInv => SetupMeansChannel
  BY DEF SetupInv, RowInv, Funding, SetupMeansChannel
<1> QED
  BY <1>1, SetupInvariant, PTL

\* And the videos without a row are paid for, by refill or by what was kept.
THEOREM SetupPays == Spec => []PaidSetup
<1>1. SetupInv => PaidSetup
  BY DEF SetupInv, FundsInv, PaidSetup
<1> QED
  BY <1>1, SetupInvariant, PTL

\* SetChannelClaimID never replaces a recorded claim id by another one.
THEOREM ClaimIdKept == Spec => ClaimIdIsKept
<1>1. SetupInv /\ [Next]_vars => [row # None => row' = row]_vars
  <2> SUFFICES ASSUME SetupInv, Next, row # None PROVE row' = row
    OBVIOUS
  <2>1. CASE RecordChannel
    BY <2>1 DEF RecordChannel, SetupInv, RowInv
  <2>2. CASE ~RecordChannel
    BY <2>2 DEF Next, Begin, FindChannel, EnsureCredits, UpdateChannel, CreateChannel, CreateLate,
                RecoverChannel, ReadBalance, Refill, ListUTXOs, SplitUTXOs, Return, Publish,
                SetupAgain, End, Arrive, Over, vars, dbVars
  <2> QED
    BY <2>1, <2>2
<1> QED
  BY <1>1, SetupInvariant, PTL DEF Spec, ClaimIdIsKept
===========================================================================
