------------------------ MODULE ChannelCycleProofs ------------------------
(***************************************************************************)
(* Proofs about ChannelCycle, for any set of channels and any number of    *)
(* wallet versions.  First which actions touch which group of variables,   *)
(* then the types, then the custody of the wallets.                        *)
(***************************************************************************)
EXTENDS ChannelCycle, TLAPS

\* Only these actions touch the fields of Sync.
LEMMA CycleFrame ==
    [Next]_vars =>
        (DownloadWallet \/ WaitForDaemonStart \/ ProcessListError \/ HandleError
         \/ SetChannelTerminationStatus \/ Crash \/ UNCHANGED cycleVars)
BY DEF Next, CycleStep, ManagerStep, Environment, DaemonStep, vars, procVars,
   cycleVars, daemonVars, walletVars, blobVars, dbVars, Start,
   ReflectBlobs, CleanupLbrynet, NextChannel, GetWalletPaths, DownloadBlockchainDB,
   StartDaemon, DoSync, ProcessTransfers, StopDaemon, WaitForDaemonProcess,
   UploadWallet, RemoveWallet, UploadBlockchainDB, Panic,
   Interrupt, MoveWalletByHand, DaemonLoad, DaemonWrite, DaemonExit, FullCycle

\* Only these actions touch the lbrynet process.
LEMMA DaemonFrame ==
    [Next]_vars =>
        (StartDaemon \/ WaitForDaemonStart \/ StopDaemon \/ DaemonLoad \/
         DaemonWrite \/ DaemonExit \/ UNCHANGED daemonVars)
BY DEF Next, CycleStep, ManagerStep, Environment, DaemonStep, vars, procVars,
   cycleVars, daemonVars, walletVars, blobVars, dbVars, Start, HandleError,
   ReflectBlobs, CleanupLbrynet, NextChannel, GetWalletPaths, DownloadWallet,
   DownloadBlockchainDB, DoSync, ProcessTransfers, WaitForDaemonProcess,
   ProcessListError, UploadWallet, RemoveWallet, UploadBlockchainDB,
   SetChannelTerminationStatus, Panic, Interrupt, Crash, MoveWalletByHand, FullCycle

\* Only these actions touch the wallets.
LEMMA WalletFrame ==
    [Next]_vars =>
        (DownloadWallet \/ UploadWallet \/ RemoveWallet \/ MoveWalletByHand \/
         DaemonLoad \/ DaemonWrite \/ UNCHANGED walletVars)
BY DEF Next, CycleStep, ManagerStep, Environment, DaemonStep, vars, procVars,
   cycleVars, daemonVars, walletVars, blobVars, dbVars, Start, HandleError,
   ReflectBlobs, CleanupLbrynet, NextChannel, GetWalletPaths, DownloadBlockchainDB,
   StartDaemon, WaitForDaemonStart, DoSync, ProcessTransfers, StopDaemon,
   WaitForDaemonProcess, ProcessListError, UploadBlockchainDB,
   SetChannelTerminationStatus, Panic, Interrupt, Crash, DaemonExit, FullCycle

\* Only these actions touch blockchain.db and the blobs.
LEMMA FileFrame ==
    [Next]_vars =>
        (ReflectBlobs \/ CleanupLbrynet \/ DownloadBlockchainDB \/
         UploadBlockchainDB \/ DaemonLoad \/ DaemonWrite \/ UNCHANGED <<bdb,
         blobVars>>)
BY DEF Next, CycleStep, ManagerStep, Environment, DaemonStep, vars, procVars,
   cycleVars, daemonVars, walletVars, blobVars, dbVars, Start, HandleError,
   NextChannel, GetWalletPaths, DownloadWallet, StartDaemon, WaitForDaemonStart,
   DoSync, ProcessTransfers, StopDaemon, WaitForDaemonProcess, ProcessListError,
   UploadWallet, RemoveWallet, SetChannelTerminationStatus, Panic, Interrupt, Crash,
   MoveWalletByHand, DaemonExit, FullCycle

\* Only these actions touch the database.
LEMMA DbFrame ==
    [Next]_vars =>
        ((\E c \in Channels: FullCycle(c)) \/ ProcessTransfers \/
         SetChannelTerminationStatus \/ UNCHANGED dbVars)
BY DEF Next, CycleStep, ManagerStep, Environment, DaemonStep, vars, procVars,
   cycleVars, daemonVars, walletVars, blobVars, dbVars, Start, HandleError,
   ReflectBlobs, CleanupLbrynet, NextChannel, GetWalletPaths, DownloadWallet,
   DownloadBlockchainDB, StartDaemon, WaitForDaemonStart, DoSync, StopDaemon,
   WaitForDaemonProcess, ProcessListError, UploadWallet, RemoveWallet,
   UploadBlockchainDB, Panic, Interrupt, Crash, MoveWalletByHand, DaemonLoad, DaemonWrite,
   DaemonExit

\* The types of where the process is.
LEMMA ProcTypeStep == TypeOK /\ [Next]_vars => ProcTypeOK'
<1> USE ConstantsAssumption
<1> SUFFICES ASSUME TypeOK, [Next]_vars PROVE ProcTypeOK' OBVIOUS
<1> USE DEF TypeOK, ProcTypeOK, procVars, cycleVars, daemonVars, walletVars,
        blobVars, dbVars, Goto, Exit, NewSync, Locations, InCycle,
        Messages, SyncErrors, OwnsWallet
<1>1. CASE Start BY <1>1 DEF Start
<1>2. CASE HandleError BY <1>2 DEF HandleError
<1>3. CASE ReflectBlobs BY <1>3 DEF ReflectBlobs
<1>4. CASE CleanupLbrynet BY <1>4 DEF CleanupLbrynet
<1>5. CASE NextChannel BY <1>5 DEF NextChannel
<1>6. CASE GetWalletPaths BY <1>6 DEF GetWalletPaths
<1>7. CASE DownloadWallet BY <1>7 DEF DownloadWallet
<1>8. CASE DownloadBlockchainDB BY <1>8 DEF DownloadBlockchainDB
<1>9. CASE StartDaemon BY <1>9 DEF StartDaemon
<1>10. CASE WaitForDaemonStart BY <1>10 DEF WaitForDaemonStart
<1>11. CASE DoSync BY <1>11 DEF DoSync
<1>12. CASE ProcessTransfers BY <1>12 DEF ProcessTransfers
<1>13. CASE StopDaemon BY <1>13 DEF StopDaemon
<1>14. CASE WaitForDaemonProcess BY <1>14 DEF WaitForDaemonProcess
<1>15. CASE ProcessListError BY <1>15 DEF ProcessListError
<1>16. CASE UploadWallet BY <1>16 DEF UploadWallet
<1>17. CASE RemoveWallet BY <1>17 DEF RemoveWallet
<1>18. CASE UploadBlockchainDB BY <1>18 DEF UploadBlockchainDB
<1>19. CASE SetChannelTerminationStatus BY <1>19 DEF SetChannelTerminationStatus, EndCycle
<1>20. CASE Interrupt BY <1>20 DEF Interrupt
<1>21. CASE Crash BY <1>21 DEF Crash
<1>22. CASE MoveWalletByHand BY <1>22 DEF MoveWalletByHand
<1>23. CASE DaemonLoad BY <1>23 DEF DaemonLoad
<1>24. CASE DaemonWrite BY <1>24 DEF DaemonWrite
<1>25. CASE DaemonExit BY <1>25 DEF DaemonExit
<1>26. CASE \E c \in Channels: FullCycle(c) BY <1>26 DEF FullCycle
<1>27. CASE UNCHANGED vars BY <1>27 DEF vars
<1>28. CASE Panic BY <1>28 DEF Panic
<1> QED BY <1>1, <1>2, <1>3, <1>4, <1>5, <1>6, <1>7, <1>8, <1>9, <1>10, <1>11,
           <1>12, <1>13, <1>14, <1>15, <1>16, <1>17, <1>18, <1>19, <1>20, <1>21,
           <1>22, <1>23, <1>24, <1>25, <1>26, <1>27, <1>28
        DEF Next, CycleStep, ManagerStep, Environment, DaemonStep

\* The types of the fields of Sync.
LEMMA CycleTypeStep == TypeOK /\ [Next]_vars => CycleTypeOK'
<1> USE ConstantsAssumption
<1> SUFFICES ASSUME TypeOK, [Next]_vars PROVE CycleTypeOK' OBVIOUS
<1> USE DEF TypeOK, CycleTypeOK, procVars, cycleVars, daemonVars, walletVars,
        blobVars, dbVars, Goto, Exit, NewSync
<1>1. CASE DownloadWallet BY <1>1 DEF DownloadWallet
<1>2. CASE WaitForDaemonStart BY <1>2 DEF WaitForDaemonStart
<1>3. CASE ProcessListError BY <1>3 DEF ProcessListError
<1>4. CASE HandleError BY <1>4 DEF HandleError
<1>5. CASE Crash BY <1>5 DEF Crash
<1>6. CASE SetChannelTerminationStatus BY <1>6 DEF SetChannelTerminationStatus, EndCycle
<1>7. CASE UNCHANGED cycleVars BY <1>7
<1> QED BY <1>1, <1>2, <1>3, <1>4, <1>5, <1>6, <1>7, CycleFrame

\* The types of the lbrynet process.
LEMMA DaemonTypeStep == TypeOK /\ [Next]_vars => DaemonTypeOK'
<1> USE ConstantsAssumption
<1> SUFFICES ASSUME TypeOK, [Next]_vars PROVE DaemonTypeOK' OBVIOUS
<1> USE DEF TypeOK, DaemonTypeOK, procVars, cycleVars, daemonVars, walletVars,
        blobVars, dbVars, Goto, Exit, NewSync, WalletOrNone, Wallet,
        ProcTypeOK, WalletTypeOK
<1>1. CASE StartDaemon BY <1>1 DEF StartDaemon
<1>2. CASE WaitForDaemonStart BY <1>2 DEF WaitForDaemonStart
<1>3. CASE StopDaemon BY <1>3 DEF StopDaemon
<1>4. CASE DaemonLoad BY <1>4 DEF DaemonLoad
<1>5. CASE DaemonWrite BY <1>5 DEF DaemonWrite
<1>6. CASE DaemonExit BY <1>6 DEF DaemonExit
<1>7. CASE UNCHANGED daemonVars BY <1>7
<1> QED BY <1>1, <1>2, <1>3, <1>4, <1>5, <1>6, <1>7, DaemonFrame

\* The types of the wallets.
LEMMA WalletTypeStep == TypeOK /\ [Next]_vars => WalletTypeOK'
<1> USE ConstantsAssumption
<1> SUFFICES ASSUME TypeOK, [Next]_vars PROVE WalletTypeOK' OBVIOUS
<1> USE DEF TypeOK, WalletTypeOK, procVars, cycleVars, daemonVars, walletVars,
        blobVars, dbVars, Goto, Exit, NewSync, WalletOrNone, Wallet,
        ProcTypeOK, DaemonTypeOK
<1>1. CASE DownloadWallet BY <1>1 DEF DownloadWallet
<1>2. CASE UploadWallet BY <1>2 DEF UploadWallet
<1>3. CASE RemoveWallet BY <1>3 DEF RemoveWallet
<1>4. CASE MoveWalletByHand BY <1>4 DEF MoveWalletByHand
<1>5. CASE DaemonLoad BY <1>5 DEF DaemonLoad
<1>6. CASE DaemonWrite BY <1>6 DEF DaemonWrite
<1>7. CASE UNCHANGED walletVars BY <1>7
<1> QED BY <1>1, <1>2, <1>3, <1>4, <1>5, <1>6, <1>7, WalletFrame

\* The types of blockchain.db and the blobs.
LEMMA FileTypeStep == TypeOK /\ [Next]_vars => FileTypeOK'
<1> USE ConstantsAssumption
<1> SUFFICES ASSUME TypeOK, [Next]_vars PROVE FileTypeOK' OBVIOUS
<1> USE DEF TypeOK, FileTypeOK, procVars, cycleVars, daemonVars, walletVars,
        blobVars, dbVars, Goto, Exit, NewSync, ProcTypeOK
<1>1. CASE ReflectBlobs BY <1>1 DEF ReflectBlobs
<1>2. CASE CleanupLbrynet BY <1>2 DEF CleanupLbrynet
<1>3. CASE DownloadBlockchainDB BY <1>3 DEF DownloadBlockchainDB
<1>4. CASE UploadBlockchainDB BY <1>4 DEF UploadBlockchainDB
<1>5. CASE DaemonLoad BY <1>5 DEF DaemonLoad
<1>6. CASE DaemonWrite BY <1>6 DEF DaemonWrite
<1>7. CASE UNCHANGED <<bdb, blobVars>> BY <1>7
<1> QED BY <1>1, <1>2, <1>3, <1>4, <1>5, <1>6, <1>7, FileFrame

\* The types of the database.
LEMMA DbTypeStep == TypeOK /\ [Next]_vars => DbTypeOK'
<1> USE ConstantsAssumption
<1> SUFFICES ASSUME TypeOK, [Next]_vars PROVE DbTypeOK' OBVIOUS
<1> USE DEF TypeOK, DbTypeOK, procVars, cycleVars, daemonVars, walletVars,
        blobVars, dbVars, Goto, Exit, NewSync, TerminationStatus, CompletesTransfer,
        ProcTypeOK
<1>1. CASE \E c \in Channels: FullCycle(c) BY <1>1 DEF FullCycle
<1>2. CASE ProcessTransfers BY <1>2 DEF ProcessTransfers
<1>3. CASE SetChannelTerminationStatus BY <1>3 DEF SetChannelTerminationStatus
<1>4. CASE UNCHANGED dbVars BY <1>4
<1> QED BY <1>1, <1>2, <1>3, <1>4, DbFrame

\* The initial states are typed.
LEMMA InitTypeOK == Init => TypeOK
<1> SUFFICES ASSUME Init PROVE TypeOK OBVIOUS
<1> USE DEF Init
<1>1. ProcTypeOK /\ CycleTypeOK BY DEF ProcTypeOK, CycleTypeOK, Locations
<1>2. DaemonTypeOK /\ FileTypeOK BY DEF DaemonTypeOK, FileTypeOK, WalletOrNone
<1>3. WalletTypeOK /\ DbTypeOK BY DEF WalletTypeOK, DbTypeOK, WalletOrNone
<1> QED BY <1>1, <1>2, <1>3 DEF TypeOK

\* Every step keeps the types.
LEMMA TypeStep == TypeOK /\ [Next]_vars => TypeOK'
BY ProcTypeStep, CycleTypeStep, DaemonTypeStep, WalletTypeStep, FileTypeStep, DbTypeStep
   DEF TypeOK

\* Every variable keeps the values the code can give it.
THEOREM TypeCorrect == Spec => []TypeOK
BY InitTypeOK, TypeStep, PTL DEF Spec

---------------------------------------------------------------------------
(* The custody of the wallets *)

\* A step that leaves the wallets alone keeps what is said of them.
LEMMA UntouchedWallets ==
    ASSUME CustodyInv, UNCHANGED walletVars
    PROVE  WalletUnderItsKey' /\ NewestWalletKept' /\ CopiesAreDated'
BY DEF CustodyInv, walletVars, WalletUnderItsKey, NewestWalletKept, CopiesAreDated

\* The actions that touch the wallets keep every copy under its key, dated, and the
\* newest one in existence.
LEMMA WalletsStep ==
    ASSUME CustodyInv, [Next]_vars
    PROVE  WalletUnderItsKey' /\ NewestWalletKept' /\ CopiesAreDated'
<1> USE ConstantsAssumption
<1> USE DEF CustodyInv, TypeOK, ProcTypeOK, DaemonTypeOK, WalletTypeOK, WalletOrNone, Wallet,
        WalletUnderItsKey, NewestWalletKept, CopiesAreDated, DaemonKnown, OwnershipKnown, Goto
<1>1. CASE DownloadWallet
    <2>1. WalletUnderItsKey' BY <1>1 DEF DownloadWallet
    <2>2. NewestWalletKept' BY <1>1 DEF DownloadWallet
    <2>3. CopiesAreDated' BY <1>1 DEF DownloadWallet
    <2> QED BY <2>1, <2>2, <2>3
<1>2. CASE UploadWallet
    <2>1. WalletUnderItsKey' BY <1>2 DEF UploadWallet
    <2>2. NewestWalletKept' BY <1>2 DEF UploadWallet
    <2>3. CopiesAreDated' BY <1>2 DEF UploadWallet
    <2> QED BY <2>1, <2>2, <2>3
<1>3. CASE RemoveWallet
    <2>1. WalletUnderItsKey' BY <1>3 DEF RemoveWallet
    <2>2. NewestWalletKept' BY <1>3 DEF RemoveWallet
    <2>3. CopiesAreDated' BY <1>3 DEF RemoveWallet
    <2> QED BY <2>1, <2>2, <2>3
<1>4. CASE MoveWalletByHand
    <2>1. WalletUnderItsKey' BY <1>4 DEF MoveWalletByHand
    <2>2. NewestWalletKept' BY <1>4 DEF MoveWalletByHand
    <2>3. CopiesAreDated' BY <1>4 DEF MoveWalletByHand
    <2> QED BY <2>1, <2>2, <2>3
<1>5. CASE DaemonLoad
    <2>1. WalletUnderItsKey' BY <1>5 DEF DaemonLoad
    <2>2. NewestWalletKept' BY <1>5 DEF DaemonLoad
    <2>3. CopiesAreDated'
        <3>1. CASE wallet # None BY <1>5, <3>1 DEF DaemonLoad
        <3>2. CASE wallet = None
            <4>1. startedFor = cur /\ s3Wallet[cur] = None BY <1>5, <3>2 DEF DaemonLoad, Settled
            <4>2. latest[cur] = 0 BY <3>2, <4>1
            <4> QED BY <1>5, <3>2, <4>1, <4>2 DEF DaemonLoad
        <3> QED BY <3>1, <3>2
    <2> QED BY <2>1, <2>2, <2>3
<1>6. CASE DaemonWrite
    <2>1. WalletUnderItsKey' BY <1>6 DEF DaemonWrite
    <2>2. NewestWalletKept' BY <1>6 DEF DaemonWrite
    <2>3. CopiesAreDated' BY <1>6 DEF DaemonWrite
    <2> QED BY <2>1, <2>2, <2>3
<1> QED BY <1>1, <1>2, <1>3, <1>4, <1>5, <1>6, WalletFrame, UntouchedWallets

\* The daemon and the ownership of the file stay known.
LEMMA KnownStep ==
    ASSUME ~UnattendedBoot, CustodyInv, [Next]_vars
    PROVE  DaemonKnown' /\ OwnershipKnown'
<1> USE ConstantsAssumption
<1> USE DEF CustodyInv, TypeOK, ProcTypeOK, CycleTypeOK, DaemonTypeOK, WalletTypeOK, WalletOrNone, Wallet,
        DaemonKnown, OwnershipKnown, OwnsWallet, Settled, Goto, Exit, NewSync,
        procVars, cycleVars, daemonVars, walletVars
<1>1. CASE Start BY <1>1 DEF Start
<1>2. CASE \E c \in Channels: FullCycle(c) BY <1>2 DEF FullCycle
<1>3. CASE HandleError BY <1>3 DEF HandleError
<1>4. CASE ReflectBlobs BY <1>4 DEF ReflectBlobs
<1>5. CASE CleanupLbrynet BY <1>5 DEF CleanupLbrynet
<1>6. CASE NextChannel BY <1>6 DEF NextChannel
<1>7. CASE GetWalletPaths BY <1>7 DEF GetWalletPaths
<1>8. CASE DownloadWallet BY <1>8 DEF DownloadWallet, WalletUnderItsKey
<1>9. CASE DownloadBlockchainDB BY <1>9 DEF DownloadBlockchainDB
<1>10. CASE StartDaemon BY <1>10 DEF StartDaemon
<1>11. CASE WaitForDaemonStart BY <1>11 DEF WaitForDaemonStart
<1>12. CASE DoSync BY <1>12 DEF DoSync
<1>13. CASE ProcessTransfers BY <1>13 DEF ProcessTransfers
<1>14. CASE StopDaemon BY <1>14 DEF StopDaemon
<1>15. CASE WaitForDaemonProcess BY <1>15 DEF WaitForDaemonProcess
<1>16. CASE ProcessListError BY <1>16 DEF ProcessListError
<1>17. CASE UploadWallet BY <1>17 DEF UploadWallet
<1>18. CASE RemoveWallet BY <1>18 DEF RemoveWallet
<1>19. CASE UploadBlockchainDB BY <1>19 DEF UploadBlockchainDB
<1>20. CASE SetChannelTerminationStatus BY <1>20 DEF SetChannelTerminationStatus, EndCycle
<1>21. CASE Interrupt BY <1>21 DEF Interrupt
<1>22. CASE Crash BY <1>22 DEF Crash
<1>23. CASE MoveWalletByHand BY <1>23 DEF MoveWalletByHand
<1>24. CASE DaemonLoad BY <1>24 DEF DaemonLoad, NewestWalletKept
<1>25. CASE DaemonWrite BY <1>25 DEF DaemonWrite
<1>26. CASE DaemonExit BY <1>26 DEF DaemonExit
<1>27. CASE UNCHANGED vars BY <1>27 DEF vars
<1>28. CASE Panic BY <1>28 DEF Panic
<1> QED BY <1>1, <1>2, <1>3, <1>4, <1>5, <1>6, <1>7, <1>8, <1>9, <1>10, <1>11, <1>12,
           <1>13, <1>14, <1>15, <1>16, <1>17, <1>18, <1>19, <1>20, <1>21, <1>22, <1>23,
           <1>24, <1>25, <1>26, <1>27, <1>28
        DEF Next, CycleStep, ManagerStep, Environment, DaemonStep

\* CustodyInv holds in every reachable state.
LEMMA Custody == ~UnattendedBoot => (Spec => []CustodyInv)
<1> SUFFICES ASSUME ~UnattendedBoot PROVE Spec => []CustodyInv OBVIOUS
<1>1. Init => CustodyInv
    BY InitTypeOK DEF Init, CustodyInv, WalletUnderItsKey, NewestWalletKept,
       CopiesAreDated, DaemonKnown, OwnershipKnown, OwnsWallet, Settled
<1>2. CustodyInv /\ [Next]_vars => CustodyInv'
    BY TypeStep, WalletsStep, KnownStep DEF CustodyInv
<1> QED BY <1>1, <1>2, PTL DEF Spec

\* However cycles, crashes, failed shutdowns and the daemon interleave, a wallet is on
\* S3 only under the key of its channel (uploadWallet, getWalletPaths), as long as
\* lbrynet is not left booting by a process that is gone.
THEOREM WalletKeys == ~UnattendedBoot => (Spec => []WalletUnderItsKey)
<1>1. CustodyInv => WalletUnderItsKey BY DEF CustodyInv
<1> QED BY <1>1, Custody, PTL

\* Under the same condition the newest version of every wallet is never lost between
\* the download, the daemon's saves, the upload and the removal.
THEOREM WalletSafety == ~UnattendedBoot => (Spec => []NewestWalletKept)
<1>1. CustodyInv => NewestWalletKept BY DEF CustodyInv
<1> QED BY <1>1, Custody, PTL

\* Under the same condition the daemon that serves doSync and processTransfers has the
\* wallet of the channel that is being synced.
THEOREM RightWallet == ~UnattendedBoot => (Spec => []DaemonServesChannel)
<1>1. CustodyInv => DaemonServesChannel
    BY DEF CustodyInv, DaemonServesChannel, DaemonKnown, OwnershipKnown, Settled
<1> QED BY <1>1, Custody, PTL

\* Under the same condition no upload replaces a wallet on S3 by an older one.
THEOREM NoWalletRollback == ~UnattendedBoot => (Spec => NoRollback)
<1> DEFINE Kept == \A c \in Channels: s3Wallet[c] # None =>
                       s3Wallet'[c] # None /\ s3Wallet'[c].ver >= s3Wallet[c].ver
<1>1. ASSUME CustodyInv, [Next]_vars PROVE [Kept]_vars
    <2> USE ConstantsAssumption, <1>1
    <2> USE DEF CustodyInv, TypeOK, ProcTypeOK, WalletTypeOK, WalletOrNone, Wallet,
            CopiesAreDated, WalletUnderItsKey, OwnershipKnown
    <2>1. CASE UploadWallet BY <2>1 DEF UploadWallet
    <2>2. CASE MoveWalletByHand BY <2>2 DEF MoveWalletByHand
    <2>3. CASE s3Wallet' = s3Wallet BY <2>3
    <2>4. UploadWallet \/ MoveWalletByHand \/ s3Wallet' = s3Wallet
        BY WalletFrame
           DEF DownloadWallet, RemoveWallet, DaemonLoad, DaemonWrite, walletVars
    <2> QED BY <2>1, <2>2, <2>3, <2>4
<1> QED BY <1>1, Custody, PTL DEF Spec, NoRollback

\* Under the same condition the cycles and lbrynet implement WalletCustody: whatever fails,
\* dies or is left behind, every step takes one wallet out, renews it, stores it or puts it
\* away, or does nothing with wallets.
THEOREM CustodyImplemented == ~UnattendedBoot => (Spec => ImplementsCustody)
<1> DEFINE stored == [c \in Channels |-> Version(s3Wallet[c])]
           out == IF wallet = None THEN None ELSE wallet.owner
<1>1. Init => Wallets!Init
    BY DEF Init, Wallets!Init, Version
<1>2. ASSUME CustodyInv, [Next]_vars PROVE [Wallets!Next]_Wallets!vars
    <2> USE ConstantsAssumption, <1>2
    <2> USE DEF CustodyInv, TypeOK, ProcTypeOK, DaemonTypeOK, WalletTypeOK, WalletOrNone,
            Wallet, Version
    <2>1. CASE DownloadWallet
        <3>1. CASE wallet' = wallet
            BY <2>1, <3>1 DEF DownloadWallet, Wallets!vars
        <3>2. CASE wallet' # wallet
            BY <2>1, <3>2 DEF DownloadWallet, OwnershipKnown, WalletUnderItsKey,
               Wallets!Next, Wallets!TakeOut
        <3> QED BY <3>1, <3>2
    <2>2. CASE UploadWallet
        <3>1. CASE s3Wallet' = s3Wallet
            BY <2>2, <3>1 DEF UploadWallet, Wallets!vars
        <3>2. CASE s3Wallet' # s3Wallet
            <4>1. /\ wallet # None /\ wallet.owner = cur /\ wallet.ver = latest[cur]
                  /\ cur \in Channels
                BY <2>2, <3>2 DEF UploadWallet, OwnershipKnown, CopiesAreDated
            <4>2. /\ s3Wallet' = [s3Wallet EXCEPT ![cur] = wallet]
                  /\ wallet' = wallet /\ latest' = latest
                BY <2>2, <3>2 DEF UploadWallet
            <4>3. stored' = [stored EXCEPT ![cur] = latest[cur]]
                BY <4>1, <4>2
            <4>4. out = cur /\ out # None /\ out' = out
                BY <4>1, <4>2
            <4> QED BY <4>2, <4>3, <4>4 DEF Wallets!Next, Wallets!Store
        <3> QED BY <3>1, <3>2
    <2>3. CASE RemoveWallet
        <3>1. CASE wallet' = wallet
            BY <2>3, <3>1 DEF RemoveWallet, Wallets!vars
        <3>2. CASE wallet' # wallet
            BY <2>3, <3>2 DEF RemoveWallet, OwnershipKnown, CopiesAreDated,
               Wallets!Next, Wallets!PutAway
        <3> QED BY <3>1, <3>2
    <2>4. CASE MoveWalletByHand
        BY <2>4 DEF MoveWalletByHand, CopiesAreDated, Wallets!Next, Wallets!Return
    <2>5. CASE DaemonLoad
        <3>1. CASE wallet # None
            BY <2>5, <3>1 DEF DaemonLoad, CopiesAreDated, Wallets!vars
        <3>2. CASE wallet = None
            <4>1. startedFor = cur /\ s3Wallet[cur] = None
                BY <2>5, <3>2 DEF DaemonLoad, Settled, DaemonKnown, OwnershipKnown
            <4>2. latest[cur] = 0 /\ cur \in Channels /\ cur # None
                BY <3>2, <4>1 DEF NewestWalletKept
            <4>3. /\ wallet' = [owner |-> cur, ver |-> 1] /\ s3Wallet' = s3Wallet
                  /\ latest' = [latest EXCEPT ![cur] = 1]
                BY <2>5, <3>2, <4>1, <4>2 DEF DaemonLoad
            <4>4. out = None /\ out' = cur /\ stored' = stored
                BY <3>2, <4>3
            <4> QED BY <4>2, <4>3, <4>4 DEF Wallets!Next, Wallets!Begin
        <3> QED BY <3>1, <3>2
    <2>6. CASE DaemonWrite
        <3>1. wallet = mem /\ wallet # None /\ wallet \in Wallet /\ out = wallet.owner
            BY <2>6 DEF DaemonWrite, DaemonKnown
        <3>2. wallet.ver = latest[wallet.owner] /\ latest[wallet.owner] \in Nat
            BY <3>1 DEF CopiesAreDated
        <3> DEFINE w == [wallet EXCEPT !.ver = @ + 1]
        <3>w. w.owner = wallet.owner /\ w.ver = latest[wallet.owner] + 1 /\ w \in Wallet
            BY <3>1, <3>2
        <3>3. /\ wallet' = w /\ s3Wallet' = s3Wallet
              /\ latest' = [latest EXCEPT ![w.owner] = IF @ < w.ver THEN w.ver ELSE @]
            BY <2>6, <3>1 DEF DaemonWrite
        <3>l. latest' = [latest EXCEPT ![wallet.owner] = @ + 1]
            <4> HIDE DEF w
            <4>1. (IF latest[w.owner] < w.ver THEN w.ver ELSE latest[w.owner])
                    = latest[wallet.owner] + 1
                BY <3>w, <3>2
            <4>2. latest' = [latest EXCEPT ![w.owner] = latest[wallet.owner] + 1]
                BY <4>1, <3>3
            <4> QED BY <4>2, <3>w
        <3>4. wallet' # None /\ wallet'.owner = wallet.owner
            BY <3>1, <3>3, <3>w
        <3>5. out' = out /\ stored' = stored
            BY <3>1, <3>3, <3>4
        <3> QED BY <3>1, <3>l, <3>5 DEF Wallets!Next, Wallets!Save
    <2>7. CASE UNCHANGED walletVars
        BY <2>7 DEF walletVars, Wallets!vars
    <2> QED BY <2>1, <2>2, <2>3, <2>4, <2>5, <2>6, <2>7, WalletFrame
<1> QED BY <1>1, <1>2, Custody, PTL DEF Spec, ImplementsCustody, Wallets!Spec
---------------------------------------------------------------------------
(* What the end of a cycle without an error means *)

\* The places of the shutdown up to the wallet's removal, and after it.
Shutting == {"stop", "death", "upload", "remove"}
Ending == {"uploadBdb", "status", "manager"}

\* A panic is on its way only through the deferred functions.
PanicInv == panicking => pc \in Shutting \cup {"uploadBdb", "status"}

\* A cycle that came through doSync without an error has its wallet on disk until that is
\* stored, and has it stored after that.
CleanInv ==
    /\ pc \in {"sync", "transfer"} \/ (pc \in Shutting /\ e = {} /\ ~panicking) =>
         OwnsWallet /\ wallet # None
    /\ pc \in Ending /\ e = {} /\ ~unmoved /\ ~panicking =>
         wallet = None /\ latest[cur] # 0 /\ s3Wallet[cur].ver = latest[cur]

\* And for a channel to be transferred it came through processTransfers, too.
EarnedInv ==
    pc \in Shutting \cup {"uploadBdb", "status"} /\ e = {} /\ cur \in ToTransfer =>
        cur \in transferred \/ panicking

LEMMA PanicStep ==
    ASSUME PanicInv, [Next]_vars
    PROVE  PanicInv'
<1> USE DEF PanicInv, Shutting, Goto, Exit, procVars
<1>1. ASSUME ManagerStep PROVE PanicInv'
  BY <1>1 DEF ManagerStep, Start, FullCycle, HandleError, ReflectBlobs, CleanupLbrynet, NextChannel
<1>2. ASSUME \/ GetWalletPaths \/ DownloadWallet \/ DownloadBlockchainDB \/ StartDaemon
             \/ WaitForDaemonStart \/ DoSync \/ ProcessTransfers
      PROVE  PanicInv'
  BY <1>2 DEF GetWalletPaths, DownloadWallet, DownloadBlockchainDB, StartDaemon,
     WaitForDaemonStart, DoSync, ProcessTransfers
<1>3. ASSUME \/ StopDaemon \/ WaitForDaemonProcess \/ ProcessListError \/ UploadWallet
             \/ RemoveWallet \/ UploadBlockchainDB \/ SetChannelTerminationStatus
      PROVE  PanicInv'
  BY <1>3 DEF StopDaemon, WaitForDaemonProcess, ProcessListError, UploadWallet, RemoveWallet,
     UploadBlockchainDB, SetChannelTerminationStatus, EndCycle
<1>4. ASSUME Panic \/ Interrupt \/ Crash \/ MoveWalletByHand PROVE PanicInv'
  BY <1>4 DEF Panic, Interrupt, Crash, MoveWalletByHand
<1>5. ASSUME DaemonStep \/ UNCHANGED vars PROVE PanicInv'
  BY <1>5 DEF DaemonStep, DaemonLoad, DaemonWrite, DaemonExit, vars
<1> QED
  BY <1>1, <1>2, <1>3, <1>4, <1>5 DEF Next, CycleStep, Environment

\* A step that leaves the process and the wallets alone.
LEMMA CleanFrame ==
    ASSUME CleanInv, UNCHANGED <<pc, cur, e, panicking, cycleVars, wallet, s3Wallet, latest>>
    PROVE  CleanInv'
BY DEF CleanInv, cycleVars, OwnsWallet, Shutting, Ending

LEMMA CleanStep ==
    ASSUME CustodyInv, PanicInv, CleanInv, [Next]_vars
    PROVE  CleanInv'
<1> USE DEF Shutting, Ending
<1> DEFINE Concerned == {"sync", "transfer"} \cup Shutting \cup Ending
<1>a. ASSUME pc' \notin Concerned \/ (e' # {} /\ pc' \notin {"sync", "transfer"}) PROVE CleanInv'
  BY <1>a DEF CleanInv
<1>1. ASSUME Start \/ (\E c \in Channels: FullCycle(c)) \/ HandleError PROVE CleanInv'
  BY <1>1, <1>a DEF Start, FullCycle, HandleError, Goto, Exit
<1>2. ASSUME ReflectBlobs \/ CleanupLbrynet \/ NextChannel PROVE CleanInv'
  BY <1>2, <1>a DEF ReflectBlobs, CleanupLbrynet, NextChannel, Goto, Exit
<1>3. ASSUME GetWalletPaths \/ DownloadWallet \/ DownloadBlockchainDB \/ StartDaemon
      PROVE  CleanInv'
  BY <1>3, <1>a DEF GetWalletPaths, DownloadWallet, DownloadBlockchainDB, StartDaemon, Goto
<1>4. CASE WaitForDaemonStart
  <2>1. CASE pc' = "sync"
    <3>1. daemon = "on" /\ UNCHANGED <<cycleVars, wallet>> /\ pc = "wait"
      BY <1>4, <2>1 DEF WaitForDaemonStart, Goto, cycleVars, walletVars
    <3> QED
      BY <2>1, <3>1 DEF CustodyInv, DaemonKnown, OwnershipKnown, Settled, CleanInv, OwnsWallet,
                        cycleVars
  <2>2. CASE pc' # "sync"
    BY <1>4, <1>a, <2>2 DEF WaitForDaemonStart, Goto
  <2> QED
    BY <2>1, <2>2
<1>5. CASE DoSync
  BY <1>5, <1>a DEF DoSync, CleanInv, OwnsWallet, cycleVars, walletVars
<1>6. CASE ProcessTransfers
  BY <1>6, <1>a DEF ProcessTransfers, Goto, CleanInv, OwnsWallet, cycleVars, walletVars
<1>7. CASE StopDaemon
  BY <1>7, <1>a DEF StopDaemon, Goto, CleanInv, OwnsWallet, cycleVars, walletVars
<1>8. CASE WaitForDaemonProcess
  BY <1>8 DEF WaitForDaemonProcess, Goto, CleanInv, OwnsWallet, cycleVars, walletVars
<1>9. CASE ProcessListError
  BY <1>9 DEF ProcessListError, Goto, CleanInv, OwnsWallet
<1>10. CASE UploadWallet
  BY <1>10, <1>a DEF UploadWallet, Goto, CleanInv, OwnsWallet, cycleVars
<1>11. CASE RemoveWallet
  <2>1. CASE e' = {}
    <3>1. /\ wallet' = None /\ pc' = "uploadBdb"
          /\ UNCHANGED <<cur, s3Wallet, latest>>
      BY <1>11, <2>1 DEF RemoveWallet, Goto
    <3>2. wallet # None /\ s3Wallet[cur] = wallet /\ wallet \in Wallet /\ cur \in Channels
      BY <1>11 DEF RemoveWallet, CustodyInv, OwnershipKnown, TypeOK, WalletTypeOK, WalletOrNone,
                   ProcTypeOK
    <3>3. wallet.owner = cur /\ wallet.ver = latest[cur] /\ wallet.ver # 0
      BY <3>2, ConstantsAssumption DEF CustodyInv, WalletUnderItsKey, CopiesAreDated, Wallet
    <3> QED
      BY <3>1, <3>2, <3>3 DEF CleanInv
  <2>2. CASE e' # {}
    BY <1>11, <1>a, <2>2 DEF RemoveWallet, Goto
  <2> QED
    BY <2>1, <2>2
<1>12. CASE UploadBlockchainDB
  BY <1>12, <1>a DEF UploadBlockchainDB, Goto, CleanInv, cycleVars, walletVars
<1>13. CASE SetChannelTerminationStatus
  BY <1>13, <1>a DEF SetChannelTerminationStatus, EndCycle, Goto, Exit, CleanInv, cycleVars,
     walletVars
<1>14. CASE Interrupt
  BY <1>14, CleanFrame DEF Interrupt, walletVars
<1>15. ASSUME Crash \/ MoveWalletByHand PROVE CleanInv'
  BY <1>15, <1>a DEF Crash, MoveWalletByHand, Exit, procVars
<1>16. ASSUME DaemonLoad \/ DaemonWrite PROVE CleanInv'
  <2>1. wallet' # None /\ UNCHANGED <<pc, cur, e, panicking, cycleVars>>
    BY <1>16, ConstantsAssumption DEF DaemonLoad, DaemonWrite, procVars, cycleVars, CustodyInv, TypeOK,
       DaemonTypeOK, WalletOrNone, Wallet, ProcTypeOK, DaemonKnown
  <2>2. ~(pc \in Ending /\ e = {} /\ ~unmoved /\ ~panicking)
    BY <1>16 DEF DaemonLoad, DaemonWrite, CustodyInv, DaemonKnown, CleanInv
  <2> QED
    BY <2>1, <2>2 DEF CleanInv, OwnsWallet, cycleVars
<1>17. CASE DaemonExit
  BY <1>17, CleanFrame DEF DaemonExit, procVars, walletVars
<1>18. CASE UNCHANGED vars
  BY <1>18, CleanFrame DEF vars, procVars, walletVars
<1>19. CASE Panic
  BY <1>19 DEF Panic, CleanInv
<1> QED
  BY <1>1, <1>2, <1>3, <1>4, <1>5, <1>6, <1>7, <1>8, <1>9, <1>10, <1>11, <1>12, <1>13, <1>14,
     <1>15, <1>16, <1>17, <1>18, <1>19
  DEF Next, CycleStep, ManagerStep, Environment, DaemonStep

\* Under the same condition a cycle that ends without an error has its wallet on S3 in its
\* newest version and off this machine (performShutdownTasks, uploadWallet), unless the
\* daemon could not be seen to stop.
THEOREM CleanEndStored == ~UnattendedBoot => (Spec => []CleanEndMeansStored)
<1>1. Init => PanicInv /\ CleanInv
  BY DEF Init, PanicInv, CleanInv, Shutting, Ending
<1>2. CustodyInv /\ PanicInv /\ CleanInv /\ [Next]_vars => PanicInv' /\ CleanInv'
  BY PanicStep, CleanStep
<1>3. PanicInv /\ CleanInv => CleanEndMeansStored
  BY DEF PanicInv, CleanInv, Shutting, Ending, CleanEndMeansStored
<1> QED
  BY <1>1, <1>2, <1>3, Custody, PTL DEF Spec

LEMMA EarnedStep ==
    ASSUME PanicInv, EarnedInv, [Next]_vars
    PROVE  EarnedInv'
<1> USE DEF Shutting
<1> DEFINE Concerned == Shutting \cup {"uploadBdb", "status"}
<1>a. ASSUME pc' \notin Concerned \/ e' # {} PROVE EarnedInv'
  BY <1>a DEF EarnedInv
<1>b. ASSUME UNCHANGED <<cur, panicking, transferred>>, pc \in Concerned, e' = {} => e = {}
      PROVE  EarnedInv'
  BY <1>b DEF EarnedInv
<1>c. ASSUME UNCHANGED <<pc, cur, e, panicking, transferred>>
      PROVE  EarnedInv'
  BY <1>c DEF EarnedInv
<1>1. ASSUME Start \/ (\E c \in Channels: FullCycle(c)) \/ HandleError PROVE EarnedInv'
  BY <1>1, <1>a DEF Start, FullCycle, HandleError, Goto, Exit
<1>2. ASSUME ReflectBlobs \/ CleanupLbrynet \/ NextChannel PROVE EarnedInv'
  BY <1>2, <1>a DEF ReflectBlobs, CleanupLbrynet, NextChannel, Goto, Exit
<1>3. ASSUME GetWalletPaths \/ DownloadWallet \/ DownloadBlockchainDB \/ StartDaemon
      PROVE  EarnedInv'
  BY <1>3, <1>a DEF GetWalletPaths, DownloadWallet, DownloadBlockchainDB, StartDaemon, Goto
<1>4. CASE WaitForDaemonStart
  BY <1>4, <1>a DEF WaitForDaemonStart, Goto
<1>5. CASE DoSync
  <2>1. pc' # "stop" => pc' \notin Concerned
    BY <1>5 DEF DoSync
  <2>2. pc' = "stop" => e' # {} \/ cur' \notin ToTransfer
    BY <1>5 DEF DoSync
  <2>3. cur' \notin ToTransfer => EarnedInv'
    BY DEF EarnedInv
  <2> QED
    BY <1>a, <2>1, <2>2, <2>3
<1>6. CASE ProcessTransfers
  BY <1>6 DEF ProcessTransfers, Goto, EarnedInv
<1>7. ASSUME StopDaemon \/ WaitForDaemonProcess \/ ProcessListError PROVE EarnedInv'
  BY <1>7, <1>b DEF StopDaemon, WaitForDaemonProcess, ProcessListError, Goto, dbVars
<1>8. ASSUME UploadWallet \/ RemoveWallet \/ UploadBlockchainDB PROVE EarnedInv'
  BY <1>8, <1>b DEF UploadWallet, RemoveWallet, UploadBlockchainDB, Goto, dbVars
<1>9. CASE SetChannelTerminationStatus
  BY <1>9, <1>a DEF SetChannelTerminationStatus, EndCycle, Goto, Exit
<1>10. CASE Panic
  BY <1>10 DEF Panic, EarnedInv
<1>11. CASE Crash
  BY <1>11, <1>a DEF Crash, Exit
<1>12. ASSUME Interrupt \/ MoveWalletByHand \/ DaemonStep \/ UNCHANGED vars PROVE EarnedInv'
  BY <1>12, <1>c DEF Interrupt, MoveWalletByHand, DaemonStep, DaemonLoad, DaemonWrite, DaemonExit,
                     procVars, dbVars, vars
<1> QED
  BY <1>1, <1>2, <1>3, <1>4, <1>5, <1>6, <1>7, <1>8, <1>9, <1>10, <1>11, <1>12
  DEF Next, CycleStep, ManagerStep, Environment

\* setChannelTerminationStatus: a channel is newly recorded as transferred only when its
\* processTransfers came to its end without an error, or by a cycle that panicked (then the
\* deferred function finds a nil error), whatever was left booting.
THEOREM TransferEarned == Spec => TransferCompleteIsEarned
<1> DEFINE Earned == \A c \in Channels: transfer[c] # "complete" /\ transfer'[c] = "complete" =>
                         c = cur /\ (c \in transferred \/ panicking)
<1>1. Init => PanicInv /\ EarnedInv
  BY DEF Init, PanicInv, EarnedInv, Shutting
<1>2. PanicInv /\ EarnedInv /\ [Next]_vars => PanicInv' /\ EarnedInv'
  BY PanicStep, EarnedStep
<1>3. ASSUME TypeOK, EarnedInv, [Next]_vars PROVE [Earned]_vars
  <2>1. CASE transfer' = transfer
    BY <2>1
  <2>2. CASE transfer' # transfer
    <3>1. SetChannelTerminationStatus
      BY <1>3, <2>2, DbFrame DEF FullCycle, ProcessTransfers, dbVars
    <3>2. /\ pc = "status" /\ CompletesTransfer
          /\ transfer' = [transfer EXCEPT ![cur] = "complete"]
      BY <1>3, <2>2, <3>1 DEF SetChannelTerminationStatus, TypeOK, DbTypeOK
    <3>3. cur \in transferred \/ panicking
      BY <1>3, <3>2 DEF EarnedInv, CompletesTransfer
    <3> QED
      BY <1>3, <3>2, <3>3 DEF TypeOK, DbTypeOK
  <2> QED
    BY <2>1, <2>2
<1> QED
  BY <1>1, <1>2, <1>3, TypeCorrect, PTL DEF Spec, TransferCompleteIsEarned
===========================================================================
