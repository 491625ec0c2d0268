---------------------------- MODULE WalletCustody ----------------------------
(***************************************************************************)
(* What a cycle promises about wallets, without lbrynet, files, errors and *)
(* the places where a process may die: the wallets are a library with one  *)
(* reading place.  A wallet is taken out of the store, or begun when the   *)
(* channel never had one; it gets newer only while it is out; what is      *)
(* stored is what is out; and it may be put away only when the store has   *)
(* its newest version.  ChannelCycle implements this.                      *)
(***************************************************************************)
EXTENDS Naturals

CONSTANTS Channels, None

VARIABLES
    newest, \* the newest version of each channel's wallet, 0 if it never had one
    stored, \* the version in the store, 0 if there is none
    out     \* the channel whose wallet is out of the store, None if none is

vars == <<newest, stored, out>>

Init ==
    /\ newest = [c \in Channels |-> 0] /\ stored = [c \in Channels |-> 0]
    /\ out = None

\* A copy of what is stored is taken out.
TakeOut(c) ==
    /\ out = None /\ stored[c] # 0
    /\ out' = c /\ UNCHANGED <<newest, stored>>

\* A wallet is begun for a channel that never had one.
Begin(c) ==
    /\ out = None /\ newest[c] = 0
    /\ out' = c /\ newest' = [newest EXCEPT ![c] = 1] /\ UNCHANGED stored

\* Its owner saves a newer version.
Save ==
    /\ out # None
    /\ newest' = [newest EXCEPT ![out] = @ + 1] /\ UNCHANGED <<stored, out>>

Store ==
    /\ out # None
    /\ stored' = [stored EXCEPT ![out] = newest[out]] /\ UNCHANGED <<newest, out>>

\* The copy that is out is removed.
PutAway ==
    /\ out # None /\ stored[out] = newest[out]
    /\ out' = None /\ UNCHANGED <<newest, stored>>

\* Both at once, by hand.
Return ==
    /\ out # None
    /\ stored' = [stored EXCEPT ![out] = newest[out]] /\ out' = None
    /\ UNCHANGED newest

Next ==
    \/ \E c \in Channels: TakeOut(c) \/ Begin(c)
    \/ Save \/ Store \/ PutAway \/ Return

Spec == Init /\ [][Next]_vars
===========================================================================
