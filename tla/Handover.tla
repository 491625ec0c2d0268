------------------------------ MODULE Handover ------------------------------
(***************************************************************************)
(* What a transfer promises, without calls, workers, runs and crashes: the *)
(* user is given the videos and the channel, what was given is not taken   *)
(* back, the database may be behind but never says more than is so, and    *)
(* the whole transfer is recorded only after an attempt in which lbrynet   *)
(* agreed to update the channel, or no longer had it, or after one that    *)
(* panicked.  That is less than that the user has the channel: an update   *)
(* that changes nothing is agreed to as well.  Transfer implements this.   *)
(***************************************************************************)
CONSTANT Videos

VARIABLES
    given,      \* the videos that the user has
    channel,    \* has the user the channel?
    recorded,   \* the videos that the database has as transferred
    complete,   \* and the whole transfer
    attempt     \* the latest attempt: "open", "agreed" or "panicked"

vars == <<given, channel, recorded, complete, attempt>>

Init ==
    /\ given = {} /\ channel = FALSE /\ recorded = {} /\ complete = FALSE
    /\ attempt = "open"

GiveVideo(v) == given' = given \cup {v} /\ UNCHANGED <<channel, recorded, complete, attempt>>

GiveChannel == channel' = TRUE /\ UNCHANGED <<given, recorded, complete, attempt>>

\* The database catches up with some of what was given, or loses it again.
Record ==
    /\ recorded' \in SUBSET given
    /\ UNCHANGED <<given, channel, complete, attempt>>

\* Another attempt, which may catch up with what earlier ones gave, and may panic.
Attempt ==
    /\ attempt' \in {"open", "panicked"} /\ recorded' \in SUBSET given
    /\ UNCHANGED <<given, channel, complete>>

\* lbrynet updates the channel without an error; the user may have it now.
Agree ==
    /\ attempt = "open" /\ attempt' = "agreed"
    /\ channel' \in {channel, TRUE}
    /\ UNCHANGED <<given, recorded, complete>>

Complete ==
    /\ attempt # "open" /\ complete' = TRUE
    /\ UNCHANGED <<given, channel, recorded, attempt>>

Next ==
    \/ \E v \in Videos: GiveVideo(v)
    \/ GiveChannel \/ Record \/ Attempt \/ Agree \/ Complete

Spec == Init /\ [][Next]_vars
===========================================================================
