--------------------------- MODULE VideoSelection ---------------------------
(***************************************************************************)
(* updateRemoteDB and GetVideosToSync: what a cycle finds in the rows of a *)
(* channel's videos, and which videos it looks at.  A row is one of        *)
(*   "none"           there is no row;                                     *)
(*   "failed"         not published, for a reason that may go away;        *)
(*   "never"          not published, for one of NeverRetryFailures;        *)
(*   "old"            published, with metadata before version 2;           *)
(*   "upgradefailed"  the same after an upgrade that failed;               *)
(*   "new"            published, with metadata of version 2;               *)
(*   "lost"           marked as failed though an "old" claim is there.     *)
(* The code's lists of videos are taken as how often they hold each video. *)
(***************************************************************************)
EXTENDS Naturals

CONSTANTS
    Videos, None,
    Tabs                \* how many tabs of the channel list videos: three

ASSUME SelectionAssumption == None \notin Videos /\ Tabs \in Nat \ {0}

Rows == {"none", "failed", "never", "old", "upgradefailed", "new", "lost"}

\* Published && MetadataVersion < newMetadataVersion
NeedsUpgrade(r) == r \in {"old", "upgradefailed"}

\* Nothing is ever to be done for such a row.
IsDone(r) == r \in {"never", "new"}

---------------------------------------------------------------------------
(* updateRemoteDB *)

\* What may become of a row: what is marked as not published and whose claim is found is
\* published again, with the claim's version; an upgrade that the row does not have is
\* entered; and with --remove-db-unpublished the row goes if the claim is not found.
Reconciled(r, remove) ==
    CASE r = "lost"                        -> {"old", "new", "failed", "never"}
      [] r \in {"none", "failed", "never"} -> {r, "old", "new"}
      [] OTHER                             -> {r, "new"} \cup (IF remove THEN {"none"} ELSE {})

ReconciledRows(rows, remove) ==
    {n \in [Videos -> Rows]: \A v \in Videos: n[v] \in Reconciled(rows[v], remove)}

\* The same when the database stops to answer on the way.
PartlyReconciled(rows, remove) ==
    {n \in [Videos -> Rows]: \A v \in Videos: n[v] \in {rows[v]} \cup Reconciled(rows[v], remove)}

---------------------------------------------------------------------------
(* GetVideosToSync *)

Nothing == [v \in Videos |-> 0]

\* GetPlaylistVideoIDs: the tabs one after the other; a video may be in several.
Playlists == [Videos -> 0 .. Tabs]

\* The ids to look up: what is in the playlist and not done, and the last uploaded video
\* if the playlist does not have it.
VideoIDs(rows, playlist, lastUploaded) ==
    [v \in Videos |-> IF IsDone(rows[v]) THEN 0
                      ELSE IF v = lastUploaded /\ playlist[v] = 0 THEN 1 ELSE playlist[v]]

\* Mutant: getVideos looks up a video whose row says published as well.
IsSkippedNever(r) == FALSE

\* VideoState(videoID) == "published"
IsSkipped(r) == r = "old"

LookedUp(rows, ids) == [v \in Videos |-> IF IsSkipped(rows[v]) THEN 0 ELSE ids[v]]

\* What of it may be found.
Found(looked) == {f \in Playlists: \A v \in Videos: f[v] <= looked[v]}

\* MarkVideoStatus(failed) for a video whose information could not be had, and why.
MarkedFailed(r) == IF NeedsUpgrade(r) THEN {"lost"} ELSE {"failed", "never"}

\* The rows after the look-up: a video that was not found, be it once, is marked.
RowsAfter(rows, looked, found) ==
    {n \in [Videos -> Rows]: \A v \in Videos:
        n[v] \in IF found[v] < looked[v] THEN MarkedFailed(rows[v]) ELSE {rows[v]}}

IsMocked(v, rows, ids) == NeedsUpgrade(rows[v]) /\ ids[v] = 0

\* The videos to be enqueued: what was found, and the old videos the playlist does not
\* have.
VideosToSync(rows, ids, found) ==
    [v \in Videos |-> IF IsMocked(v, rows, ids) THEN found[v] + 1 ELSE found[v]]

---------------------------------------------------------------------------
(* processVideo *)

\* What the workers may make of the row of a video they were given, be it more than once:
\* processVideo skips what is published unless metadata are upgraded; an upgrade whose
\* error does not say so, as when the disk is full, marks the video as failed.
Outcomes(r, upgradeMetadata) ==
    IF ~NeedsUpgrade(r) THEN {r, "failed", "never", "new"}
    ELSE IF upgradeMetadata THEN {r, "upgradefailed", "lost", "new"} ELSE {r}
=============================================================================
