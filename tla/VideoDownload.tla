--------------------------- MODULE VideoDownload ---------------------------
(***************************************************************************)
(* The goroutines that call yt-dlp through the pool of addresses: the      *)
(* producer, which asks for playlists and metadata (downloader.run), and   *)
(* the workers, which download videos (YoutubeVideo.Download) while        *)
(* nobody else uses the pool.  A worker goes down a ladder of qualities,   *)
(* is not charged for commands that were throttled, and tries the same     *)
(* video again when something failed after the download.                   *)
(***************************************************************************)
EXTENDS IPPool

CONSTANTS
    Producer,       \* the caller that runs enqueueYoutubeVideos
    MaxAttempts,    \* maxAttempts of downloader.go
    Ladder          \* len(qualities): 4, or 3 for a video of over an hour

Workers == Callers \ {Producer}

ASSUME DownloadAssumption ==
    /\ Producer \in Callers
    /\ MaxAttempts \in Nat \ {0} /\ Ladder \in Nat \ {0, 1}

VARIABLES
    attempts,               \* the producer's loop counter
    qualityIndex, remainingAttempts,    \* each worker: locals of Download; they go
                                        \* when it returns
    file,                   \* is the video at getFullPath?
    result                  \* "none" unless Download returned nil, or fell out of its
                            \* loop with lastKnownError

dlVars == <<qualityIndex, remainingAttempts, file, result>>
vars == <<ipVars, attempts, dlVars>>

Results == {"none", "nil", "outOfLoop"}

Init ==
    /\ InitPool /\ attempts = 0
    /\ qualityIndex = [d \in Workers |-> 0] /\ remainingAttempts = [d \in Workers |-> 0]
    /\ file = [d \in Workers |-> FALSE] /\ result = [d \in Workers |-> "none"]

---------------------------------------------------------------------------
(* The producer *)

\* GetPlaylistVideoIDs or GetVideoInformation enter run, before the workers have
\* anything to do.
Run ==
    /\ pc[Producer] = "idle" /\ ~stopped
    /\ \A d \in Workers: pc[d] = "idle"
    /\ Goto(Producer, "get") /\ attempts' = 0
    /\ UNCHANGED <<poolVars, timers, stopped, ptr, ip, avoid, released, dlVars>>

\* runCmd, ReleaseIP and how run goes on: it is done (a result, or an error that is
\* not retried), it was throttled, or it uses up one of its attempts.
RunCmd ==
    /\ pc[Producer] = "cmd"
    /\ \/ Goto(Producer, "idle") /\ UNCHANGED attempts
       \/ Goto(Producer, "ban") /\ UNCHANGED attempts
       \/ /\ attempts' = attempts + 1
          /\ Goto(Producer, IF attempts + 1 < MaxAttempts THEN "get" ELSE "idle")
    /\ ReleaseIP(Producer)
    /\ UNCHANGED dlVars

---------------------------------------------------------------------------
(* The workers *)

Quality(d, q) == qualityIndex' = [qualityIndex EXCEPT ![d] = q]
Remaining(d, n) == remainingAttempts' = [remainingAttempts EXCEPT ![d] = n]
Left(d) == remainingAttempts[d] - 1
Delete(d) == file' = [file EXCEPT ![d] = FALSE]

Return(d, r) ==
    /\ Goto(d, "idle") /\ result' = [result EXCEPT ![d] = r]
    /\ Quality(d, 0) /\ Remaining(d, 0)

\* Out of the loop: lastKnownError is that of the last command.
ReturnLastKnown(d, q) ==
    /\ Goto(d, "idle") /\ result' = [result EXCEPT ![d] = "outOfLoop"]
    /\ Quality(d, q) /\ Remaining(d, 0)

\* The worker takes the next video, or retries the one it has: Download returns at
\* once if the file is there, fails if the metadata or the cookies are not, or enters
\* its loop.
Download(d) ==
    /\ pc[d] = "idle" /\ ~stopped /\ pc[Producer] = "idle" /\ result[d] # "nil"
    /\ \E there \in {file[d], FALSE}:
        /\ file' = [file EXCEPT ![d] = there]
        /\ \/ there /\ Return(d, "nil")
           \/ ~there /\ Return(d, "none")
           \/ /\ ~there /\ Goto(d, "get") /\ result' = [result EXCEPT ![d] = "none"]
              /\ Quality(d, 0) /\ Remaining(d, Ladder)
    /\ UNCHANGED <<poolVars, timers, stopped, ptr, ip, avoid, released, attempts>>

\* getSourceAddress.  An interrupt is an error of the attempt and the video is deleted.
GetAddress(d) ==
    /\ NextIP(d)
    /\ IF pc'[d] = "idle" THEN Return(d, "none") /\ Delete(d) ELSE UNCHANGED dlVars

\* The top of the loop.  (An attempt is counted when its command ran.)
Attempt(d) ==
    /\ pc[d] = "get"
    /\ IF remainingAttempts[d] > 0 THEN GetAddress(d)
       ELSE /\ ReturnLastKnown(d, qualityIndex[d])
            /\ UNCHANGED <<poolVars, timers, stopped, ptr, ip, avoid, released, file>>
    /\ UNCHANGED attempts

\* Mutant: what yt-dlp says is believed without a look at the disk.
FileIsThereAlways(there) == TRUE

\* os.Stat and os.Chmod after a command that said nothing on stderr.
FileIsThere(there) == there

\* qualityIndex >= len(qualities)-1
LadderEnds(q) == q >= Ladder - 1

\* Mutant: a throttled command counts.
RefundedNever(n) == n

\* remainingAttempts++
Refunded(n) == n + 1

\* The command could not run or was killed as too slow; or it failed for any reason
\* that is not to be retried.
Failed(d) == Return(d, "none") /\ Delete(d)

\* It wrote nothing on stderr and nothing known on stdout; yt-dlp may have failed with
\* exit status 1 all the same, or the chmod may.
Succeeded(d) ==
    \E there \in BOOLEAN:
        /\ file' = [file EXCEPT ![d] = there]
        /\ \/ FileIsThere(there) /\ Return(d, "nil")
           \/ Return(d, "none")

\* Missing fragments, no such format, or too big: the next quality.
ReduceResolution(d) ==
    LET q == qualityIndex[d] + 1 IN
    /\ Delete(d)
    /\ IF LadderEnds(q) THEN ReturnLastKnown(d, q)
       ELSE Goto(d, "get") /\ Quality(d, q) /\ Remaining(d, Left(d)) /\ UNCHANGED result

\* HTTP 429: the attempt is given back and the address banned.
WasThrottled(d) ==
    /\ Goto(d, "ban") /\ Remaining(d, Refunded(Left(d)))
    /\ UNCHANGED <<qualityIndex, file, result>>

\* rawDownload, the deferred ReleaseIP, and what Download makes of the result.
RawDownload(d) ==
    /\ pc[d] = "cmd"
    /\ Failed(d) \/ Succeeded(d) \/ ReduceResolution(d) \/ WasThrottled(d)
    /\ ReleaseIP(d)
    /\ UNCHANGED attempts

\* SetThrottled and the next turn of the loop.
Ban(d) ==
    /\ SetThrottled(d)
    /\ UNCHANGED <<attempts, dlVars>>

\* The rest of downloadAndPublish: the video is published, or not, and deleted; or it
\* stays on disk because the probe or the thumbnail failed.
Publish(d) ==
    /\ pc[d] = "idle" /\ result[d] = "nil"
    /\ file' \in {file, [file EXCEPT ![d] = FALSE]}
    /\ result' = [result EXCEPT ![d] = "none"]
    /\ UNCHANGED <<ipVars, attempts, qualityIndex, remainingAttempts>>

---------------------------------------------------------------------------
\* The pool's own steps, and the next cycle's refresh.
Pool ==
    /\ Unban \/ Stop \/ (\E S \in SUBSET IPs: Refresh(S))
    /\ UNCHANGED <<attempts, dlVars>>

\* The process ends after an interrupt.
Over == stopped /\ (\A c \in Callers: pc[c] = "idle") /\ UNCHANGED vars

ProducerStep ==
    \/ (NextIP(Producer) \/ ReadIP(Producer) \/ SetThrottled(Producer))
       /\ UNCHANGED <<attempts, dlVars>>
    \/ RunCmd

WorkerStep(d) ==
    \/ Attempt(d) \/ RawDownload(d) \/ Ban(d)
    \/ ReadIP(d) /\ UNCHANGED <<attempts, dlVars>>

Next ==
    \/ Run \/ ProducerStep
    \/ \E d \in Workers: Download(d) \/ WorkerStep(d) \/ Publish(d)
    \/ Pool \/ Over

Spec == Init /\ [][Next]_vars

\* A goroutine inside run or Download goes on; commands end, sleeps are over.
FairSpec == Spec /\ WF_vars(ProducerStep) /\ \A d \in Workers: WF_vars(WorkerStep(d))

---------------------------------------------------------------------------
(* Properties *)

\* The pool's and the callers' variables have their types; no quality is asked for
\* beyond the last one.
TypeOK ==
    /\ PoolTypeOK
    /\ attempts \in 0 .. MaxAttempts
    /\ remainingAttempts \in [Workers -> 0 .. Ladder]
    /\ qualityIndex \in [Workers -> 0 .. Ladder - 1]
    /\ file \in [Workers -> BOOLEAN]
    /\ result \in [Workers -> Results]

\* Download says that all went well only if the video is on disk, at once or after any
\* number of throttled commands and lower qualities, also when the caller tries the
\* video again (newYtDownload.go:203-209, 306-318).
DownloadedMeansFile == \A d \in Workers: result[d] = "nil" => file[d]

\* A download that gives up its loop was refused every quality but the lowest: being
\* throttled, however often, never uses up the attempts that the qualities need
\* (newYtDownload.go:277-338).
GivesUpAtLadderEnd ==
    \A d \in Workers: result[d] = "outOfLoop" => qualityIndex[d] = Ladder - 1
===========================================================================
