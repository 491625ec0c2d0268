--------------------------- MODULE MCChannelQueue ---------------------------
(* Instances of ChannelQueue for TLC. *)
EXTENDS ChannelQueue, TLC

\* One channel, the three usual pairs of queues, and a third queue that is drained.
MCModes == {Single, <<"syncing", "queued">>, <<"syncing", "synced">>,
            <<"syncing", "syncing">>, <<"syncing", "synced", "failed">>}

\* The channels are interchangeable.
Symmetry == Permutations(Channels)
=============================================================================
