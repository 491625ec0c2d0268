-------------------------- MODULE MCVideoDownload --------------------------
(* Instances of VideoDownload for TLC. *)
EXTENDS VideoDownload, TLC
============================================================================
