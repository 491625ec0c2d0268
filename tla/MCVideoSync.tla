---------------------------- MODULE MCVideoSync ----------------------------
(* Instances of VideoSync for TLC. *)
EXTENDS VideoSync, TLC
===========================================================================
