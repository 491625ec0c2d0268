-------------------------- MODULE MCChannelCycle --------------------------
(* Instances of ChannelCycle for TLC. *)
EXTENDS ChannelCycle
===========================================================================
