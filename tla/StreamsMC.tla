----------------------------- MODULE StreamsMC -----------------------------
(* Instances of Streams for TLC.                                           *)
EXTENDS Streams
=============================================================================
