------------------------------ MODULE BusLinkMC ------------------------------
(* A bus of two words of one bit for TLC. *)
EXTENDS BusLink

MCAddr == {0, 1}
MCData == {0, 1}
=============================================================================
