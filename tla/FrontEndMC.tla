------------------------------ MODULE FrontEndMC ------------------------------
(* Small instances of FrontEndSystem for TLC: a program whose words all       *)
(* differ, so that a word delivered for the wrong place shows.                *)
EXTENDS FrontEndSystem, Sequences

CONSTANTS w0, w1, w2

MCWord     == {w0, w1, w2}
MCPrograms == {[p \in Pc |-> <<w0, w1, w2>>[p + 1]]}
MCTarget   == {2}
MCTaken    == {0}
=============================================================================
