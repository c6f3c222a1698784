---------------------------- MODULE MCTelescope ----------------------------
(* Small instances of Telescope for TLC. *)
EXTENDS Telescope

CONSTANTS c1, c2, c3, Threshold, HalfOpenMax

MCCfg == [threshold |-> Threshold, cooldownMs |-> 1, halfOpenMax |-> HalfOpenMax]
=============================================================================
