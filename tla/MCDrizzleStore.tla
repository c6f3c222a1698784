--------------------------- MODULE MCDrizzleStore ---------------------------
(* Small instances of DrizzleStore for TLC. *)
EXTENDS DrizzleStore

CONSTANTS c1, c2, c3, Threshold, HalfOpenMax

MCCfg == [threshold |-> Threshold, cooldownMs |-> 1, halfOpenMax |-> HalfOpenMax]
=============================================================================
