----------------------------- MODULE MCSqlStore -----------------------------
(* Small instances of SqlStore for TLC. *)
EXTENDS SqlStore

CONSTANTS c1, c2, c3, Threshold, HalfOpenMax

MCCfg == [threshold |-> Threshold, cooldownMs |-> 1, halfOpenMax |-> HalfOpenMax]
=============================================================================
