---------------------------- MODULE MCRedisStore ----------------------------
(* Small instances of RedisStore for TLC. *)
EXTENDS RedisStore

CONSTANTS c1, c2, c3, Threshold, HalfOpenMax

MCCfg == [threshold |-> Threshold, cooldownMs |-> 1, halfOpenMax |-> HalfOpenMax]
=============================================================================
