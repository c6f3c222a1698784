---------------------------- MODULE CircuitState ----------------------------
(***************************************************************************)
(* The pure state machine of packages/core/src/breaker/state-machine.ts:   *)
(* the circuit state every store persists, and the two decisions every     *)
(* store takes on it inside its own atomic load -> compute -> persist      *)
(* cycle.  A configuration is a record whose halfOpenMax is the effective  *)
(* one (the code reads `cfg.halfOpenMax ?? 1`).  Times are whole ticks.    *)
(*                                                                         *)
(* Mutated forms, each a plausible bug, stand before the definition they   *)
(* would replace: ThawKeepsProbes, OneSlotTooMany, OneSlotTooFew,          *)
(* ReleaseBelowZero, TripAddsUp, TripOnlyOnce, CloseKeepsFailures,         *)
(* CountFailureEarly.                                                      *)
(* Nothing else uses them.                                                 *)
(***************************************************************************)
EXTENDS Integers

CircuitStatus == {"closed", "open", "half-open"}

CircuitStates ==
    [status: CircuitStatus, failures: Nat, openUntil: Nat, probes: Nat]

BreakerConfigs == [threshold: Nat, cooldownMs: Nat, halfOpenMax: Nat]

Admissions == [allow: BOOLEAN, probe: BOOLEAN, status: CircuitStatus]

INITIAL_CIRCUIT_STATE ==
    [status |-> "closed", failures |-> 0, openUntil |-> 0, probes |-> 0]

-----------------------------------------------------------------------------
(* computeAdmit *)

HalfOpen(prev, probes) ==
    [status |-> "half-open", failures |-> prev.failures,
     openUntil |-> prev.openUntil, probes |-> probes]

ThawKeepsProbes(prev, now) ==
    IF prev.status = "open" /\ now >= prev.openUntil
    THEN HalfOpen(prev, prev.probes) ELSE prev

\* An open circuit whose cool-down is over becomes half-open, all slots free.
Thaw(prev, now) ==
    IF prev.status = "open" /\ now >= prev.openUntil
    THEN HalfOpen(prev, 0) ELSE prev

OneSlotTooMany(thawed, cfg) ==
    thawed.status = "half-open" /\ thawed.probes <= cfg.halfOpenMax

OneSlotTooFew(thawed, cfg) ==
    thawed.status = "half-open" /\ thawed.probes + 1 < cfg.halfOpenMax

\* A half-open circuit grants a probe while a slot is free.
Grants(thawed, cfg) ==
    thawed.status = "half-open" /\ thawed.probes < cfg.halfOpenMax

computeAdmit(prev, cfg, now) ==
    LET thawed == Thaw(prev, now)
        probe  == Grants(thawed, cfg)
    IN  [state     |-> IF probe THEN HalfOpen(thawed, thawed.probes + 1)
                                ELSE thawed,
         admission |-> [allow  |-> thawed.status = "closed" \/ probe,
                        probe  |-> probe,
                        status |-> thawed.status]]

-----------------------------------------------------------------------------
(* computeRecord *)

ReleaseBelowZero(prev, probe) ==
    IF probe THEN [prev EXCEPT !.probes = @ - 1] ELSE prev

\* A probe gives its slot back, never below zero: Math.max(0, probes - 1).
Release(prev, probe) ==
    IF probe /\ prev.probes > 0 THEN [prev EXCEPT !.probes = @ - 1] ELSE prev

TripAddsUp(state, cfg, now) ==
    [status |-> "open", failures |-> state.failures,
     openUntil |-> cfg.cooldownMs + (IF state.status = "open"
                                     THEN state.openUntil ELSE now),
     probes |-> state.probes]

TripOnlyOnce(state, cfg, now) ==
    [status |-> "open", failures |-> state.failures,
     openUntil |-> now + (IF state.status = "open" THEN 0 ELSE cfg.cooldownMs),
     probes |-> state.probes]

Trip(state, cfg, now) ==
    [status |-> "open", failures |-> state.failures,
     openUntil |-> now + cfg.cooldownMs, probes |-> state.probes]

CloseKeepsFailures(state) ==
    [status |-> "closed", failures |-> state.failures, openUntil |-> 0,
     probes |-> state.probes]

Close(state) ==
    [status |-> "closed", failures |-> 0, openUntil |-> 0,
     probes |-> state.probes]

CountFailureEarly(state, cfg, now) ==
    LET counted == [state EXCEPT !.failures = @ + 1]
    IN  IF counted.failures + 1 >= cfg.threshold
        THEN Trip(counted, cfg, now) ELSE counted

\* A counted failure: the status, open included, is kept below the threshold.
CountFailure(state, cfg, now) ==
    LET counted == [state EXCEPT !.failures = @ + 1]
    IN  IF counted.failures >= cfg.threshold
        THEN Trip(counted, cfg, now) ELSE counted

computeRecord(prev, cfg, ok, probe, now) ==
    LET released == Release(prev, probe)
        next     == CASE ok -> Close(released)
                      [] ~ok /\ (probe \/ prev.status = "half-open")
                           -> Trip(released, cfg, now)
                      [] OTHER -> CountFailure(released, cfg, now)
    IN  [state |-> next, status |-> next.status]

=============================================================================
