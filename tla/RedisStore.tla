----------------------------- MODULE RedisStore -----------------------------
(***************************************************************************)
(* RedisResilienceStore (packages/store-redis): the circuit is a hash, and *)
(* admit and record are one Lua script each, which Redis runs atomically   *)
(* when the command reaches it, with the time the client read when it sent *)
(* it.  A field no script has written yet is absent and reads as its       *)
(* default.  The module implements CircuitBreaker: the circuit is the hash *)
(* read with the defaults.                                                 *)
(***************************************************************************)
EXTENDS CircuitState

CONSTANTS Callers, Cfg, MaxClock, Skew, Faults, Resetters

ASSUME RedisCfgAssumption == Cfg \in BreakerConfigs
ASSUME RedisClockAssumption == MaxClock \in Nat
ASSUME RedisSkewAssumption == Skew \in Nat

VARIABLES clock,
          hash,   \* the fields written so far: a function on some Fields
          call, exec, healthy, probing, streak

vars == <<clock, hash, call, exec, healthy, probing, streak>>

Fields == {"status", "failures", "openUntil", "probes"}

\* HGET, and the default of a missing field.
HGet(h, field, default) == IF field \in DOMAIN h THEN h[field] ELSE default

\* HSET and HINCRBY, of several fields at once.
HSet(h, fields) ==
    [field \in DOMAIN fields \cup DOMAIN h |->
        IF field \in DOMAIN fields THEN fields[field] ELSE h[field]]

StatusOf(h) == HGet(h, "status", "closed")
Number(h, field) == HGet(h, field, 0)

State(h) == [status    |-> StatusOf(h),
             failures  |-> Number(h, "failures"),
             openUntil |-> Number(h, "openUntil"),
             probes    |-> Number(h, "probes")]

Breaker == INSTANCE CircuitBreaker WITH circuit <- State(hash)

ASSUME RedisFaultsAssumption == Faults \subseteq Breaker!FaultKinds
ASSUME RedisResettersAssumption == Resetters \subseteq Callers

Init ==
    /\ clock = 0
    /\ hash = << >>
    /\ call = [c \in Callers |-> Breaker!NoCall]
    /\ exec = [c \in Callers |-> Breaker!Idle]
    /\ healthy = FALSE
    /\ probing = {}
    /\ streak = 0

\* Besides its type: the only subsets of the fields a history of scripts can
\* leave in the hash, so that no default is ever read for a field in use.
TypeOK ==
    /\ DOMAIN hash \subseteq Fields
    /\ State(hash) \in CircuitStates
    /\ "openUntil" \in DOMAIN hash <=> "status" \in DOMAIN hash
    /\ "probes" \in DOMAIN hash => "status" \in DOMAIN hash

-----------------------------------------------------------------------------
(* ADMIT_LUA *)

HashThaws(h, now) == StatusOf(h) = "open" /\ now >= Number(h, "openUntil")

\* Mutated: the thaw forgets to free the slots.
ThawedKeepsProbes(h, now) ==
    IF HashThaws(h, now) THEN HSet(h, [status |-> "half-open"]) ELSE h

Thawed(h, now) ==
    IF HashThaws(h, now)
    THEN HSet(h, [status |-> "half-open", probes |-> 0]) ELSE h

cbAdmit(h, now) ==
    LET thawed  == Thawed(h, now)
        status  == StatusOf(thawed)
        granted == status = "half-open"
                     /\ Number(thawed, "probes") < Cfg.halfOpenMax
    IN  [hash  |-> IF granted
                   THEN HSet(thawed, [probes |-> Number(thawed, "probes") + 1])
                   ELSE thawed,
         reply |-> Breaker!Admitted([allow  |-> status = "closed" \/ granted,
                                     probe  |-> granted,
                                     status |-> status])]

-----------------------------------------------------------------------------
(* RECORD_LUA *)

Released(h, probe) ==
    IF probe /\ Number(h, "probes") > 0
    THEN HSet(h, [probes |-> Number(h, "probes") - 1]) ELSE h

Clean(h) == /\ StatusOf(h) = "closed"
            /\ Number(h, "failures") = 0
            /\ Number(h, "openUntil") = 0

Closed(h) ==
    IF Clean(h) THEN h
    ELSE HSet(h, [status |-> "closed", failures |-> 0, openUntil |-> 0])

\* Mutated: the circuit is opened without its cool-down.
OpenedWithoutCoolDown(h, now) == HSet(h, [status |-> "open"])

Opened(h, now) ==
    HSet(h, [status |-> "open", openUntil |-> now + Cfg.cooldownMs])

Counted(h) == HSet(h, [failures |-> Number(h, "failures") + 1])

cbRecord(h, ok, probe, now) ==
    LET released == Released(h, probe)
        trips    == \/ probe \/ StatusOf(released) = "half-open"
        counted  == Counted(released)
        next     == CASE ok -> Closed(released)
                      [] ~ok /\ trips -> Opened(released, now)
                      [] ~ok /\ ~trips
                           /\ counted.failures >= Cfg.threshold
                           -> Opened(counted, now)
                      [] OTHER -> counted
    IN  [hash |-> next, reply |-> Breaker!Recorded(StatusOf(next))]

-----------------------------------------------------------------------------

Run(c, script) ==
    /\ hash' = script.hash
    /\ Breaker!Reply(c, script.reply)
    /\ Breaker!Observe(c)
    /\ UNCHANGED <<clock, exec, healthy>>

\* The time a command carries: what its client read when it sent it.
Sent(c) == Breaker!Readings(call[c].since, call[c].since)

Admit(c) ==
    /\ call[c].kind = "admit"
    /\ \E now \in Sent(c) : Run(c, cbAdmit(hash, now))

Record(c) ==
    /\ call[c].kind = "record"
    /\ \E now \in Sent(c) :
         Run(c, cbRecord(hash, call[c].ok, call[c].probe, now))

Next ==
    \/ \E c \in Callers :
          \/ Admit(c) \/ Record(c)
          \/ UNCHANGED hash /\ (Breaker!CallerStep(c) \/ Breaker!StoreReject(c))
    \/ UNCHANGED hash /\ (Breaker!Pass \/ Breaker!Recover)

Spec == Init /\ [][Next]_vars

-----------------------------------------------------------------------------
(* Properties *)

\* The two scripts, on a hash with missing fields and with the time of the
\* sender, are the atomic admit and record the policy is written against.
ImplementsBreaker == Breaker!Spec

=============================================================================
