--------------------------- MODULE CircuitBreaker ---------------------------
(***************************************************************************)
(* The circuit-breaker policy (packages/core/src/policies/circuit-         *)
(* breaker.ts) run by concurrent callers over the atomic store contract,   *)
(* with ResilienceService.reset as a second client of the same circuit.    *)
(* A caller is one execute() at a time: between two awaits it is one step. *)
(*                                                                         *)
(* `probing` and `streak` are history variables: no action reads them.     *)
(***************************************************************************)
EXTENDS ResilienceStore, FiniteSets

CONSTANT Resetters   \* the callers that may also call ResilienceService.reset

ASSUME ResettersAssumption == Resetters \subseteq Callers

VARIABLES exec,     \* exec[c]: where the execute() of c is suspended
          healthy,  \* the wrapped dependency has recovered for good
          probing,  \* callers granted a slot of the current half-open period
          streak    \* operations that really failed, by the records since the
                    \* last success, saturating at the threshold

policyVars == <<exec, healthy>>
history == <<probing, streak>>
vars == <<clock, circuit, call, exec, healthy, probing, streak>>

Pcs == {"idle", "admit", "op", "recordOk", "recordErr", "reset", "crashed"}
Outcomes == {"none", "resolved", "rejected"}
Execs == [pc: Pcs, probe: BOOLEAN, outcome: Outcomes]

Idle == [pc |-> "idle", probe |-> FALSE, outcome |-> "none"]

Init ==
    /\ StoreInit
    /\ exec = [c \in Callers |-> Idle]
    /\ healthy = FALSE
    /\ probing = {}
    /\ streak = 0

TypeOK ==
    /\ StoreTypeOK
    /\ exec \in [Callers -> Execs]
    /\ healthy \in BOOLEAN
    /\ probing \subseteq Callers
    /\ streak \in 0 .. Cfg.threshold

-----------------------------------------------------------------------------
(* Steps of one caller *)

At(c, pc) == exec[c].pc = pc
Goto(c, pc) == exec' = [exec EXCEPT ![c] = [pc |-> pc,
                                             probe |-> exec[c].probe,
                                             outcome |-> exec[c].outcome]]
Return(c) ==
    /\ exec' = [exec EXCEPT ![c] = Idle]
    /\ call' = [call EXCEPT ![c] = NoCall]

\* What the caller leaves alone between two of its awaits.
Local == UNCHANGED <<clock, circuit, healthy, probing, streak>>

Execute(c) ==
    /\ At(c, "idle")
    /\ Goto(c, "admit")
    /\ CallAdmit(c)
    /\ Local

\* The admission arrived: run the operation.
RunOp(c) ==
    /\ At(c, "admit") /\ call[c].kind = "admitted"
    /\ call[c].admission.allow
    /\ exec' = [exec EXCEPT ![c] = [pc |-> "op", outcome |-> "none",
                                    probe |-> call[c].admission.probe]]
    /\ call' = [call EXCEPT ![c] = NoCall]
    /\ Local

\* Denied: BrokenCircuitError.  Or admit() itself rejected.
ShortCircuit(c) ==
    /\ At(c, "admit")
    /\ \/ call[c].kind = "admitted" /\ ~call[c].admission.allow
       \/ call[c].kind = "failed"
    /\ Return(c)
    /\ Local

\* onEvent throws on circuit-half-open, which is outside the try block.
SinkThrowsOnProbe(c) ==
    /\ "sink" \in Faults
    /\ At(c, "admit") /\ call[c].kind = "admitted"
    /\ call[c].admission.probe /\ call[c].admission.status = "half-open"
    /\ Return(c)
    /\ Local

Settle(c, pc, outcome) ==
    exec' = [exec EXCEPT ![c] = [pc |-> pc, outcome |-> outcome,
                                 probe |-> exec[c].probe]]

\* Mutated: record's two flags passed in the wrong order.
OpResolvesSwapped(c) ==
    /\ At(c, "op")
    /\ Settle(c, "recordOk", "resolved")
    /\ CallRecord(c, exec[c].probe, TRUE)
    /\ Local

OpResolves(c) ==
    /\ At(c, "op")
    /\ Settle(c, "recordOk", "resolved")
    /\ CallRecord(c, TRUE, exec[c].probe)
    /\ Local

OpRejects(c) ==
    /\ At(c, "op") /\ ~healthy
    /\ Settle(c, "recordErr", "rejected")
    /\ CallRecord(c, FALSE, exec[c].probe)
    /\ Local

ReturnResult(c) ==
    /\ At(c, "recordOk") /\ call[c].kind = "recorded"
    /\ Return(c)
    /\ Local

\* record(true) rejected, or onEvent threw on circuit-closed: both are inside
\* the try block, so the success goes on to be recorded as a failure.
CatchAfterSuccess(c) ==
    /\ At(c, "recordOk")
    /\ \/ call[c].kind = "failed"
       \/ /\ "sink" \in Faults /\ call[c].kind = "recorded"
          /\ call[c].status = "closed" /\ exec[c].probe
    /\ Goto(c, "recordErr")
    /\ CallRecord(c, FALSE, exec[c].probe)
    /\ Local

\* The operation's error is rethrown, or the one of record(false) or onEvent.
RethrowError(c) ==
    /\ At(c, "recordErr") /\ call[c].kind \in {"recorded", "failed"}
    /\ Return(c)
    /\ Local

\* ResilienceService.reset: an unconditional non-probe success.
Reset(c) ==
    /\ c \in Resetters /\ At(c, "idle")
    /\ Goto(c, "reset")
    /\ CallRecord(c, TRUE, FALSE)
    /\ Local

ResetReturns(c) ==
    /\ At(c, "reset") /\ call[c].kind \in {"recorded", "failed"}
    /\ Return(c)
    /\ Local

\* The process of c dies for good; a request it has sent stays in flight.
Crash(c) ==
    /\ "crash" \in Faults /\ ~At(c, "crashed")
    /\ Goto(c, "crashed")
    /\ UNCHANGED call
    /\ Local

-----------------------------------------------------------------------------
(* Steps of the store and of the environment *)

\* History: a half-open period ends when the circuit leaves half-open; within
\* it, an admit that takes a slot grants it to its caller.
Observe(c) ==
    /\ probing' = IF circuit'.status # "half-open" THEN {}
                  ELSE IF /\ call[c].kind = "admit" /\ circuit' # circuit
                          /\ circuit'.probes > 0
                       THEN probing \cup {c} ELSE probing
    /\ streak' = CASE call[c].kind = "record" /\ call[c].ok -> 0
                   [] /\ call[c].kind = "record" /\ ~call[c].ok
                      /\ exec[c].outcome = "rejected"
                      /\ streak < Cfg.threshold -> streak + 1
                   [] OTHER -> streak

StoreAdmit(c) == Admit(c) /\ Observe(c) /\ UNCHANGED policyVars
StoreRecord(c) == Record(c) /\ Observe(c) /\ UNCHANGED policyVars

\* The store fails, or drops the call of a process that is gone.
StoreReject(c) ==
    /\ "store" \in Faults \/ At(c, "crashed")
    /\ Reject(c)
    /\ UNCHANGED <<exec, healthy, probing, streak>>

Pass == Tick /\ UNCHANGED <<exec, healthy, probing, streak>>

Recover ==
    /\ ~healthy
    /\ healthy' = TRUE
    /\ UNCHANGED <<clock, circuit, call, exec, probing, streak>>

-----------------------------------------------------------------------------

PolicyStep(c) ==
    \/ Execute(c) \/ RunOp(c) \/ ShortCircuit(c)
    \/ OpResolves(c) \/ OpRejects(c)
    \/ ReturnResult(c) \/ CatchAfterSuccess(c) \/ RethrowError(c)
    \/ Reset(c) \/ ResetReturns(c)

StoreStep(c) == StoreAdmit(c) \/ StoreRecord(c) \/ StoreReject(c)

CallerStep(c) == PolicyStep(c) \/ SinkThrowsOnProbe(c) \/ Crash(c)

Next ==
    \/ \E c \in Callers : CallerStep(c) \/ StoreStep(c)
    \/ Pass
    \/ Recover

Spec == Init /\ [][Next]_vars

\* Traffic keeps coming, operations settle, the store answers, time passes
\* and the dependency eventually recovers.
Fairness ==
    /\ \A c \in Callers : WF_vars(PolicyStep(c)) /\ WF_vars(StoreStep(c))
    /\ WF_vars(Pass)
    /\ WF_vars(Recover)

FairSpec == Spec /\ Fairness

-----------------------------------------------------------------------------
(* Properties *)

InProbe(c) == exec[c].probe /\ exec[c].pc \in {"op", "recordOk", "recordErr"}

\* c will report the outcome of a probe it has been granted.
HoldsSlot(c) ==
    \/ InProbe(c)
    \/ /\ At(c, "admit") /\ call[c].kind = "admitted"
       /\ call[c].admission.probe

\* A half-open circuit never has more slots taken than halfOpenMax, and every
\* caller granted one in this half-open period is counted by `probes`, however
\* many admits, late results, lost replies and crashes interleave.
ProbeSlotsExclusive ==
    circuit.status = "half-open" =>
        /\ Cardinality(probing) <= circuit.probes
        /\ circuit.probes <= Cfg.halfOpenMax

\* Without faults no slot leaks: every slot taken in a half-open circuit
\* belongs to a caller that still has its outcome to record, so a half-open
\* circuit that denies everybody is always about to be decided.
NoSlotLeaked ==
    circuit.status = "half-open" =>
        circuit.probes = Cardinality({c \in probing : HoldsSlot(c)})

\* A closed circuit's failure count is exactly the number of operations that
\* really failed and were recorded since the last recorded success: concurrent
\* and late results are neither lost nor counted twice, and no success counts
\* as a failure.  It needs a store whose record() does not reject.
FailureCountExact ==
    circuit.status = "closed" => circuit.failures = streak

\* Only an operation that really failed opens the circuit.
OpenedOnlyByFailedOps ==
    [][circuit'.status = "open" /\ circuit.status # "open" =>
         \E c \in Callers : /\ call[c].kind = "record"
                            /\ call[c] # call'[c]
                            /\ exec[c].outcome = "rejected"]_vars

\* A closed circuit opens at the threshold of operations that failed in a row,
\* or by the failure of a probe that outlived its half-open period: nothing else
\* the interleaving delivers late or out of order trips it early.
OpensByCountOrLateProbe ==
    [][circuit.status = "closed" /\ circuit'.status = "open" =>
         \/ streak' >= Cfg.threshold
         \/ \E c \in Callers : /\ call[c].kind = "record"
                               /\ call[c].probe /\ ~call[c].ok
                               /\ call[c] # call'[c]]_vars

\* The dependency is healthy, the circuit closed, and no failure of an earlier
\* operation is still on its way to the store.
OverWithFailures ==
    /\ healthy
    /\ circuit.status = "closed"
    /\ \A c \in Callers : call[c].kind = "record" => call[c].ok

\* From then on the circuit stays closed: no success, reset or admission under
\* way, probe or not, opens it or becomes a failure.
StaysClosedOnceHealthy ==
    [][OverWithFailures => OverWithFailures']_vars

\* Without faults, once the dependency is healthy the circuit ends up closed
\* for good, unless its cool-down reaches beyond the modelled horizon.
ClosesForGood ==
    <>[](circuit.status = "closed" \/ circuit.openUntil > MaxClock)

\* An open circuit never waits longer than one cool-down from now, however
\* many late failures re-arm it and however wrong the clocks of the processes
\* that recorded them: the deadline of an open circuit is always in reach.
CoolDownBounded ==
    circuit.status = "open" => circuit.openUntil <= clock + Cfg.cooldownMs + Skew

\* While the circuit stays open, a failure that overtakes others on its way to
\* the store shortens the cool-down by at most the time it was under way, and
\* twice the error of a clock.
CoolDownKept ==
    [][circuit.status = "open" /\ circuit'.status = "open" =>
         \/ circuit'.openUntil >= circuit.openUntil
         \/ \E c \in Callers :
               /\ call[c].kind = "record" /\ call[c] # call'[c]
               /\ circuit'.openUntil + (clock - call[c].since) + 2 * Skew
                     >= circuit.openUntil]_vars

\* A half-open period is decided sooner or later, while some caller lives.
HalfOpenDecided ==
    circuit.status = "half-open" ~>
        (circuit.status # "half-open" \/ \A c \in Callers : At(c, "crashed"))

-----------------------------------------------------------------------------
(* What the documentation says and the code does not do: see README.md *)

\* "halfOpenMax: maximum number of concurrent half-open probes allowed
\* through": operations running as probes at the same time.
ConcurrentProbesBounded ==
    Cardinality({c \in Callers : At(c, "op") /\ exec[c].probe})
        <= Cfg.halfOpenMax

\* "threshold: number of consecutive failures before the circuit opens".
OpensOnlyAtThreshold ==
    [][circuit.status = "closed" /\ circuit'.status = "open" =>
         streak' >= Cfg.threshold]_vars

=============================================================================
