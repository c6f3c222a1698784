-------------------------- MODULE ResilienceStore ---------------------------
(***************************************************************************)
(* What a breaker store promises (packages/core/src/breaker/store.ts): each*)
(* admit and each record is one atomic step on the circuit, taken between  *)
(* the call and its reply.  InMemoryResilienceStore takes that step at the *)
(* call itself; a remote store takes it later, at a time the client read   *)
(* from its own clock since the call, and may fail: before the step took   *)
(* effect, or after it when only the reply is lost.                        *)
(*                                                                         *)
(* One circuit key: no code path of a store reads or writes another key.   *)
(***************************************************************************)
EXTENDS CircuitState

CONSTANTS Callers,   \* concurrent executions, of one process or of several
          Cfg,       \* the BreakerConfig all callers of the key agree on
          MaxClock,  \* bound on the clock
          Skew,      \* how far the clock of a process may be off
          Faults     \* which faults occur: a subset of FaultKinds

FaultKinds == {"store", "sink", "crash"}

ASSUME CfgAssumption == Cfg \in BreakerConfigs
ASSUME ClockAssumption == MaxClock \in Nat
ASSUME SkewAssumption == Skew \in Nat
ASSUME FaultsAssumption == Faults \subseteq FaultKinds

VARIABLES clock,    \* the true time
          circuit,  \* the persisted CircuitState of the key
          call      \* call[c]: the pending store call of c, or its reply

storeVars == <<clock, circuit, call>>

NoCall == [kind |-> "none"]
AdmitRequest(now) == [kind |-> "admit", since |-> now]
RecordRequest(now, ok, probe) ==
    [kind |-> "record", since |-> now, ok |-> ok, probe |-> probe]
Admitted(admission) == [kind |-> "admitted", admission |-> admission]
Recorded(status) == [kind |-> "recorded", status |-> status]
Failed == [kind |-> "failed"]

Calls ==
    {NoCall, Failed}
        \cup [kind: {"admit"}, since: Nat]
        \cup [kind: {"record"}, since: Nat, ok: BOOLEAN, probe: BOOLEAN]
        \cup [kind: {"admitted"}, admission: Admissions]
        \cup [kind: {"recorded"}, status: CircuitStatus]

StoreInit ==
    /\ clock = 0
    /\ circuit = INITIAL_CIRCUIT_STATE
    /\ call = [c \in Callers |-> NoCall]

-----------------------------------------------------------------------------

\* Clock.now() of a process whose clock is at most Skew off, read between two
\* times.
Readings(from, to) == (IF from > Skew THEN from - Skew ELSE 0) .. to + Skew

CallAdmit(c) == call' = [call EXCEPT ![c] = AdmitRequest(clock)]

CallRecord(c, ok, probe) ==
    call' = [call EXCEPT ![c] = RecordRequest(clock, ok, probe)]

\* The reply of a call that took effect, which a remote store may lose.
Reply(c, answer) ==
    \E reply \in {answer} \cup (IF "store" \in Faults THEN {Failed} ELSE {}) :
        call' = [call EXCEPT ![c] = reply]

Admit(c) ==
    /\ call[c].kind = "admit"
    /\ \E now \in Readings(call[c].since, clock) :
         LET decision == computeAdmit(circuit, Cfg, now)
         IN  /\ circuit' = decision.state
             /\ Reply(c, Admitted(decision.admission))
    /\ UNCHANGED clock

Record(c) ==
    /\ call[c].kind = "record"
    /\ \E now \in Readings(call[c].since, clock) :
         LET decision == computeRecord(circuit, Cfg, call[c].ok,
                                       call[c].probe, now)
         IN  /\ circuit' = decision.state
             /\ Reply(c, Recorded(decision.status))
    /\ UNCHANGED clock

\* The call fails without effect.
Reject(c) ==
    /\ call[c].kind \in {"admit", "record"}
    /\ call' = [call EXCEPT ![c] = Failed]
    /\ UNCHANGED <<clock, circuit>>

Tick ==
    /\ clock < MaxClock
    /\ clock' = clock + 1
    /\ UNCHANGED <<circuit, call>>

StoreTypeOK ==
    /\ clock \in 0 .. MaxClock
    /\ circuit \in CircuitStates
    /\ call \in [Callers -> Calls]

=============================================================================
