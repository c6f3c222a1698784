------------------------ MODULE CircuitBreakerProofs ------------------------
(***************************************************************************)
(* Safety of the circuit-breaker policy over the atomic store, for every   *)
(* set of callers, configuration, clock bound and set of faults.           *)
(***************************************************************************)
EXTENDS CircuitBreaker, CircuitStateProofs, FiniteSetTheorems

-----------------------------------------------------------------------------
(* Store calls and their replies *)

LEMMA CallsConstructed ==
    /\ NoCall \in Calls /\ Failed \in Calls
    /\ \A now \in Nat : AdmitRequest(now) \in Calls
    /\ \A now \in Nat, ok \in BOOLEAN, probe \in BOOLEAN :
          RecordRequest(now, ok, probe) \in Calls
    /\ \A admission \in Admissions : Admitted(admission) \in Calls
    /\ \A status \in CircuitStatus : Recorded(status) \in Calls
BY Zenon DEF Calls, NoCall, Failed, AdmitRequest, RecordRequest, Admitted, Recorded

LEMMA CallsKinds ==
    ASSUME NEW x \in Calls
    PROVE  /\ x.kind = "admit" => x.since \in Nat
           /\ x.kind = "record" => /\ x.since \in Nat
                                   /\ x.ok \in BOOLEAN /\ x.probe \in BOOLEAN
           /\ x.kind = "admitted" => x.admission \in Admissions
           /\ x.kind = "recorded" => x.status \in CircuitStatus
<1>1. CASE x \in {NoCall, Failed}
  BY <1>1, SMT DEF NoCall, Failed
<1>2. CASE x \in [kind: {"admit"}, since: Nat]
  BY <1>2, SMT
<1>3. CASE x \in [kind: {"record"}, since: Nat, ok: BOOLEAN, probe: BOOLEAN]
  BY <1>3, SMT
<1>4. CASE x \in [kind: {"admitted"}, admission: Admissions]
  BY <1>4, SMT
<1>5. CASE x \in [kind: {"recorded"}, status: CircuitStatus]
  BY <1>5, SMT
<1>6. QED
  BY <1>1, <1>2, <1>3, <1>4, <1>5, Zenon DEF Calls

\* A reading is at most Skew off the time at which it was taken.
LEMMA ReadingsRange ==
    ASSUME NEW from \in Nat, NEW to \in Nat, NEW now \in Readings(from, to)
    PROVE  now \in Nat /\ now <= to + Skew /\ from <= now + Skew
BY SkewAssumption, SMT DEF Readings

-----------------------------------------------------------------------------
(* Type correctness *)

LEMMA LocalStepType ==
    ASSUME TypeOK, NEW c \in Callers, NEW e \in Execs, NEW x \in Calls,
           exec' = [exec EXCEPT ![c] = e], call' = [call EXCEPT ![c] = x], Local
    PROVE  TypeOK'
BY SMT DEF TypeOK, StoreTypeOK, Local

LEMMA StoreStepType ==
    ASSUME TypeOK, NEW c \in Callers, NEW x \in Calls,
           circuit' \in CircuitStates, call' = [call EXCEPT ![c] = x],
           Observe(c), UNCHANGED <<clock, exec, healthy>>
    PROVE  TypeOK'
<1>1. Cfg.threshold \in Nat
  BY CfgAssumption DEF BreakerConfigs
<1>2. probing' \subseteq Callers
  BY SMT DEF TypeOK, Observe
<1>3. streak' \in 0 .. Cfg.threshold
  BY <1>1, SMT DEF TypeOK, Observe
<1>4. QED
  BY <1>2, <1>3, SMT DEF TypeOK, StoreTypeOK

\* The step grants a slot of the half-open circuit.
TakesSlot == /\ circuit'.status = "half-open"
             /\ circuit' # circuit /\ circuit'.probes > 0

\* The state and the possible replies of an admit, and of a record.
LEMMA AdmitEffect ==
    ASSUME TypeOK, NEW c \in Callers, Admit(c)
    PROVE  /\ call[c].kind = "admit"
           /\ UNCHANGED clock
           /\ \E now \in Nat : circuit' = computeAdmit(circuit, Cfg, now).state
           /\ circuit' \in CircuitStates
           /\ \E x \in Calls : /\ call' = [call EXCEPT ![c] = x]
                              /\ \/ "store" \in Faults /\ x = Failed
                                 \/ /\ x.kind = "admitted"
                                    /\ x.admission.probe <=> TakesSlot
                                    /\ x.admission.probe => x.admission.allow
<1>1. /\ call[c] \in Calls /\ clock \in Nat /\ circuit \in CircuitStates
      /\ call[c].kind = "admit"
  BY SMT DEF TypeOK, StoreTypeOK, Admit
<1>2. call[c].since \in Nat
  BY <1>1, CallsKinds
<1>3. PICK now \in Readings(call[c].since, clock) :
         LET decision == computeAdmit(circuit, Cfg, now)
         IN  /\ circuit' = decision.state
             /\ Reply(c, Admitted(decision.admission))
  BY DEF Admit
<1>4. now \in Nat
  BY <1>1, <1>2, ReadingsRange
<1> DEFINE d == computeAdmit(circuit, Cfg, now)
<1>5. d.state \in CircuitStates /\ d.admission \in Admissions
  BY <1>1, <1>4, AdmitType, CfgAssumption
<1>6. PICK x : /\ call' = [call EXCEPT ![c] = x]
               /\ \/ x = Admitted(d.admission)
                  \/ "store" \in Faults /\ x = Failed
  BY <1>3, Zenon DEF Reply
<1>7. x \in Calls
  BY <1>5, <1>6, CallsConstructed
<1>8. \/ "store" \in Faults /\ x = Failed
      \/ x.kind = "admitted" /\ x.admission = d.admission
  BY <1>6, SMT DEF Admitted
<1>9. /\ d.admission.probe <=> TakesSlot
      /\ d.admission.probe => d.admission.allow
  BY <1>1, <1>3, <1>4, AdmitSlots, AdmitNeverOpens, CfgAssumption DEF TakesSlot
<1>10. UNCHANGED clock
  BY DEF Admit
<1> HIDE DEF d
<1>11. \/ "store" \in Faults /\ x = Failed
       \/ /\ x.kind = "admitted"
          /\ x.admission.probe <=> TakesSlot
          /\ x.admission.probe => x.admission.allow
  BY <1>8, <1>9
<1>12. circuit' = computeAdmit(circuit, Cfg, now).state /\ circuit' \in CircuitStates
  BY <1>3, <1>5 DEF d
<1>13. QED
  BY <1>1, <1>4, <1>6, <1>7, <1>10, <1>11, <1>12

LEMMA RecordEffect ==
    ASSUME TypeOK, NEW c \in Callers, Record(c)
    PROVE  /\ call[c].kind = "record"
           /\ call[c].ok \in BOOLEAN /\ call[c].probe \in BOOLEAN
           /\ UNCHANGED clock
           /\ \E now \in Nat :
                /\ now <= clock + Skew /\ call[c].since <= now + Skew
                /\ circuit' = computeRecord(circuit, Cfg, call[c].ok,
                                            call[c].probe, now).state
           /\ circuit' \in CircuitStates
           /\ \E x \in Calls : /\ call' = [call EXCEPT ![c] = x]
                              /\ \/ x.kind = "recorded"
                                 \/ "store" \in Faults /\ x = Failed
<1>1. /\ call[c] \in Calls /\ clock \in Nat /\ circuit \in CircuitStates
      /\ call[c].kind = "record"
  BY SMT DEF TypeOK, StoreTypeOK, Record
<1>2. /\ call[c].since \in Nat
      /\ call[c].ok \in BOOLEAN /\ call[c].probe \in BOOLEAN
  BY <1>1, CallsKinds
<1>3. PICK now \in Readings(call[c].since, clock) :
         LET decision == computeRecord(circuit, Cfg, call[c].ok,
                                       call[c].probe, now)
         IN  /\ circuit' = decision.state
             /\ Reply(c, Recorded(decision.status))
  BY DEF Record
<1>4. now \in Nat /\ now <= clock + Skew /\ call[c].since <= now + Skew
  BY <1>1, <1>2, ReadingsRange
<1> DEFINE d == computeRecord(circuit, Cfg, call[c].ok, call[c].probe, now)
<1>5. d.state \in CircuitStates /\ d.status \in CircuitStatus
  BY <1>1, <1>2, <1>4, RecordType, CfgAssumption
<1>6. PICK x : /\ call' = [call EXCEPT ![c] = x]
               /\ \/ x = Recorded(d.status)
                  \/ "store" \in Faults /\ x = Failed
  BY <1>3, Zenon DEF Reply
<1>7. x \in Calls
  BY <1>5, <1>6, CallsConstructed
<1>8. x.kind = "recorded" \/ ("store" \in Faults /\ x = Failed)
  BY <1>6, SMT DEF Recorded
<1>9. UNCHANGED clock
  BY DEF Record
<1>10. QED
  BY <1>1, <1>2, <1>3, <1>4, <1>5, <1>6, <1>7, <1>8, <1>9

LEMMA TypeCorrectInit == Init => TypeOK
<1>1. Cfg.threshold \in Nat
  BY CfgAssumption DEF BreakerConfigs
<1>2. INITIAL_CIRCUIT_STATE \in CircuitStates /\ Idle \in Execs
  BY SMT DEF INITIAL_CIRCUIT_STATE, CircuitStates, CircuitStatus, Idle, Execs,
             Pcs, Outcomes
<1>3. 0 \in 0 .. MaxClock /\ 0 \in 0 .. Cfg.threshold
  BY <1>1, ClockAssumption, SMT
<1>4. NoCall \in Calls
  BY CallsConstructed
<1>5. QED
  BY <1>2, <1>3, <1>4, Zenon DEF Init, StoreInit, TypeOK, StoreTypeOK

LEMMA TypeCorrectStep == TypeOK /\ [Next]_vars => TypeOK'
<1> SUFFICES ASSUME TypeOK, [Next]_vars PROVE TypeOK'
  OBVIOUS
<1>1. ASSUME NEW c \in Callers, PolicyStep(c) \/ SinkThrowsOnProbe(c) \/ Crash(c)
      PROVE  TypeOK'
  <2>1. /\ call[c] \in Calls /\ exec[c] \in Execs /\ clock \in Nat
        /\ call = [call EXCEPT ![c] = call[c]]
    BY SMT DEF TypeOK, StoreTypeOK
  <2>2. exec[c].probe \in BOOLEAN /\ exec[c].outcome \in Outcomes
    BY <2>1 DEF Execs
  <2>3. \A pc \in Pcs, outcome \in Outcomes, probe \in BOOLEAN :
           [pc |-> pc, probe |-> probe, outcome |-> outcome] \in Execs
    BY DEF Execs
  <2>4. Idle \in Execs
    BY SMT DEF Idle, Execs, Pcs, Outcomes
  <2>5. /\ AdmitRequest(clock) \in Calls /\ NoCall \in Calls
        /\ \A ok \in BOOLEAN, probe \in BOOLEAN :
              RecordRequest(clock, ok, probe) \in Calls
    BY <2>1, CallsConstructed
  <2>6. \E e \in Execs, x \in Calls :
           /\ exec' = [exec EXCEPT ![c] = e] /\ call' = [call EXCEPT ![c] = x]
           /\ Local
    <3>1. CASE Execute(c)
      <4>1. [pc |-> "admit", probe |-> exec[c].probe,
             outcome |-> exec[c].outcome] \in Execs
        BY <2>2, <2>3 DEF Pcs
      <4>2. QED
        BY <3>1, <2>5, <4>1 DEF Execute, Goto, CallAdmit
    <3>2. CASE RunOp(c)
      <4>1. call[c].admission.probe \in BOOLEAN
        BY <3>2, <2>1, CallsKinds DEF RunOp, Admissions
      <4>2. [pc |-> "op", outcome |-> "none",
             probe |-> call[c].admission.probe] \in Execs
        BY <4>1, SMT DEF Execs, Pcs, Outcomes
      <4>3. QED
        BY <3>2, <2>5, <4>2 DEF RunOp
    <3>3. CASE ShortCircuit(c) \/ ReturnResult(c) \/ RethrowError(c)
                 \/ ResetReturns(c) \/ SinkThrowsOnProbe(c)
      BY <3>3, <2>4, <2>5 DEF ShortCircuit, ReturnResult, RethrowError,
         ResetReturns, SinkThrowsOnProbe, Return
    <3>4. CASE OpResolves(c)
      <4>1. [pc |-> "recordOk", outcome |-> "resolved",
             probe |-> exec[c].probe] \in Execs
        BY <2>2, SMT DEF Execs, Pcs, Outcomes
      <4>2. QED
        BY <3>4, <2>2, <2>5, <4>1 DEF OpResolves, Settle, CallRecord
    <3>5. CASE OpRejects(c)
      <4>1. [pc |-> "recordErr", outcome |-> "rejected",
             probe |-> exec[c].probe] \in Execs
        BY <2>2, SMT DEF Execs, Pcs, Outcomes
      <4>2. QED
        BY <3>5, <2>2, <2>5, <4>1 DEF OpRejects, Settle, CallRecord
    <3>6. CASE CatchAfterSuccess(c)
      <4>1. [pc |-> "recordErr", probe |-> exec[c].probe,
             outcome |-> exec[c].outcome] \in Execs
        BY <2>2, <2>3 DEF Pcs
      <4>2. QED
        BY <3>6, <2>2, <2>5, <4>1 DEF CatchAfterSuccess, Goto, CallRecord
    <3>7. CASE Reset(c)
      <4>1. [pc |-> "reset", probe |-> exec[c].probe,
             outcome |-> exec[c].outcome] \in Execs
        BY <2>2, <2>3 DEF Pcs
      <4>2. QED
        BY <3>7, <2>5, <4>1 DEF Reset, Goto, CallRecord
    <3>8. CASE Crash(c)
      <4>1. [pc |-> "crashed", probe |-> exec[c].probe,
             outcome |-> exec[c].outcome] \in Execs
        BY <2>2, <2>3 DEF Pcs
      <4>2. QED
        BY <3>8, <2>1, <4>1 DEF Crash, Goto
    <3>9. QED
      BY <1>1, <3>1, <3>2, <3>3, <3>4, <3>5, <3>6, <3>7, <3>8 DEF PolicyStep
  <2>7. QED
    BY <2>6, LocalStepType
<1>2. ASSUME NEW c \in Callers, StoreAdmit(c) PROVE TypeOK'
  BY <1>2, AdmitEffect, StoreStepType DEF StoreAdmit, policyVars
<1>3. ASSUME NEW c \in Callers, StoreRecord(c) PROVE TypeOK'
  BY <1>3, RecordEffect, StoreStepType DEF StoreRecord, policyVars
<1>4. ASSUME NEW c \in Callers, StoreReject(c) PROVE TypeOK'
  BY <1>4, CallsConstructed, SMT DEF StoreReject, Reject, TypeOK, StoreTypeOK
<1>5. CASE Pass
  BY <1>5, ClockAssumption, SMT DEF Pass, Tick, TypeOK, StoreTypeOK
<1>6. CASE Recover
  BY <1>6, SMT DEF Recover, TypeOK, StoreTypeOK
<1>7. CASE UNCHANGED vars
  BY <1>7 DEF vars, TypeOK, StoreTypeOK
<1>8. QED
  BY <1>1, <1>2, <1>3, <1>4, <1>5, <1>6, <1>7 DEF Next, CallerStep, StoreStep

\* Every reachable state of the policy and the store has its type: no admit,
\* record, retry of a record or crash leaves a call or a circuit ill-formed.
THEOREM TypeCorrect == Spec => []TypeOK
BY TypeCorrectInit, TypeCorrectStep, PTL DEF Spec

-----------------------------------------------------------------------------
(* Probe slots *)

\* Strengthening: slots are owed only in a half-open period, and the callers
\* granted one in it can be counted.
SlotInv ==
    /\ TypeOK
    /\ IsFiniteSet(probing)
    /\ circuit.status # "half-open" => probing = {}
    /\ ProbeSlotsExclusive

\* Every step but an admit and a record leaves the circuit and the slots alone.
LEMMA OtherSteps ==
    ASSUME [Next]_vars
    PROVE  \/ \E c \in Callers : StoreAdmit(c) \/ StoreRecord(c)
           \/ UNCHANGED <<circuit, probing, streak>>
BY DEF Next, vars, CallerStep, StoreStep, PolicyStep, Execute, RunOp,
       ShortCircuit, OpResolves, OpRejects, ReturnResult, CatchAfterSuccess,
       RethrowError, Reset, ResetReturns, SinkThrowsOnProbe, Crash, Local,
       StoreReject, Reject, Pass, Tick, Recover

LEMMA SlotInvInit == Init => SlotInv
<1> SUFFICES ASSUME Init PROVE SlotInv
  OBVIOUS
<1>1. TypeOK
  BY TypeCorrectInit
<1>2. probing = {} /\ circuit.status = "closed"
  BY SMT DEF Init, StoreInit, INITIAL_CIRCUIT_STATE
<1>3. QED
  BY <1>1, <1>2, FS_EmptySet, SMT DEF SlotInv, ProbeSlotsExclusive

LEMMA SlotInvStep == SlotInv /\ [Next]_vars => SlotInv'
<1> SUFFICES ASSUME SlotInv, [Next]_vars PROVE SlotInv'
  OBVIOUS
<1>1. TypeOK'
  BY TypeCorrectStep DEF SlotInv
<1>2. ASSUME NEW c \in Callers, StoreAdmit(c) PROVE SlotInv'
  <2>1. PICK now \in Nat : circuit' = computeAdmit(circuit, Cfg, now).state
    BY <1>2, AdmitEffect DEF StoreAdmit, SlotInv
  <2>2. circuit \in CircuitStates /\ circuit' \in CircuitStates
    BY <1>1 DEF SlotInv, TypeOK, StoreTypeOK
  <2>3. call[c].kind = "admit"
    BY <1>2, AdmitEffect DEF StoreAdmit, SlotInv
  <2>4. probing' = IF circuit'.status # "half-open" THEN {}
                   ELSE IF circuit' # circuit /\ circuit'.probes > 0
                   THEN probing \cup {c} ELSE probing
    BY <1>2, <2>3 DEF StoreAdmit, Observe
  <2>5. CASE circuit'.status # "half-open"
    BY <1>1, <2>4, <2>5, FS_EmptySet, SMT DEF SlotInv, ProbeSlotsExclusive
  <2>6. CASE circuit'.status = "half-open"
    <3>1. /\ IsFiniteSet(probing \cup {c})
          /\ Cardinality(probing \cup {c}) \in Nat
          /\ Cardinality(probing) \in Nat
          /\ Cardinality(probing \cup {c}) <= Cardinality(probing) + 1
      <4>1. IsFiniteSet(probing)
        BY DEF SlotInv
      <4>2. Cardinality(probing) \in Nat
        BY <4>1, FS_CardinalityType
      <4>3. /\ IsFiniteSet(probing \cup {c})
            /\ \/ Cardinality(probing \cup {c}) = Cardinality(probing)
               \/ Cardinality(probing \cup {c}) = Cardinality(probing) + 1
        BY <4>1, FS_AddElement
      <4>4. QED
        BY <4>2, <4>3, SMT
    <3>2. probing = {} => Cardinality(probing) = 0
      BY FS_EmptySet
    <3>3. Cfg.halfOpenMax \in Nat /\ circuit.probes \in Nat /\ circuit'.probes \in Nat
      BY <2>2, CfgAssumption DEF BreakerConfigs, CircuitStates
    <3>4. \/ circuit' = circuit
          \/ /\ circuit.status = "half-open"
             /\ circuit.probes < Cfg.halfOpenMax
             /\ circuit'.probes = circuit.probes + 1
          \/ /\ circuit.status # "half-open"
             /\ \/ circuit'.probes = 0
                \/ circuit'.probes = 1 /\ 1 <= Cfg.halfOpenMax
      BY <2>1, <2>2, <2>6, AdmitSlots, CfgAssumption
    <3>5. ProbeSlotsExclusive'
      BY <2>4, <2>6, <3>1, <3>2, <3>3, <3>4, SMT DEF SlotInv, ProbeSlotsExclusive
    <3>6. IsFiniteSet(probing')
      BY <2>4, <2>6, <3>1 DEF SlotInv
    <3>7. QED
      BY <1>1, <2>6, <3>5, <3>6 DEF SlotInv
  <2>7. QED
    BY <2>5, <2>6
<1>3. ASSUME NEW c \in Callers, StoreRecord(c) PROVE SlotInv'
  <2>1. circuit'.status # "half-open"
    BY <1>3, RecordEffect, RecordEndsHalfOpen, CfgAssumption
       DEF StoreRecord, SlotInv, TypeOK, StoreTypeOK
  <2>2. probing' = {}
    BY <1>3, <2>1 DEF StoreRecord, Observe
  <2>3. QED
    BY <1>1, <2>1, <2>2, FS_EmptySet, SMT DEF SlotInv, ProbeSlotsExclusive
<1>4. CASE UNCHANGED <<circuit, probing, streak>>
  BY <1>1, <1>4 DEF SlotInv, ProbeSlotsExclusive
<1>5. QED
  BY <1>2, <1>3, <1>4, OtherSteps

\* For every number of callers and every interleaving, with lost replies,
\* throwing sinks and crashes: a half-open period never has more slots taken
\* than halfOpenMax, and `probes` counts every caller that was granted one.
THEOREM ProbeSlotsExclusiveHolds == Spec => []ProbeSlotsExclusive
<1>1. SlotInv => ProbeSlotsExclusive
  BY DEF SlotInv
<1>2. QED
  BY <1>1, SlotInvInit, SlotInvStep, PTL DEF Spec

-----------------------------------------------------------------------------
(* Failures *)

\* Strengthening, without store faults: a failure is recorded only for an
\* operation that rejected, or for a probe whose success a sink disturbed.
HonestRecords ==
    \A c \in Callers :
        /\ call[c].kind = "failed" => At(c, "crashed")
        /\ call[c].kind = "record" /\ ~call[c].ok =>
              \/ exec[c].outcome = "rejected"
              \/ "sink" \in Faults /\ call[c].probe

LEMMA HonestInit == Init => HonestRecords
BY SMT DEF Init, StoreInit, HonestRecords, NoCall

\* What a step of one caller leaves in that caller's own call and execution.
LEMMA HonestPolicyStep ==
    ASSUME TypeOK, HonestRecords, "store" \notin Faults, NEW c \in Callers,
           PolicyStep(c) \/ SinkThrowsOnProbe(c) \/ Crash(c)
    PROVE  HonestRecords'
<1>1. /\ call \in [Callers -> Calls] /\ exec \in [Callers -> Execs]
  BY DEF TypeOK, StoreTypeOK
<1>2. SUFFICES ASSUME NEW d \in Callers
               PROVE  /\ call'[d].kind = "failed" => exec'[d].pc = "crashed"
                      /\ call'[d].kind = "record" /\ ~call'[d].ok =>
                            \/ exec'[d].outcome = "rejected"
                            \/ "sink" \in Faults /\ call'[d].probe
  BY DEF HonestRecords, At
<1>3. /\ call[d].kind = "failed" => exec[d].pc = "crashed"
      /\ call[d].kind = "record" /\ ~call[d].ok =>
            \/ exec[d].outcome = "rejected"
            \/ "sink" \in Faults /\ call[d].probe
  BY DEF HonestRecords, At
<1>4. CASE Execute(c)
  BY <1>1, <1>3, <1>4, SMT DEF Execute, Goto, CallAdmit, AdmitRequest
<1>5. CASE RunOp(c)
  BY <1>1, <1>3, <1>5, SMT DEF RunOp, NoCall
<1>6. CASE ShortCircuit(c) \/ ReturnResult(c) \/ RethrowError(c)
             \/ ResetReturns(c) \/ SinkThrowsOnProbe(c)
  <2>1. Return(c)
    BY <1>6 DEF ShortCircuit, ReturnResult, RethrowError, ResetReturns,
                SinkThrowsOnProbe
  <2>2. QED
    BY <1>1, <1>3, <2>1, SMT DEF Return, NoCall
<1>7. CASE OpResolves(c) \/ Reset(c)
  BY <1>1, <1>3, <1>7, SMT DEF OpResolves, Reset, Settle, Goto, CallRecord,
                              RecordRequest
<1>8. CASE OpRejects(c)
  BY <1>1, <1>3, <1>8, SMT DEF OpRejects, Settle, CallRecord, RecordRequest
<1>9. CASE CatchAfterSuccess(c)
  <2>1. "sink" \in Faults /\ exec[c].probe
    BY <1>9, SMT DEF CatchAfterSuccess, HonestRecords, At
  <2>2. QED
    BY <1>1, <1>3, <1>9, <2>1, SMT DEF CatchAfterSuccess, Goto, CallRecord,
                                      RecordRequest
<1>10. CASE Crash(c)
  BY <1>1, <1>3, <1>10, SMT DEF Crash, Goto
<1>11. QED
  BY <1>4, <1>5, <1>6, <1>7, <1>8, <1>9, <1>10 DEF PolicyStep

LEMMA HonestStep ==
    ASSUME TypeOK, HonestRecords, "store" \notin Faults, [Next]_vars
    PROVE  HonestRecords'
<1>1. ASSUME NEW c \in Callers, NEW x \in Calls, call' = [call EXCEPT ![c] = x],
             UNCHANGED exec, x.kind \in {"admitted", "recorded"}
      PROVE  HonestRecords'
  BY <1>1, SMT DEF HonestRecords, At, TypeOK, StoreTypeOK
<1>2. ASSUME NEW c \in Callers, StoreAdmit(c) PROVE HonestRecords'
  <2>1. PICK x \in Calls : /\ call' = [call EXCEPT ![c] = x]
                           /\ x.kind = "admitted"
    BY <1>2, AdmitEffect DEF StoreAdmit
  <2>2. QED
    BY <1>1, <1>2, <2>1 DEF StoreAdmit, policyVars
<1>3. ASSUME NEW c \in Callers, StoreRecord(c) PROVE HonestRecords'
  <2>1. PICK x \in Calls : /\ call' = [call EXCEPT ![c] = x]
                           /\ x.kind = "recorded"
    BY <1>3, RecordEffect DEF StoreRecord
  <2>2. QED
    BY <1>1, <1>3, <2>1 DEF StoreRecord, policyVars
<1>4. ASSUME NEW c \in Callers, StoreReject(c) PROVE HonestRecords'
  BY <1>4, SMT DEF StoreReject, Reject, Failed, HonestRecords, At, TypeOK,
                   StoreTypeOK
<1>5. CASE Pass \/ Recover \/ UNCHANGED vars
  BY <1>5, SMT DEF Pass, Tick, Recover, vars, HonestRecords, At
<1>6. QED
  BY <1>2, <1>3, <1>4, <1>5, HonestPolicyStep DEF Next, CallerStep, StoreStep

\* With a store whose record() does not reject, under every interleaving,
\* crash and throwing sink, the failure count of a closed circuit is the
\* number of operations that failed since the last recorded success.
THEOREM FailureCountExactHolds ==
    ASSUME "store" \notin Faults
    PROVE  Spec => []FailureCountExact
<1> DEFINE Inv == TypeOK /\ HonestRecords /\ FailureCountExact
<1>1. Init => Inv
  <2>1. Init => FailureCountExact
    BY SMT DEF Init, StoreInit, INITIAL_CIRCUIT_STATE, FailureCountExact
  <2>2. QED
    BY <2>1, HonestInit, TypeCorrectInit
<1>2. Inv /\ [Next]_vars => Inv'
  <2> SUFFICES ASSUME TypeOK, HonestRecords, FailureCountExact, [Next]_vars
               PROVE  Inv'
    OBVIOUS
  <2>1. TypeOK' /\ HonestRecords'
    BY TypeCorrectStep, HonestStep
  <2>2. /\ circuit \in CircuitStates /\ circuit' \in CircuitStates
        /\ streak \in 0 .. Cfg.threshold /\ Cfg.threshold \in Nat
    BY <2>1, CfgAssumption DEF TypeOK, StoreTypeOK, BreakerConfigs
  <2>3. ASSUME NEW c \in Callers, StoreAdmit(c) PROVE FailureCountExact'
    <3>1. PICK now \in Nat : circuit' = computeAdmit(circuit, Cfg, now).state
      BY <2>3, AdmitEffect DEF StoreAdmit
    <3>2. circuit'.status = "closed" => circuit' = circuit
      BY <3>1, SMT DEF computeAdmit, Thaw, HalfOpen
    <3>3. streak' = streak
      BY <2>3, AdmitEffect, SMT DEF StoreAdmit, Observe
    <3>4. QED
      BY <3>2, <3>3 DEF FailureCountExact
  <2>4. ASSUME NEW c \in Callers, StoreRecord(c) PROVE FailureCountExact'
    <3>1. PICK now \in Nat :
             circuit' = computeRecord(circuit, Cfg, call[c].ok,
                                      call[c].probe, now).state
      BY <2>4, RecordEffect DEF StoreRecord
    <3>2. /\ call[c].kind = "record"
          /\ call[c].ok \in BOOLEAN /\ call[c].probe \in BOOLEAN
      BY <2>4, RecordEffect DEF StoreRecord
    <3>3. CASE call[c].ok
      <4>1. streak' = 0
        BY <2>4, <3>2, <3>3, SMT DEF StoreRecord, Observe
      <4>2. circuit'.failures = 0
        BY <3>1, <3>3, SMT DEF computeRecord, Close
      <4>3. QED
        BY <4>1, <4>2 DEF FailureCountExact
    <3>4. CASE ~call[c].ok /\ circuit'.status = "closed"
      <4>1. /\ circuit.status = "closed" /\ ~call[c].probe
            /\ circuit'.failures = circuit.failures + 1
            /\ circuit'.failures < Cfg.threshold
        BY <2>2, <3>1, <3>2, <3>4, RecordFailures, CfgAssumption
      <4>2. exec[c].outcome = "rejected"
        BY <3>2, <3>4, <4>1 DEF HonestRecords
      <4>3. streak = circuit.failures
        BY <4>1 DEF FailureCountExact
      <4>4. streak < Cfg.threshold
        BY <2>2, <4>1, <4>3, SMT DEF CircuitStates
      <4>5. streak' = streak + 1
        BY <2>4, <3>2, <3>4, <4>2, <4>4, SMT DEF StoreRecord, Observe
      <4>6. QED
        BY <4>1, <4>3, <4>5 DEF FailureCountExact
    <3>5. QED
      BY <3>3, <3>4 DEF FailureCountExact
  <2>5. ASSUME UNCHANGED <<circuit, probing, streak>> PROVE FailureCountExact'
    BY <2>5 DEF FailureCountExact
  <2>6. FailureCountExact'
    BY <2>3, <2>4, <2>5, OtherSteps
  <2>7. QED
    BY <2>1, <2>6
<1>3. Inv => FailureCountExact
  OBVIOUS
<1>4. QED
  BY <1>1, <1>2, <1>3, PTL DEF Spec

\* With neither store faults nor a throwing sink, only the record of an
\* operation that really rejected ever opens the circuit.
THEOREM OpenedOnlyByFailedOpsHolds ==
    ASSUME "store" \notin Faults, "sink" \notin Faults
    PROVE  Spec => OpenedOnlyByFailedOps
<1> DEFINE Inv == TypeOK /\ HonestRecords
           Opens == /\ circuit'.status = "open" /\ circuit.status # "open"
           ByFailedOp == \E c \in Callers : /\ call[c].kind = "record"
                                            /\ call[c] # call'[c]
                                            /\ exec[c].outcome = "rejected"
<1>1. Init => Inv
  BY HonestInit, TypeCorrectInit
<1>2. Inv /\ [Next]_vars => Inv'
  BY TypeCorrectStep, HonestStep
<1>3. Inv /\ [Next]_vars => [Opens => ByFailedOp]_vars
  <2> SUFFICES ASSUME TypeOK, HonestRecords, [Next]_vars, Opens PROVE ByFailedOp
    OBVIOUS
  <2>1. circuit \in CircuitStates
    BY DEF TypeOK, StoreTypeOK
  <2>2. ASSUME NEW c \in Callers, StoreAdmit(c) PROVE FALSE
    <3>1. PICK now \in Nat : circuit' = computeAdmit(circuit, Cfg, now).state
      BY <2>2, AdmitEffect DEF StoreAdmit
    <3>2. QED
      BY <2>1, <3>1, AdmitNeverOpens, CfgAssumption
  <2>3. ASSUME NEW c \in Callers, StoreRecord(c) PROVE ByFailedOp
    <3>1. PICK now \in Nat :
             circuit' = computeRecord(circuit, Cfg, call[c].ok,
                                      call[c].probe, now).state
      BY <2>3, RecordEffect DEF StoreRecord
    <3>2. ~call[c].ok
      BY <3>1, SMT DEF computeRecord, Close
    <3>3. call[c].kind = "record"
      BY <2>3, RecordEffect DEF StoreRecord
    <3>4. exec[c].outcome = "rejected"
      BY <3>2, <3>3 DEF HonestRecords
    <3>5. PICK x : call' = [call EXCEPT ![c] = x] /\ x.kind = "recorded"
      BY <2>3, RecordEffect DEF StoreRecord
    <3>6. call[c] # call'[c]
      BY <3>3, <3>5, SMT DEF TypeOK, StoreTypeOK
    <3>7. QED
      BY <3>3, <3>4, <3>6
  <2>4. CASE UNCHANGED <<circuit, probing, streak>>
    BY <2>4
  <2>5. QED
    BY <2>2, <2>3, <2>4, OtherSteps
<1>4. QED
  BY <1>1, <1>2, <1>3, PTL DEF Spec, OpenedOnlyByFailedOps

\* With a store whose record() does not reject, a closed circuit opens only on
\* the failure that completes `threshold` of them in a row, or on the failure of
\* a probe whose half-open period is over: crashes, throwing sinks, resets and
\* the order of arrival never open it early.
THEOREM OpensByCountOrLateProbeHolds ==
    ASSUME "store" \notin Faults
    PROVE  Spec => OpensByCountOrLateProbe
<1> DEFINE Inv == TypeOK /\ HonestRecords /\ FailureCountExact
           Opens == circuit.status = "closed" /\ circuit'.status = "open"
           Counted == streak' >= Cfg.threshold
           ByLateProbe == \E c \in Callers : /\ call[c].kind = "record"
                                             /\ call[c].probe /\ ~call[c].ok
                                             /\ call[c] # call'[c]
<1>1. Spec => []Inv
  BY TypeCorrect, HonestInit, TypeCorrectInit, HonestStep, TypeCorrectStep,
     FailureCountExactHolds, PTL DEF Spec
<1>2. Inv /\ [Next]_vars => [Opens => Counted \/ ByLateProbe]_vars
  <2> SUFFICES ASSUME TypeOK, HonestRecords, FailureCountExact, [Next]_vars, Opens
               PROVE  Counted \/ ByLateProbe
    OBVIOUS
  <2>1. /\ circuit \in CircuitStates
        /\ streak \in 0 .. Cfg.threshold /\ Cfg.threshold \in Nat
    BY CfgAssumption DEF TypeOK, StoreTypeOK, BreakerConfigs
  <2>2. ASSUME NEW c \in Callers, StoreAdmit(c) PROVE FALSE
    <3>1. PICK now \in Nat : circuit' = computeAdmit(circuit, Cfg, now).state
      BY <2>2, AdmitEffect DEF StoreAdmit
    <3>2. QED
      BY <2>1, <3>1, AdmitNeverOpens, CfgAssumption
  <2>3. ASSUME NEW c \in Callers, StoreRecord(c) PROVE Counted \/ ByLateProbe
    <3>1. PICK now \in Nat :
             circuit' = computeRecord(circuit, Cfg, call[c].ok,
                                      call[c].probe, now).state
      BY <2>3, RecordEffect DEF StoreRecord
    <3>2. /\ call[c].kind = "record"
          /\ call[c].ok \in BOOLEAN /\ call[c].probe \in BOOLEAN
      BY <2>3, RecordEffect DEF StoreRecord
    <3>3. ~call[c].ok
      BY <3>1, SMT DEF computeRecord, Close
    <3>4. CASE call[c].probe
      <4>1. PICK x : call' = [call EXCEPT ![c] = x] /\ x.kind = "recorded"
        BY <2>3, RecordEffect DEF StoreRecord
      <4>2. call[c] # call'[c]
        BY <3>2, <4>1, SMT DEF TypeOK, StoreTypeOK
      <4>3. QED
        BY <3>2, <3>3, <3>4, <4>2
    <3>5. CASE ~call[c].probe
      <4>1. circuit.failures + 1 >= Cfg.threshold
        BY <2>1, <3>1, <3>2, <3>3, <3>5, RecordOpens, CfgAssumption
      <4>2. exec[c].outcome = "rejected"
        BY <3>2, <3>3, <3>5 DEF HonestRecords
      <4>3. streak = circuit.failures
        BY DEF FailureCountExact
      <4>4. streak' = IF streak < Cfg.threshold THEN streak + 1 ELSE streak
        BY <2>3, <3>2, <3>3, <4>2, SMT DEF StoreRecord, Observe
      <4>5. QED
        BY <2>1, <4>1, <4>3, <4>4, SMT
    <3>6. QED
      BY <3>2, <3>4, <3>5
  <2>4. QED
    BY <2>2, <2>3, OtherSteps
<1>3. QED
  BY <1>1, <1>2, PTL DEF Spec, OpensByCountOrLateProbe

\* What a caller's own step does to the call of a caller once the dependency is
\* healthy: it sends no failure.
LEMMA HealthyPolicyStep ==
    ASSUME TypeOK, HonestRecords, OverWithFailures, "store" \notin Faults,
           "sink" \notin Faults, NEW c \in Callers, CallerStep(c)
    PROVE  OverWithFailures'
<1>1. /\ call \in [Callers -> Calls] /\ exec \in [Callers -> Execs]
  BY DEF TypeOK, StoreTypeOK
<1>2. UNCHANGED <<circuit, healthy>>
  BY DEF CallerStep, PolicyStep, Execute, RunOp, ShortCircuit, OpResolves,
         OpRejects, ReturnResult, CatchAfterSuccess, RethrowError, Reset,
         ResetReturns, SinkThrowsOnProbe, Crash, Local
<1>3. ~OpRejects(c) /\ ~SinkThrowsOnProbe(c)
  BY DEF OpRejects, SinkThrowsOnProbe, OverWithFailures
<1>4. ~CatchAfterSuccess(c)
  <2>1. ASSUME CatchAfterSuccess(c)
        PROVE  exec[c].pc = "recordOk" /\ call[c].kind = "failed"
    BY <2>1 DEF CatchAfterSuccess, At
  <2>2. call[c].kind = "failed" => exec[c].pc = "crashed"
    BY DEF HonestRecords, At
  <2>3. QED
    BY <2>1, <2>2
<1>5. ASSUME NEW x, call' = [call EXCEPT ![c] = x], x.kind = "record" => x.ok
      PROVE  \A d \in Callers : call'[d].kind = "record" => call'[d].ok
  BY <1>1, <1>5, SMT DEF OverWithFailures
<1>6. \A d \in Callers : call'[d].kind = "record" => call'[d].ok
  <2>1. CASE Execute(c)
    <3>1. AdmitRequest(clock).kind # "record"
      BY DEF AdmitRequest
    <3>2. QED
      BY <1>5, <2>1, <3>1 DEF Execute, CallAdmit
  <2>2. CASE \/ RunOp(c) \/ ShortCircuit(c) \/ ReturnResult(c)
             \/ RethrowError(c) \/ ResetReturns(c)
    <3>1. call' = [call EXCEPT ![c] = NoCall]
      BY <2>2 DEF RunOp, ShortCircuit, ReturnResult, RethrowError, ResetReturns,
                  Return
    <3>2. NoCall.kind # "record"
      BY DEF NoCall
    <3>3. QED
      BY <1>5, <3>1, <3>2
  <2>3. CASE OpResolves(c) \/ Reset(c)
    <3>1. \A probe : RecordRequest(clock, TRUE, probe).ok
      BY DEF RecordRequest
    <3>2. QED
      BY <1>5, <2>3, <3>1 DEF OpResolves, Reset, CallRecord
  <2>4. CASE Crash(c)
    BY <2>4 DEF Crash, OverWithFailures
  <2>5. QED
    BY <1>3, <1>4, <2>1, <2>2, <2>3, <2>4 DEF CallerStep, PolicyStep
<1>7. QED
  BY <1>2, <1>6 DEF OverWithFailures

\* With neither store faults nor a throwing sink, a closed circuit of a healthy
\* dependency stays closed once the last earlier failure has been recorded, in
\* spite of resets, crashed processes and late probes of earlier periods.
THEOREM StaysClosedOnceHealthyHolds ==
    ASSUME "store" \notin Faults, "sink" \notin Faults
    PROVE  Spec => StaysClosedOnceHealthy
<1>1. Spec => [](TypeOK /\ HonestRecords)
  BY HonestInit, TypeCorrectInit, HonestStep, TypeCorrectStep, PTL DEF Spec
<1>2. TypeOK /\ HonestRecords /\ [Next]_vars
         => [OverWithFailures => OverWithFailures']_vars
  <2> SUFFICES ASSUME TypeOK, HonestRecords, [Next]_vars, OverWithFailures
               PROVE  OverWithFailures'
    OBVIOUS
  <2>1. call \in [Callers -> Calls]
    BY DEF TypeOK, StoreTypeOK
  <2>2. ASSUME NEW c \in Callers, NEW x, call' = [call EXCEPT ![c] = x],
               x.kind # "record", UNCHANGED healthy, circuit'.status = "closed"
        PROVE  OverWithFailures'
    BY <2>1, <2>2, SMT DEF OverWithFailures
  <2>3. ASSUME NEW c \in Callers, StoreAdmit(c) PROVE OverWithFailures'
    <3>1. PICK now \in Nat : circuit' = computeAdmit(circuit, Cfg, now).state
      BY <2>3, AdmitEffect DEF StoreAdmit
    <3>2. circuit' = circuit
      BY <3>1, SMT DEF OverWithFailures, computeAdmit, Thaw, Grants
    <3>3. PICK x : call' = [call EXCEPT ![c] = x] /\ x.kind = "admitted"
      BY <2>3, AdmitEffect DEF StoreAdmit
    <3>4. QED
      BY <2>2, <2>3, <3>2, <3>3 DEF StoreAdmit, policyVars, OverWithFailures
  <2>4. ASSUME NEW c \in Callers, StoreRecord(c) PROVE OverWithFailures'
    <3>1. PICK now \in Nat :
             circuit' = computeRecord(circuit, Cfg, call[c].ok,
                                      call[c].probe, now).state
      BY <2>4, RecordEffect DEF StoreRecord
    <3>2. call[c].ok
      BY <2>4, RecordEffect DEF StoreRecord, OverWithFailures
    <3>3. circuit'.status = "closed"
      BY <3>1, <3>2, SMT DEF computeRecord, Close
    <3>4. PICK x : call' = [call EXCEPT ![c] = x] /\ x.kind = "recorded"
      BY <2>4, RecordEffect DEF StoreRecord
    <3>5. QED
      BY <2>2, <2>4, <3>3, <3>4 DEF StoreRecord, policyVars
  <2>5. ASSUME NEW c \in Callers, StoreReject(c) PROVE OverWithFailures'
    <3>1. /\ call' = [call EXCEPT ![c] = Failed]
          /\ UNCHANGED <<circuit, healthy>>
      BY <2>5 DEF StoreReject, Reject
    <3>2. QED
      BY <2>2, <3>1, SMT DEF Failed, OverWithFailures
  <2>6. CASE Pass \/ Recover \/ UNCHANGED vars
    BY <2>6 DEF Pass, Tick, Recover, vars, OverWithFailures
  <2>7. QED
    BY <2>3, <2>4, <2>5, <2>6, HealthyPolicyStep DEF Next, StoreStep
<1>3. QED
  BY <1>1, <1>2, PTL DEF Spec, StaysClosedOnceHealthy

-----------------------------------------------------------------------------
(* A circuit without probe slots *)

NoProbe ==
    \A c \in Callers :
        /\ ~exec[c].probe
        /\ call[c].kind = "admitted" => ~call[c].admission.probe
        /\ call[c].kind = "record" => ~call[c].probe

LEMMA NoProbePolicyStep ==
    ASSUME TypeOK, NoProbe, NEW c \in Callers, CallerStep(c)
    PROVE  NoProbe'
<1>1. /\ call \in [Callers -> Calls] /\ exec \in [Callers -> Execs]
  BY DEF TypeOK, StoreTypeOK
<1>2. SUFFICES ASSUME NEW d \in Callers
               PROVE  /\ ~exec'[d].probe
                      /\ call'[d].kind = "admitted" => ~call'[d].admission.probe
                      /\ call'[d].kind = "record" => ~call'[d].probe
  BY DEF NoProbe
<1>3. /\ ~exec[c].probe /\ ~exec[d].probe
      /\ call[c].kind = "admitted" => ~call[c].admission.probe
      /\ call[d].kind = "admitted" => ~call[d].admission.probe
      /\ call[d].kind = "record" => ~call[d].probe
  BY DEF NoProbe
<1>4. CASE Execute(c)
  BY <1>1, <1>3, <1>4, SMT DEF Execute, Goto, CallAdmit, AdmitRequest
<1>5. CASE RunOp(c)
  BY <1>1, <1>3, <1>5, SMT DEF RunOp, NoCall
<1>6. CASE \/ ShortCircuit(c) \/ ReturnResult(c) \/ RethrowError(c)
           \/ ResetReturns(c) \/ SinkThrowsOnProbe(c)
  <2>1. Return(c)
    BY <1>6 DEF ShortCircuit, ReturnResult, RethrowError, ResetReturns,
                SinkThrowsOnProbe
  <2>2. QED
    BY <1>1, <1>3, <2>1, SMT DEF Return, NoCall, Idle
<1>7. CASE OpResolves(c) \/ OpRejects(c)
  BY <1>1, <1>3, <1>7, SMT DEF OpResolves, OpRejects, Settle, CallRecord,
                               RecordRequest
<1>8. CASE Reset(c)
  BY <1>1, <1>3, <1>8, SMT DEF Reset, Goto, CallRecord, RecordRequest
<1>9. CASE CatchAfterSuccess(c)
  <2>1. Goto(c, "recordErr") /\ CallRecord(c, FALSE, exec[c].probe)
    BY <1>9 DEF CatchAfterSuccess
  <2>2. QED
    BY <1>1, <1>3, <2>1, SMT DEF Goto, CallRecord, RecordRequest
<1>10. CASE Crash(c)
  BY <1>1, <1>3, <1>10, SMT DEF Crash, Goto
<1>11. QED
  BY <1>4, <1>5, <1>6, <1>7, <1>8, <1>9, <1>10 DEF CallerStep, PolicyStep

LEMMA NoProbeStep ==
    ASSUME Cfg.halfOpenMax = 0, SlotInv, NoProbe, [Next]_vars
    PROVE  NoProbe'
<1>1. TypeOK /\ SlotInv' /\ call \in [Callers -> Calls]
  BY SlotInvStep DEF SlotInv, TypeOK, StoreTypeOK
<1>2. ~TakesSlot
  <2>1. circuit' \in CircuitStates
    BY <1>1 DEF SlotInv, TypeOK, StoreTypeOK
  <2>2. circuit'.status = "half-open" => circuit'.probes <= Cfg.halfOpenMax
    BY <1>1 DEF SlotInv, ProbeSlotsExclusive
  <2>3. QED
    BY <2>1, <2>2, SMT DEF TakesSlot, CircuitStates
<1>3. ASSUME NEW c \in Callers, NEW x, call' = [call EXCEPT ![c] = x],
             x.kind # "record", x.kind = "admitted" => ~x.admission.probe,
             UNCHANGED exec
      PROVE  NoProbe'
  BY <1>1, <1>3, SMT DEF NoProbe
<1>4. ASSUME NEW c \in Callers, StoreAdmit(c) PROVE NoProbe'
  <2>1. PICK x : /\ call' = [call EXCEPT ![c] = x]
                 /\ \/ x = Failed
                    \/ x.kind = "admitted" /\ (x.admission.probe <=> TakesSlot)
    BY <1>1, <1>4, AdmitEffect DEF StoreAdmit
  <2>2. x.kind # "record" /\ (x.kind = "admitted" => ~x.admission.probe)
    BY <1>2, <2>1, SMT DEF Failed
  <2>3. QED
    BY <1>3, <1>4, <2>1, <2>2 DEF StoreAdmit, policyVars
<1>5. ASSUME NEW c \in Callers, StoreRecord(c) PROVE NoProbe'
  <2>1. PICK x : /\ call' = [call EXCEPT ![c] = x]
                 /\ x = Failed \/ x.kind = "recorded"
    BY <1>1, <1>5, RecordEffect DEF StoreRecord
  <2>2. x.kind \notin {"record", "admitted"}
    BY <2>1, SMT DEF Failed
  <2>3. QED
    BY <1>3, <1>5, <2>1, <2>2 DEF StoreRecord, policyVars
<1>6. ASSUME NEW c \in Callers, StoreReject(c) PROVE NoProbe'
  <2>1. Failed.kind = "failed"
    BY DEF Failed
  <2>2. QED
    BY <1>3, <1>6, <2>1 DEF StoreReject, Reject
<1>7. CASE Pass \/ Recover \/ UNCHANGED vars
  BY <1>7 DEF Pass, Tick, Recover, vars, NoProbe
<1>8. QED
  BY <1>1, <1>4, <1>5, <1>6, <1>7, NoProbePolicyStep DEF Next, StoreStep

\* A configuration with halfOpenMax 0 never grants a probe, whatever goes wrong,
\* and its half-open circuit is left only by the result of an operation admitted
\* while it was closed, or by a reset: no caller that arrives can bring it back.
THEOREM WithoutSlotsOnlyLateResults ==
    ASSUME Cfg.halfOpenMax = 0
    PROVE  Spec => /\ [](\A c \in Callers : ~InProbe(c))
                   /\ [][circuit.status = "half-open" /\ circuit' # circuit =>
                           \E c \in Callers : /\ call[c].kind = "record"
                                              /\ ~call[c].probe
                                              /\ call[c] # call'[c]]_vars
<1> DEFINE Inv == SlotInv /\ NoProbe
           LeavesHalfOpen == circuit.status = "half-open" /\ circuit' # circuit
           ByLateResult == \E c \in Callers : /\ call[c].kind = "record"
                                              /\ ~call[c].probe
                                              /\ call[c] # call'[c]
<1>1. Init => Inv
  <2>1. Init => NoProbe
    BY SMT DEF Init, StoreInit, Idle, NoCall, NoProbe
  <2>2. QED
    BY <2>1, SlotInvInit
<1>2. Inv /\ [Next]_vars => Inv'
  BY SlotInvStep, NoProbeStep
<1>3. Inv => \A c \in Callers : ~InProbe(c)
  BY DEF NoProbe, InProbe
<1>4. Inv /\ [Next]_vars => [LeavesHalfOpen => ByLateResult]_vars
  <2> SUFFICES ASSUME SlotInv, NoProbe, [Next]_vars, LeavesHalfOpen
               PROVE  ByLateResult
    OBVIOUS
  <2>1. TypeOK /\ circuit \in CircuitStates
    BY DEF SlotInv, TypeOK, StoreTypeOK
  <2>2. ASSUME NEW c \in Callers, StoreAdmit(c) PROVE FALSE
    <3>1. PICK now \in Nat : circuit' = computeAdmit(circuit, Cfg, now).state
      BY <2>1, <2>2, AdmitEffect DEF StoreAdmit
    <3>2. circuit'.status = "half-open"
      BY <2>1, <3>1, AdmitNeverOpens, CfgAssumption
    <3>3. circuit.probes < Cfg.halfOpenMax
      BY <2>1, <3>1, <3>2, AdmitSlots, CfgAssumption
    <3>4. QED
      BY <2>1, <3>3, SMT DEF CircuitStates
  <2>3. ASSUME NEW c \in Callers, StoreRecord(c) PROVE ByLateResult
    <3>1. call[c].kind = "record" /\ ~call[c].probe
      BY <2>1, <2>3, RecordEffect DEF StoreRecord, NoProbe
    <3>2. PICK x : /\ call' = [call EXCEPT ![c] = x]
                   /\ x.kind = "recorded" \/ x = Failed
      BY <2>1, <2>3, RecordEffect DEF StoreRecord
    <3>3. call[c] # call'[c]
      BY <2>1, <3>1, <3>2, SMT DEF TypeOK, StoreTypeOK, Failed
    <3>4. QED
      BY <3>1, <3>3
  <2>4. QED
    BY <2>2, <2>3, OtherSteps
<1>5. QED
  BY <1>1, <1>2, <1>3, <1>4, PTL DEF Spec

-----------------------------------------------------------------------------
(* No slot leaks *)

\* Strengthening, without faults: nobody crashes or gets an error reply, and a
\* caller granted a slot of this period is on its way to recording an outcome.
SlotsHeld ==
    \A c \in Callers :
        /\ call[c].kind # "failed" /\ ~At(c, "crashed")
        /\ call[c].kind = "admit" => At(c, "admit")
        /\ call[c].kind = "admitted" /\ call[c].admission.probe
              => call[c].admission.allow
        /\ c \in probing => HoldsSlot(c) /\ call[c].kind # "recorded"

SlotsCounted == circuit.status = "half-open" => circuit.probes = Cardinality(probing)

LEMMA SlotsHeldPolicyStep ==
    ASSUME TypeOK, SlotsHeld, Faults = {}, NEW c \in Callers,
           PolicyStep(c) \/ SinkThrowsOnProbe(c) \/ Crash(c)
    PROVE  SlotsHeld'
<1>1. /\ call \in [Callers -> Calls] /\ exec \in [Callers -> Execs]
  BY DEF TypeOK, StoreTypeOK
<1>2. probing' = probing
  BY DEF PolicyStep, Execute, RunOp, ShortCircuit, OpResolves, OpRejects,
         ReturnResult, CatchAfterSuccess, RethrowError, Reset, ResetReturns,
         SinkThrowsOnProbe, Crash, Local
<1> USE DEF At, HoldsSlot, InProbe
<1>3. SUFFICES ASSUME NEW d \in Callers
               PROVE  /\ call'[d].kind # "failed" /\ exec'[d].pc # "crashed"
                      /\ call'[d].kind = "admit" => exec'[d].pc = "admit"
                      /\ call'[d].kind = "admitted" /\ call'[d].admission.probe
                            => call'[d].admission.allow
                      /\ d \in probing => /\ HoldsSlot(d)'
                                          /\ call'[d].kind # "recorded"
  BY <1>2 DEF SlotsHeld
<1>4. /\ call[d].kind # "failed" /\ exec[d].pc # "crashed"
      /\ call[d].kind = "admit" => exec[d].pc = "admit"
      /\ call[d].kind = "admitted" /\ call[d].admission.probe
            => call[d].admission.allow
      /\ d \in probing => HoldsSlot(d) /\ call[d].kind # "recorded"
  BY DEF SlotsHeld
<1>5. CASE Execute(c)
  BY <1>1, <1>4, <1>5, SMT DEF Execute, Goto, CallAdmit, AdmitRequest
<1>6. CASE RunOp(c)
  BY <1>1, <1>4, <1>6, SMT DEF RunOp, NoCall
<1>7. CASE ShortCircuit(c)
  BY <1>1, <1>4, <1>7, SMT DEF ShortCircuit, Return, NoCall, Idle
<1>8. CASE ReturnResult(c) \/ RethrowError(c) \/ ResetReturns(c)
  BY <1>1, <1>4, <1>8, SMT DEF ReturnResult, RethrowError, ResetReturns, Return,
                              NoCall, Idle
<1>9. CASE OpResolves(c) \/ OpRejects(c)
  BY <1>1, <1>4, <1>9, SMT DEF OpResolves, OpRejects, Settle, CallRecord,
                              RecordRequest
<1>10. CASE Reset(c)
  BY <1>1, <1>4, <1>10, SMT DEF Reset, Goto, CallRecord, RecordRequest
<1>11. ~CatchAfterSuccess(c) /\ ~SinkThrowsOnProbe(c) /\ ~Crash(c)
  BY DEF CatchAfterSuccess, SinkThrowsOnProbe, Crash, SlotsHeld
<1>12. QED
  BY <1>5, <1>6, <1>7, <1>8, <1>9, <1>10, <1>11 DEF PolicyStep

LEMMA SlotsHeldStoreStep ==
    ASSUME TypeOK, SlotInv, SlotsHeld, SlotsCounted, Faults = {},
           NEW c \in Callers, StoreAdmit(c) \/ StoreRecord(c)
    PROVE  SlotsHeld' /\ SlotsCounted'
<1>1. /\ call \in [Callers -> Calls] /\ exec \in [Callers -> Execs]
      /\ circuit \in CircuitStates
  BY DEF TypeOK, StoreTypeOK
<1>2. CASE StoreRecord(c)
  <2>1. circuit'.status # "half-open"
    BY <1>1, <1>2, RecordEffect, RecordEndsHalfOpen, CfgAssumption DEF StoreRecord
  <2>2. probing' = {}
    BY <1>2, <2>1 DEF StoreRecord, Observe
  <2>3. PICK x : call' = [call EXCEPT ![c] = x] /\ x.kind = "recorded"
    BY <1>2, RecordEffect DEF StoreRecord
  <2>4. exec' = exec
    BY <1>2 DEF StoreRecord, policyVars
  <2>5. SlotsHeld'
    BY <1>1, <2>2, <2>3, <2>4, SMT DEF SlotsHeld, At
  <2>6. QED
    BY <2>1, <2>5 DEF SlotsCounted
<1>3. CASE StoreAdmit(c)
  <2>1. PICK x : /\ call' = [call EXCEPT ![c] = x] /\ x.kind = "admitted"
                 /\ x.admission.probe <=> TakesSlot
                 /\ x.admission.probe => x.admission.allow
    BY <1>3, AdmitEffect DEF StoreAdmit
  <2>2. exec' = exec
    BY <1>3 DEF StoreAdmit, policyVars
  <2>3. call[c].kind = "admit"
    BY <1>3, AdmitEffect DEF StoreAdmit
  <2>4. c \notin probing /\ exec[c].pc = "admit"
    BY <2>3, SMT DEF SlotsHeld, HoldsSlot, InProbe, At
  <2>5. probing' = IF circuit'.status # "half-open" THEN {}
                   ELSE IF TakesSlot THEN probing \cup {c} ELSE probing
    BY <1>3, <2>3, SMT DEF StoreAdmit, Observe, TakesSlot
  <2>6. SlotsHeld'
    <3>1. SUFFICES ASSUME NEW d \in Callers
                   PROVE  /\ call'[d].kind # "failed" /\ exec'[d].pc # "crashed"
                          /\ call'[d].kind = "admit" => exec'[d].pc = "admit"
                          /\ call'[d].kind = "admitted" /\ call'[d].admission.probe
                                => call'[d].admission.allow
                          /\ d \in probing' => /\ HoldsSlot(d)'
                                               /\ call'[d].kind # "recorded"
      BY DEF SlotsHeld, At
    <3>2. CASE d = c
      <4>1. call'[c] = x
        BY <1>1, <2>1
      <4>2. c \in probing' => x.admission.probe
        BY <2>1, <2>4, <2>5
      <4>3. exec'[c].pc = "admit"
        BY <2>2, <2>4
      <4>4. QED
        BY <2>1, <3>2, <4>1, <4>2, <4>3, SMT DEF HoldsSlot, At
    <3>3. CASE d # c
      <4>1. call'[d] = call[d] /\ exec'[d] = exec[d]
        BY <1>1, <2>1, <2>2, <3>3
      <4>2. d \in probing' => d \in probing
        BY <2>5, <3>3
      <4>3. QED
        BY <4>1, <4>2 DEF SlotsHeld, HoldsSlot, InProbe, At
    <3>4. QED
      BY <3>2, <3>3
  <2>7. SlotsCounted'
    <3> SUFFICES ASSUME circuit'.status = "half-open"
                 PROVE  circuit'.probes = Cardinality(probing')
      BY DEF SlotsCounted
    <3>1. PICK now \in Nat : circuit' = computeAdmit(circuit, Cfg, now).state
      BY <1>3, AdmitEffect DEF StoreAdmit
    <3>2. \/ circuit' = circuit
          \/ /\ circuit.status = "half-open"
             /\ circuit'.probes = circuit.probes + 1
          \/ /\ circuit.status # "half-open"
             /\ circuit'.probes \in {0, 1}
      BY <1>1, <3>1, AdmitSlots, CfgAssumption
    <3>3. IsFiniteSet(probing) /\ Cardinality(probing) \in Nat
      BY FS_CardinalityType DEF SlotInv
    <3>4. Cardinality(probing \cup {c}) = Cardinality(probing) + 1
      BY <2>4, <3>3, FS_AddElement
    <3>5. circuit.status # "half-open" => Cardinality(probing) = 0
      BY FS_EmptySet DEF SlotInv
    <3>6. circuit.status = "half-open" => circuit.probes = Cardinality(probing)
      BY DEF SlotsCounted
    <3>7. circuit.probes \in Nat
      BY <1>1 DEF CircuitStates
    <3>8. TakesSlot <=> circuit' # circuit /\ circuit'.probes > 0
      BY DEF TakesSlot
    <3>9. CASE circuit' = circuit
      BY <2>5, <3>6, <3>8, <3>9
    <3>10. CASE circuit.status = "half-open" /\ circuit'.probes = circuit.probes + 1
      <4>1. TakesSlot
        BY <3>7, <3>8, <3>10, SMT
      <4>2. QED
        BY <2>5, <3>4, <3>6, <3>10, <4>1
    <3>11. CASE circuit.status # "half-open" /\ circuit'.probes \in {0, 1}
      <4>1. TakesSlot <=> circuit'.probes = 1
        BY <3>8, <3>11, SMT
      <4>2. QED
        BY <2>5, <3>3, <3>4, <3>5, <3>11, <4>1, SMT
    <3>12. QED
      BY <3>2, <3>9, <3>10, <3>11
  <2>8. QED
    BY <2>6, <2>7
<1>4. QED
  BY <1>2, <1>3

\* Without faults every slot taken in a half-open circuit belongs to a caller
\* that will still record its outcome: no interleaving of late results, resets
\* and admits loses one.
THEOREM NoSlotLeakedHolds ==
    ASSUME Faults = {}
    PROVE  Spec => []NoSlotLeaked
<1> DEFINE Inv == SlotInv /\ SlotsHeld /\ SlotsCounted
<1>1. Init => Inv
  <2> SUFFICES ASSUME Init PROVE Inv
    OBVIOUS
  <2>1. SlotInv
    BY SlotInvInit
  <2>2. SlotsHeld
    BY SMT DEF Init, StoreInit, SlotsHeld, NoCall, Idle, At
  <2>3. SlotsCounted
    BY SMT DEF Init, StoreInit, INITIAL_CIRCUIT_STATE, SlotsCounted
  <2>4. QED
    BY <2>1, <2>2, <2>3
<1>2. Inv /\ [Next]_vars => Inv'
  <2> SUFFICES ASSUME SlotInv, SlotsHeld, SlotsCounted, [Next]_vars PROVE Inv'
    OBVIOUS
  <2>1. SlotInv' /\ TypeOK
    BY SlotInvStep DEF SlotInv
  <2>2. ASSUME NEW c \in Callers, StoreAdmit(c) \/ StoreRecord(c)
        PROVE  SlotsHeld' /\ SlotsCounted'
    BY <2>1, <2>2, SlotsHeldStoreStep
  <2>3. ASSUME UNCHANGED <<circuit, probing, streak>> PROVE SlotsCounted'
    BY <2>3 DEF SlotsCounted
  <2>4. ASSUME NEW c \in Callers, CallerStep(c) PROVE SlotsHeld'
    BY <2>1, <2>4, SlotsHeldPolicyStep DEF CallerStep
  <2>5. ASSUME NEW c \in Callers, StoreReject(c) PROVE FALSE
    BY <2>5 DEF StoreReject, SlotsHeld
  <2>6. ASSUME Pass \/ Recover \/ UNCHANGED vars PROVE SlotsHeld'
    BY <2>6, SMT DEF Pass, Tick, Recover, vars, SlotsHeld, HoldsSlot, InProbe, At
  <2>7. SlotsHeld'
    BY <2>2, <2>4, <2>5, <2>6 DEF Next, StoreStep
  <2>8. SlotsCounted'
    BY <2>2, <2>3, OtherSteps
  <2>9. QED
    BY <2>1, <2>7, <2>8
<1>3. Inv => NoSlotLeaked
  <2> SUFFICES ASSUME SlotInv, SlotsHeld, SlotsCounted PROVE NoSlotLeaked
    OBVIOUS
  <2>1. {c \in probing : HoldsSlot(c)} = probing
    BY DEF SlotInv, TypeOK, SlotsHeld
  <2>2. QED
    BY <2>1 DEF SlotsCounted, NoSlotLeaked
<1>4. QED
  BY <1>1, <1>2, <1>3, PTL DEF Spec

-----------------------------------------------------------------------------
(* The cool-down under skewed clocks and late results *)

LEMMA CoolDownInit == Init => CoolDownBounded
BY SMT DEF Init, StoreInit, INITIAL_CIRCUIT_STATE, CoolDownBounded

\* What a record makes of the deadline: it keeps it, or computes it from a
\* reading of a clock.
LEMMA RecordDeadline ==
    ASSUME TypeOK, NEW c \in Callers, StoreRecord(c), circuit'.status = "open"
    PROVE  \/ circuit.status = "open" /\ circuit'.openUntil = circuit.openUntil
           \/ /\ circuit'.openUntil <= clock + Cfg.cooldownMs + Skew
              /\ call[c].since + Cfg.cooldownMs <= circuit'.openUntil + Skew
<1>1. /\ circuit \in CircuitStates /\ clock \in Nat
      /\ call[c] \in Calls /\ Cfg.cooldownMs \in Nat
  BY CfgAssumption, SMT DEF TypeOK, StoreTypeOK, BreakerConfigs
<1>2. PICK now \in Nat :
         /\ now <= clock + Skew /\ call[c].since <= now + Skew
         /\ circuit' = computeRecord(circuit, Cfg, call[c].ok,
                                     call[c].probe, now).state
  BY RecordEffect DEF StoreRecord
<1>3. /\ call[c].ok \in BOOLEAN /\ call[c].probe \in BOOLEAN
      /\ call[c].kind = "record"
  BY RecordEffect DEF StoreRecord
<1>4. call[c].since \in Nat
  BY <1>1, <1>3, CallsKinds
<1>5. \/ circuit'.openUntil = now + Cfg.cooldownMs
      \/ circuit.status = "open" /\ circuit'.openUntil = circuit.openUntil
  BY <1>1, <1>2, <1>3, OpenDeadline, CfgAssumption
<1>6. QED
  BY <1>1, <1>2, <1>4, <1>5, SkewAssumption, SMT

LEMMA CoolDownStep == TypeOK /\ CoolDownBounded /\ [Next]_vars => CoolDownBounded'
<1> SUFFICES ASSUME TypeOK, CoolDownBounded, [Next]_vars PROVE CoolDownBounded'
  OBVIOUS
<1>1. /\ circuit \in CircuitStates /\ clock \in Nat /\ Cfg.cooldownMs \in Nat
  BY CfgAssumption, SMT DEF TypeOK, StoreTypeOK, BreakerConfigs
<1>2. ASSUME NEW c \in Callers, StoreAdmit(c) PROVE CoolDownBounded'
  <2>1. PICK now \in Nat : circuit' = computeAdmit(circuit, Cfg, now).state
    BY <1>2, AdmitEffect DEF StoreAdmit
  <2>2. circuit'.status = "open" => circuit' = circuit
    BY <1>1, <2>1, OpenDeadline, CfgAssumption
  <2>3. clock' = clock
    BY <1>2, AdmitEffect DEF StoreAdmit
  <2>4. QED
    BY <2>2, <2>3 DEF CoolDownBounded
<1>3. ASSUME NEW c \in Callers, StoreRecord(c) PROVE CoolDownBounded'
  <2>1. clock' = clock
    BY <1>3, RecordEffect DEF StoreRecord
  <2>2. QED
    BY <1>3, <2>1, RecordDeadline DEF CoolDownBounded
<1>4. ASSUME UNCHANGED circuit, clock' = clock \/ clock' = clock + 1
      PROVE  CoolDownBounded'
  BY <1>1, <1>4, SkewAssumption, SMT DEF CoolDownBounded, CircuitStates
<1>5. clock' = clock \/ clock' = clock + 1
  <2>1. ASSUME NEW c \in Callers, StoreStep(c) PROVE clock' = clock
    BY <2>1 DEF StoreStep, StoreAdmit, StoreRecord, StoreReject, Admit, Record, Reject
  <2>2. ASSUME NEW c \in Callers, CallerStep(c) PROVE clock' = clock
    BY <2>2 DEF CallerStep, PolicyStep, Execute, RunOp, ShortCircuit, OpResolves,
       OpRejects, ReturnResult, CatchAfterSuccess, RethrowError, Reset,
       ResetReturns, SinkThrowsOnProbe, Crash, Local
  <2>3. QED
    BY <2>1, <2>2 DEF Next, Pass, Tick, Recover, vars
<1>6. QED
  BY <1>2, <1>3, <1>4, <1>5, OtherSteps

\* Whatever the clocks of the processes and however late their results, the
\* deadline of an open circuit is at most one cool-down away, by the reading of
\* the fastest clock.
THEOREM CoolDownBoundedHolds == Spec => []CoolDownBounded
<1>1. Init => TypeOK /\ CoolDownBounded
  BY TypeCorrectInit, CoolDownInit
<1>2. TypeOK /\ CoolDownBounded /\ [Next]_vars => (TypeOK /\ CoolDownBounded)'
  BY TypeCorrectStep, CoolDownStep
<1>3. QED
  BY <1>1, <1>2, PTL DEF Spec

\* A failure that reaches the store out of order shortens the cool-down of an
\* open circuit by no more than its own delay and the error of two readings.
THEOREM CoolDownKeptHolds == Spec => CoolDownKept
<1> DEFINE Inv == TypeOK /\ CoolDownBounded
           StaysOpen == circuit.status = "open" /\ circuit'.status = "open"
           Kept == \/ circuit'.openUntil >= circuit.openUntil
                   \/ \E c \in Callers :
                         /\ call[c].kind = "record" /\ call[c] # call'[c]
                         /\ circuit'.openUntil + (clock - call[c].since) + 2 * Skew
                               >= circuit.openUntil
<1>1. Init => Inv
  BY TypeCorrectInit, CoolDownInit
<1>2. Inv /\ [Next]_vars => Inv'
  BY TypeCorrectStep, CoolDownStep
<1>3. Inv /\ [Next]_vars => [StaysOpen => Kept]_vars
  <2> SUFFICES ASSUME TypeOK, CoolDownBounded, [Next]_vars, StaysOpen PROVE Kept
    OBVIOUS
  <2>1. /\ circuit \in CircuitStates /\ clock \in Nat /\ Cfg.cooldownMs \in Nat
    BY CfgAssumption, SMT DEF TypeOK, StoreTypeOK, BreakerConfigs
  <2>2. circuit' = circuit => Kept
    BY <2>1, SMT DEF CircuitStates
  <2>3. ASSUME NEW c \in Callers, StoreAdmit(c) PROVE Kept
    <3>1. PICK now \in Nat : circuit' = computeAdmit(circuit, Cfg, now).state
      BY <2>3, AdmitEffect DEF StoreAdmit
    <3>2. QED
      BY <2>1, <2>2, <3>1, OpenDeadline, CfgAssumption
  <2>4. ASSUME NEW c \in Callers, StoreRecord(c), circuit'.openUntil # circuit.openUntil
        PROVE  Kept
    <3>1. /\ call[c].kind = "record" /\ call[c] \in Calls
          /\ circuit' \in CircuitStates
      BY <2>4, RecordEffect DEF StoreRecord, TypeOK, StoreTypeOK
    <3>2. call[c].since \in Nat
      BY <3>1, CallsKinds
    <3>3. PICK x : call' = [call EXCEPT ![c] = x] /\ (x.kind = "recorded" \/ x = Failed)
      BY <2>4, RecordEffect DEF StoreRecord
    <3>4. call[c] # call'[c]
      BY <3>1, <3>3, SMT DEF TypeOK, StoreTypeOK, Failed
    <3>5. call[c].since + Cfg.cooldownMs <= circuit'.openUntil + Skew
      BY <2>4, RecordDeadline
    <3>6. circuit.openUntil <= clock + Cfg.cooldownMs + Skew
      BY DEF CoolDownBounded
    <3>7. circuit'.openUntil + (clock - call[c].since) + 2 * Skew >= circuit.openUntil
      BY <2>1, <3>1, <3>2, <3>5, <3>6, SkewAssumption, SMT DEF CircuitStates
    <3>8. QED
      BY <3>1, <3>4, <3>7
  <2>5. circuit'.openUntil = circuit.openUntil => Kept
    BY <2>1, SMT DEF CircuitStates
  <2>6. QED
    BY <2>2, <2>3, <2>4, <2>5, OtherSteps
<1>4. QED
  BY <1>1, <1>2, <1>3, PTL DEF Spec, CoolDownKept

=============================================================================
