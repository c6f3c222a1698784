------------------------- MODULE CircuitStateProofs -------------------------
(* What computeAdmit and computeRecord return, for every state and time. *)
EXTENDS CircuitState, TLAPS

\* Both decisions keep the circuit state and their answers well formed.
LEMMA AdmitType ==
    ASSUME NEW prev \in CircuitStates, NEW cfg \in BreakerConfigs, NEW now \in Nat
    PROVE  /\ computeAdmit(prev, cfg, now).state \in CircuitStates
           /\ computeAdmit(prev, cfg, now).admission \in Admissions
<1> DEFINE thawed == Thaw(prev, now)
           probe  == Grants(thawed, cfg)
<1>1. thawed \in CircuitStates
  BY SMT DEF Thaw, HalfOpen, CircuitStates, CircuitStatus
<1>2. HalfOpen(thawed, thawed.probes + 1) \in CircuitStates
  BY <1>1, SMT DEF HalfOpen, CircuitStates, CircuitStatus
<1>3. probe \in BOOLEAN
  BY DEF Grants
<1>4. [allow |-> thawed.status = "closed" \/ probe, probe |-> probe,
       status |-> thawed.status] \in Admissions
  <2>1. thawed.status \in CircuitStatus
    BY <1>1 DEF CircuitStates
  <2> HIDE DEF thawed, probe
  <2>2. QED
    BY <1>3, <2>1 DEF Admissions
<1> HIDE DEF thawed
<1>5. QED
  BY <1>1, <1>2, <1>4, SMT DEF computeAdmit, thawed

LEMMA RecordType ==
    ASSUME NEW prev \in CircuitStates, NEW cfg \in BreakerConfigs,
           NEW ok \in BOOLEAN, NEW probe, NEW now \in Nat
    PROVE  /\ computeRecord(prev, cfg, ok, probe, now).state \in CircuitStates
           /\ computeRecord(prev, cfg, ok, probe, now).status \in CircuitStatus
<1> DEFINE released == Release(prev, probe)
<1>1. released \in CircuitStates
  BY SMT DEF Release, CircuitStates, CircuitStatus
<1>2. Close(released) \in CircuitStates
  BY <1>1, SMT DEF Close, CircuitStates, CircuitStatus
<1>3. \A s \in CircuitStates : Trip(s, cfg, now) \in CircuitStates
  BY SMT DEF Trip, CircuitStates, CircuitStatus, BreakerConfigs
<1>4. CountFailure(released, cfg, now) \in CircuitStates
  <2>1. [released EXCEPT !.failures = @ + 1] \in CircuitStates
    BY <1>1, SMT DEF CircuitStates
  <2>2. QED
    BY <2>1, <1>3, SMT DEF CountFailure
<1>5. \A s \in CircuitStates : s.status \in CircuitStatus
  BY SMT DEF CircuitStates
<1>6. QED
  BY <1>1, <1>2, <1>3, <1>4, <1>5, SMT DEF computeRecord

\* An admit takes a slot only of a half-open circuit that has one free, and it
\* starts a half-open period with every slot free.
LEMMA AdmitSlots ==
    ASSUME NEW prev \in CircuitStates, NEW cfg \in BreakerConfigs, NEW now \in Nat,
           NEW next, next = computeAdmit(prev, cfg, now).state
    PROVE  /\ next.status = "half-open" /\ prev.status = "half-open"
                => \/ next = prev
                   \/ /\ prev.probes < cfg.halfOpenMax
                      /\ next.probes = prev.probes + 1
           /\ next.status = "half-open" /\ prev.status # "half-open"
                => \/ next.probes = 0
                   \/ next.probes = 1 /\ 1 <= cfg.halfOpenMax
           /\ computeAdmit(prev, cfg, now).admission.probe
                <=> (next.status = "half-open" /\ next # prev /\ next.probes > 0)
<1> DEFINE probe == computeAdmit(prev, cfg, now).admission.probe
<1>1. CASE Grants(Thaw(prev, now), cfg)
  <2>1. next = HalfOpen(Thaw(prev, now), Thaw(prev, now).probes + 1) /\ probe
    BY <1>1, SMT DEF computeAdmit
  <2>2. /\ next.status = "half-open"
        /\ next.probes = Thaw(prev, now).probes + 1
        /\ Thaw(prev, now).probes < cfg.halfOpenMax
    BY <1>1, <2>1, SMT DEF HalfOpen, Grants
  <2>3. \/ Thaw(prev, now) = prev /\ prev.status = "half-open"
        \/ Thaw(prev, now).probes = 0 /\ prev.status = "open"
    BY <1>1, SMT DEF Thaw, HalfOpen, Grants
  <2>4. /\ prev.probes \in Nat
        /\ cfg.halfOpenMax \in Nat
    BY DEF CircuitStates, BreakerConfigs
  <2>5. next # prev
    BY <2>2, <2>3, <2>4, SMT
  <2>6. QED
    BY <2>1, <2>2, <2>3, <2>4, <2>5, SMT
<1>2. CASE ~Grants(Thaw(prev, now), cfg)
  <2>1. next = Thaw(prev, now) /\ ~probe
    BY <1>2, SMT DEF computeAdmit
  <2>2. next = prev \/ (prev.status = "open" /\ next.probes = 0)
    BY <2>1, SMT DEF Thaw, HalfOpen
  <2>3. QED
    BY <2>1, <2>2, SMT
<1>3. QED
  BY <1>1, <1>2

\* An admit never opens a circuit, and a granted probe is let through.
LEMMA AdmitNeverOpens ==
    ASSUME NEW prev \in CircuitStates, NEW cfg \in BreakerConfigs, NEW now \in Nat
    PROVE  /\ computeAdmit(prev, cfg, now).state.status
                \in {prev.status, "half-open"}
           /\ computeAdmit(prev, cfg, now).admission.probe
                => computeAdmit(prev, cfg, now).admission.allow
<1>1. Thaw(prev, now).status \in {prev.status, "half-open"}
  BY SMT DEF Thaw, HalfOpen
<1>2. CASE Grants(Thaw(prev, now), cfg)
  <2>1. computeAdmit(prev, cfg, now).state.status = "half-open"
    BY <1>2, SMT DEF computeAdmit, HalfOpen
  <2>2. computeAdmit(prev, cfg, now).admission.allow
    BY <1>2, Zenon DEF computeAdmit
  <2>3. QED
    BY <2>1, <2>2
<1>3. CASE ~Grants(Thaw(prev, now), cfg)
  <2>1. computeAdmit(prev, cfg, now).state = Thaw(prev, now)
    BY <1>3, SMT DEF computeAdmit
  <2>2. ~computeAdmit(prev, cfg, now).admission.probe
    BY <1>3, Zenon DEF computeAdmit
  <2>3. QED
    BY <1>1, <2>1, <2>2
<1>4. QED
  BY <1>2, <1>3

\* Any result, of whatever age and caller, ends a half-open period.
LEMMA RecordEndsHalfOpen ==
    ASSUME NEW prev \in CircuitStates, NEW cfg \in BreakerConfigs,
           NEW ok \in BOOLEAN, NEW probe \in BOOLEAN, NEW now \in Nat
    PROVE  computeRecord(prev, cfg, ok, probe, now).state.status # "half-open"
BY SMT DEF computeRecord, Release, Close, Trip, CountFailure, CircuitStates,
           CircuitStatus, BreakerConfigs

\* A success leaves a closed circuit without failures; a failure that leaves
\* the circuit closed is a counted one that stays below the threshold.
LEMMA RecordFailures ==
    ASSUME NEW prev \in CircuitStates, NEW cfg \in BreakerConfigs,
           NEW ok \in BOOLEAN, NEW probe \in BOOLEAN, NEW now \in Nat,
           NEW next, next = computeRecord(prev, cfg, ok, probe, now).state
    PROVE  /\ ok => next.failures = 0
           /\ ~ok /\ next.status = "closed"
                => /\ prev.status = "closed" /\ ~probe
                   /\ next.failures = prev.failures + 1
                   /\ next.failures < cfg.threshold
BY SMT DEF computeRecord, Release, Close, Trip, CountFailure, CircuitStates,
           CircuitStatus, BreakerConfigs

\* What opens a closed circuit: a failure that completes the count, or a probe's.
LEMMA RecordOpens ==
    ASSUME NEW prev \in CircuitStates, NEW cfg \in BreakerConfigs,
           NEW probe \in BOOLEAN, NEW now \in Nat, prev.status = "closed",
           computeRecord(prev, cfg, FALSE, probe, now).state.status = "open"
    PROVE  probe \/ prev.failures + 1 >= cfg.threshold
BY SMT DEF computeRecord, Release, Trip, CountFailure, CircuitStates,
           CircuitStatus, BreakerConfigs

\* An open circuit either keeps its deadline or has one computed from now.
LEMMA OpenDeadline ==
    ASSUME NEW prev \in CircuitStates, NEW cfg \in BreakerConfigs, NEW now \in Nat
    PROVE  /\ computeAdmit(prev, cfg, now).state.status = "open"
                => computeAdmit(prev, cfg, now).state = prev
           /\ \A ok \in BOOLEAN : \A probe :
                LET next == computeRecord(prev, cfg, ok, probe, now).state
                IN  next.status = "open" =>
                       \/ next.openUntil = now + cfg.cooldownMs
                       \/ prev.status = "open" /\ next.openUntil = prev.openUntil
<1>1. computeAdmit(prev, cfg, now).state.status = "open"
         => computeAdmit(prev, cfg, now).state = prev
  BY SMT DEF computeAdmit, Thaw, HalfOpen, Grants
<1>2. ASSUME NEW ok \in BOOLEAN, NEW probe,
             NEW next, next = computeRecord(prev, cfg, ok, probe, now).state,
             next.status = "open"
      PROVE  \/ next.openUntil = now + cfg.cooldownMs
             \/ prev.status = "open" /\ next.openUntil = prev.openUntil
  BY <1>2, SMT DEF computeRecord, Release, Close, Trip, CountFailure,
     CircuitStates, CircuitStatus, BreakerConfigs
<1>3. QED
  BY <1>1, <1>2

=============================================================================
