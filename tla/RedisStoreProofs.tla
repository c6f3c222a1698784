--------------------------- MODULE RedisStoreProofs ---------------------------
(***************************************************************************)
(* The two Lua scripts, on a hash with missing fields, implement the       *)
(* atomic store, for every set of callers and faults, every configuration  *)
(* and every bound Skew on the error of the clocks.                        *)
(***************************************************************************)
EXTENDS RedisStore, CircuitStateProofs

-----------------------------------------------------------------------------
(* The hash *)

\* What HSET leaves to be read.
LEMMA HSetState ==
    ASSUME NEW h, NEW fields
    PROVE  State(HSet(h, fields)) =
             [status    |-> IF "status" \in DOMAIN fields
                            THEN fields["status"] ELSE StatusOf(h),
              failures  |-> IF "failures" \in DOMAIN fields
                            THEN fields["failures"] ELSE Number(h, "failures"),
              openUntil |-> IF "openUntil" \in DOMAIN fields
                            THEN fields["openUntil"] ELSE Number(h, "openUntil"),
              probes    |-> IF "probes" \in DOMAIN fields
                            THEN fields["probes"] ELSE Number(h, "probes")]
<1>1. StatusOf(HSet(h, fields)) = IF "status" \in DOMAIN fields
                                  THEN fields["status"] ELSE StatusOf(h)
  BY DEF StatusOf, HGet, HSet
<1>2. \A f : Number(HSet(h, fields), f) = IF f \in DOMAIN fields
                                         THEN fields[f] ELSE Number(h, f)
  BY DEF Number, HGet, HSet
<1>3. QED
  BY <1>1, <1>2 DEF State

\* The updates the scripts make, as updates of the state.
LEMMA ScriptUpdates ==
    ASSUME NEW h
    PROVE  /\ \A s, n : State(HSet(h, [status |-> s, probes |-> n]))
                = [status |-> s, failures |-> Number(h, "failures"),
                   openUntil |-> Number(h, "openUntil"), probes |-> n]
           /\ \A n : State(HSet(h, [probes |-> n]))
                = [status |-> StatusOf(h), failures |-> Number(h, "failures"),
                   openUntil |-> Number(h, "openUntil"), probes |-> n]
           /\ \A n : State(HSet(h, [failures |-> n]))
                = [status |-> StatusOf(h), failures |-> n,
                   openUntil |-> Number(h, "openUntil"), probes |-> Number(h, "probes")]
           /\ \A s, n : State(HSet(h, [status |-> s, openUntil |-> n]))
                = [status |-> s, failures |-> Number(h, "failures"),
                   openUntil |-> n, probes |-> Number(h, "probes")]
           /\ \A s, n, m : State(HSet(h, [status |-> s, failures |-> n, openUntil |-> m]))
                = [status |-> s, failures |-> n,
                   openUntil |-> m, probes |-> Number(h, "probes")]
BY HSetState

LEMMA StateFields ==
    ASSUME NEW h
    PROVE  /\ State(h).status = StatusOf(h)
           /\ State(h).failures = Number(h, "failures")
           /\ State(h).openUntil = Number(h, "openUntil")
           /\ State(h).probes = Number(h, "probes")
BY DEF State

-----------------------------------------------------------------------------
(* The scripts are the pure decisions *)

LEMMA ThawedIsThaw ==
    ASSUME NEW h, NEW now
    PROVE  State(Thawed(h, now)) = Thaw(State(h), now)
<1>1. HashThaws(h, now) <=> State(h).status = "open" /\ now >= State(h).openUntil
  BY StateFields DEF HashThaws
<1>2. CASE HashThaws(h, now)
  <2>1. State(Thawed(h, now)) = HalfOpen(State(h), 0)
    <3>1. Thawed(h, now) = HSet(h, [status |-> "half-open", probes |-> 0])
      BY <1>2 DEF Thawed
    <3>2. State(Thawed(h, now))
             = [status |-> "half-open", failures |-> Number(h, "failures"),
                openUntil |-> Number(h, "openUntil"), probes |-> 0]
      BY <3>1, ScriptUpdates
    <3>3. QED
      BY <3>2, StateFields, Zenon DEF HalfOpen
  <2>2. QED
    BY <1>1, <1>2, <2>1 DEF Thaw
<1>3. CASE ~HashThaws(h, now)
  BY <1>1, <1>3 DEF Thawed, Thaw
<1>4. QED
  BY <1>2, <1>3

LEMMA AdmitScript ==
    ASSUME NEW h, NEW now
    PROVE  /\ State(cbAdmit(h, now).hash) = computeAdmit(State(h), Cfg, now).state
           /\ cbAdmit(h, now).reply
                = Breaker!Admitted(computeAdmit(State(h), Cfg, now).admission)
<1> DEFINE thawed == Thawed(h, now)
           granted == StatusOf(thawed) = "half-open"
                        /\ Number(thawed, "probes") < Cfg.halfOpenMax
           taken == HSet(thawed, [probes |-> Number(thawed, "probes") + 1])
<1>1. /\ State(thawed) = Thaw(State(h), now)
      /\ granted = Grants(State(thawed), Cfg)
  <2>1. State(thawed) = Thaw(State(h), now)
    BY ThawedIsThaw
  <2>2. granted = Grants(State(thawed), Cfg)
    BY StateFields, Zenon DEF Grants
  <2>3. QED
    BY <2>1, <2>2
<1>2. granted => State(taken) = HalfOpen(State(thawed), State(thawed).probes + 1)
  <2> HIDE DEF thawed
  <2>1. State(taken) = [status |-> StatusOf(thawed),
                        failures |-> Number(thawed, "failures"),
                        openUntil |-> Number(thawed, "openUntil"),
                        probes |-> Number(thawed, "probes") + 1]
    BY ScriptUpdates, Zenon
  <2>2. QED
    BY <2>1, StateFields, Zenon DEF HalfOpen
<1>3. cbAdmit(h, now) = [hash |-> IF granted THEN taken ELSE thawed,
                         reply |-> Breaker!Admitted(
                                     [allow |-> StatusOf(thawed) = "closed" \/ granted,
                                      probe |-> granted, status |-> StatusOf(thawed)])]
  BY DEF cbAdmit
<1>4. StatusOf(thawed) = State(thawed).status
  BY StateFields
<1> HIDE DEF thawed, taken, granted
<1>5. computeAdmit(State(h), Cfg, now)
         = [state |-> IF granted THEN HalfOpen(State(thawed), State(thawed).probes + 1)
                                 ELSE State(thawed),
            admission |-> [allow |-> StatusOf(thawed) = "closed" \/ granted,
                           probe |-> granted, status |-> StatusOf(thawed)]]
  BY <1>1, <1>4, Zenon DEF computeAdmit
<1>6. CASE granted
  BY <1>2, <1>3, <1>5, <1>6
<1>7. CASE ~granted
  BY <1>3, <1>5, <1>7
<1>8. QED
  BY <1>6, <1>7

LEMMA ReleasedIsRelease ==
    ASSUME NEW h, NEW probe, State(h) \in CircuitStates
    PROVE  /\ State(Released(h, probe)) = Release(State(h), probe)
           /\ State(Released(h, probe)) \in CircuitStates
<1>1. Number(h, "probes") \in Nat /\ Number(h, "probes") = State(h).probes
  BY StateFields, SMT DEF CircuitStates
<1>2. CASE probe /\ Number(h, "probes") > 0
  <2>1. State(Released(h, probe))
           = [status |-> StatusOf(h), failures |-> Number(h, "failures"),
              openUntil |-> Number(h, "openUntil"), probes |-> Number(h, "probes") - 1]
    BY <1>2, ScriptUpdates DEF Released
  <2>2. Release(State(h), probe) = [State(h) EXCEPT !.probes = @ - 1]
    BY <1>1, <1>2 DEF Release
  <2>3. [State(h) EXCEPT !.probes = @ - 1] \in CircuitStates
    BY <1>1, <1>2, SMT DEF CircuitStates
  <2>4. [State(h) EXCEPT !.probes = @ - 1] = State(Released(h, probe))
    BY <2>1, SMT DEF State
  <2>5. QED
    BY <2>2, <2>3, <2>4
<1>3. CASE ~(probe /\ Number(h, "probes") > 0)
  BY <1>1, <1>3 DEF Released, Release
<1>4. QED
  BY <1>2, <1>3

LEMMA ClosedIsClose ==
    ASSUME NEW h, State(h) \in CircuitStates
    PROVE  State(Closed(h)) = Close(State(h))
<1>1. CASE Clean(h)
  <2>1. /\ State(h).status = "closed" /\ State(h).failures = 0
        /\ State(h).openUntil = 0
    BY <1>1, StateFields DEF Clean
  <2>2. Close(State(h)) = State(h)
    BY <2>1, SMT DEF Close, CircuitStates
  <2>3. QED
    BY <1>1, <2>2 DEF Closed
<1>2. CASE ~Clean(h)
  <2>1. Closed(h) = HSet(h, [status |-> "closed", failures |-> 0, openUntil |-> 0])
    BY <1>2 DEF Closed
  <2>2. State(Closed(h)) = [status |-> "closed", failures |-> 0, openUntil |-> 0,
                            probes |-> Number(h, "probes")]
    BY <2>1, ScriptUpdates
  <2>3. QED
    BY <2>2, StateFields DEF Close
<1>3. QED
  BY <1>1, <1>2

LEMMA OpenedIsTrip ==
    ASSUME NEW h, NEW now
    PROVE  State(Opened(h, now)) = Trip(State(h), Cfg, now)
<1>1. State(Opened(h, now))
         = [status |-> "open", failures |-> Number(h, "failures"),
            openUntil |-> now + Cfg.cooldownMs, probes |-> Number(h, "probes")]
  BY ScriptUpdates DEF Opened
<1>2. QED
  BY <1>1, StateFields DEF Trip

LEMMA RecordScript ==
    ASSUME NEW h, State(h) \in CircuitStates,
           NEW ok \in BOOLEAN, NEW probe, NEW now
    PROVE  /\ State(cbRecord(h, ok, probe, now).hash)
                = computeRecord(State(h), Cfg, ok, probe, now).state
           /\ cbRecord(h, ok, probe, now).reply
                = Breaker!Recorded(computeRecord(State(h), Cfg, ok, probe, now).status)
<1> DEFINE released == Released(h, probe)
           trips == probe \/ StatusOf(released) = "half-open"
           counted == Counted(released)
           next == CASE ok -> Closed(released)
                     [] ~ok /\ trips -> Opened(released, now)
                     [] ~ok /\ ~trips /\ counted.failures >= Cfg.threshold
                          -> Opened(counted, now)
                     [] OTHER -> counted
           record == computeRecord(State(h), Cfg, ok, probe, now)
<1>1. State(released) = Release(State(h), probe) /\ State(released) \in CircuitStates
  BY ReleasedIsRelease
<1>2. trips <=> probe \/ State(h).status = "half-open"
  <2>1. State(released).status = State(h).status
    BY <1>1, SMT DEF Release, CircuitStates
  <2>2. QED
    BY <2>1, StateFields, Zenon
<1>3. State(counted) = [State(released) EXCEPT !.failures = @ + 1]
  <2>1. State(counted)
           = [status |-> StatusOf(released),
              failures |-> Number(released, "failures") + 1,
              openUntil |-> Number(released, "openUntil"),
              probes |-> Number(released, "probes")]
    BY ScriptUpdates DEF Counted
  <2>2. QED
    BY <2>1, SMT DEF State
<1>4. /\ State(counted).failures = counted.failures
      /\ State(Closed(released)) = Close(State(released))
      /\ \A g : State(Opened(g, now)) = Trip(State(g), Cfg, now)
  <2>1. Number(counted, "failures") = counted.failures
    BY DEF Counted, HSet, Number, HGet
  <2>2. QED
    BY <1>1, <2>1, StateFields, ClosedIsClose, OpenedIsTrip
<1>5. cbRecord(h, ok, probe, now)
         = [hash |-> next, reply |-> Breaker!Recorded(StatusOf(next))]
  BY Zenon DEF cbRecord
<1> HIDE DEF released, counted, trips
<1>6. State(next) = record.state /\ record.status = record.state.status
  <2>1. record.status = record.state.status
    BY DEF computeRecord
  <2>2. CASE ok
    <3>1. next = Closed(released)
      BY <2>2
    <3>2. record.state = Close(Release(State(h), probe))
      BY <2>2 DEF computeRecord
    <3>3. QED
      BY <1>1, <1>4, <2>1, <3>1, <3>2
  <2>3. CASE ~ok /\ trips
    <3>1. next = Opened(released, now)
      BY <2>3
    <3>2. record.state = Trip(Release(State(h), probe), Cfg, now)
      BY <1>2, <2>3 DEF computeRecord
    <3>3. QED
      BY <1>1, <1>4, <2>1, <3>1, <3>2
  <2>4. CASE ~ok /\ ~trips
    <3>1. record.state = CountFailure(State(released), Cfg, now)
      BY <1>1, <1>2, <2>4 DEF computeRecord
    <3>2. CASE counted.failures >= Cfg.threshold
      <4>1. next = Opened(counted, now)
        BY <2>4, <3>2
      <4>2. record.state = Trip(State(counted), Cfg, now)
        BY <1>3, <1>4, <3>1, <3>2 DEF CountFailure
      <4>3. QED
        BY <1>4, <2>1, <4>1, <4>2
    <3>3. CASE ~(counted.failures >= Cfg.threshold)
      <4>1. next = counted
        BY <2>4, <3>3
      <4>2. record.state = State(counted)
        BY <1>3, <1>4, <3>1, <3>3 DEF CountFailure
      <4>3. QED
        BY <2>1, <4>1, <4>2
    <3>4. QED
      BY <3>2, <3>3
  <2>5. QED
    BY <2>2, <2>3, <2>4
<1> HIDE DEF next, record
<1>7. StatusOf(next) = record.status
  BY <1>6, StateFields
<1>8. QED
  BY <1>5, <1>6, <1>7 DEF record

-----------------------------------------------------------------------------
(* The invariant *)

\* The fields of a hash depend on each other as TypeOK says.
FieldsOK(h) ==
    /\ DOMAIN h \subseteq Fields
    /\ "openUntil" \in DOMAIN h <=> "status" \in DOMAIN h
    /\ "probes" \in DOMAIN h => "status" \in DOMAIN h

\* A request in flight was sent before now.
Sane(c) ==
    /\ call[c].kind \in {"admit", "record"} => call[c].since \in 0 .. clock
    /\ call[c].kind = "record" => call[c].ok \in BOOLEAN

IInv ==
    /\ TypeOK
    /\ clock \in Nat
    /\ call = [c \in Callers |-> call[c]]
    /\ \A c \in Callers : Sane(c)

LEMMA ScriptsKeepFields ==
    ASSUME NEW h, FieldsOK(h)
    PROVE  /\ \A now : FieldsOK(cbAdmit(h, now).hash)
           /\ \A ok \in BOOLEAN : \A probe, now : FieldsOK(cbRecord(h, ok, probe, now).hash)
<1>1. ASSUME NEW g, FieldsOK(g)
      PROVE  /\ StatusOf(g) # "closed" => "status" \in DOMAIN g
             /\ Number(g, "probes") > 0 => "probes" \in DOMAIN g
             /\ \A s, n, m : FieldsOK(HSet(g, [status |-> s, failures |-> n,
                                               openUntil |-> m]))
             /\ \A s, n : FieldsOK(HSet(g, [status |-> s, openUntil |-> n]))
             /\ \A n : FieldsOK(HSet(g, [failures |-> n]))
             /\ "status" \in DOMAIN g =>
                   /\ \A n : FieldsOK(HSet(g, [probes |-> n]))
                   /\ \A s, n : FieldsOK(HSet(g, [status |-> s, probes |-> n]))
  <2>1. \A fields : DOMAIN HSet(g, fields) = DOMAIN fields \cup DOMAIN g
    BY DEF HSet
  <2>2. StatusOf(g) # "closed" => "status" \in DOMAIN g
    BY DEF StatusOf, HGet
  <2>3. Number(g, "probes") > 0 => "probes" \in DOMAIN g
    BY SMT DEF Number, HGet
  <2>4. \A s, n, m : FieldsOK(HSet(g, [status |-> s, failures |-> n, openUntil |-> m]))
    BY <1>1, <2>1 DEF FieldsOK, Fields
  <2>5. \A s, n : FieldsOK(HSet(g, [status |-> s, openUntil |-> n]))
    BY <1>1, <2>1 DEF FieldsOK, Fields
  <2>6. \A n : FieldsOK(HSet(g, [failures |-> n]))
    BY <1>1, <2>1 DEF FieldsOK, Fields
  <2>7. ASSUME "status" \in DOMAIN g
        PROVE  /\ \A n : FieldsOK(HSet(g, [probes |-> n]))
               /\ \A s, n : FieldsOK(HSet(g, [status |-> s, probes |-> n]))
    BY <1>1, <2>1, <2>7 DEF FieldsOK, Fields
  <2>8. QED
    BY <2>2, <2>3, <2>4, <2>5, <2>6, <2>7
<1>2. ASSUME NEW now PROVE FieldsOK(cbAdmit(h, now).hash)
  <2>1. FieldsOK(Thawed(h, now))
    BY <1>1 DEF Thawed, HashThaws
  <2>2. cbAdmit(h, now).hash
           = IF /\ StatusOf(Thawed(h, now)) = "half-open"
                /\ Number(Thawed(h, now), "probes") < Cfg.halfOpenMax
             THEN HSet(Thawed(h, now), [probes |-> Number(Thawed(h, now), "probes") + 1])
             ELSE Thawed(h, now)
    BY DEF cbAdmit
  <2> DEFINE thawed == Thawed(h, now)
  <2> HIDE DEF thawed
  <2>3. QED
    BY <1>1, <2>1, <2>2
<1>3. ASSUME NEW ok \in BOOLEAN, NEW probe, NEW now
      PROVE  FieldsOK(cbRecord(h, ok, probe, now).hash)
  <2> DEFINE released == Released(h, probe)
  <2>1. FieldsOK(released)
    BY <1>1 DEF Released, FieldsOK
  <2>2. FieldsOK(Closed(released))
    BY <1>1, <2>1 DEF Closed
  <2>3. FieldsOK(Counted(released)) /\ \A g : FieldsOK(g) => FieldsOK(Opened(g, now))
    BY <1>1, <2>1 DEF Counted, Opened
  <2>4. cbRecord(h, ok, probe, now).hash
           \in {Closed(released), Opened(released, now),
                Opened(Counted(released), now), Counted(released)}
    BY DEF cbRecord
  <2> HIDE DEF released
  <2>5. QED
    BY <2>1, <2>2, <2>3, <2>4
<1>4. QED
  BY <1>2, <1>3

LEMMA SentReadings ==
    ASSUME IInv, NEW c \in Callers, call[c].kind \in {"admit", "record"},
           NEW now \in Sent(c)
    PROVE  now \in Nat /\ now \in Breaker!Readings(call[c].since, clock)
<1>1. call[c].since \in Nat /\ clock \in Nat /\ call[c].since <= clock
  BY SMT DEF IInv, Sane
<1>2. QED
  BY <1>1, RedisSkewAssumption, SMT DEF Sent, Breaker!Readings

LEMMA InvInit == Init => IInv
<1> SUFFICES ASSUME Init PROVE IInv
  OBVIOUS
<1>1. State(hash) = INITIAL_CIRCUIT_STATE /\ FieldsOK(hash)
  BY DEF Init, State, StatusOf, Number, HGet, INITIAL_CIRCUIT_STATE, FieldsOK
<1>2. INITIAL_CIRCUIT_STATE \in CircuitStates
  BY SMT DEF INITIAL_CIRCUIT_STATE, CircuitStates, CircuitStatus
<1>3. TypeOK
  BY <1>1, <1>2 DEF TypeOK, FieldsOK
<1>4. QED
  BY <1>3, SMT DEF Init, IInv, Sane, Breaker!NoCall

\* A request is sent now.
LEMMA CallerStepCalls ==
    ASSUME NEW c \in Callers, Breaker!CallerStep(c)
    PROVE  /\ clock' = clock
           /\ \/ call' = call
              \/ call' = [call EXCEPT ![c] = Breaker!NoCall]
              \/ call' = [call EXCEPT ![c] = Breaker!AdmitRequest(clock)]
              \/ \E ok \in BOOLEAN : \E probe :
                    call' = [call EXCEPT ![c] = Breaker!RecordRequest(clock, ok, probe)]
BY Zenon DEF Breaker!CallerStep, Breaker!PolicyStep, Breaker!Execute, Breaker!RunOp,
   Breaker!ShortCircuit, Breaker!SinkThrowsOnProbe, Breaker!OpResolves, Breaker!OpRejects,
   Breaker!ReturnResult, Breaker!CatchAfterSuccess, Breaker!RethrowError, Breaker!Reset,
   Breaker!ResetReturns, Breaker!Crash, Breaker!Local, Breaker!Return,
   Breaker!CallAdmit, Breaker!CallRecord

\* A call that is answered, withdrawn, or made now leaves all requests sane.
LEMMA SaneKept ==
    ASSUME IInv, clock' \in Nat, clock <= clock',
           \/ call' = call
           \/ \E c \in Callers : \E x :
                 /\ call' = [call EXCEPT ![c] = x]
                 /\ x.kind \in {"admit", "record"} => x.since = clock
                 /\ x.kind = "record" => x.ok \in BOOLEAN
    PROVE  /\ call' = [c \in Callers |-> call'[c]]
           /\ \A c \in Callers : Sane(c)'
<1>1. clock \in Nat /\ call = [c \in Callers |-> call[c]] /\ \A c \in Callers : Sane(c)
  BY DEF IInv
<1>2. ASSUME NEW d \in Callers, call'[d] = call[d] PROVE Sane(d)'
  <2>1. Sane(d)
    BY <1>1
  <2>2. QED
    BY <1>1, <1>2, <2>1, SMT DEF Sane
<1>3. CASE call' = call
  BY <1>1, <1>2, <1>3
<1>4. ASSUME NEW c \in Callers, NEW x, call' = [call EXCEPT ![c] = x],
             x.kind \in {"admit", "record"} => x.since = clock,
             x.kind = "record" => x.ok \in BOOLEAN
      PROVE  /\ call' = [d \in Callers |-> call'[d]]
             /\ \A d \in Callers : Sane(d)'
  <2>1. /\ call' = [d \in Callers |-> call'[d]] /\ call'[c] = x
        /\ \A d \in Callers : d # c => call'[d] = call[d]
    BY <1>1, <1>4
  <2>2. Sane(c)'
    BY <1>1, <1>4, <2>1, SMT DEF Sane
  <2>3. QED
    BY <1>2, <2>1, <2>2
<1>5. QED
  BY <1>3, <1>4

LEMMA InvStep == IInv /\ [Next]_vars => IInv'
<1> SUFFICES ASSUME IInv, [Next]_vars PROVE IInv'
  OBVIOUS
<1>1. TypeOK /\ FieldsOK(hash) /\ State(hash) \in CircuitStates /\ clock \in Nat
  BY DEF IInv, TypeOK, FieldsOK
<1>2. ASSUME hash' = hash, clock' \in Nat, clock <= clock',
             call' = [c \in Callers |-> call'[c]], \A c \in Callers : Sane(c)'
      PROVE  IInv'
  BY <1>1, <1>2 DEF IInv, TypeOK
<1>3. ASSUME NEW c \in Callers, NEW script, Run(c, script),
             FieldsOK(script.hash), State(script.hash) \in CircuitStates,
             script.reply.kind \in {"admitted", "recorded"}
      PROVE  IInv'
  <2>1. PICK x : call' = [call EXCEPT ![c] = x] /\ x \in {script.reply, Breaker!Failed}
    BY <1>3, Zenon DEF Run, Breaker!Reply
  <2>2. x.kind \notin {"admit", "record"}
    BY <1>3, <2>1, SMT DEF Breaker!Failed
  <2>3. clock' = clock /\ hash' = script.hash
    BY <1>3 DEF Run
  <2>4. clock' \in Nat /\ clock <= clock'
    BY <1>1, <2>3, SMT
  <2>5. call' = [d \in Callers |-> call'[d]] /\ \A d \in Callers : Sane(d)'
    BY <2>1, <2>2, <2>4, SaneKept
  <2>6. TypeOK'
    BY <1>3, <2>3 DEF TypeOK, FieldsOK
  <2>7. QED
    BY <2>4, <2>5, <2>6 DEF IInv
<1>4. ASSUME NEW c \in Callers, Admit(c) PROVE IInv'
  <2>1. PICK now \in Sent(c) : Run(c, cbAdmit(hash, now))
    BY <1>4 DEF Admit
  <2>2. now \in Nat
    BY <1>4, SentReadings DEF Admit
  <2>3. State(cbAdmit(hash, now).hash) \in CircuitStates
    BY <1>1, <2>2, AdmitScript, AdmitType, RedisCfgAssumption
  <2>4. cbAdmit(hash, now).reply.kind \in {"admitted", "recorded"}
    <3>1. \A admission : Breaker!Admitted(admission).kind = "admitted"
      BY DEF Breaker!Admitted
    <3>2. QED
      BY <3>1, AdmitScript
  <2>5. QED
    BY <1>1, <1>3, <2>1, <2>3, <2>4, ScriptsKeepFields
<1>5. ASSUME NEW c \in Callers, Record(c) PROVE IInv'
  <2>1. PICK now \in Sent(c) : Run(c, cbRecord(hash, call[c].ok, call[c].probe, now))
    BY <1>5 DEF Record
  <2>2. now \in Nat /\ call[c].ok \in BOOLEAN
    BY <1>5, SentReadings DEF Record, IInv, Sane
  <2> DEFINE script == cbRecord(hash, call[c].ok, call[c].probe, now)
  <2>3. State(script.hash) \in CircuitStates
    BY <1>1, <2>2, RecordScript, RecordType, RedisCfgAssumption
  <2>4. script.reply.kind \in {"admitted", "recorded"}
    <3>1. \A status : Breaker!Recorded(status).kind = "recorded"
      BY DEF Breaker!Recorded
    <3>2. QED
      BY <1>1, <2>2, <3>1, RecordScript
  <2>5. FieldsOK(script.hash)
    BY <1>1, <2>2, ScriptsKeepFields
  <2> HIDE DEF script
  <2>6. Run(c, script)
    BY <2>1 DEF script
  <2>7. QED
    BY <1>3, <2>3, <2>4, <2>5, <2>6
<1>6. ASSUME NEW c \in Callers, UNCHANGED hash, Breaker!CallerStep(c) PROVE IInv'
  <2>1. clock' \in Nat /\ clock <= clock'
    BY <1>1, <1>6, CallerStepCalls, SMT
  <2>2. \/ call' = call
        \/ \E x : /\ call' = [call EXCEPT ![c] = x]
                  /\ x.kind \in {"admit", "record"} => x.since = clock
                  /\ x.kind = "record" => x.ok \in BOOLEAN
    <3>1. CASE call' = [call EXCEPT ![c] = Breaker!NoCall]
      <4>1. Breaker!NoCall.kind \notin {"admit", "record"}
        BY SMT DEF Breaker!NoCall
      <4>2. QED
        BY <3>1, <4>1
    <3>2. CASE call' = [call EXCEPT ![c] = Breaker!AdmitRequest(clock)]
      <4>1. /\ Breaker!AdmitRequest(clock).kind = "admit"
            /\ Breaker!AdmitRequest(clock).since = clock
        BY SMT DEF Breaker!AdmitRequest
      <4>2. QED
        BY <3>2, <4>1
    <3>3. ASSUME NEW ok \in BOOLEAN, NEW probe,
                 call' = [call EXCEPT ![c] = Breaker!RecordRequest(clock, ok, probe)]
          PROVE  \E x : /\ call' = [call EXCEPT ![c] = x]
                        /\ x.kind \in {"admit", "record"} => x.since = clock
                        /\ x.kind = "record" => x.ok \in BOOLEAN
      <4>1. /\ Breaker!RecordRequest(clock, ok, probe).since = clock
            /\ Breaker!RecordRequest(clock, ok, probe).ok = ok
        BY DEF Breaker!RecordRequest
      <4>2. QED
        BY <3>3, <4>1
    <3>4. QED
      BY <1>6, <3>1, <3>2, <3>3, CallerStepCalls
  <2>3. call' = [d \in Callers |-> call'[d]] /\ \A d \in Callers : Sane(d)'
    BY <2>1, <2>2, SaneKept
  <2>4. QED
    BY <1>2, <1>6, <2>1, <2>3
<1>7. ASSUME NEW c \in Callers, UNCHANGED hash, Breaker!StoreReject(c) PROVE IInv'
  <2>1. call' = [call EXCEPT ![c] = Breaker!Failed] /\ clock' = clock
    BY <1>7 DEF Breaker!StoreReject, Breaker!Reject
  <2>2. Breaker!Failed.kind \notin {"admit", "record"}
    BY SMT DEF Breaker!Failed
  <2>3. clock' \in Nat /\ clock <= clock'
    BY <1>1, <2>1, SMT
  <2>4. call' = [d \in Callers |-> call'[d]] /\ \A d \in Callers : Sane(d)'
    BY <2>1, <2>2, <2>3, SaneKept
  <2>5. QED
    BY <1>2, <1>7, <2>3, <2>4
<1>8. CASE UNCHANGED hash /\ (Breaker!Pass \/ Breaker!Recover)
  <2>1. call' = call /\ clock' \in Nat /\ clock <= clock'
    BY <1>1, <1>8, SMT DEF Breaker!Pass, Breaker!Tick, Breaker!Recover
  <2>2. QED
    BY <1>2, <1>8, <2>1, SaneKept
<1>9. CASE UNCHANGED vars
  <2>1. hash' = hash /\ call' = call /\ clock' \in Nat /\ clock <= clock'
    BY <1>1, <1>9, SMT DEF vars
  <2>2. QED
    BY <1>2, <2>1, SaneKept
<1>10. QED
  BY <1>4, <1>5, <1>6, <1>7, <1>8, <1>9 DEF Next

\* The hash is a circuit state after every sequence of scripts, and no script
\* reads the default of a field that is in use.
THEOREM TypeCorrect == Spec => []TypeOK
<1>1. IInv => TypeOK
  BY DEF IInv
<1>2. QED
  BY <1>1, InvInit, InvStep, PTL DEF Spec

-----------------------------------------------------------------------------
(* Refinement *)

LEMMA SameMachine ==
    /\ Breaker!INITIAL_CIRCUIT_STATE = INITIAL_CIRCUIT_STATE
    /\ \A s, cfg, now : Breaker!computeAdmit(s, cfg, now) = computeAdmit(s, cfg, now)
    /\ \A s, cfg, ok, probe, now :
          Breaker!computeRecord(s, cfg, ok, probe, now)
             = computeRecord(s, cfg, ok, probe, now)
<1>1. Breaker!INITIAL_CIRCUIT_STATE = INITIAL_CIRCUIT_STATE
  BY DEF Breaker!INITIAL_CIRCUIT_STATE, INITIAL_CIRCUIT_STATE
<1>2. ASSUME NEW s, NEW cfg, NEW now
      PROVE  Breaker!computeAdmit(s, cfg, now) = computeAdmit(s, cfg, now)
  BY Zenon DEF Breaker!computeAdmit, Breaker!Thaw, Breaker!Grants, Breaker!HalfOpen,
     computeAdmit, Thaw, Grants, HalfOpen
<1>3. ASSUME NEW s, NEW cfg, NEW ok, NEW probe, NEW now
      PROVE  Breaker!computeRecord(s, cfg, ok, probe, now)
                = computeRecord(s, cfg, ok, probe, now)
  BY Zenon DEF Breaker!computeRecord, Breaker!Release, Breaker!Close, Breaker!Trip,
     Breaker!CountFailure, computeRecord, Release, Close, Trip, CountFailure
<1>4. QED
  BY <1>1, <1>2, <1>3

LEMMA RefinesInit == Init => Breaker!Init
<1> SUFFICES ASSUME Init PROVE Breaker!Init
  OBVIOUS
<1>1. State(hash) = Breaker!INITIAL_CIRCUIT_STATE
  BY DEF Init, State, StatusOf, Number, HGet, Breaker!INITIAL_CIRCUIT_STATE
<1>2. QED
  BY <1>1 DEF Init, Breaker!Init, Breaker!StoreInit

LEMMA RefinesStep == IInv /\ [Next]_vars => [Breaker!Next]_(Breaker!vars)
<1> SUFFICES ASSUME IInv, [Next]_vars
             PROVE  Breaker!Next \/ UNCHANGED Breaker!vars
  OBVIOUS
<1>1. State(hash) \in CircuitStates
  BY DEF IInv, TypeOK
<1>2. ASSUME NEW c \in Callers, Admit(c) PROVE Breaker!StoreAdmit(c)
  <2>1. PICK now \in Sent(c) : Run(c, cbAdmit(hash, now))
    BY <1>2 DEF Admit
  <2>2. /\ Breaker!Reply(c, cbAdmit(hash, now).reply) /\ Breaker!Observe(c)
        /\ UNCHANGED <<clock, exec, healthy>>
        /\ State(hash)' = State(cbAdmit(hash, now).hash)
    BY <2>1 DEF Run, State, StatusOf, Number, HGet
  <2> DEFINE decision == Breaker!computeAdmit(State(hash), Cfg, now)
  <2>3. /\ State(cbAdmit(hash, now).hash) = decision.state
        /\ cbAdmit(hash, now).reply = Breaker!Admitted(decision.admission)
    BY AdmitScript, SameMachine
  <2>4. now \in Breaker!Readings(call[c].since, clock) /\ call[c].kind = "admit"
    BY <1>2, SentReadings DEF Admit
  <2>5. Breaker!Admit(c)
    BY <2>2, <2>3, <2>4 DEF Breaker!Admit
  <2>6. QED
    BY <2>2, <2>5 DEF Breaker!StoreAdmit, Breaker!policyVars
<1>3. ASSUME NEW c \in Callers, Record(c) PROVE Breaker!StoreRecord(c)
  <2>1. PICK now \in Sent(c) : Run(c, cbRecord(hash, call[c].ok, call[c].probe, now))
    BY <1>3 DEF Record
  <2> DEFINE script == cbRecord(hash, call[c].ok, call[c].probe, now)
             decision == Breaker!computeRecord(State(hash), Cfg, call[c].ok,
                                               call[c].probe, now)
  <2>2. /\ Breaker!Reply(c, script.reply) /\ Breaker!Observe(c)
        /\ UNCHANGED <<clock, exec, healthy>>
        /\ State(hash)' = State(script.hash)
    BY <2>1 DEF Run, State, StatusOf, Number, HGet
  <2>3. /\ State(script.hash) = decision.state
        /\ script.reply = Breaker!Recorded(decision.status)
    BY <1>1, <1>3, RecordScript, SameMachine DEF Record, IInv, Sane
  <2>4. now \in Breaker!Readings(call[c].since, clock) /\ call[c].kind = "record"
    BY <1>3, SentReadings DEF Record
  <2> HIDE DEF script
  <2>5. Breaker!Record(c)
    BY <2>2, <2>3, <2>4 DEF Breaker!Record
  <2>6. QED
    BY <2>2, <2>5 DEF Breaker!StoreRecord, Breaker!policyVars
<1>4. CASE UNCHANGED vars
  BY <1>4 DEF vars, Breaker!vars, State, StatusOf, Number, HGet
<1>5. QED
  BY <1>2, <1>3, <1>4 DEF Next, Breaker!Next, Breaker!StoreStep

\* With defaults for missing fields, and the time of a sender whose command
\* may be overtaken by others, the scripts are the atomic admit and record.
THEOREM ImplementsBreakerHolds == Spec => ImplementsBreaker
<1>1. QED
  BY RefinesInit, InvInit, InvStep, RefinesStep, PTL DEF Spec, ImplementsBreaker, Breaker!Spec

-----------------------------------------------------------------------------
(* The policy over this store *)

\* A second instance of CircuitBreaker, with the theorems proved about it; the
\* lemmas below identify it with Breaker.
Proved == INSTANCE CircuitBreakerProofs WITH circuit <- State(hash)

LEMMA SameCallerStep ==
    ASSUME NEW c
    PROVE  Breaker!CallerStep(c) <=> Proved!CallerStep(c)
BY Zenon
 DEF Breaker!CallerStep, Proved!CallerStep, Breaker!PolicyStep, Proved!PolicyStep,
     Breaker!Execute, Proved!Execute, Breaker!RunOp, Proved!RunOp, Breaker!ShortCircuit,
     Proved!ShortCircuit, Breaker!SinkThrowsOnProbe, Proved!SinkThrowsOnProbe,
     Breaker!OpResolves, Proved!OpResolves, Breaker!OpRejects, Proved!OpRejects,
     Breaker!ReturnResult, Proved!ReturnResult, Breaker!CatchAfterSuccess,
     Proved!CatchAfterSuccess, Breaker!RethrowError, Proved!RethrowError, Breaker!Reset,
     Proved!Reset, Breaker!ResetReturns, Proved!ResetReturns, Breaker!Crash,
     Proved!Crash, Breaker!CallAdmit, Proved!CallAdmit, Breaker!CallRecord,
     Proved!CallRecord, Breaker!AdmitRequest, Proved!AdmitRequest,
     Breaker!RecordRequest, Proved!RecordRequest, Breaker!At, Proved!At, Breaker!Goto,
     Proved!Goto, Breaker!Return, Proved!Return, Breaker!Settle, Proved!Settle,
     Breaker!Local, Proved!Local, Breaker!NoCall, Proved!NoCall, Breaker!Idle,
     Proved!Idle

LEMMA SameStoreStep ==
    ASSUME NEW c
    PROVE  Breaker!StoreStep(c) <=> Proved!StoreStep(c)
<1>1. Breaker!StoreAdmit(c) <=> Proved!StoreAdmit(c)
  BY Zenon
   DEF Breaker!StoreAdmit, Proved!StoreAdmit, Breaker!Admit, Proved!Admit,
       Breaker!Admitted, Proved!Admitted, Breaker!computeAdmit, Proved!computeAdmit,
       Breaker!Thaw, Proved!Thaw, Breaker!Grants, Proved!Grants, Breaker!HalfOpen,
       Proved!HalfOpen, Breaker!Reply, Proved!Reply, Breaker!Failed, Proved!Failed,
       Breaker!Readings, Proved!Readings, Breaker!Observe, Proved!Observe,
       Breaker!policyVars, Proved!policyVars
<1>2. Breaker!StoreRecord(c) <=> Proved!StoreRecord(c)
  BY Zenon
   DEF Breaker!StoreRecord, Proved!StoreRecord, Breaker!Record, Proved!Record,
       Breaker!Recorded, Proved!Recorded, Breaker!computeRecord, Proved!computeRecord,
       Breaker!Release, Proved!Release, Breaker!Close, Proved!Close, Breaker!Trip,
       Proved!Trip, Breaker!CountFailure, Proved!CountFailure, Breaker!Reply,
       Proved!Reply, Breaker!Failed, Proved!Failed, Breaker!Readings, Proved!Readings,
       Breaker!Observe, Proved!Observe, Breaker!policyVars, Proved!policyVars
<1>3. Breaker!StoreReject(c) <=> Proved!StoreReject(c)
  BY Zenon
   DEF Breaker!StoreReject, Proved!StoreReject, Breaker!Reject, Proved!Reject,
       Breaker!At, Proved!At, Breaker!Failed, Proved!Failed
<1>4. QED
  BY <1>1, <1>2, <1>3, Zenon DEF Breaker!StoreStep, Proved!StoreStep

LEMMA SameSpec == Breaker!Spec => Proved!Spec
<1>1. Breaker!Init => Proved!Init
  BY Zenon
   DEF Breaker!Init, Proved!Init, Breaker!StoreInit, Proved!StoreInit,
       Breaker!INITIAL_CIRCUIT_STATE, Proved!INITIAL_CIRCUIT_STATE, Breaker!NoCall,
       Proved!NoCall, Breaker!Idle, Proved!Idle
<1>2. Breaker!Next => Proved!Next
  <2>1. (Breaker!Pass <=> Proved!Pass) /\ (Breaker!Recover <=> Proved!Recover)
    BY Zenon
     DEF Breaker!Pass, Proved!Pass, Breaker!Tick, Proved!Tick, Breaker!Recover,
         Proved!Recover
  <2>2. QED
    BY <2>1, SameCallerStep, SameStoreStep, Zenon DEF Breaker!Next, Proved!Next
<1>3. [Breaker!Next]_(Breaker!vars) => [Proved!Next]_(Proved!vars)
  BY <1>2 DEF Breaker!vars, Proved!vars
<1>4. QED
  BY <1>1, <1>3, PTL DEF Breaker!Spec, Proved!Spec

LEMMA SameSlots ==
    /\ Breaker!ProbeSlotsExclusive <=> Proved!ProbeSlotsExclusive
    /\ Breaker!NoSlotLeaked <=> Proved!NoSlotLeaked
<1>1. \A S : Breaker!Cardinality(S) = Proved!Cardinality(S)
  BY Zenon DEF Breaker!Cardinality, Proved!Cardinality
<1>2. \A c : Breaker!HoldsSlot(c) <=> Proved!HoldsSlot(c)
  BY Zenon
   DEF Breaker!HoldsSlot, Proved!HoldsSlot, Breaker!InProbe, Proved!InProbe, Breaker!At,
       Proved!At
<1>3. {c \in probing : Breaker!HoldsSlot(c)} = {c \in probing : Proved!HoldsSlot(c)}
  BY <1>2, Zenon
<1>4. QED
  BY <1>1, <1>3
  DEF Breaker!ProbeSlotsExclusive, Proved!ProbeSlotsExclusive, Breaker!NoSlotLeaked,
      Proved!NoSlotLeaked

\* What the theorems assume of the constants.
LEMMA ConstantsProper ==
    /\ Cfg \in Proved!BreakerConfigs
    /\ MaxClock \in Nat /\ Skew \in Nat
    /\ Faults \subseteq Proved!FaultKinds
    /\ Resetters \subseteq Callers
BY RedisCfgAssumption, RedisClockAssumption, RedisSkewAssumption, RedisFaultsAssumption,
   RedisResettersAssumption
DEF BreakerConfigs, Proved!BreakerConfigs, Breaker!FaultKinds, Proved!FaultKinds

\* Whatever fails, and in whatever order the commands reach Redis, the hash
\* never has more probe slots taken than halfOpenMax, and a circuit that stays
\* open keeps its cool-down.
THEOREM PolicySafe ==
    Spec => /\ []Breaker!ProbeSlotsExclusive
            /\ []Breaker!CoolDownBounded
            /\ Breaker!CoolDownKept
<1>1. Proved!Spec => []Proved!ProbeSlotsExclusive
  BY ConstantsProper, Proved!ProbeSlotsExclusiveHolds
<1>2. Proved!Spec => []Proved!CoolDownBounded
  BY ConstantsProper, Proved!CoolDownBoundedHolds
<1>3. Proved!Spec => Proved!CoolDownKept
  BY ConstantsProper, Proved!CoolDownKeptHolds
<1>4. Breaker!CoolDownBounded <=> Proved!CoolDownBounded
  BY DEF Breaker!CoolDownBounded, Proved!CoolDownBounded
<1>5. Breaker!CoolDownKept <=> Proved!CoolDownKept
  BY DEF Breaker!CoolDownKept, Proved!CoolDownKept, Breaker!vars, Proved!vars
<1>6. QED
  BY <1>1, <1>2, <1>3, <1>4, <1>5, SameSlots, SameSpec, ImplementsBreakerHolds, PTL
  DEF ImplementsBreaker

\* While Redis answers, the failures of a closed hash, missing fields included,
\* are exactly the operations that failed since the last success, so the hash
\* opens at the threshold, or by a probe that reports late.
THEOREM PolicyCountsExactly ==
    ASSUME "store" \notin Faults
    PROVE  Spec => /\ []Breaker!FailureCountExact
                   /\ Breaker!OpensByCountOrLateProbe
<1>1. Proved!Spec => []Proved!FailureCountExact
  BY ConstantsProper, Proved!FailureCountExactHolds
<1>2. Proved!Spec => Proved!OpensByCountOrLateProbe
  BY ConstantsProper, Proved!OpensByCountOrLateProbeHolds
<1>3. Breaker!FailureCountExact <=> Proved!FailureCountExact
  BY DEF Breaker!FailureCountExact, Proved!FailureCountExact
<1>4. Breaker!OpensByCountOrLateProbe <=> Proved!OpensByCountOrLateProbe
  BY DEF Breaker!OpensByCountOrLateProbe, Proved!OpensByCountOrLateProbe,
         Breaker!vars, Proved!vars
<1>5. QED
  BY <1>1, <1>2, <1>3, <1>4, SameSpec, ImplementsBreakerHolds, PTL
  DEF ImplementsBreaker

\* Only an operation that failed opens the hash, though each command carries a
\* time its sender read before others were run; none opens it once the dependency
\* is healthy and its earlier failures are counted.
THEOREM PolicyOpensOnFailure ==
    ASSUME "store" \notin Faults, "sink" \notin Faults
    PROVE  Spec => /\ Breaker!OpenedOnlyByFailedOps
                   /\ Breaker!StaysClosedOnceHealthy
<1>1. Proved!Spec => Proved!OpenedOnlyByFailedOps
  BY ConstantsProper, Proved!OpenedOnlyByFailedOpsHolds
<1>2. Proved!Spec => Proved!StaysClosedOnceHealthy
  BY ConstantsProper, Proved!StaysClosedOnceHealthyHolds
<1>3. Breaker!OpenedOnlyByFailedOps <=> Proved!OpenedOnlyByFailedOps
  BY DEF Breaker!OpenedOnlyByFailedOps, Proved!OpenedOnlyByFailedOps, Breaker!vars,
         Proved!vars
<1>4. Breaker!StaysClosedOnceHealthy <=> Proved!StaysClosedOnceHealthy
  BY DEF Breaker!StaysClosedOnceHealthy, Proved!StaysClosedOnceHealthy,
         Breaker!OverWithFailures, Proved!OverWithFailures, Breaker!vars, Proved!vars
<1>5. QED
  BY <1>1, <1>2, <1>3, <1>4, SameSpec, ImplementsBreakerHolds, PTL
  DEF ImplementsBreaker

\* Without faults every slot taken in a half-open hash belongs to a caller that
\* has its outcome still to record.
THEOREM PolicyLeaksNoSlot ==
    ASSUME Faults = {}
    PROVE  Spec => []Breaker!NoSlotLeaked
<1>1. Proved!Spec => []Proved!NoSlotLeaked
  BY ConstantsProper, Proved!NoSlotLeakedHolds
<1>2. QED
  BY <1>1, SameSlots, SameSpec, ImplementsBreakerHolds, PTL DEF ImplementsBreaker

=============================================================================
