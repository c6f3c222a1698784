--------------------------- MODULE SqlStoreProofs ---------------------------
(***************************************************************************)
(* SqlResilienceStore implements the atomic store, for every set of callers*)
(* and faults, every configuration and clocks that differ by up to Skew:   *)
(* what a transaction decided on the locked row is still what the row calls*)
(* for when it writes it.                                                  *)
(***************************************************************************)
EXTENDS SqlStore, CircuitStateProofs

\* c waits for an answer of the store.
Pending(c) == call[c].kind \in {"admit", "record"}

\* An execution that has not called the store has no call.
Control(c) == exec[c].pc \in {"idle", "op"} => call[c] = Breaker!NoCall

\* A transaction belongs to a pending call; an admit that has not decided has
\* read its clock since the call; one that has decided holds the lock, and has
\* decided on the row as it is at a time since the call.
Transaction(c) ==
    /\ Pending(c) => call[c].since <= clock
    /\ sql[c].stmt # "none" => IsAdmit(c) \/ IsLockedRecord(c)
    /\ IsAdmit(c) /\ sql[c].stmt \in {"insert", "select"} =>
          sql[c].now \in Breaker!Readings(call[c].since, clock)
    /\ sql[c].stmt = "update" =>
          /\ lock = {c}
          /\ \E now \in Breaker!Readings(call[c].since, clock) :
                sql[c] = Decision(c, now)

IInv == TypeOK /\ \A c \in Callers : Control(c) /\ Transaction(c)

-----------------------------------------------------------------------------
(* Store calls *)

LEMMA CallsConstructed ==
    /\ Breaker!NoCall \in Breaker!Calls /\ Breaker!Failed \in Breaker!Calls
    /\ \A now \in Nat : Breaker!AdmitRequest(now) \in Breaker!Calls
    /\ \A now \in Nat, ok \in BOOLEAN, probe \in BOOLEAN :
          Breaker!RecordRequest(now, ok, probe) \in Breaker!Calls
    /\ \A admission \in Admissions : Breaker!Admitted(admission) \in Breaker!Calls
    /\ \A status \in CircuitStatus : Breaker!Recorded(status) \in Breaker!Calls
BY Zenon DEF Breaker!Calls, Breaker!NoCall, Breaker!Failed, Breaker!AdmitRequest,
   Breaker!RecordRequest, Breaker!Admitted, Breaker!Recorded,
   Admissions, CircuitStatus, Breaker!Admissions, Breaker!CircuitStatus

LEMMA CallsKinds ==
    ASSUME NEW x \in Breaker!Calls
    PROVE  /\ x.kind = "admit" => x.since \in Nat
           /\ x.kind = "record" => /\ x.since \in Nat
                                   /\ x.ok \in BOOLEAN /\ x.probe \in BOOLEAN
           /\ x.kind = "admitted" => x.admission.probe \in BOOLEAN
<1>1. CASE x \in {Breaker!NoCall, Breaker!Failed}
  BY <1>1, SMT DEF Breaker!NoCall, Breaker!Failed
<1>2. CASE x \in [kind: {"admit"}, since: Nat]
  BY <1>2, SMT
<1>3. CASE x \in [kind: {"record"}, since: Nat, ok: BOOLEAN, probe: BOOLEAN]
  BY <1>3, SMT
<1>4. CASE x \in [kind: {"admitted"}, admission: Breaker!Admissions]
  BY <1>4, SMT DEF Breaker!Admissions
<1>5. CASE x \in [kind: {"recorded"}, status: Breaker!CircuitStatus]
  BY <1>5, SMT
<1>6. QED
  BY <1>1, <1>2, <1>3, <1>4, <1>5, Zenon DEF Breaker!Calls

\* What a caller does between two of its awaits: it never touches a call that
\* is pending, and a call it makes is made now.
CallerEffect(c, e, x) ==
    /\ exec' = [exec EXCEPT ![c] = e]
    /\ call' = [call EXCEPT ![c] = x]
    /\ UNCHANGED <<clock, healthy, probing, streak>>
    /\ e.pc \in {"idle", "op"} => x = Breaker!NoCall
    /\ Pending(c) => x = call[c]
    /\ \/ x = call[c]
       \/ x.kind \notin {"admit", "record"}
       \/ x.since = clock

LEMMA CallerStepEffect ==
    ASSUME TypeOK, NEW c \in Callers, Control(c), Breaker!CallerStep(c)
    PROVE  \E e \in Breaker!Execs, x \in Breaker!Calls : CallerEffect(c, e, x)
<1>1. /\ call[c] \in Breaker!Calls /\ exec[c] \in Breaker!Execs /\ clock \in Nat
      /\ call = [call EXCEPT ![c] = call[c]]
  BY SMT DEF TypeOK
<1>2. exec[c].probe \in BOOLEAN /\ exec[c].outcome \in Breaker!Outcomes
  BY <1>1 DEF Breaker!Execs
<1>3. /\ \A pc \in Breaker!Pcs, outcome \in Breaker!Outcomes, probe \in BOOLEAN :
           /\ [pc |-> pc, probe |-> probe, outcome |-> outcome] \in Breaker!Execs
           /\ [pc |-> pc, probe |-> probe, outcome |-> outcome].pc = pc
      /\ Breaker!Idle \in Breaker!Execs /\ Breaker!Idle.pc = "idle"
  BY SMT DEF Breaker!Execs, Breaker!Idle, Breaker!Pcs, Breaker!Outcomes
<1>4. /\ Breaker!NoCall \in Breaker!Calls
      /\ Breaker!NoCall.kind = "none"
      /\ Breaker!AdmitRequest(clock) \in Breaker!Calls
      /\ Breaker!AdmitRequest(clock).since = clock
      /\ \A ok \in BOOLEAN, probe \in BOOLEAN :
            /\ Breaker!RecordRequest(clock, ok, probe) \in Breaker!Calls
            /\ Breaker!RecordRequest(clock, ok, probe).since = clock
  BY <1>1, CallsConstructed DEF Breaker!NoCall, Breaker!AdmitRequest, Breaker!RecordRequest
<1>5. CASE Breaker!Execute(c)
  <2>1. [pc |-> "admit", probe |-> exec[c].probe,
         outcome |-> exec[c].outcome] \in Breaker!Execs
    BY <1>2, <1>3 DEF Breaker!Pcs
  <2>2. CallerEffect(c, [pc |-> "admit", probe |-> exec[c].probe,
                         outcome |-> exec[c].outcome], Breaker!AdmitRequest(clock))
    BY <1>4, <1>5 DEF CallerEffect, Breaker!Execute, Breaker!At, Breaker!Goto,
       Breaker!CallAdmit, Breaker!Local, Control, Pending
  <2>3. QED
    BY <1>4, <2>1, <2>2
<1>6. CASE Breaker!RunOp(c)
  <2>1. [pc |-> "op", outcome |-> "none",
         probe |-> call[c].admission.probe] \in Breaker!Execs
    BY <1>1, <1>6, CallsKinds, SMT DEF Breaker!RunOp, Breaker!Execs, Breaker!Pcs,
       Breaker!Outcomes
  <2>2. CallerEffect(c, [pc |-> "op", outcome |-> "none",
                         probe |-> call[c].admission.probe], Breaker!NoCall)
    BY <1>4, <1>6 DEF CallerEffect, Breaker!RunOp, Breaker!Local, Pending
  <2>3. QED
    BY <1>4, <2>1, <2>2
<1>7. CASE Breaker!ShortCircuit(c) \/ Breaker!ReturnResult(c) \/ Breaker!RethrowError(c)
             \/ Breaker!ResetReturns(c) \/ Breaker!SinkThrowsOnProbe(c)
  <2>1. CallerEffect(c, Breaker!Idle, Breaker!NoCall)
    BY <1>4, <1>7 DEF CallerEffect, Breaker!ShortCircuit, Breaker!ReturnResult,
       Breaker!RethrowError, Breaker!ResetReturns, Breaker!SinkThrowsOnProbe,
       Breaker!Return, Breaker!Local, Pending
  <2>2. QED
    BY <1>3, <1>4, <2>1
<1>8. CASE Breaker!OpResolves(c)
  <2>1. [pc |-> "recordOk", outcome |-> "resolved",
         probe |-> exec[c].probe] \in Breaker!Execs
    BY <1>2, SMT DEF Breaker!Execs, Breaker!Pcs, Breaker!Outcomes
  <2>2. CallerEffect(c, [pc |-> "recordOk", outcome |-> "resolved",
                         probe |-> exec[c].probe],
                     Breaker!RecordRequest(clock, TRUE, exec[c].probe))
    BY <1>2, <1>4, <1>8 DEF CallerEffect, Breaker!OpResolves, Breaker!At, Breaker!Settle,
       Breaker!CallRecord, Breaker!Local, Control, Pending
  <2>3. QED
    BY <1>2, <1>4, <2>1, <2>2
<1>9. CASE Breaker!OpRejects(c)
  <2>1. [pc |-> "recordErr", outcome |-> "rejected",
         probe |-> exec[c].probe] \in Breaker!Execs
    BY <1>2, SMT DEF Breaker!Execs, Breaker!Pcs, Breaker!Outcomes
  <2>2. CallerEffect(c, [pc |-> "recordErr", outcome |-> "rejected",
                         probe |-> exec[c].probe],
                     Breaker!RecordRequest(clock, FALSE, exec[c].probe))
    BY <1>2, <1>4, <1>9 DEF CallerEffect, Breaker!OpRejects, Breaker!At, Breaker!Settle,
       Breaker!CallRecord, Breaker!Local, Control, Pending
  <2>3. QED
    BY <1>2, <1>4, <2>1, <2>2
<1>10. CASE Breaker!CatchAfterSuccess(c)
  <2>1. [pc |-> "recordErr", probe |-> exec[c].probe,
         outcome |-> exec[c].outcome] \in Breaker!Execs
    BY <1>2, <1>3 DEF Breaker!Pcs
  <2>2. CallerEffect(c, [pc |-> "recordErr", probe |-> exec[c].probe,
                         outcome |-> exec[c].outcome],
                     Breaker!RecordRequest(clock, FALSE, exec[c].probe))
    BY <1>2, <1>4, <1>10 DEF CallerEffect, Breaker!CatchAfterSuccess, Breaker!Goto,
       Breaker!CallRecord, Breaker!Local, Pending
  <2>3. QED
    BY <1>2, <1>4, <2>1, <2>2
<1>11. CASE Breaker!Reset(c)
  <2>1. [pc |-> "reset", probe |-> exec[c].probe,
         outcome |-> exec[c].outcome] \in Breaker!Execs
    BY <1>2, <1>3 DEF Breaker!Pcs
  <2>2. CallerEffect(c, [pc |-> "reset", probe |-> exec[c].probe,
                         outcome |-> exec[c].outcome],
                     Breaker!RecordRequest(clock, TRUE, FALSE))
    BY <1>4, <1>11 DEF CallerEffect, Breaker!Reset, Breaker!At, Breaker!Goto,
       Breaker!CallRecord, Breaker!Local, Control, Pending
  <2>3. QED
    BY <1>4, <2>1, <2>2
<1>12. CASE Breaker!Crash(c)
  <2>1. [pc |-> "crashed", probe |-> exec[c].probe,
         outcome |-> exec[c].outcome] \in Breaker!Execs
    BY <1>2, <1>3 DEF Breaker!Pcs
  <2>2. CallerEffect(c, [pc |-> "crashed", probe |-> exec[c].probe,
                         outcome |-> exec[c].outcome], call[c])
    BY <1>1, <1>12 DEF CallerEffect, Breaker!Crash, Breaker!Goto, Breaker!Local, Pending
  <2>3. QED
    BY <1>1, <2>1, <2>2
<1>13. QED
  BY <1>5, <1>6, <1>7, <1>8, <1>9, <1>10, <1>11, <1>12
     DEF Breaker!CallerStep, Breaker!PolicyStep

-----------------------------------------------------------------------------
(* Decisions *)

LEMMA ReadingsMonotone ==
    ASSUME NEW from \in Nat, NEW to \in Nat, NEW later \in Nat, to <= later,
           NEW now \in Breaker!Readings(from, to)
    PROVE  now \in Nat /\ now \in Breaker!Readings(from, later)
BY SqlSkewAssumption, SMT DEF Breaker!Readings

LEMMA ReadingsNat ==
    ASSUME TypeOK, NEW c \in Callers, Pending(c),
           NEW now \in Breaker!Readings(call[c].since, clock)
    PROVE  now \in Nat
<1>1. call[c].since \in Nat /\ clock \in Nat
  BY CallsKinds, SMT DEF TypeOK, Pending
<1>2. QED
  BY <1>1, SqlSkewAssumption, SMT DEF Breaker!Readings

\* A clock, read between the call and now.
LEMMA NowIsReading ==
    ASSUME NEW from \in Nat, NEW to \in Nat, from <= to,
           NEW time \in from .. to, NEW now \in Now(time)
    PROVE  now \in Breaker!Readings(from, to) /\ now >= time
BY SqlSkewAssumption, SMT DEF Now, Breaker!Readings

LEMMA RowIsCircuit == TypeOK => rowToState(row) \in CircuitStates
BY SMT DEF TypeOK, rowToState, INITIAL_CIRCUIT_STATE, CircuitStates, CircuitStatus

LEMMA DecisionType ==
    ASSUME TypeOK, NEW c \in Callers, Pending(c), NEW now \in Nat
    PROVE  /\ Decision(c, now) \in [stmt: Statements, now: Nat,
                                    next: CircuitStates, reply: Breaker!Calls]
           /\ Decision(c, now).stmt = "update"
           /\ Decision(c, now).reply.kind \in {"admitted", "recorded"}
<1>1. call[c] \in Breaker!Calls /\ rowToState(row) \in CircuitStates
  BY RowIsCircuit, SMT DEF TypeOK
<1> DEFINE admit == computeAdmit(rowToState(row), Cfg, now)
           record == computeRecord(rowToState(row), Cfg, call[c].ok,
                                   call[c].probe, now)
<1>2. CASE IsAdmit(c)
  <2>1. admit.state \in CircuitStates /\ admit.admission \in Admissions
    BY <1>1, AdmitType, SqlCfgAssumption
  <2>2. /\ Breaker!Admitted(admit.admission) \in Breaker!Calls
        /\ Breaker!Admitted(admit.admission).kind = "admitted"
    BY <2>1, CallsConstructed DEF Breaker!Admitted
  <2>3. Decision(c, now) = [stmt |-> "update", now |-> 0, next |-> admit.state,
                            reply |-> Breaker!Admitted(admit.admission)]
    BY <1>2 DEF Decision
  <2>4. QED
    BY <2>1, <2>2, <2>3, SMT DEF Statements
<1>3. CASE ~IsAdmit(c)
  <2>1. call[c].ok \in BOOLEAN /\ call[c].probe \in BOOLEAN
    BY <1>1, <1>3, CallsKinds DEF IsAdmit, Pending
  <2>2. record.state \in CircuitStates /\ record.status \in CircuitStatus
    BY <1>1, <2>1, RecordType, SqlCfgAssumption
  <2>3. /\ Breaker!Recorded(record.status) \in Breaker!Calls
        /\ Breaker!Recorded(record.status).kind = "recorded"
    BY <2>2, CallsConstructed DEF Breaker!Recorded
  <2>4. Decision(c, now) = [stmt |-> "update", now |-> 0, next |-> record.state,
                            reply |-> Breaker!Recorded(record.status)]
    BY <1>3 DEF Decision
  <2>5. QED
    BY <2>2, <2>3, <2>4, SMT DEF Statements
<1>4. QED
  BY <1>2, <1>3

\* The decision is taken at a reading of a clock since the call.
LEMMA DecisionTimeIsReading ==
    ASSUME TypeOK, NEW c \in Callers, Pending(c), Transaction(c),
           sql[c].stmt = "select", NEW now \in DecisionTimes(c)
    PROVE  now \in Breaker!Readings(call[c].since, clock)
<1>1. /\ call[c].since \in Nat /\ clock \in Nat
      /\ call[c].since <= clock
  BY CallsKinds, SMT DEF TypeOK, Pending, Transaction
<1>2. clock \in call[c].since .. clock
  BY <1>1, SMT
<1>3. CASE IsAdmit(c)
  BY <1>3 DEF DecisionTimes, Transaction
<1>4. CASE ~IsAdmit(c)
  BY <1>1, <1>2, <1>4, NowIsReading DEF DecisionTimes
<1>5. QED
  BY <1>3, <1>4

-----------------------------------------------------------------------------
(* The invariant *)

\* A step that leaves a transaction and its row alone keeps its invariant.
LEMMA TransactionKept ==
    ASSUME TypeOK, NEW d \in Callers, Transaction(d),
           call'[d] = call[d], sql'[d] = sql[d],
           clock' \in Nat, clock <= clock',
           sql[d].stmt = "update" => row' = row /\ lock' = lock
    PROVE  Transaction(d)'
<1>1. clock \in Nat /\ call[d] \in Breaker!Calls
  BY SMT DEF TypeOK
<1>2. Pending(d)' => call'[d].since <= clock'
  BY <1>1, CallsKinds, SMT DEF Transaction, Pending
<1>3. (sql[d].stmt # "none" => IsAdmit(d) \/ IsLockedRecord(d))'
  BY DEF Transaction, IsAdmit, IsLockedRecord
<1>4. ASSUME sql[d].stmt = "update"
      PROVE  /\ lock' = {d}
             /\ \E now \in Breaker!Readings(call[d].since, clock') :
                   sql[d] = Decision(d, now)'
  <2>1. PICK now \in Breaker!Readings(call[d].since, clock) : sql[d] = Decision(d, now)
    BY <1>4 DEF Transaction
  <2>2. call[d].since \in Nat
    BY <1>1, <1>4, CallsKinds DEF Transaction, IsAdmit, IsLockedRecord
  <2>3. now \in Breaker!Readings(call[d].since, clock')
    BY <1>1, <2>2, ReadingsMonotone
  <2>4. Decision(d, now)' = Decision(d, now)
    BY <1>4 DEF Decision, IsAdmit, rowToState
  <2>5. QED
    BY <1>4, <2>1, <2>3, <2>4 DEF Transaction
<1>5. (IsAdmit(d) /\ sql[d].stmt \in {"insert", "select"} =>
          sql[d].now \in Breaker!Readings(call[d].since, clock))'
  <2>1. SUFFICES ASSUME IsAdmit(d), sql[d].stmt \in {"insert", "select"}
                 PROVE  sql[d].now \in Breaker!Readings(call[d].since, clock')
    BY DEF IsAdmit
  <2>2. call[d].since \in Nat
    BY <1>1, <2>1, CallsKinds DEF IsAdmit
  <2>3. sql[d].now \in Breaker!Readings(call[d].since, clock)
    BY <2>1 DEF Transaction
  <2>4. QED
    BY <1>1, <2>2, <2>3, ReadingsMonotone
<1>6. QED
  BY <1>2, <1>3, <1>4, <1>5 DEF Transaction

\* An answer ends the call.
LEMMA ReplyEffect ==
    ASSUME TypeOK, NEW c \in Callers, NEW answer \in Breaker!Calls,
           answer.kind \in {"admitted", "recorded"}, Breaker!Reply(c, answer)
    PROVE  /\ call' \in [Callers -> Breaker!Calls]
           /\ \A d \in Callers : d # c => call'[d] = call[d]
           /\ ~Pending(c)'
<1>1. PICK x : call' = [call EXCEPT ![c] = x] /\ x \in {answer, Breaker!Failed}
  BY Zenon DEF Breaker!Reply
<1>2. x \in Breaker!Calls /\ x.kind \notin {"admit", "record"}
  BY <1>1, CallsConstructed, SMT DEF Breaker!Failed
<1>3. QED
  BY <1>1, <1>2, SMT DEF TypeOK, Pending

LEMMA ObserveType ==
    ASSUME TypeOK, NEW c \in Callers, Breaker!Observe(c)
    PROVE  probing' \subseteq Callers /\ streak' \in 0 .. Cfg.threshold
<1>1. Cfg.threshold \in Nat
  BY SqlCfgAssumption DEF BreakerConfigs
<1>2. probing' \subseteq Callers
  BY Zenon DEF TypeOK, Breaker!Observe
<1>3. streak' \in 0 .. Cfg.threshold
  BY <1>1, SMT DEF TypeOK, Breaker!Observe
<1>4. QED
  BY <1>2, <1>3

LEMMA InvInit == Init => IInv
<1> SUFFICES ASSUME Init PROVE IInv
  OBVIOUS
<1>1. Cfg.threshold \in Nat /\ 0 \in 0 .. MaxClock /\ 0 \in 0 .. Cfg.threshold
  BY SqlCfgAssumption, SqlClockAssumption, SMT DEF BreakerConfigs
<1>2. INITIAL_CIRCUIT_STATE \in CircuitStates
  BY SMT DEF INITIAL_CIRCUIT_STATE, CircuitStates, CircuitStatus
<1>3. Breaker!NoCall \in Breaker!Calls /\ Breaker!NoCall.kind = "none"
  BY CallsConstructed DEF Breaker!NoCall
<1>4. Breaker!Idle \in Breaker!Execs
  BY SMT DEF Breaker!Idle, Breaker!Execs, Breaker!Pcs, Breaker!Outcomes
<1>5. /\ NoTx \in [stmt: Statements, now: Nat, next: CircuitStates, reply: Breaker!Calls]
      /\ NoTx.stmt = "none"
  BY <1>2, <1>3, SMT DEF NoTx, Statements
<1>6. TypeOK
  BY <1>1, <1>3, <1>4, <1>5, Zenon DEF Init, TypeOK
<1>7. ASSUME NEW c \in Callers PROVE Control(c) /\ Transaction(c)
  BY <1>3, <1>5 DEF Init, Control, Transaction, Pending
<1>8. QED
  BY <1>6, <1>7 DEF IInv

LEMMA CallerStepKeeps ==
    ASSUME IInv, NEW c \in Callers, Breaker!CallerStep(c), UNCHANGED dbVars
    PROVE  IInv'
<1>1. TypeOK /\ Control(c) /\ Transaction(c)
  BY DEF IInv
<1>2. PICK e \in Breaker!Execs, x \in Breaker!Calls : CallerEffect(c, e, x)
  BY <1>1, CallerStepEffect
<1>3. /\ exec' = [exec EXCEPT ![c] = e] /\ call' = [call EXCEPT ![c] = x]
      /\ UNCHANGED <<clock, row, lock, sql, healthy, probing, streak>>
  BY <1>2 DEF CallerEffect, dbVars
<1>4. TypeOK'
  BY <1>1, <1>3, SMT DEF TypeOK
<1>5. ASSUME NEW d \in Callers, d # c PROVE Control(d)' /\ Transaction(d)'
  <2>1. exec'[d] = exec[d] /\ call'[d] = call[d]
    BY <1>1, <1>3, <1>5, SMT DEF TypeOK
  <2>2. clock' \in Nat /\ clock <= clock'
    BY <1>1, <1>3, SMT DEF TypeOK
  <2>3. Transaction(d)'
    BY <1>1, <1>3, <2>1, <2>2, TransactionKept DEF IInv
  <2>4. QED
    BY <2>1, <2>3 DEF IInv, Control
<1>6. exec'[c] = e /\ call'[c] = x
  BY <1>1, <1>3, SMT DEF TypeOK
<1>7. Control(c)'
  BY <1>2, <1>6 DEF Control, CallerEffect
<1>8. Transaction(c)'
  <2>1. CASE Pending(c)
    <3>1. call'[c] = call[c] /\ clock' \in Nat /\ clock <= clock'
      BY <1>1, <1>2, <1>3, <1>6, <2>1, SMT DEF CallerEffect, TypeOK
    <3>2. QED
      BY <1>1, <1>3, <3>1, TransactionKept
  <2>2. CASE ~Pending(c)
    <3>1. sql[c].stmt = "none"
      BY <1>1, <2>2 DEF Transaction, Pending, IsAdmit, IsLockedRecord
    <3>2. Pending(c)' => call'[c].since <= clock'
      BY <1>1, <1>2, <1>3, <1>6, <2>2, SMT DEF CallerEffect, Pending, TypeOK
    <3>3. QED
      BY <1>3, <3>1, <3>2 DEF Transaction
  <2>3. QED
    BY <2>1, <2>2
<1>9. QED
  BY <1>4, <1>5, <1>7, <1>8 DEF IInv

\* A step of the store for c: the other transactions are kept when the row is,
\* and when it is not, nobody else has decided.
LEMMA StoreStepKeeps ==
    ASSUME IInv, TypeOK', NEW c \in Callers, Pending(c), UNCHANGED <<clock, exec>>,
           \A d \in Callers : d # c => call'[d] = call[d] /\ sql'[d] = sql[d],
           \A d \in Callers :
              d # c /\ sql[d].stmt = "update" => row' = row /\ lock' = lock,
           call'[c] = call[c] \/ ~Pending(c)', Transaction(c)'
    PROVE  IInv'
<1>1. ASSUME NEW d \in Callers, d # c PROVE Control(d)' /\ Transaction(d)'
  <2>1. clock' \in Nat /\ clock <= clock'
    BY SMT DEF IInv, TypeOK
  <2>2. Transaction(d)'
    BY <1>1, <2>1, TransactionKept DEF IInv
  <2>3. QED
    BY <1>1, <2>2 DEF IInv, Control
<1>2. Control(c)'
  <2>1. call[c] # Breaker!NoCall
    BY SMT DEF Pending, Breaker!NoCall
  <2>2. exec[c].pc \notin {"idle", "op"}
    BY <2>1 DEF IInv, Control
  <2>3. QED
    BY <2>2 DEF Control
<1>3. QED
  BY <1>1, <1>2 DEF IInv

LEMMA InvStep == IInv /\ [Next]_vars => IInv'
<1> SUFFICES ASSUME IInv, [Next]_vars PROVE IInv'
  OBVIOUS
<1>1. TypeOK /\ \A d \in Callers : Control(d) /\ Transaction(d)
  BY DEF IInv
<1>2. /\ \A d \in Callers : sql[d] \in [stmt: Statements, now: Nat,
                                       next: CircuitStates, reply: Breaker!Calls]
      /\ DOMAIN sql = Callers
  BY <1>1, SMT DEF TypeOK
<1>3. NoTx \in [stmt: Statements, now: Nat, next: CircuitStates, reply: Breaker!Calls]
      /\ NoTx.stmt = "none"
  BY CallsConstructed, SMT DEF NoTx, Statements, INITIAL_CIRCUIT_STATE, CircuitStates,
     CircuitStatus
<1>4. ASSUME NEW c \in Callers, ReadPlain(c) PROVE IInv'
  <2>1. Pending(c) /\ sql[c].stmt = "none" /\ UNCHANGED <<clock, exec, healthy, row, lock>>
    BY <1>4 DEF ReadPlain, IsAdmit, Pending, dbVars
  <2>a. PICK now \in Now(call[c].since) :
           LET decision == computeAdmit(rowToState(row), Cfg, now)
           IN  \/ /\ decision.state = rowToState(row)
                  /\ Breaker!Reply(c, Breaker!Admitted(decision.admission))
                  /\ UNCHANGED dbVars
                  /\ Breaker!Observe(c)
               \/ /\ decision.state # rowToState(row)
                  /\ Stmt(c, "insert", now)
                  /\ UNCHANGED <<row, lock, call, probing, streak>>
    BY <1>4, Zenon DEF ReadPlain
  <2>b. now \in Nat /\ now \in Breaker!Readings(call[c].since, clock)
    <3>1. /\ call[c].since \in Nat /\ clock \in Nat /\ call[c].since <= clock
          /\ call[c].since \in call[c].since .. clock
      BY <1>1, <2>1, CallsKinds, SMT DEF TypeOK, Pending, Transaction
    <3>2. now \in Breaker!Readings(call[c].since, clock)
      BY <3>1, NowIsReading
    <3>3. QED
      BY <1>1, <2>1, <3>2, ReadingsNat
  <2> DEFINE decision == computeAdmit(rowToState(row), Cfg, now)
  <2>2. CASE /\ Breaker!Reply(c, Breaker!Admitted(decision.admission))
             /\ UNCHANGED dbVars /\ Breaker!Observe(c)
    <3>3. decision.admission \in Admissions
      BY <1>1, <2>b, RowIsCircuit, AdmitType, SqlCfgAssumption
    <3>4. /\ Breaker!Admitted(decision.admission) \in Breaker!Calls
          /\ Breaker!Admitted(decision.admission).kind = "admitted"
      BY <3>3, CallsConstructed DEF Breaker!Admitted
    <3>5. /\ call' \in [Callers -> Breaker!Calls] /\ ~Pending(c)'
          /\ \A d \in Callers : d # c => call'[d] = call[d]
      BY <1>1, <2>2, <3>4, ReplyEffect
    <3>6. probing' \subseteq Callers /\ streak' \in 0 .. Cfg.threshold
      BY <1>1, <2>2, ObserveType
    <3>7. TypeOK'
      BY <1>1, <2>1, <2>2, <3>5, <3>6 DEF TypeOK, dbVars
    <3>8. Transaction(c)'
      BY <2>1, <2>2, <3>5 DEF Transaction, dbVars
    <3>9. QED
      BY <2>1, <2>2, <3>5, <3>7, <3>8, StoreStepKeeps DEF dbVars
  <2>3. CASE /\ Stmt(c, "insert", now)
             /\ UNCHANGED <<row, lock, call, probing, streak>>
    <3>1. sql' = [sql EXCEPT ![c] = [stmt |-> "insert", now |-> now,
                                     next |-> sql[c].next,
                                     reply |-> sql[c].reply]]
      BY <2>3 DEF Stmt
    <3>2. TypeOK'
      <4>1. [stmt |-> "insert", now |-> now, next |-> sql[c].next,
             reply |-> sql[c].reply]
              \in [stmt: Statements, now: Nat, next: CircuitStates,
                   reply: Breaker!Calls]
        BY <1>2, <2>b, SMT DEF Statements
      <4>2. QED
        BY <1>1, <2>1, <2>3, <3>1, <4>1 DEF TypeOK
    <3>3. Transaction(c)'
      <4>1. /\ sql'[c].stmt = "insert" /\ sql'[c].now = now
            /\ call'[c] = call[c] /\ clock' = clock /\ IsAdmit(c)
        BY <1>2, <1>4, <2>1, <2>3, <3>1, SMT DEF ReadPlain
      <4>2. (Pending(c) => call[c].since <= clock)'
        BY <1>1, <4>1 DEF Transaction, Pending
      <4>3. IsAdmit(c)'
        BY <4>1 DEF IsAdmit
      <4>4. (sql[c].now \in Breaker!Readings(call[c].since, clock))'
        BY <2>b, <4>1
      <4>5. QED
        BY <4>1, <4>2, <4>3, <4>4 DEF Transaction
    <3>4. QED
      BY <1>2, <2>1, <2>3, <3>1, <3>2, <3>3, StoreStepKeeps
  <2>4. QED
    BY <2>a, <2>2, <2>3
<1>5. ASSUME NEW c \in Callers, InsertInitial(c) PROVE IInv'
  <2>1. /\ Pending(c) /\ (IsAdmit(c) \/ IsLockedRecord(c))
        /\ sql[c].stmt \in {"none", "insert"}
        /\ UNCHANGED <<clock, row, call, exec, healthy, probing, streak>>
    BY <1>1, <1>5 DEF InsertInitial, Transaction, IsAdmit, IsLockedRecord, Pending
  <2>2. sql' = [sql EXCEPT ![c] = [stmt |-> "select", now |-> sql[c].now,
                                   next |-> sql[c].next,
                                   reply |-> sql[c].reply]]
    BY <1>5 DEF InsertInitial, Stmt
  <2>3. lock' = lock \/ (lock = {} /\ lock' = {c})
    BY <1>5, Zenon DEF InsertInitial
  <2>4. TypeOK'
    <3>1. lock' \subseteq Callers
      BY <1>1, <2>3, Zenon DEF TypeOK
    <3>2. [stmt |-> "select", now |-> sql[c].now, next |-> sql[c].next,
           reply |-> sql[c].reply]
            \in [stmt: Statements, now: Nat, next: CircuitStates,
                 reply: Breaker!Calls]
      BY <1>2, SMT DEF Statements
    <3>3. QED
      BY <1>1, <2>1, <2>2, <3>1, <3>2 DEF TypeOK
  <2>5. Transaction(c)'
    <3>1. /\ sql'[c].stmt = "select" /\ sql'[c].now = sql[c].now
          /\ call'[c] = call[c] /\ clock' = clock
      BY <1>2, <2>1, <2>2, SMT
    <3>2. IsAdmit(c) => sql[c].stmt = "insert"
      BY <1>5 DEF InsertInitial, IsAdmit, IsLockedRecord
    <3>3. IsAdmit(c) => sql[c].now \in Breaker!Readings(call[c].since, clock)
      BY <1>1, <3>2 DEF Transaction
    <3>4. (Pending(c) => call[c].since <= clock)'
      BY <1>1, <3>1 DEF Transaction, Pending
    <3>5. QED
      BY <2>1, <3>1, <3>3, <3>4 DEF Transaction, IsAdmit, IsLockedRecord
  <2>6. \A d \in Callers : sql[d].stmt = "update" => lock' = lock
    BY <1>1, <2>3, Zenon DEF Transaction
  <2>7. QED
    BY <1>2, <2>1, <2>2, <2>4, <2>5, <2>6, StoreStepKeeps
<1>6. ASSUME NEW c \in Callers, SelectForUpdate(c) PROVE IInv'
  <2>1. /\ Pending(c) /\ (IsAdmit(c) \/ IsLockedRecord(c))
        /\ lock \subseteq {c} /\ lock' = {c}
        /\ sql[c].stmt = "select"
        /\ UNCHANGED <<clock, row, call, exec, healthy, probing, streak>>
    BY <1>1, <1>6 DEF SelectForUpdate, Transaction, IsAdmit, IsLockedRecord, Pending
  <2>a. PICK now \in DecisionTimes(c) : sql' = [sql EXCEPT ![c] = Decision(c, now)]
    BY <1>6, Zenon DEF SelectForUpdate
  <2>2. now \in Breaker!Readings(call[c].since, clock)
    BY <1>1, <2>1, DecisionTimeIsReading
  <2>3. now \in Nat
    BY <1>1, <2>1, <2>2, ReadingsNat
  <2>4. /\ Decision(c, now) \in [stmt: Statements, now: Nat, next: CircuitStates,
                                 reply: Breaker!Calls]
        /\ sql'[c] = Decision(c, now) /\ sql'[c].stmt = "update"
    <3>1. /\ Decision(c, now) \in [stmt: Statements, now: Nat, next: CircuitStates,
                                   reply: Breaker!Calls]
          /\ Decision(c, now).stmt = "update"
      BY <1>1, <2>1, <2>3, DecisionType
    <3>2. QED
      BY <1>2, <2>a, <3>1, Zenon
  <2>5. TypeOK'
    BY <1>1, <2>1, <2>a, <2>4, SMT DEF TypeOK
  <2>7. Transaction(c)'
    <3>1. \E t \in Breaker!Readings(call[c].since, clock) :
             sql'[c] = Decision(c, t)'
      BY <2>1, <2>2, <2>4 DEF Decision, IsAdmit, rowToState
    <3>2. (Pending(c) => call[c].since <= clock)'
      BY <1>1, <2>1 DEF Transaction, Pending
    <3>3. QED
      BY <2>1, <2>4, <3>1, <3>2 DEF Transaction, IsAdmit, IsLockedRecord
  <2>8. \A d \in Callers : d # c => sql[d].stmt # "update"
    BY <1>1, <2>1, Zenon DEF Transaction
  <2>9. QED
    BY <1>2, <2>1, <2>a, <2>5, <2>7, <2>8, StoreStepKeeps
<1>7. ASSUME NEW c \in Callers, UpdateState(c) PROVE IInv'
  <2>1. /\ Pending(c) /\ lock = {c} /\ lock' = {}
        /\ row' = sql[c].next /\ sql' = [sql EXCEPT ![c] = NoTx]
        /\ UNCHANGED <<clock, exec, healthy>>
    BY <1>1, <1>7 DEF UpdateState, Transaction, IsAdmit, IsLockedRecord, Pending
  <2>2. sql[c].reply.kind \in {"admitted", "recorded"}
    <3>1. PICK now \in Breaker!Readings(call[c].since, clock) : sql[c] = Decision(c, now)
      BY <1>1, <1>7 DEF UpdateState, Transaction
    <3>2. QED
      BY <1>1, <2>1, <3>1, ReadingsNat, DecisionType
  <2>3. /\ call' \in [Callers -> Breaker!Calls] /\ ~Pending(c)'
        /\ \A d \in Callers : d # c => call'[d] = call[d]
    BY <1>1, <1>2, <1>7, <2>2, ReplyEffect DEF UpdateState
  <2>4. probing' \subseteq Callers /\ streak' \in 0 .. Cfg.threshold
    BY <1>1, <1>7, ObserveType DEF UpdateState
  <2>5. TypeOK'
    <3>1. row' \in CircuitStates
      BY <1>2, <2>1, SMT
    <3>2. sql' \in [Callers -> [stmt: Statements, now: Nat, next: CircuitStates,
                                reply: Breaker!Calls]]
      BY <1>1, <1>3, <2>1, Zenon DEF TypeOK
    <3>3. QED
      BY <1>1, <2>1, <2>3, <2>4, <3>1, <3>2, Zenon DEF TypeOK
  <2>6. Transaction(c)'
    BY <1>2, <1>3, <2>1, <2>3 DEF Transaction
  <2>7. \A d \in Callers : d # c => sql[d].stmt # "update"
    BY <1>1, <2>1, Zenon DEF Transaction
  <2>8. QED
    BY <1>2, <2>1, <2>3, <2>5, <2>6, <2>7, StoreStepKeeps
<1>8. ASSUME NEW c \in Callers, CloseIfDirty(c) PROVE IInv'
  <2>1. /\ Pending(c) /\ sql[c].stmt = "none"
        /\ UNCHANGED <<clock, exec, healthy, lock, sql>>
        /\ row' = row \/ (lock = {} /\ row # NoRow /\ row' = Close(row))
    BY <1>1, <1>8 DEF CloseIfDirty, IsClose, Transaction, IsAdmit, IsLockedRecord,
       Pending, Dirty
  <2>2. /\ Breaker!Recorded("closed") \in Breaker!Calls
        /\ Breaker!Recorded("closed").kind = "recorded"
    BY CallsConstructed DEF Breaker!Recorded, CircuitStatus
  <2>3. /\ call' \in [Callers -> Breaker!Calls] /\ ~Pending(c)'
        /\ \A d \in Callers : d # c => call'[d] = call[d]
    BY <1>1, <1>8, <2>2, ReplyEffect DEF CloseIfDirty
  <2>4. probing' \subseteq Callers /\ streak' \in 0 .. Cfg.threshold
    BY <1>1, <1>8, ObserveType DEF CloseIfDirty
  <2>5. row' \in CircuitStates \cup {NoRow}
    BY <1>1, <2>1, SMT DEF TypeOK, Close, CircuitStates, CircuitStatus
  <2>6. TypeOK'
    BY <1>1, <2>1, <2>3, <2>4, <2>5 DEF TypeOK
  <2>7. Transaction(c)'
    BY <2>1, <2>3 DEF Transaction
  <2>8. \A d \in Callers : sql[d].stmt = "update" => row' = row
    BY <1>1, <2>1, Zenon DEF Transaction
  <2>9. QED
    BY <2>1, <2>3, <2>6, <2>7, <2>8, StoreStepKeeps
<1>9. ASSUME NEW c \in Callers, Rollback(c) PROVE IInv'
  <2>1. /\ Pending(c) /\ lock' = lock \ {c}
        /\ sql' = [sql EXCEPT ![c] = NoTx]
        /\ call' = [call EXCEPT ![c] = Breaker!Failed]
        /\ UNCHANGED <<clock, row, exec, healthy, probing, streak>>
    BY <1>9 DEF Rollback, Pending
  <2>2. Breaker!Failed \in Breaker!Calls /\ Breaker!Failed.kind = "failed"
    BY CallsConstructed DEF Breaker!Failed
  <2>3. TypeOK'
    BY <1>1, <1>3, <2>1, <2>2, SMT DEF TypeOK
  <2>4. /\ call'[c] = Breaker!Failed /\ ~Pending(c)' /\ sql'[c] = NoTx
        /\ \A d \in Callers : d # c => call'[d] = call[d] /\ sql'[d] = sql[d]
    BY <1>1, <1>2, <2>1, <2>2, SMT DEF TypeOK, Pending
  <2>5. Transaction(c)'
    BY <1>3, <2>4 DEF Transaction
  <2>6. \A d \in Callers : d # c /\ sql[d].stmt = "update" => lock' = lock
    BY <1>1, <2>1, Zenon DEF Transaction
  <2>7. QED
    BY <2>1, <2>3, <2>4, <2>5, <2>6, StoreStepKeeps
<1>10. ASSUME UNCHANGED dbVars, Breaker!Pass PROVE IInv'
  <2>1. /\ clock' = clock + 1 /\ clock < MaxClock
        /\ UNCHANGED <<row, lock, sql, call, exec, healthy, probing, streak>>
    BY <1>10 DEF Breaker!Pass, Breaker!Tick, dbVars
  <2>2. TypeOK'
    BY <1>1, <2>1, SqlClockAssumption, SMT DEF TypeOK
  <2>3. clock' \in Nat /\ clock <= clock'
    BY <1>1, <2>1, SMT DEF TypeOK
  <2>4. ASSUME NEW d \in Callers PROVE Control(d)' /\ Transaction(d)'
    BY <1>1, <2>1, <2>3, TransactionKept DEF Control
  <2>5. QED
    BY <2>2, <2>4 DEF IInv
<1>11. ASSUME UNCHANGED <<clock, row, lock, sql, call, exec, probing, streak>>,
              healthy' \in BOOLEAN
       PROVE  IInv'
  <2>1. TypeOK'
    BY <1>1, <1>11 DEF TypeOK
  <2>2. clock' \in Nat /\ clock <= clock'
    BY <1>1, <1>11, SMT DEF TypeOK
  <2>3. ASSUME NEW d \in Callers PROVE Control(d)' /\ Transaction(d)'
    BY <1>1, <1>11, <2>2, TransactionKept DEF Control
  <2>4. QED
    BY <2>1, <2>3 DEF IInv
<1>12. CASE UNCHANGED dbVars /\ Breaker!Recover
  BY <1>11, <1>12 DEF Breaker!Recover, dbVars
<1>13. CASE UNCHANGED vars
  BY <1>1, <1>11, <1>13 DEF vars, TypeOK
<1>14. QED
  BY <1>4, <1>5, <1>6, <1>7, <1>8, <1>9, <1>10, <1>12, <1>13, CallerStepKeeps
     DEF Next, Proceed

\* Every state of the store, its transactions and its callers is well formed.
THEOREM TypeCorrect == Spec => []TypeOK
<1>1. IInv => TypeOK
  BY DEF IInv
<1>2. QED
  BY <1>1, InvInit, InvStep, PTL DEF Spec

\* The time between SELECT ... FOR UPDATE and UPDATE never makes a decision
\* stale: the lock keeps every writer out, the conditional UPDATE of a success
\* that takes no lock of its own included.
THEOREM DecisionFreshHolds == Spec => []DecisionFresh
<1>1. IInv => DecisionFresh
  BY DEF IInv, Transaction, DecisionFresh
<1>2. QED
  BY <1>1, InvInit, InvStep, PTL DEF Spec

-----------------------------------------------------------------------------
(* Refinement *)

LEMMA SameMachine ==
    /\ Breaker!INITIAL_CIRCUIT_STATE = INITIAL_CIRCUIT_STATE
    /\ \A s, cfg, now : Breaker!computeAdmit(s, cfg, now) = computeAdmit(s, cfg, now)
    /\ \A s, cfg, ok, probe, now :
          Breaker!computeRecord(s, cfg, ok, probe, now)
             = computeRecord(s, cfg, ok, probe, now)
<1>1. Breaker!INITIAL_CIRCUIT_STATE = INITIAL_CIRCUIT_STATE
  BY DEF Breaker!INITIAL_CIRCUIT_STATE, INITIAL_CIRCUIT_STATE
<1>2. ASSUME NEW s, NEW cfg, NEW now
      PROVE  Breaker!computeAdmit(s, cfg, now) = computeAdmit(s, cfg, now)
  BY Zenon DEF Breaker!computeAdmit, Breaker!Thaw, Breaker!Grants, Breaker!HalfOpen,
     computeAdmit, Thaw, Grants, HalfOpen
<1>3. ASSUME NEW s, NEW cfg, NEW ok, NEW probe, NEW now
      PROVE  Breaker!computeRecord(s, cfg, ok, probe, now)
                = computeRecord(s, cfg, ok, probe, now)
  BY Zenon DEF Breaker!computeRecord, Breaker!Release, Breaker!Close, Breaker!Trip,
     Breaker!CountFailure, computeRecord, Release, Close, Trip, CountFailure
<1>4. QED
  BY <1>1, <1>2, <1>3

LEMMA RefinesInit == Init => Breaker!Init
BY SameMachine DEF Init, Breaker!Init, Breaker!StoreInit, rowToState

\* The state of a row that is there is the row.
LEMMA WrittenRow ==
    /\ \A r \in CircuitStates : rowToState(r) = r
    /\ rowToState(NoRow) = INITIAL_CIRCUIT_STATE
<1>1. ASSUME NEW r \in CircuitStates PROVE r # NoRow
  BY SMT DEF CircuitStates, CircuitStatus, NoRow
<1>2. QED
  BY <1>1 DEF rowToState

\* A plain read that finds its decision to change nothing is the atomic admit.
LEMMA ReadPlainRefines ==
    ASSUME IInv, NEW c \in Callers, ReadPlain(c)
    PROVE  Breaker!StoreAdmit(c) \/ UNCHANGED Breaker!vars
<1>1. PICK now \in Now(call[c].since) :
         LET decision == computeAdmit(rowToState(row), Cfg, now)
         IN  \/ /\ decision.state = rowToState(row)
                /\ Breaker!Reply(c, Breaker!Admitted(decision.admission))
                /\ UNCHANGED dbVars
                /\ Breaker!Observe(c)
             \/ UNCHANGED <<row, lock, call, probing, streak>>
  BY Zenon DEF ReadPlain
<1> DEFINE decision == computeAdmit(rowToState(row), Cfg, now)
<1>2. CASE /\ decision.state = rowToState(row)
           /\ Breaker!Reply(c, Breaker!Admitted(decision.admission))
           /\ UNCHANGED dbVars
           /\ Breaker!Observe(c)
  <2>1. /\ call[c].kind = "admit" /\ UNCHANGED <<clock, exec, healthy>>
        /\ Pending(c) /\ TypeOK /\ Transaction(c)
    BY DEF ReadPlain, IsAdmit, Pending, IInv
  <2>2. now \in Breaker!Readings(call[c].since, clock)
    <3>1. /\ call[c].since \in Nat /\ clock \in Nat /\ call[c].since <= clock
          /\ call[c].since \in call[c].since .. clock
      BY <2>1, CallsKinds, SMT DEF TypeOK, Pending, Transaction
    <3>2. QED
      BY <3>1, NowIsReading
  <2>3. decision = Breaker!computeAdmit(rowToState(row), Cfg, now)
    BY SameMachine
  <2>4. rowToState(row)' = decision.state
    BY <1>2 DEF dbVars, rowToState
  <2> HIDE DEF decision
  <2>5. Breaker!Admit(c)
    BY <1>2, <2>1, <2>2, <2>3, <2>4 DEF Breaker!Admit
  <2>6. QED
    BY <1>2, <2>1, <2>5 DEF Breaker!StoreAdmit, Breaker!policyVars
<1>3. CASE UNCHANGED <<row, lock, call, probing, streak>>
  BY <1>3 DEF ReadPlain, Breaker!vars, rowToState
<1>4. QED
  BY <1>1, <1>2, <1>3

\* The transaction takes effect when it commits what it has decided, which is
\* what the atomic store would do at that moment.
LEMMA UpdateStateRefines ==
    ASSUME IInv, NEW c \in Callers, UpdateState(c)
    PROVE  Breaker!StoreAdmit(c) \/ Breaker!StoreRecord(c)
<1>1. PICK now \in Breaker!Readings(call[c].since, clock) : sql[c] = Decision(c, now)
  BY DEF IInv, UpdateState, Transaction
<1>2. /\ row' = sql[c].next /\ Breaker!Reply(c, sql[c].reply) /\ Breaker!Observe(c)
      /\ UNCHANGED <<clock, exec, healthy>>
  BY DEF UpdateState
<1>3. rowToState(row)' = sql[c].next
  <2>1. sql[c].next \in CircuitStates
    BY SMT DEF IInv, TypeOK
  <2>2. QED
    BY <1>2, <2>1, WrittenRow
<1>4. CASE IsAdmit(c)
  <2> DEFINE admit == Breaker!computeAdmit(rowToState(row), Cfg, now)
  <2>1. sql[c].next = admit.state /\ sql[c].reply = Breaker!Admitted(admit.admission)
    BY <1>1, <1>4, SameMachine DEF Decision
  <2>2. Breaker!Admit(c)
    BY <1>2, <1>3, <1>4, <2>1 DEF Breaker!Admit, IsAdmit
  <2>3. QED
    BY <1>2, <2>2 DEF Breaker!StoreAdmit, Breaker!policyVars
<1>5. CASE ~IsAdmit(c)
  <2> DEFINE record == Breaker!computeRecord(rowToState(row), Cfg, call[c].ok,
                                             call[c].probe, now)
  <2>1. sql[c].next = record.state /\ sql[c].reply = Breaker!Recorded(record.status)
    BY <1>1, <1>5, SameMachine DEF Decision
  <2>2. call[c].kind = "record"
    BY <1>5 DEF IInv, UpdateState, Transaction, IsLockedRecord
  <2>3. Breaker!Record(c)
    BY <1>2, <1>3, <2>1, <2>2 DEF Breaker!Record
  <2>4. QED
    BY <1>2, <2>3 DEF Breaker!StoreRecord, Breaker!policyVars
<1>6. QED
  BY <1>4, <1>5

\* The conditional UPDATE leaves alone exactly the rows a success would.
LEMMA CloseIfDirtyRefines ==
    ASSUME IInv, NEW c \in Callers, CloseIfDirty(c)
    PROVE  Breaker!StoreRecord(c)
<1> DEFINE record == Breaker!computeRecord(rowToState(row), Cfg, call[c].ok,
                                           call[c].probe, clock)
<1>1. /\ call[c].kind = "record" /\ call[c].ok = TRUE /\ call[c].probe = FALSE
      /\ Breaker!Reply(c, Breaker!Recorded("closed")) /\ Breaker!Observe(c)
      /\ UNCHANGED <<clock, exec, healthy>>
      /\ Pending(c) /\ TypeOK /\ Transaction(c)
  <2>1. call[c] \in Breaker!Calls
    BY SMT DEF IInv, TypeOK
  <2>2. QED
    BY <2>1, CallsKinds DEF CloseIfDirty, IsClose, Pending, IInv
<1>2. /\ rowToState(row) \in CircuitStates
      /\ record.state = Close(rowToState(row)) /\ record.status = "closed"
  <2>1. rowToState(row) \in CircuitStates
    BY <1>1, RowIsCircuit
  <2>2. record = computeRecord(rowToState(row), Cfg, TRUE, FALSE, clock)
    BY <1>1, SameMachine
  <2> HIDE DEF record
  <2>3. QED
    BY <2>1, <2>2, SMT DEF computeRecord, Release, Close
<1>3. rowToState(row)' = Close(rowToState(row))
  <2>1. CASE Dirty(row)
    <3>1. row \in CircuitStates /\ row' = Close(row)
      BY <1>1, <2>1 DEF CloseIfDirty, TypeOK, Dirty
    <3>2. row' \in CircuitStates
      BY <3>1, SMT DEF Close, CircuitStates, CircuitStatus
    <3>3. QED
      BY <3>1, <3>2, WrittenRow
  <2>2. CASE ~Dirty(row)
    <3>1. row' = row
      BY <2>2 DEF CloseIfDirty
    <3>2. Close(rowToState(row)) = rowToState(row)
      BY <1>2, <2>2, SMT DEF Dirty, rowToState, INITIAL_CIRCUIT_STATE, Close,
         CircuitStates, CircuitStatus
    <3>3. QED
      BY <3>1, <3>2
  <2>3. QED
    BY <2>1, <2>2
<1>4. clock \in Breaker!Readings(call[c].since, clock)
  <2>1. call[c].since \in Nat /\ clock \in Nat /\ call[c].since <= clock
    BY <1>1, CallsKinds, SMT DEF TypeOK, Transaction
  <2>2. QED
    BY <2>1, SqlSkewAssumption, SMT DEF Breaker!Readings
<1> HIDE DEF record
<1>5. Breaker!Record(c)
  BY <1>1, <1>2, <1>3, <1>4 DEF Breaker!Record, record
<1>6. QED
  BY <1>1, <1>5 DEF Breaker!StoreRecord, Breaker!policyVars

\* Inserting and locking the row is invisible, everything else is one step of
\* the atomic store or of the policy.
LEMMA RefinesStep == IInv /\ [Next]_vars => [Breaker!Next]_(Breaker!vars)
<1> SUFFICES ASSUME IInv, [Next]_vars
             PROVE  Breaker!Next \/ UNCHANGED Breaker!vars
  OBVIOUS
<1>1. ASSUME NEW c \in Callers, ReadPlain(c)
      PROVE  Breaker!Next \/ UNCHANGED Breaker!vars
  BY <1>1, ReadPlainRefines DEF Breaker!Next, Breaker!StoreStep
<1>2. ASSUME NEW c \in Callers, InsertInitial(c) \/ SelectForUpdate(c)
      PROVE  UNCHANGED Breaker!vars
  BY <1>2 DEF InsertInitial, SelectForUpdate, Breaker!vars, rowToState
<1>3. ASSUME NEW c \in Callers, UpdateState(c) PROVE Breaker!Next
  BY <1>3, UpdateStateRefines DEF Breaker!Next, Breaker!StoreStep
<1>4. ASSUME NEW c \in Callers, CloseIfDirty(c) PROVE Breaker!Next
  BY <1>4, CloseIfDirtyRefines DEF Breaker!Next, Breaker!StoreStep
<1>5. ASSUME NEW c \in Callers, Rollback(c) PROVE Breaker!Next
  <2>1. Breaker!StoreReject(c)
    BY <1>5 DEF Rollback, Alive, Breaker!StoreReject, Breaker!Reject, Breaker!At,
       rowToState
  <2>2. QED
    BY <2>1 DEF Breaker!Next, Breaker!StoreStep
<1>6. CASE UNCHANGED vars
  BY <1>6 DEF vars, Breaker!vars, rowToState
<1>7. QED
  BY <1>1, <1>2, <1>3, <1>4, <1>5, <1>6 DEF Next, Proceed, Breaker!Next

\* However the statements of concurrent transactions interleave, and whatever
\* fails in between, the store behaves as the atomic one: no lost update, no
\* failure counted twice, probe slots granted one by one.
THEOREM ImplementsBreakerHolds == Spec => ImplementsBreaker
<1>1. Init => Breaker!Init
  BY RefinesInit
<1>2. QED
  BY <1>1, InvInit, InvStep, RefinesStep, PTL DEF Spec, ImplementsBreaker, Breaker!Spec

-----------------------------------------------------------------------------
(* The cool-down *)

\* The deadline of an open row is in reach, and what a transaction is about to
\* write over it is not earlier, but for the difference of two clocks.
DeadlineInv ==
    /\ rowToState(row).status = "open"
          => rowToState(row).openUntil <= clock + Cfg.cooldownMs + Skew
    /\ \A c \in Callers :
          /\ sql[c].stmt = "update"
          /\ rowToState(row).status = "open" /\ sql[c].next.status = "open"
          => sql[c].next.openUntil + Skew >= rowToState(row).openUntil

\* A decision that leaves the circuit open keeps its deadline or sets a new one.
LEMMA DecisionDeadline ==
    ASSUME TypeOK, NEW c \in Callers, Pending(c), NEW now \in Nat,
           Decision(c, now).next.status = "open"
    PROVE  \/ /\ ~IsAdmit(c)
              /\ Decision(c, now).next.openUntil = now + Cfg.cooldownMs
           \/ /\ rowToState(row).status = "open"
              /\ Decision(c, now).next.openUntil = rowToState(row).openUntil
<1>1. call[c] \in Breaker!Calls /\ rowToState(row) \in CircuitStates
  BY RowIsCircuit, SMT DEF TypeOK
<1>2. CASE IsAdmit(c)
  <2>1. Decision(c, now).next = computeAdmit(rowToState(row), Cfg, now).state
    BY <1>2 DEF Decision
  <2>2. QED
    BY <1>1, <2>1, OpenDeadline, SqlCfgAssumption
<1>3. CASE ~IsAdmit(c)
  <2>1. call[c].ok \in BOOLEAN /\ call[c].probe \in BOOLEAN
    BY <1>1, <1>3, CallsKinds DEF IsAdmit, Pending
  <2>2. Decision(c, now).next = computeRecord(rowToState(row), Cfg, call[c].ok,
                                              call[c].probe, now).state
    BY <1>3 DEF Decision
  <2>3. QED
    BY <1>1, <1>3, <2>1, <2>2, OpenDeadline, SqlCfgAssumption
<1>4. QED
  BY <1>2, <1>3

LEMMA DeadlineInit == Init => DeadlineInv
BY WrittenRow, InvInit, SMT DEF Init, IInv, DeadlineInv, NoTx, INITIAL_CIRCUIT_STATE

\* A step that leaves the row alone, and decides nothing, keeps DeadlineInv.
LEMMA DeadlineKept ==
    ASSUME TypeOK, DeadlineInv, row' = row, clock' \in Nat, clock <= clock',
           \A c \in Callers : sql'[c].stmt = "update" => sql'[c] = sql[c]
    PROVE  DeadlineInv'
<1>1. /\ clock \in Nat /\ Skew \in Nat /\ Cfg.cooldownMs \in Nat
      /\ rowToState(row) \in CircuitStates /\ rowToState(row)' = rowToState(row)
      /\ rowToState(row).openUntil \in Nat
  BY RowIsCircuit, SqlSkewAssumption, SqlCfgAssumption, SMT
     DEF TypeOK, BreakerConfigs, rowToState, CircuitStates
<1>2. (rowToState(row).status = "open"
         => rowToState(row).openUntil <= clock + Cfg.cooldownMs + Skew)'
  BY <1>1, SMT DEF DeadlineInv
<1>3. QED
  BY <1>1, <1>2 DEF DeadlineInv

LEMMA DeadlineStep ==
    ASSUME IInv, IInv', DeadlineInv, [Next]_vars
    PROVE  /\ DeadlineInv'
           /\ rowToState(row).status = "open" /\ rowToState(row)'.status = "open"
              => rowToState(row)'.openUntil + Skew >= rowToState(row).openUntil
<1> DEFINE Kept == rowToState(row).status = "open" /\ rowToState(row)'.status = "open"
                   => rowToState(row)'.openUntil + Skew >= rowToState(row).openUntil
<1>1. /\ TypeOK /\ clock \in Nat /\ Skew \in Nat /\ Cfg.cooldownMs \in Nat
      /\ rowToState(row) \in CircuitStates
      /\ rowToState(row).openUntil \in Nat
  BY RowIsCircuit, SqlSkewAssumption, SqlCfgAssumption, SMT
     DEF IInv, TypeOK, BreakerConfigs, CircuitStates
<1>2. ASSUME row' = row, clock' \in Nat, clock <= clock',
             \A c \in Callers : sql'[c].stmt = "update" => sql'[c] = sql[c]
      PROVE  DeadlineInv' /\ Kept
  BY <1>1, <1>2, DeadlineKept, SMT DEF rowToState
<1>3. \A c \in Callers :
         /\ sql[c] \in [stmt: Statements, now: Nat, next: CircuitStates,
                       reply: Breaker!Calls]
         /\ \A x : sql' = [sql EXCEPT ![c] = x] =>
               sql'[c] = x /\ \A d \in Callers : d # c => sql'[d] = sql[d]
  BY <1>1, Zenon DEF TypeOK
<1>4. ASSUME NEW c \in Callers, NEW x, sql' = [sql EXCEPT ![c] = x],
             x.stmt # "update", UNCHANGED <<row, clock>>
      PROVE  DeadlineInv' /\ Kept
  BY <1>1, <1>2, <1>3, <1>4, SMT
<1>5. NoTx.stmt # "update"
  BY SMT DEF NoTx
<1>6. ASSUME NEW c \in Callers,
             ReadPlain(c) \/ InsertInitial(c) \/ Rollback(c)
      PROVE  DeadlineInv' /\ Kept
  <2>1. UNCHANGED <<row, clock>>
    BY <1>6 DEF ReadPlain, InsertInitial, Rollback, dbVars
  <2>2. \/ sql' = sql
        \/ sql' = [sql EXCEPT ![c] = NoTx]
        \/ \E s \in {"insert", "select"}, now \in Nat :
              sql' = [sql EXCEPT ![c] = [stmt |-> s, now |-> now,
                                         next |-> sql[c].next,
                                         reply |-> sql[c].reply]]
    <3>1. CASE ReadPlain(c)
      <4>1. PICK now \in Now(call[c].since) :
               sql' = sql \/ Stmt(c, "insert", now)
        BY <3>1, Zenon DEF ReadPlain, dbVars
      <4>2. now \in Nat
        <5>1. call[c].since \in Nat
          BY <1>1, <3>1, CallsKinds DEF ReadPlain, IsAdmit, TypeOK
        <5>2. QED
          BY <1>1, <5>1, SMT DEF Now
      <4>3. QED
        BY <4>1, <4>2 DEF Stmt
    <3>2. CASE InsertInitial(c)
      <4>1. sql[c].now \in Nat
        BY <1>3, SMT
      <4>2. QED
        BY <3>2, <4>1 DEF InsertInitial, Stmt
    <3>3. CASE Rollback(c)
      BY <3>3 DEF Rollback
    <3>4. QED
      BY <1>6, <3>1, <3>2, <3>3
  <2>3. CASE sql' = sql
    BY <1>1, <1>2, <2>1, <2>3, SMT
  <2>4. CASE sql' = [sql EXCEPT ![c] = NoTx]
    BY <1>4, <1>5, <2>1, <2>4
  <2>5. ASSUME NEW s \in {"insert", "select"}, NEW now \in Nat,
               sql' = [sql EXCEPT ![c] = [stmt |-> s, now |-> now,
                                          next |-> sql[c].next,
                                          reply |-> sql[c].reply]]
        PROVE  DeadlineInv' /\ Kept
    <3>1. [stmt |-> s, now |-> now, next |-> sql[c].next,
           reply |-> sql[c].reply].stmt # "update"
      BY <2>5, SMT
    <3>2. QED
      BY <1>4, <2>1, <2>5, <3>1
  <2>6. QED
    BY <2>2, <2>3, <2>4, <2>5
<1>7. ASSUME NEW c \in Callers, SelectForUpdate(c) PROVE DeadlineInv' /\ Kept
  <2>a. PICK now \in DecisionTimes(c) : sql' = [sql EXCEPT ![c] = Decision(c, now)]
    BY <1>7, Zenon DEF SelectForUpdate
  <2>1. /\ UNCHANGED <<row, clock>> /\ rowToState(row)' = rowToState(row)
        /\ Pending(c) /\ Transaction(c) /\ sql[c].stmt = "select"
    <3>1. Pending(c) /\ Transaction(c)
      BY <1>7 DEF SelectForUpdate, IInv, Transaction, Pending, IsAdmit, IsLockedRecord
    <3>2. QED
      BY <1>7, <3>1 DEF SelectForUpdate, rowToState
  <2>2. now \in Nat
    BY <1>1, <2>1, DecisionTimeIsReading, ReadingsNat
  <2>3. ~IsAdmit(c) => now >= clock
    BY <1>1, SMT DEF DecisionTimes, Now
  <2>4. ASSUME rowToState(row).status = "open", sql'[c].next.status = "open"
        PROVE  sql'[c].next.openUntil + Skew >= rowToState(row).openUntil
    <3>1. sql'[c] = Decision(c, now)
      BY <1>3, <2>a
    <3>2. rowToState(row).openUntil <= clock + Cfg.cooldownMs + Skew
      BY <2>4 DEF DeadlineInv
    <3>3. CASE ~IsAdmit(c) /\ sql'[c].next.openUntil = now + Cfg.cooldownMs
      BY <1>1, <2>2, <2>3, <3>2, <3>3, SMT
    <3>4. CASE sql'[c].next.openUntil = rowToState(row).openUntil
      BY <1>1, <3>4, SMT
    <3>5. QED
      BY <1>1, <2>1, <2>2, <2>4, <3>1, <3>3, <3>4, DecisionDeadline
  <2>5. ASSUME NEW d \in Callers
        PROVE  (/\ sql[d].stmt = "update"
                /\ rowToState(row).status = "open" /\ sql[d].next.status = "open"
                => sql[d].next.openUntil + Skew >= rowToState(row).openUntil)'
    <3>1. CASE d = c
      BY <2>1, <2>4, <3>1
    <3>2. CASE d # c
      BY <1>3, <2>1, <2>a, <3>2 DEF DeadlineInv
    <3>3. QED
      BY <3>1, <3>2
  <2>6. DeadlineInv'
    BY <2>1, <2>5 DEF DeadlineInv
  <2>7. QED
    BY <1>1, <2>1, <2>6, SMT
<1>8. ASSUME NEW c \in Callers, UpdateState(c) PROVE DeadlineInv' /\ Kept
  <2>1. /\ row' = sql[c].next /\ sql' = [sql EXCEPT ![c] = NoTx] /\ clock' = clock
        /\ Pending(c) /\ lock = {c}
    BY <1>8 DEF UpdateState, IInv, Transaction, Pending, IsAdmit, IsLockedRecord
  <2>2. /\ sql[c].next \in CircuitStates /\ rowToState(row)' = sql[c].next
        /\ sql[c].next.openUntil \in Nat
    <3>1. sql[c].next \in CircuitStates
      BY <1>3, SMT
    <3>2. QED
      BY <2>1, <3>1, WrittenRow, SMT DEF CircuitStates
  <2>3. Kept
    BY <1>8, <2>2 DEF DeadlineInv, UpdateState
  <2>4. sql[c].next.status = "open"
           => sql[c].next.openUntil <= clock + Cfg.cooldownMs + Skew
    <3>1. PICK now \in Breaker!Readings(call[c].since, clock) : sql[c] = Decision(c, now)
      BY <1>8 DEF UpdateState, IInv, Transaction
    <3>2. now \in Nat /\ now <= clock + Skew
      BY <1>1, <2>1, <3>1, ReadingsNat, SMT DEF Breaker!Readings
    <3>3. QED
      BY <1>1, <2>1, <2>2, <3>1, <3>2, DecisionDeadline, SMT DEF DeadlineInv
  <2>5. \A d \in Callers : sql'[d].stmt # "update"
    <3>1. \A d \in Callers : d # c => sql[d].stmt # "update"
      BY <2>1, Zenon DEF IInv, Transaction
    <3>2. QED
      BY <1>3, <1>5, <2>1, <3>1
  <2>6. DeadlineInv'
    BY <2>1, <2>2, <2>4, <2>5 DEF DeadlineInv
  <2>7. QED
    BY <2>3, <2>6
<1>9. ASSUME NEW c \in Callers, CloseIfDirty(c) PROVE DeadlineInv' /\ Kept
  <2>1. CASE Dirty(row)
    <3>1. row' = Close(row) /\ row \in CircuitStates /\ lock = {} /\ sql' = sql
      BY <1>1, <1>9, <2>1 DEF CloseIfDirty, Dirty, TypeOK
    <3>2. row' \in CircuitStates /\ row'.status = "closed"
      BY <3>1, SMT DEF Close, CircuitStates, CircuitStatus
    <3>3. rowToState(row)'.status # "open"
      BY <3>2, WrittenRow, SMT
    <3>4. QED
      BY <3>3 DEF DeadlineInv
  <2>2. CASE ~Dirty(row)
    BY <1>1, <1>2, <1>9, <2>2, SMT DEF CloseIfDirty
  <2>3. QED
    BY <2>1, <2>2
<1>10. ASSUME UNCHANGED dbVars, clock' \in Nat, clock <= clock'
       PROVE  DeadlineInv' /\ Kept
  BY <1>2, <1>10, SMT DEF dbVars
<1>11. ASSUME NEW c \in Callers, UNCHANGED dbVars, Breaker!CallerStep(c)
       PROVE  DeadlineInv' /\ Kept
  <2>1. UNCHANGED clock
    BY <1>1, <1>11, CallerStepEffect, Zenon DEF IInv, CallerEffect
  <2>2. QED
    BY <1>1, <1>10, <1>11, <2>1, SMT
<1>12. CASE UNCHANGED dbVars /\ (Breaker!Pass \/ Breaker!Recover)
  BY <1>1, <1>10, <1>12, SMT DEF Breaker!Pass, Breaker!Tick, Breaker!Recover
<1>13. CASE UNCHANGED vars
  BY <1>1, <1>10, <1>13, SMT DEF vars, dbVars
<1>14. QED
  BY <1>6, <1>7, <1>8, <1>9, <1>11, <1>12, <1>13 DEF Next, Proceed

\* While the circuit stays open, its cool-down is only ever extended: record()
\* reads the clock on the locked row.
THEOREM CoolDownNeverShortenedHolds == Spec => CoolDownNeverShortened
<1>1. IInv /\ IInv' /\ DeadlineInv /\ [Next]_vars => DeadlineInv'
  BY DeadlineStep
<1>2. IInv /\ IInv' /\ DeadlineInv /\ [Next]_vars
         => [/\ rowToState(row).status = "open"
             /\ rowToState(row)'.status = "open"
             => rowToState(row)'.openUntil + Skew >= rowToState(row).openUntil]_vars
  BY DeadlineStep
<1>3. QED
  BY <1>1, <1>2, InvInit, InvStep, DeadlineInit, PTL DEF Spec, CoolDownNeverShortened

-----------------------------------------------------------------------------
(* The policy over this store *)

\* A second instance of CircuitBreaker, with the theorems proved about it; the
\* lemmas below identify it with Breaker.
Proved == INSTANCE CircuitBreakerProofs WITH circuit <- rowToState(row)

LEMMA SameCallerStep ==
    ASSUME NEW c
    PROVE  Breaker!CallerStep(c) <=> Proved!CallerStep(c)
BY Zenon
 DEF Breaker!CallerStep, Proved!CallerStep, Breaker!PolicyStep, Proved!PolicyStep,
     Breaker!Execute, Proved!Execute, Breaker!RunOp, Proved!RunOp, Breaker!ShortCircuit,
     Proved!ShortCircuit, Breaker!SinkThrowsOnProbe, Proved!SinkThrowsOnProbe,
     Breaker!OpResolves, Proved!OpResolves, Breaker!OpRejects, Proved!OpRejects,
     Breaker!ReturnResult, Proved!ReturnResult, Breaker!CatchAfterSuccess,
     Proved!CatchAfterSuccess, Breaker!RethrowError, Proved!RethrowError, Breaker!Reset,
     Proved!Reset, Breaker!ResetReturns, Proved!ResetReturns, Breaker!Crash,
     Proved!Crash, Breaker!CallAdmit, Proved!CallAdmit, Breaker!CallRecord,
     Proved!CallRecord, Breaker!AdmitRequest, Proved!AdmitRequest,
     Breaker!RecordRequest, Proved!RecordRequest, Breaker!At, Proved!At, Breaker!Goto,
     Proved!Goto, Breaker!Return, Proved!Return, Breaker!Settle, Proved!Settle,
     Breaker!Local, Proved!Local, Breaker!NoCall, Proved!NoCall, Breaker!Idle,
     Proved!Idle

LEMMA SameStoreStep ==
    ASSUME NEW c
    PROVE  Breaker!StoreStep(c) <=> Proved!StoreStep(c)
<1>1. Breaker!StoreAdmit(c) <=> Proved!StoreAdmit(c)
  BY Zenon
   DEF Breaker!StoreAdmit, Proved!StoreAdmit, Breaker!Admit, Proved!Admit,
       Breaker!Admitted, Proved!Admitted, Breaker!computeAdmit, Proved!computeAdmit,
       Breaker!Thaw, Proved!Thaw, Breaker!Grants, Proved!Grants, Breaker!HalfOpen,
       Proved!HalfOpen, Breaker!Reply, Proved!Reply, Breaker!Failed, Proved!Failed,
       Breaker!Readings, Proved!Readings, Breaker!Observe, Proved!Observe,
       Breaker!policyVars, Proved!policyVars
<1>2. Breaker!StoreRecord(c) <=> Proved!StoreRecord(c)
  BY Zenon
   DEF Breaker!StoreRecord, Proved!StoreRecord, Breaker!Record, Proved!Record,
       Breaker!Recorded, Proved!Recorded, Breaker!computeRecord, Proved!computeRecord,
       Breaker!Release, Proved!Release, Breaker!Close, Proved!Close, Breaker!Trip,
       Proved!Trip, Breaker!CountFailure, Proved!CountFailure, Breaker!Reply,
       Proved!Reply, Breaker!Failed, Proved!Failed, Breaker!Readings, Proved!Readings,
       Breaker!Observe, Proved!Observe, Breaker!policyVars, Proved!policyVars
<1>3. Breaker!StoreReject(c) <=> Proved!StoreReject(c)
  BY Zenon
   DEF Breaker!StoreReject, Proved!StoreReject, Breaker!Reject, Proved!Reject,
       Breaker!At, Proved!At, Breaker!Failed, Proved!Failed
<1>4. QED
  BY <1>1, <1>2, <1>3, Zenon DEF Breaker!StoreStep, Proved!StoreStep

LEMMA SameSpec == Breaker!Spec => Proved!Spec
<1>1. Breaker!Init => Proved!Init
  BY Zenon
   DEF Breaker!Init, Proved!Init, Breaker!StoreInit, Proved!StoreInit,
       Breaker!INITIAL_CIRCUIT_STATE, Proved!INITIAL_CIRCUIT_STATE, Breaker!NoCall,
       Proved!NoCall, Breaker!Idle, Proved!Idle
<1>2. Breaker!Next => Proved!Next
  <2>1. (Breaker!Pass <=> Proved!Pass) /\ (Breaker!Recover <=> Proved!Recover)
    BY Zenon
     DEF Breaker!Pass, Proved!Pass, Breaker!Tick, Proved!Tick, Breaker!Recover,
         Proved!Recover
  <2>2. QED
    BY <2>1, SameCallerStep, SameStoreStep, Zenon DEF Breaker!Next, Proved!Next
<1>3. [Breaker!Next]_(Breaker!vars) => [Proved!Next]_(Proved!vars)
  BY <1>2 DEF Breaker!vars, Proved!vars
<1>4. QED
  BY <1>1, <1>3, PTL DEF Breaker!Spec, Proved!Spec

LEMMA SameSlots ==
    /\ Breaker!ProbeSlotsExclusive <=> Proved!ProbeSlotsExclusive
    /\ Breaker!NoSlotLeaked <=> Proved!NoSlotLeaked
<1>1. \A S : Breaker!Cardinality(S) = Proved!Cardinality(S)
  BY Zenon DEF Breaker!Cardinality, Proved!Cardinality
<1>2. \A c : Breaker!HoldsSlot(c) <=> Proved!HoldsSlot(c)
  BY Zenon
   DEF Breaker!HoldsSlot, Proved!HoldsSlot, Breaker!InProbe, Proved!InProbe, Breaker!At,
       Proved!At
<1>3. {c \in probing : Breaker!HoldsSlot(c)} = {c \in probing : Proved!HoldsSlot(c)}
  BY <1>2, Zenon
<1>4. QED
  BY <1>1, <1>3
  DEF Breaker!ProbeSlotsExclusive, Proved!ProbeSlotsExclusive, Breaker!NoSlotLeaked,
      Proved!NoSlotLeaked

\* What the theorems assume of the constants.
LEMMA ConstantsProper ==
    /\ Cfg \in Proved!BreakerConfigs
    /\ MaxClock \in Nat /\ Skew \in Nat
    /\ Faults \subseteq Proved!FaultKinds
    /\ Resetters \subseteq Callers
BY SqlCfgAssumption, SqlClockAssumption, SqlSkewAssumption, SqlFaultsAssumption,
   SqlResettersAssumption
DEF BreakerConfigs, Proved!BreakerConfigs, Breaker!FaultKinds, Proved!FaultKinds

\* Whatever fails, and however the statements of concurrent transactions
\* interleave, the row never has more probe slots taken than halfOpenMax, and a
\* circuit that stays open keeps its cool-down.
THEOREM PolicySafe ==
    Spec => /\ []Breaker!ProbeSlotsExclusive
            /\ []Breaker!CoolDownBounded
            /\ Breaker!CoolDownKept
<1>1. Proved!Spec => []Proved!ProbeSlotsExclusive
  BY ConstantsProper, Proved!ProbeSlotsExclusiveHolds
<1>2. Proved!Spec => []Proved!CoolDownBounded
  BY ConstantsProper, Proved!CoolDownBoundedHolds
<1>3. Proved!Spec => Proved!CoolDownKept
  BY ConstantsProper, Proved!CoolDownKeptHolds
<1>4. Breaker!CoolDownBounded <=> Proved!CoolDownBounded
  BY DEF Breaker!CoolDownBounded, Proved!CoolDownBounded
<1>5. Breaker!CoolDownKept <=> Proved!CoolDownKept
  BY DEF Breaker!CoolDownKept, Proved!CoolDownKept, Breaker!vars, Proved!vars
<1>6. QED
  BY <1>1, <1>2, <1>3, <1>4, <1>5, SameSlots, SameSpec, ImplementsBreakerHolds, PTL
  DEF ImplementsBreaker

\* While the database answers, the failures of a closed row are exactly the
\* operations that failed since the last success: no update is lost between the
\* SELECT and the UPDATE of one transaction, nor to the lock-free success, so the
\* row opens at the threshold, or by a probe that reports late.
THEOREM PolicyCountsExactly ==
    ASSUME "store" \notin Faults
    PROVE  Spec => /\ []Breaker!FailureCountExact
                   /\ Breaker!OpensByCountOrLateProbe
<1>1. Proved!Spec => []Proved!FailureCountExact
  BY ConstantsProper, Proved!FailureCountExactHolds
<1>2. Proved!Spec => Proved!OpensByCountOrLateProbe
  BY ConstantsProper, Proved!OpensByCountOrLateProbeHolds
<1>3. Breaker!FailureCountExact <=> Proved!FailureCountExact
  BY DEF Breaker!FailureCountExact, Proved!FailureCountExact
<1>4. Breaker!OpensByCountOrLateProbe <=> Proved!OpensByCountOrLateProbe
  BY DEF Breaker!OpensByCountOrLateProbe, Proved!OpensByCountOrLateProbe,
         Breaker!vars, Proved!vars
<1>5. QED
  BY <1>1, <1>2, <1>3, <1>4, SameSpec, ImplementsBreakerHolds, PTL
  DEF ImplementsBreaker

\* Only an operation that failed opens the row: no transaction writes an open
\* circuit over a row that a success has closed since it was read, and none does
\* once the dependency is healthy and its earlier failures are written.
THEOREM PolicyOpensOnFailure ==
    ASSUME "store" \notin Faults, "sink" \notin Faults
    PROVE  Spec => /\ Breaker!OpenedOnlyByFailedOps
                   /\ Breaker!StaysClosedOnceHealthy
<1>1. Proved!Spec => Proved!OpenedOnlyByFailedOps
  BY ConstantsProper, Proved!OpenedOnlyByFailedOpsHolds
<1>2. Proved!Spec => Proved!StaysClosedOnceHealthy
  BY ConstantsProper, Proved!StaysClosedOnceHealthyHolds
<1>3. Breaker!OpenedOnlyByFailedOps <=> Proved!OpenedOnlyByFailedOps
  BY DEF Breaker!OpenedOnlyByFailedOps, Proved!OpenedOnlyByFailedOps, Breaker!vars,
         Proved!vars
<1>4. Breaker!StaysClosedOnceHealthy <=> Proved!StaysClosedOnceHealthy
  BY DEF Breaker!StaysClosedOnceHealthy, Proved!StaysClosedOnceHealthy,
         Breaker!OverWithFailures, Proved!OverWithFailures, Breaker!vars, Proved!vars
<1>5. QED
  BY <1>1, <1>2, <1>3, <1>4, SameSpec, ImplementsBreakerHolds, PTL
  DEF ImplementsBreaker

\* Without faults every slot taken in a half-open row belongs to a caller that
\* has its outcome still to record.
THEOREM PolicyLeaksNoSlot ==
    ASSUME Faults = {}
    PROVE  Spec => []Breaker!NoSlotLeaked
<1>1. Proved!Spec => []Proved!NoSlotLeaked
  BY ConstantsProper, Proved!NoSlotLeakedHolds
<1>2. QED
  BY <1>1, SameSlots, SameSpec, ImplementsBreakerHolds, PTL DEF ImplementsBreaker

=============================================================================
