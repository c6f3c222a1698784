-------------------------- MODULE DrizzleStoreProofs --------------------------
(***************************************************************************)
(* DrizzleResilienceStore implements the atomic store between processes    *)
(* that share one SQLite file: a decision that another commit has made     *)
(* stale is never written.  For every set of processes and configuration,  *)
(* and clocks that differ by up to Skew.                                   *)
(***************************************************************************)
EXTENDS DrizzleStore, CircuitStateProofs, FiniteSetTheorems

\* A transaction that may still commit what it has decided.
Decided(c) == tx[c].at = "persist" \/ (tx[c].at = "load" /\ ~tx[c].stale)

\* What it has decided is what the row calls for, at a time since the call.
Fresh(c) ==
    Decided(c) =>
        \E now \in Breaker!Readings(call[c].since, clock) :
            /\ tx[c].next = Decision(c, now).next
            /\ tx[c].reply = Decision(c, now).reply

\* A request in flight was sent before now, by an execution that waits for it.
Sane(c) ==
    /\ Pending(c) => call[c].since \in 0 .. clock
    /\ call[c].kind = "record" => call[c].ok \in BOOLEAN
    /\ exec[c].pc \in {"idle", "op"} => ~Pending(c)

SingleWriter ==
    \A c, d \in Callers : tx[c].at = "persist" /\ tx[d].at = "persist" => c = d

Txs == [at: Statements, stale: BOOLEAN, next: CircuitStates, reply: Breaker!Calls]

IInv ==
    /\ row \in CircuitStates \cup {NoRow}
    /\ tx \in [Callers -> Txs]
    /\ clock \in Nat
    /\ call = [c \in Callers |-> call[c]]
    /\ exec = [c \in Callers |-> exec[c]]
    /\ SingleWriter
    /\ \A c \in Callers : /\ tx[c].at # "none" => Pending(c)
                          /\ Sane(c) /\ Fresh(c)

-----------------------------------------------------------------------------
(* Steps of a caller *)

\* What a caller does between two of its awaits: it never touches a call that
\* is pending, and a call it makes is made now.
CallerEffect(c, e, x) ==
    /\ exec' = [exec EXCEPT ![c] = e]
    /\ call' = [call EXCEPT ![c] = x]
    /\ clock' = clock
    /\ e.pc \in {"idle", "op"} => x.kind \notin {"admit", "record"}
    /\ Pending(c) => x = call[c]
    /\ \/ x = call[c]
       \/ x.kind \notin {"admit", "record"}
       \/ x.since = clock /\ (x.kind = "record" => x.ok \in BOOLEAN)

LEMMA Requests ==
    /\ Breaker!NoCall.kind \notin {"admit", "record"}
    /\ Breaker!Failed.kind \notin {"admit", "record"}
    /\ Breaker!Idle.pc = "idle"
    /\ \A now : /\ Breaker!AdmitRequest(now).since = now
                /\ Breaker!AdmitRequest(now).kind = "admit"
BY SMT DEF Breaker!NoCall, Breaker!Failed, Breaker!Idle, Breaker!AdmitRequest

LEMMA CallerStepEffect ==
    ASSUME NEW c \in Callers, Sane(c), Breaker!CallerStep(c),
           call = [d \in Callers |-> call[d]]
    PROVE  \E e, x : CallerEffect(c, e, x)
<1>1. CASE Breaker!Execute(c)
  <2>1. CallerEffect(c, [pc |-> "admit", probe |-> exec[c].probe,
                         outcome |-> exec[c].outcome], Breaker!AdmitRequest(clock))
    BY <1>1, Requests DEF CallerEffect, Breaker!Execute, Breaker!At, Breaker!Goto,
       Breaker!CallAdmit, Breaker!Local, Sane, Pending
  <2>2. QED
    BY <2>1
<1>2. CASE Breaker!RunOp(c)
  <2>1. CallerEffect(c, [pc |-> "op", outcome |-> "none",
                         probe |-> call[c].admission.probe], Breaker!NoCall)
    BY <1>2, Requests DEF CallerEffect, Breaker!RunOp, Breaker!Local, Pending
  <2>2. QED
    BY <2>1
<1>3. CASE Breaker!ShortCircuit(c) \/ Breaker!ReturnResult(c) \/ Breaker!RethrowError(c)
             \/ Breaker!ResetReturns(c) \/ Breaker!SinkThrowsOnProbe(c)
  <2>1. CallerEffect(c, Breaker!Idle, Breaker!NoCall)
    BY <1>3, Requests DEF CallerEffect, Breaker!ShortCircuit, Breaker!ReturnResult,
       Breaker!RethrowError, Breaker!ResetReturns, Breaker!SinkThrowsOnProbe,
       Breaker!Return, Breaker!Local, Pending
  <2>2. QED
    BY <2>1
<1>4. CASE Breaker!OpResolves(c)
  <2>1. /\ Breaker!RecordRequest(clock, TRUE, exec[c].probe).since = clock
        /\ Breaker!RecordRequest(clock, TRUE, exec[c].probe).ok = TRUE
    BY DEF Breaker!RecordRequest
  <2>2. CallerEffect(c, [pc |-> "recordOk", outcome |-> "resolved",
                         probe |-> exec[c].probe],
                     Breaker!RecordRequest(clock, TRUE, exec[c].probe))
    BY <1>4, <2>1 DEF CallerEffect, Breaker!OpResolves, Breaker!At, Breaker!Settle,
       Breaker!CallRecord, Breaker!Local, Sane
  <2>3. QED
    BY <2>2
<1>5. CASE Breaker!OpRejects(c)
  <2>1. /\ Breaker!RecordRequest(clock, FALSE, exec[c].probe).since = clock
        /\ Breaker!RecordRequest(clock, FALSE, exec[c].probe).ok = FALSE
    BY DEF Breaker!RecordRequest
  <2>2. CallerEffect(c, [pc |-> "recordErr", outcome |-> "rejected",
                         probe |-> exec[c].probe],
                     Breaker!RecordRequest(clock, FALSE, exec[c].probe))
    BY <1>5, <2>1 DEF CallerEffect, Breaker!OpRejects, Breaker!At, Breaker!Settle,
       Breaker!CallRecord, Breaker!Local, Sane
  <2>3. QED
    BY <2>2
<1>6. CASE Breaker!CatchAfterSuccess(c)
  <2>1. /\ Breaker!RecordRequest(clock, FALSE, exec[c].probe).since = clock
        /\ Breaker!RecordRequest(clock, FALSE, exec[c].probe).ok = FALSE
    BY DEF Breaker!RecordRequest
  <2>2. CallerEffect(c, [pc |-> "recordErr", probe |-> exec[c].probe,
                         outcome |-> exec[c].outcome],
                     Breaker!RecordRequest(clock, FALSE, exec[c].probe))
    BY <1>6, <2>1 DEF CallerEffect, Breaker!CatchAfterSuccess, Breaker!Goto,
       Breaker!CallRecord, Breaker!Local, Pending
  <2>3. QED
    BY <2>2
<1>7. CASE Breaker!Reset(c)
  <2>1. /\ Breaker!RecordRequest(clock, TRUE, FALSE).since = clock
        /\ Breaker!RecordRequest(clock, TRUE, FALSE).ok = TRUE
    BY DEF Breaker!RecordRequest
  <2>2. CallerEffect(c, [pc |-> "reset", probe |-> exec[c].probe,
                         outcome |-> exec[c].outcome],
                     Breaker!RecordRequest(clock, TRUE, FALSE))
    BY <1>7, <2>1 DEF CallerEffect, Breaker!Reset, Breaker!At, Breaker!Goto,
       Breaker!CallRecord, Breaker!Local, Sane
  <2>3. QED
    BY <2>2
<1>8. CASE Breaker!Crash(c)
  <2>1. CallerEffect(c, [pc |-> "crashed", probe |-> exec[c].probe,
                         outcome |-> exec[c].outcome], call[c])
    BY <1>8 DEF CallerEffect, Breaker!Crash, Breaker!Goto, Breaker!Local
  <2>2. QED
    BY <2>1
<1>9. QED
  BY <1>1, <1>2, <1>3, <1>4, <1>5, <1>6, <1>7, <1>8 DEF Breaker!CallerStep, Breaker!PolicyStep

-----------------------------------------------------------------------------
(* Decisions *)

LEMMA ReplyTypes ==
    /\ Breaker!NoCall \in Breaker!Calls
    /\ \A admission \in Admissions :
          /\ Breaker!Admitted(admission) \in Breaker!Calls
          /\ Breaker!Admitted(admission).kind \notin {"admit", "record"}
    /\ \A status \in CircuitStatus :
          /\ Breaker!Recorded(status) \in Breaker!Calls
          /\ Breaker!Recorded(status).kind \notin {"admit", "record"}
<1>1. /\ Breaker!NoCall \in Breaker!Calls
      /\ \A admission \in Admissions : Breaker!Admitted(admission) \in Breaker!Calls
      /\ \A status \in CircuitStatus : Breaker!Recorded(status) \in Breaker!Calls
  BY Zenon DEF Breaker!Calls, Breaker!NoCall, Breaker!Admitted, Breaker!Recorded,
     Admissions, CircuitStatus, Breaker!Admissions, Breaker!CircuitStatus
<1>2. /\ \A admission : Breaker!Admitted(admission).kind \notin {"admit", "record"}
      /\ \A status : Breaker!Recorded(status).kind \notin {"admit", "record"}
  BY SMT DEF Breaker!Admitted, Breaker!Recorded
<1>3. QED
  BY <1>1, <1>2

LEMMA LoadedType ==
    ASSUME row \in CircuitStates \cup {NoRow}
    PROVE  Loaded(row) \in CircuitStates
BY SMT DEF Loaded, INITIAL_CIRCUIT_STATE, CircuitStates, CircuitStatus

LEMMA DecisionType ==
    ASSUME IInv, NEW c \in Callers, Pending(c), NEW now \in Nat
    PROVE  /\ Decision(c, now) \in Txs
           /\ Decision(c, now).at = "load" /\ ~Decision(c, now).stale
           /\ Decision(c, now).reply.kind \notin {"admit", "record"}
<1>1. Loaded(row) \in CircuitStates
  BY LoadedType DEF IInv
<1> DEFINE admit == computeAdmit(Loaded(row), Cfg, now)
           record == computeRecord(Loaded(row), Cfg, call[c].ok, call[c].probe, now)
<1>2. ASSUME NEW next \in CircuitStates, NEW reply \in Breaker!Calls,
             reply.kind \notin {"admit", "record"},
             Decision(c, now) = [at |-> "load", stale |-> FALSE, next |-> next,
                                 reply |-> reply]
      PROVE  /\ Decision(c, now) \in Txs
             /\ Decision(c, now).at = "load" /\ ~Decision(c, now).stale
             /\ Decision(c, now).reply.kind \notin {"admit", "record"}
  BY <1>2 DEF Txs, Statements
<1>3. CASE IsAdmit(c)
  <2>1. admit.state \in CircuitStates /\ admit.admission \in Admissions
    BY <1>1, AdmitType, DrizzleCfgAssumption
  <2>2. Decision(c, now) = [at |-> "load", stale |-> FALSE, next |-> admit.state,
                            reply |-> Breaker!Admitted(admit.admission)]
    BY <1>3 DEF Decision
  <2> HIDE DEF admit
  <2>3. QED
    BY <1>2, <2>1, <2>2, ReplyTypes
<1>4. CASE ~IsAdmit(c)
  <2>1. call[c].ok \in BOOLEAN
    BY <1>4 DEF IInv, Sane, Pending, IsAdmit
  <2>2. record.state \in CircuitStates /\ record.status \in CircuitStatus
    BY <1>1, <2>1, RecordType, DrizzleCfgAssumption
  <2>3. Decision(c, now) = [at |-> "load", stale |-> FALSE, next |-> record.state,
                            reply |-> Breaker!Recorded(record.status)]
    BY <1>4 DEF Decision
  <2> HIDE DEF record
  <2>4. QED
    BY <1>2, <2>2, <2>3, ReplyTypes
<1>5. QED
  BY <1>3, <1>4

LEMMA ReadingsMonotone ==
    ASSUME NEW from \in Nat, NEW to \in Nat, NEW later \in Nat, to <= later,
           NEW now \in Breaker!Readings(from, to)
    PROVE  now \in Breaker!Readings(from, later)
BY DrizzleSkewAssumption, SMT DEF Breaker!Readings

LEMMA ReadingsNat ==
    ASSUME IInv, NEW c \in Callers, Pending(c),
           NEW now \in Breaker!Readings(call[c].since, clock)
    PROVE  now \in Nat /\ now <= clock + Skew
<1>1. call[c].since \in Nat /\ clock \in Nat
  BY SMT DEF IInv, Sane
<1>2. QED
  BY <1>1, DrizzleSkewAssumption, SMT DEF Breaker!Readings

LEMMA DecisionTimeIsReading ==
    ASSUME IInv, NEW c \in Callers, Pending(c), NEW now \in DecisionTimes(c)
    PROVE  /\ now \in Breaker!Readings(call[c].since, clock)
           /\ now \in Nat /\ now >= clock
<1>1. call[c].since \in Nat /\ clock \in Nat /\ call[c].since <= clock
  BY SMT DEF IInv, Sane
<1>2. QED
  BY <1>1, DrizzleSkewAssumption, SMT DEF Breaker!Readings, DecisionTimes, Now

-----------------------------------------------------------------------------
(* The invariant *)

\* A step that leaves a transaction and its row alone keeps it fresh.
LEMMA FreshKept ==
    ASSUME IInv, NEW d \in Callers, Fresh(d), call'[d] = call[d],
           clock' \in Nat, clock <= clock',
           Decided(d)' => /\ Decided(d) /\ Pending(d) /\ row' = row
                          /\ tx'[d].next = tx[d].next /\ tx'[d].reply = tx[d].reply
    PROVE  Fresh(d)'
<1> SUFFICES ASSUME Decided(d)'
             PROVE  (\E now \in Breaker!Readings(call[d].since, clock) :
                        /\ tx[d].next = Decision(d, now).next
                        /\ tx[d].reply = Decision(d, now).reply)'
  BY DEF Fresh
<1>1. PICK now \in Breaker!Readings(call[d].since, clock) :
         tx[d].next = Decision(d, now).next /\ tx[d].reply = Decision(d, now).reply
  BY DEF Fresh
<1>2. now \in Breaker!Readings(call[d].since, clock')
  <2>1. Pending(d)
    OBVIOUS
  <2>2. call[d].since \in Nat /\ clock \in Nat
    BY <2>1, SMT DEF IInv, Sane
  <2>3. QED
    BY <1>1, <2>2, ReadingsMonotone
<1>3. Decision(d, now)' = Decision(d, now)
  BY DEF Decision, IsAdmit, Loaded
<1>4. QED
  BY <1>1, <1>2, <1>3

LEMMA SaneKept ==
    ASSUME NEW d \in Callers, Sane(d), call'[d] = call[d], exec'[d] = exec[d],
           clock \in Nat, clock' \in Nat, clock <= clock'
    PROVE  Sane(d)'
BY SMT DEF Sane, Pending

\* A call that is answered is no longer pending.
LEMMA Answered ==
    ASSUME IInv, NEW c \in Callers, NEW x, call' = [call EXCEPT ![c] = x],
           x.kind \notin {"admit", "record"}, UNCHANGED <<clock, exec>>
    PROVE  /\ call' = [d \in Callers |-> call'[d]]
           /\ ~Pending(c)' /\ Sane(c)'
           /\ \A d \in Callers : d # c => call'[d] = call[d] /\ Sane(d)'
<1>1. /\ call' = [d \in Callers |-> call'[d]] /\ call'[c] = x
      /\ \A d \in Callers : d # c => call'[d] = call[d]
  BY DEF IInv
<1>2. ~Pending(c)' /\ Sane(c)'
  BY <1>1, SMT DEF Pending, Sane
<1>3. clock \in Nat /\ clock' \in Nat /\ clock <= clock' /\ \A d \in Callers : Sane(d)
  BY SMT DEF IInv
<1>4. ASSUME NEW d \in Callers, d # c PROVE Sane(d)'
  BY <1>1, <1>3, <1>4, SaneKept
<1>5. QED
  BY <1>1, <1>2, <1>4

LEMMA InvInit == Init => IInv
<1> SUFFICES ASSUME Init PROVE IInv
  OBVIOUS
<1>1. INITIAL_CIRCUIT_STATE \in CircuitStates
  BY SMT DEF INITIAL_CIRCUIT_STATE, CircuitStates, CircuitStatus
<1>2. NoTx \in Txs /\ NoTx.at = "none"
  BY <1>1, ReplyTypes, SMT DEF NoTx, Txs, Statements
<1>3. \A c \in Callers : tx[c] = NoTx /\ call[c] = Breaker!NoCall
  BY DEF Init
<1>4. ASSUME NEW c \in Callers PROVE Sane(c) /\ Fresh(c) /\ tx[c].at = "none"
  BY <1>2, <1>3, <1>4, Requests DEF Sane, Fresh, Decided, Pending
<1>5. /\ row \in CircuitStates \cup {NoRow} /\ tx \in [Callers -> Txs] /\ clock \in Nat
      /\ call = [c \in Callers |-> call[c]] /\ exec = [c \in Callers |-> exec[c]]
  BY <1>2, SMT DEF Init
<1>6. QED
  BY <1>4, <1>5 DEF IInv, SingleWriter

LEMMA CallerStepKeeps ==
    ASSUME IInv, NEW c \in Callers, Breaker!CallerStep(c), UNCHANGED dbVars
    PROVE  IInv' /\ clock' = clock
<1>1. /\ call = [d \in Callers |-> call[d]] /\ exec = [d \in Callers |-> exec[d]]
      /\ clock \in Nat /\ \A d \in Callers : Sane(d) /\ Fresh(d)
  BY DEF IInv
<1>2. PICK e, x : CallerEffect(c, e, x)
  BY <1>1, CallerStepEffect
<1>3. /\ call' = [d \in Callers |-> call'[d]] /\ exec' = [d \in Callers |-> exec'[d]]
      /\ call'[c] = x /\ exec'[c] = e /\ clock' = clock /\ row' = row /\ tx' = tx
      /\ \A d \in Callers : d # c => call'[d] = call[d] /\ exec'[d] = exec[d]
  BY <1>1, <1>2 DEF CallerEffect, dbVars
<1>4. clock' \in Nat /\ clock <= clock'
  BY <1>1, <1>3, SMT
<1>5. Sane(c)'
  <2>1. CASE x = call[c]
    BY <1>1, <1>2, <1>3, <2>1, SMT DEF Sane, Pending, CallerEffect
  <2>2. CASE x.kind \notin {"admit", "record"}
    BY <1>3, <2>2, SMT DEF Sane, Pending
  <2>3. CASE x.since = clock /\ (x.kind = "record" => x.ok \in BOOLEAN)
    BY <1>1, <1>2, <1>3, <2>3, SMT DEF Sane, Pending, CallerEffect
  <2>4. QED
    BY <1>2, <2>1, <2>2, <2>3 DEF CallerEffect
<1>6. ASSUME NEW d \in Callers
      PROVE  Sane(d)' /\ Fresh(d)' /\ (tx[d].at # "none" => Pending(d))'
  <2>1. CASE d # c \/ Pending(c)
    <3>1. call'[d] = call[d]
      BY <1>2, <1>3, <2>1 DEF CallerEffect
    <3>2. tx[d].at # "none" => Pending(d)
      BY DEF IInv
    <3>3. Fresh(d)'
      BY <1>1, <1>3, <1>4, <3>1, <3>2, FreshKept DEF Decided
    <3>4. Sane(d)'
      BY <1>1, <1>3, <1>4, <1>5, <3>1, SaneKept
    <3>5. QED
      BY <1>3, <3>1, <3>2, <3>3, <3>4 DEF Pending
  <2>2. CASE d = c /\ ~Pending(c)
    <3>1. tx'[d].at = "none"
      BY <1>3, <2>2 DEF IInv
    <3>2. QED
      BY <1>5, <2>2, <3>1 DEF Fresh, Decided
  <2>3. QED
    BY <2>1, <2>2
<1>7. QED
  BY <1>3, <1>4, <1>6 DEF IInv, SingleWriter

\* A step of the store for c, which ends or goes on in c alone: the others stay
\* fresh, unless a commit of c has overtaken them.
LEMMA StoreStepKeeps ==
    ASSUME IInv, NEW c \in Callers, UNCHANGED <<clock, exec>>,
           row' \in CircuitStates \cup {NoRow}, tx' \in [Callers -> Txs], SingleWriter',
           call' = [d \in Callers |-> call'[d]],
           \A d \in Callers : d # c => call'[d] = call[d],
           \A d \in Callers : d # c =>
              \/ row' = row /\ tx'[d] = tx[d]
              \/ tx'[d].at = tx[d].at /\ ~Decided(d)',
           Sane(c)', Fresh(c)', tx'[c].at # "none" => Pending(c)'
    PROVE  IInv'
<1>1. clock \in Nat /\ clock' \in Nat /\ clock <= clock'
  BY SMT DEF IInv
<1>2. ASSUME NEW d \in Callers, d # c
      PROVE  Sane(d)' /\ Fresh(d)' /\ (tx'[d].at # "none" => Pending(d)')
  <2>1. Sane(d) /\ Fresh(d) /\ (tx[d].at # "none" => Pending(d))
    BY DEF IInv
  <2>2. call'[d] = call[d] /\ exec'[d] = exec[d] /\ (Pending(d) => Pending(d)')
    BY <1>2 DEF Pending
  <2>3. Sane(d)'
    BY <1>1, <2>1, <2>2, SaneKept
  <2>4. CASE row' = row /\ tx'[d] = tx[d]
    <3>1. Decided(d)' => Decided(d) /\ Pending(d)
      BY <2>1, <2>4, Zenon DEF Decided
    <3>2. Fresh(d)'
      BY <1>1, <2>1, <2>2, <2>4, <3>1, FreshKept
    <3>3. QED
      BY <2>1, <2>2, <2>3, <2>4, <3>2
  <2>5. CASE tx'[d].at = tx[d].at /\ ~Decided(d)'
    BY <2>1, <2>2, <2>3, <2>5 DEF Fresh
  <2>6. QED
    BY <1>2, <2>4, <2>5
<1>3. exec' = [d \in Callers |-> exec'[d]]
  BY DEF IInv
<1>4. QED
  BY <1>1, <1>2, <1>3 DEF IInv

LEMMA LoadKeeps ==
    ASSUME IInv, NEW c \in Callers, Load(c)
    PROVE  IInv'
<1>1. Pending(c) /\ UNCHANGED <<clock, row, call, exec>>
  BY DEF Load
<1>2. PICK now \in DecisionTimes(c) : tx' = [tx EXCEPT ![c] = Decision(c, now)]
  BY Zenon DEF Load
<1>3. /\ now \in Breaker!Readings(call[c].since, clock) /\ now \in Nat
      /\ tx' = [tx EXCEPT ![c] = Decision(c, now)]
  BY <1>1, <1>2, DecisionTimeIsReading
<1>4. Decision(c, now) \in Txs /\ Decision(c, now).at = "load"
  BY <1>1, <1>3, DecisionType
<1>5. /\ tx' \in [Callers -> Txs] /\ tx'[c] = Decision(c, now)
      /\ \A d \in Callers : d # c => tx'[d] = tx[d]
  BY <1>3, <1>4, Zenon DEF IInv
<1>6. Fresh(c)'
  <2>1. \E t \in Breaker!Readings(call[c].since, clock) :
           tx'[c].next = Decision(c, t).next /\ tx'[c].reply = Decision(c, t).reply
    BY <1>3, <1>5
  <2>2. \A t : Decision(c, t)' = Decision(c, t)
    BY <1>1 DEF Decision, IsAdmit, Loaded
  <2>3. QED
    BY <1>1, <2>1, <2>2 DEF Fresh
<1>7. SingleWriter'
  BY <1>4, <1>5 DEF SingleWriter, IInv
<1>8. Sane(c)' /\ Pending(c)'
  BY <1>1 DEF IInv, Sane, Pending
<1>9. call' = [d \in Callers |-> call'[d]] /\ row' \in CircuitStates \cup {NoRow}
  BY <1>1 DEF IInv
<1>10. QED
  BY <1>1, <1>5, <1>6, <1>7, <1>8, <1>9, StoreStepKeeps

LEMMA PersistKeeps ==
    ASSUME IInv, NEW c \in Callers, Persist(c)
    PROVE  IInv'
<1>1. /\ tx[c].at = "load" /\ ~tx[c].stale /\ Writers = {}
      /\ tx' = [tx EXCEPT ![c] = [tx[c] EXCEPT !.at = "persist"]]
      /\ UNCHANGED <<clock, row, call, exec>>
  BY DEF Persist
<1>2. tx[c] \in Txs /\ Pending(c) /\ Sane(c) /\ Fresh(c) /\ clock \in Nat
  BY <1>1 DEF IInv
<1>3. /\ [tx[c] EXCEPT !.at = "persist"] \in Txs
      /\ [tx[c] EXCEPT !.at = "persist"].at = "persist"
      /\ [tx[c] EXCEPT !.at = "persist"].next = tx[c].next
      /\ [tx[c] EXCEPT !.at = "persist"].reply = tx[c].reply
  BY <1>2, SMT DEF Txs, Statements
<1>4. /\ tx' \in [Callers -> Txs]
      /\ tx'[c].at = "persist" /\ tx'[c].next = tx[c].next /\ tx'[c].reply = tx[c].reply
      /\ \A d \in Callers : d # c => tx'[d] = tx[d]
  BY <1>1, <1>3, Zenon DEF IInv
<1>5. Fresh(c)'
  <2>1. Decided(c)
    BY <1>1 DEF Decided
  <2>2. clock' \in Nat /\ clock <= clock'
    BY <1>1, <1>2, SMT
  <2>3. QED
    BY <1>1, <1>2, <1>4, <2>1, <2>2, FreshKept
<1>6. SingleWriter'
  BY <1>1, <1>4 DEF SingleWriter, Writers
<1>7. Sane(c)' /\ Pending(c)'
  BY <1>1, <1>2 DEF Sane, Pending
<1>8. call' = [d \in Callers |-> call'[d]] /\ row' \in CircuitStates \cup {NoRow}
  BY <1>1 DEF IInv
<1>9. QED
  BY <1>1, <1>4, <1>5, <1>6, <1>7, <1>8, StoreStepKeeps

\* The row a commit has replaced is the one the transaction has read.
LEMMA CommitKeeps ==
    ASSUME IInv, NEW c \in Callers, Commit(c)
    PROVE  IInv' /\ \A d \in Callers : ~Decided(d)'
<1>1. /\ tx[c].at = "persist" /\ row' = tx[c].next
      /\ tx' = [d \in Callers |-> IF d = c THEN NoTx ELSE Overtaken(tx[d])]
      /\ Breaker!Reply(c, tx[c].reply) /\ UNCHANGED <<clock, exec>>
  BY DEF Commit
<1>2. tx[c] \in Txs /\ Pending(c) /\ Fresh(c)
  BY <1>1 DEF IInv
<1>3. PICK now \in Breaker!Readings(call[c].since, clock) :
         tx[c].next = Decision(c, now).next /\ tx[c].reply = Decision(c, now).reply
  BY <1>1, <1>2 DEF Fresh, Decided
<1>4. tx[c].reply.kind \notin {"admit", "record"}
  BY <1>2, <1>3, ReadingsNat, DecisionType
<1>5. PICK x : call' = [call EXCEPT ![c] = x] /\ x \in {tx[c].reply, Breaker!Failed}
  BY <1>1, Zenon DEF Breaker!Reply
<1>6. x.kind \notin {"admit", "record"}
  BY <1>4, <1>5, Requests
<1>7. /\ call' = [d \in Callers |-> call'[d]] /\ ~Pending(c)' /\ Sane(c)'
      /\ \A d \in Callers : d # c => call'[d] = call[d] /\ Sane(d)'
  BY <1>1, <1>5, <1>6, Answered
<1>8. NoTx \in Txs /\ NoTx.at = "none"
  BY ReplyTypes, SMT DEF NoTx, Txs, Statements, INITIAL_CIRCUIT_STATE, CircuitStates,
     CircuitStatus
<1>9. ASSUME NEW t \in Txs
      PROVE  /\ Overtaken(t) \in Txs /\ Overtaken(t).at = t.at
             /\ t.at = "load" => Overtaken(t).stale
  <2>1. CASE t.at = "load"
    <3>1. /\ Overtaken(t) = [t EXCEPT !.stale = TRUE] /\ TRUE \in BOOLEAN
          /\ t \in [at: Statements, stale: BOOLEAN, next: CircuitStates,
                     reply: Breaker!Calls]
      BY <2>1 DEF Overtaken, Txs
    <3>2. Overtaken(t) \in Txs
      BY <3>1, Zenon DEF Txs
    <3>3. Overtaken(t).at = t.at
      BY <3>1, Zenon
    <3>4. Overtaken(t).stale
      BY <3>1, Zenon
    <3>5. QED
      BY <3>2, <3>3, <3>4
  <2>2. CASE t.at # "load"
    BY <2>2 DEF Overtaken
  <2>3. QED
    BY <2>1, <2>2
<1>10. tx' \in [Callers -> Txs] /\ tx'[c] = NoTx
  BY <1>1, <1>8, <1>9 DEF IInv
<1>11. ASSUME NEW d \in Callers, d # c
       PROVE  tx'[d].at = tx[d].at /\ ~Decided(d)'
  <2>1. tx'[d] = Overtaken(tx[d]) /\ tx[d] \in Txs
    BY <1>1, <1>11 DEF IInv
  <2>2. tx[d].at # "persist"
    BY <1>1, <1>11 DEF IInv, SingleWriter
  <2>3. QED
    BY <1>9, <2>1, <2>2, Zenon DEF Decided
<1>12. ~Decided(c)' /\ Fresh(c)'
  BY <1>8, <1>10 DEF Decided, Fresh
<1>13. SingleWriter'
  BY <1>11, <1>12 DEF SingleWriter, Decided
<1>14. row' \in CircuitStates \cup {NoRow}
  BY <1>1, <1>2, SMT DEF Txs
<1>15. IInv'
  BY <1>1, <1>7, <1>8, <1>10, <1>11, <1>12, <1>13, <1>14, StoreStepKeeps
<1>16. QED
  BY <1>11, <1>12, <1>15

LEMMA RollBackKeeps ==
    ASSUME IInv, NEW c \in Callers, RollBack(c)
    PROVE  IInv'
<1>1. /\ tx' = [tx EXCEPT ![c] = NoTx] /\ call' = [call EXCEPT ![c] = Breaker!Failed]
      /\ UNCHANGED <<clock, row, exec>>
  BY DEF RollBack
<1>2. /\ call' = [d \in Callers |-> call'[d]] /\ ~Pending(c)' /\ Sane(c)'
      /\ \A d \in Callers : d # c => call'[d] = call[d] /\ Sane(d)'
  BY <1>1, Requests, Answered
<1>3. NoTx \in Txs /\ NoTx.at = "none"
  BY ReplyTypes, SMT DEF NoTx, Txs, Statements, INITIAL_CIRCUIT_STATE, CircuitStates,
     CircuitStatus
<1>4. /\ tx' \in [Callers -> Txs] /\ tx'[c] = NoTx
      /\ \A d \in Callers : d # c => tx'[d] = tx[d]
  BY <1>1, <1>3, Zenon DEF IInv
<1>5. SingleWriter' /\ Fresh(c)'
  BY <1>3, <1>4 DEF SingleWriter, IInv, Fresh, Decided
<1>6. row' \in CircuitStates \cup {NoRow}
  BY <1>1 DEF IInv
<1>7. QED
  BY <1>1, <1>2, <1>3, <1>4, <1>5, <1>6, StoreStepKeeps

LEMMA InvStep == IInv /\ [Next]_vars => IInv'
<1> SUFFICES ASSUME IInv, [Next]_vars PROVE IInv'
  OBVIOUS
<1>1. ASSUME NEW c \in Callers, Proceed(c) \/ Fail(c) PROVE IInv'
  BY <1>1, LoadKeeps, PersistKeeps, CommitKeeps, RollBackKeeps DEF Proceed, Busy, Fail
<1>2. ASSUME NEW c \in Callers, UNCHANGED dbVars, Breaker!CallerStep(c) PROVE IInv'
  BY <1>2, CallerStepKeeps
<1>3. ASSUME UNCHANGED <<row, tx, call, exec>>, clock' \in {clock, clock + 1}
      PROVE  IInv'
  <2>1. clock \in Nat /\ clock' \in Nat /\ clock <= clock'
    BY <1>3, SMT DEF IInv
  <2>2. ASSUME NEW d \in Callers
        PROVE  Sane(d)' /\ Fresh(d)' /\ (tx[d].at # "none" => Pending(d))'
    <3>1. Sane(d) /\ Fresh(d) /\ (tx[d].at # "none" => Pending(d))
      BY DEF IInv
    <3>2. Decided(d)' => Decided(d) /\ Pending(d)
      BY <1>3, <3>1 DEF Decided
    <3>3. Fresh(d)'
      BY <1>3, <2>1, <3>1, <3>2, FreshKept
    <3>4. Sane(d)'
      BY <1>3, <2>1, <3>1, SaneKept
    <3>5. QED
      BY <1>3, <3>1, <3>3, <3>4 DEF Pending
  <2>3. QED
    BY <1>3, <2>1, <2>2 DEF IInv, SingleWriter
<1>4. CASE UNCHANGED dbVars /\ (Breaker!Pass \/ Breaker!Recover)
  <2>1. UNCHANGED <<row, tx, call, exec>> /\ clock' \in {clock, clock + 1}
    BY <1>4 DEF dbVars, Breaker!Pass, Breaker!Tick, Breaker!Recover
  <2>2. QED
    BY <1>3, <2>1
<1>5. CASE UNCHANGED vars
  BY <1>3, <1>5 DEF vars
<1>6. QED
  BY <1>1, <1>2, <1>4, <1>5 DEF Next

\* There is never more than one writer, and no transaction without its call.
THEOREM TypeCorrect == Spec => []TypeOK
<1>1. ASSUME SingleWriter PROVE Cardinality(Writers) <= 1
  <2>1. CASE Writers = {}
    BY <2>1, FS_EmptySet, SMT
  <2>2. CASE Writers # {}
    <3>1. PICK c \in Callers : Writers = {c}
      BY <1>1, <2>2 DEF SingleWriter, Writers
    <3>2. QED
      BY <3>1, FS_Singleton, SMT
  <2>3. QED
    BY <2>1, <2>2
<1>2. IInv => TypeOK
  BY <1>1 DEF IInv, TypeOK, Txs
<1>3. QED
  BY <1>2, InvInit, InvStep, PTL DEF Spec

-----------------------------------------------------------------------------
(* Refinement *)

LEMMA SameMachine ==
    /\ Breaker!INITIAL_CIRCUIT_STATE = INITIAL_CIRCUIT_STATE
    /\ \A s, cfg, now : Breaker!computeAdmit(s, cfg, now) = computeAdmit(s, cfg, now)
    /\ \A s, cfg, ok, probe, now :
          Breaker!computeRecord(s, cfg, ok, probe, now)
             = computeRecord(s, cfg, ok, probe, now)
<1>1. Breaker!INITIAL_CIRCUIT_STATE = INITIAL_CIRCUIT_STATE
  BY DEF Breaker!INITIAL_CIRCUIT_STATE, INITIAL_CIRCUIT_STATE
<1>2. ASSUME NEW s, NEW cfg, NEW now
      PROVE  Breaker!computeAdmit(s, cfg, now) = computeAdmit(s, cfg, now)
  BY Zenon DEF Breaker!computeAdmit, Breaker!Thaw, Breaker!Grants, Breaker!HalfOpen,
     computeAdmit, Thaw, Grants, HalfOpen
<1>3. ASSUME NEW s, NEW cfg, NEW ok, NEW probe, NEW now
      PROVE  Breaker!computeRecord(s, cfg, ok, probe, now)
                = computeRecord(s, cfg, ok, probe, now)
  BY Zenon DEF Breaker!computeRecord, Breaker!Release, Breaker!Close, Breaker!Trip,
     Breaker!CountFailure, computeRecord, Release, Close, Trip, CountFailure
<1>4. QED
  BY <1>1, <1>2, <1>3

LEMMA RefinesInit == Init => Breaker!Init
BY SameMachine DEF Init, Breaker!Init, Breaker!StoreInit, Loaded

\* The state of a row that is there is the row.
LEMMA WrittenRow ==
    /\ \A r \in CircuitStates : Loaded(r) = r
    /\ Loaded(NoRow) = INITIAL_CIRCUIT_STATE
<1>1. ASSUME NEW r \in CircuitStates PROVE r # NoRow
  BY SMT DEF CircuitStates, CircuitStatus, NoRow
<1>2. QED
  BY <1>1 DEF Loaded

\* A commit is what the atomic store would do at that moment.
LEMMA CommitRefines ==
    ASSUME IInv, NEW c \in Callers, Commit(c)
    PROVE  Breaker!StoreAdmit(c) \/ Breaker!StoreRecord(c)
<1>1. /\ tx[c].at = "persist" /\ row' = tx[c].next
      /\ Breaker!Reply(c, tx[c].reply) /\ Breaker!Observe(c)
      /\ UNCHANGED <<clock, exec, healthy>>
  BY DEF Commit
<1>2. tx[c] \in Txs /\ Pending(c) /\ Fresh(c)
  BY <1>1 DEF IInv
<1>3. PICK now \in Breaker!Readings(call[c].since, clock) :
         tx[c].next = Decision(c, now).next /\ tx[c].reply = Decision(c, now).reply
  BY <1>1, <1>2 DEF Fresh, Decided
<1>4. Loaded(row)' = tx[c].next
  <2>1. tx[c].next \in CircuitStates
    BY <1>2, SMT DEF Txs
  <2>2. QED
    BY <1>1, <2>1, WrittenRow
<1>5. CASE IsAdmit(c)
  <2> DEFINE admit == Breaker!computeAdmit(Loaded(row), Cfg, now)
  <2>1. tx[c].next = admit.state /\ tx[c].reply = Breaker!Admitted(admit.admission)
    BY <1>3, <1>5, SameMachine DEF Decision
  <2>2. Breaker!Admit(c)
    BY <1>1, <1>3, <1>4, <1>5, <2>1 DEF Breaker!Admit, IsAdmit
  <2>3. QED
    BY <1>1, <2>2 DEF Breaker!StoreAdmit, Breaker!policyVars
<1>6. CASE ~IsAdmit(c)
  <2> DEFINE record == Breaker!computeRecord(Loaded(row), Cfg, call[c].ok,
                                             call[c].probe, now)
  <2>1. tx[c].next = record.state /\ tx[c].reply = Breaker!Recorded(record.status)
    BY <1>3, <1>6, SameMachine DEF Decision
  <2>2. call[c].kind = "record"
    BY <1>2, <1>6 DEF Pending, IsAdmit
  <2>3. Breaker!Record(c)
    BY <1>1, <1>3, <1>4, <2>1, <2>2 DEF Breaker!Record
  <2>4. QED
    BY <1>1, <2>3 DEF Breaker!StoreRecord, Breaker!policyVars
<1>7. QED
  BY <1>5, <1>6

\* Beginning and upserting are invisible; a transaction that cannot commit is a
\* store call that fails.
LEMMA RefinesStep ==
    ASSUME "store" \in Faults
    PROVE  IInv /\ [Next]_vars => [Breaker!Next]_(Breaker!vars)
<1> SUFFICES ASSUME IInv, [Next]_vars
             PROVE  Breaker!Next \/ UNCHANGED Breaker!vars
  OBVIOUS
<1>1. ASSUME NEW c \in Callers, Load(c) \/ Persist(c)
      PROVE  UNCHANGED Breaker!vars
  BY <1>1 DEF Load, Persist, Breaker!vars, Loaded
<1>2. ASSUME NEW c \in Callers, Commit(c) PROVE Breaker!Next
  BY <1>2, CommitRefines DEF Breaker!Next, Breaker!StoreStep
<1>3. ASSUME NEW c \in Callers, Busy(c) \/ Fail(c) PROVE Breaker!Next
  <2>1. Pending(c) /\ RollBack(c)
    BY <1>3 DEF Busy, Fail, IInv
  <2>2. Breaker!StoreReject(c)
    BY <2>1 DEF RollBack, Pending, Breaker!StoreReject, Breaker!Reject, Loaded
  <2>3. QED
    BY <2>2 DEF Breaker!Next, Breaker!StoreStep
<1>4. CASE UNCHANGED vars
  BY <1>4 DEF vars, Breaker!vars, Loaded
<1>5. ASSUME UNCHANGED dbVars, Breaker!Pass \/ Breaker!Recover
      PROVE  Breaker!Next
  BY <1>5 DEF Breaker!Next
<1>6. QED
  BY <1>1, <1>2, <1>3, <1>4, <1>5 DEF Next, Proceed, Breaker!Next

\* However the transactions of several processes interleave, the file behaves
\* as the atomic store, provided its calls may fail: contention fails them.
THEOREM ImplementsBreakerHolds ==
    ASSUME "store" \in Faults
    PROVE  Spec => ImplementsBreaker
<1>1. IInv /\ [Next]_vars => [Breaker!Next]_(Breaker!vars)
  BY RefinesStep
<1>2. QED
  BY <1>1, RefinesInit, InvInit, InvStep, PTL DEF Spec, ImplementsBreaker, Breaker!Spec

-----------------------------------------------------------------------------
(* The cool-down *)

\* The deadline of an open row is in reach, and what a transaction may still
\* commit over it is not earlier, but for the difference of two clocks.
DeadlineInv ==
    /\ Loaded(row).status = "open"
          => Loaded(row).openUntil <= clock + Cfg.cooldownMs + Skew
    /\ \A c \in Callers :
          /\ Decided(c)
          /\ Loaded(row).status = "open" /\ tx[c].next.status = "open"
          => tx[c].next.openUntil + Skew >= Loaded(row).openUntil

\* A decision that leaves the circuit open keeps its deadline or sets a new one.
LEMMA DecisionDeadline ==
    ASSUME IInv, NEW c \in Callers, Pending(c), NEW now \in Nat,
           Decision(c, now).next.status = "open"
    PROVE  \/ Decision(c, now).next.openUntil = now + Cfg.cooldownMs
           \/ /\ Loaded(row).status = "open"
              /\ Decision(c, now).next.openUntil = Loaded(row).openUntil
<1>1. Loaded(row) \in CircuitStates
  BY LoadedType DEF IInv
<1>2. CASE IsAdmit(c)
  <2>1. Decision(c, now).next = computeAdmit(Loaded(row), Cfg, now).state
    BY <1>2 DEF Decision
  <2>2. QED
    BY <1>1, <2>1, OpenDeadline, DrizzleCfgAssumption
<1>3. CASE ~IsAdmit(c)
  <2>1. call[c].ok \in BOOLEAN
    BY <1>3 DEF IInv, Sane, Pending, IsAdmit
  <2>2. Decision(c, now).next = computeRecord(Loaded(row), Cfg, call[c].ok,
                                              call[c].probe, now).state
    BY <1>3 DEF Decision
  <2>3. QED
    BY <1>1, <2>1, <2>2, OpenDeadline, DrizzleCfgAssumption
<1>4. QED
  BY <1>2, <1>3

LEMMA DeadlineInit == Init => DeadlineInv
<1> SUFFICES ASSUME Init PROVE DeadlineInv
  OBVIOUS
<1>1. Loaded(row).status # "open"
  BY WrittenRow, SMT DEF Init, INITIAL_CIRCUIT_STATE
<1>2. QED
  BY <1>1 DEF DeadlineInv

LEMMA DeadlineStep ==
    ASSUME IInv, DeadlineInv, [Next]_vars
    PROVE  /\ DeadlineInv'
           /\ Loaded(row).status = "open" /\ Loaded(row)'.status = "open"
              => Loaded(row)'.openUntil + Skew >= Loaded(row).openUntil
<1> DEFINE Kept == Loaded(row).status = "open" /\ Loaded(row)'.status = "open"
                   => Loaded(row)'.openUntil + Skew >= Loaded(row).openUntil
<1>1. /\ clock \in Nat /\ Skew \in Nat /\ Cfg.cooldownMs \in Nat
      /\ Loaded(row) \in CircuitStates /\ Loaded(row).openUntil \in Nat
  BY LoadedType, DrizzleSkewAssumption, DrizzleCfgAssumption, SMT
     DEF IInv, BreakerConfigs, CircuitStates
<1>2. ASSUME row' = row, clock' \in Nat, clock <= clock',
             \A d \in Callers :
                Decided(d)' /\ tx'[d].next.status = "open" /\ Loaded(row).status = "open"
                => tx'[d].next.openUntil + Skew >= Loaded(row).openUntil
      PROVE  DeadlineInv' /\ Kept
  <2>1. Loaded(row)' = Loaded(row)
    BY <1>2 DEF Loaded
  <2>2. Loaded(row)'.status = "open"
           => Loaded(row)'.openUntil <= clock' + Cfg.cooldownMs + Skew
    BY <1>1, <1>2, <2>1, SMT DEF DeadlineInv
  <2>3. Kept
    BY <1>1, <2>1, SMT
  <2>4. QED
    BY <1>2, <2>1, <2>2, <2>3 DEF DeadlineInv
<1>3. ASSUME row' = row, clock' \in Nat, clock <= clock',
             \A d \in Callers : Decided(d)' => Decided(d) /\ tx'[d].next = tx[d].next
      PROVE  DeadlineInv' /\ Kept
  BY <1>2, <1>3 DEF DeadlineInv
<1>4. ASSUME NEW c \in Callers, Load(c) PROVE DeadlineInv' /\ Kept
  <2>a. PICK now \in DecisionTimes(c) : tx' = [tx EXCEPT ![c] = Decision(c, now)]
    BY <1>4, Zenon DEF Load
  <2>1. /\ tx' = [tx EXCEPT ![c] = Decision(c, now)] /\ row' = row /\ clock' = clock
        /\ Pending(c)
    BY <1>4, <2>a DEF Load
  <2>2. now \in Nat /\ now >= clock
    BY <2>1, DecisionTimeIsReading
  <2>3. tx'[c] = Decision(c, now) /\ \A d \in Callers : d # c => tx'[d] = tx[d]
    BY <2>1 DEF IInv
  <2>4. ASSUME Loaded(row).status = "open", Decision(c, now).next.status = "open"
        PROVE  Decision(c, now).next.openUntil + Skew >= Loaded(row).openUntil
    <3>1. Loaded(row).openUntil <= clock + Cfg.cooldownMs + Skew
      BY <2>4 DEF DeadlineInv
    <3>2. CASE Decision(c, now).next.openUntil = now + Cfg.cooldownMs
      BY <1>1, <2>2, <3>1, <3>2, SMT
    <3>3. CASE Decision(c, now).next.openUntil = Loaded(row).openUntil
      BY <1>1, <3>3, SMT
    <3>4. QED
      BY <2>1, <2>2, <2>4, <3>2, <3>3, DecisionDeadline
  <2>5. ASSUME NEW d \in Callers, Decided(d)'
        PROVE  tx'[d].next.status = "open" /\ Loaded(row).status = "open"
               => tx'[d].next.openUntil + Skew >= Loaded(row).openUntil
    <3>1. CASE d = c
      BY <2>3, <2>4, <3>1
    <3>2. CASE d # c
      BY <2>3, <2>5, <3>2 DEF DeadlineInv, Decided
    <3>3. QED
      BY <3>1, <3>2
  <2>6. clock' \in Nat /\ clock <= clock'
    BY <1>1, <2>1, SMT
  <2>7. QED
    BY <1>2, <2>1, <2>5, <2>6
<1>5. ASSUME NEW c \in Callers, Persist(c) PROVE DeadlineInv' /\ Kept
  <2>1. /\ tx[c].at = "load" /\ ~tx[c].stale
        /\ tx' = [tx EXCEPT ![c] = [tx[c] EXCEPT !.at = "persist"]]
        /\ row' = row /\ clock' = clock
    BY <1>5 DEF Persist
  <2>2. [tx[c] EXCEPT !.at = "persist"].next = tx[c].next
    BY SMT DEF IInv, Txs
  <2>3. tx'[c].next = tx[c].next /\ \A d \in Callers : d # c => tx'[d] = tx[d]
    BY <2>1, <2>2, Zenon DEF IInv
  <2>4. \A d \in Callers : Decided(d)' => Decided(d) /\ tx'[d].next = tx[d].next
    BY <2>1, <2>3, Zenon DEF Decided
  <2>5. clock' \in Nat /\ clock <= clock'
    BY <1>1, <2>1, SMT
  <2>6. QED
    BY <1>3, <2>1, <2>4, <2>5
<1>6. ASSUME NEW c \in Callers, Commit(c) PROVE DeadlineInv' /\ Kept
  <2>1. tx[c].at = "persist" /\ row' = tx[c].next /\ clock' = clock
    BY <1>6 DEF Commit
  <2>2. tx[c] \in Txs /\ Pending(c) /\ Fresh(c) /\ Decided(c)
    BY <2>1 DEF IInv, Decided
  <2>3. tx[c].next \in CircuitStates /\ Loaded(row)' = tx[c].next
    <3>1. tx[c].next \in CircuitStates
      BY <2>2, SMT DEF Txs
    <3>2. QED
      BY <2>1, <3>1, WrittenRow
  <2>4. Kept
    BY <2>2, <2>3 DEF DeadlineInv
  <2>5. tx[c].next.status = "open"
           => tx[c].next.openUntil <= clock + Cfg.cooldownMs + Skew
    <3>1. PICK now \in Breaker!Readings(call[c].since, clock) :
             tx[c].next = Decision(c, now).next
      BY <2>2 DEF Fresh
    <3>2. now \in Nat /\ now <= clock + Skew
      BY <2>2, <3>1, ReadingsNat
    <3>3. QED
      BY <1>1, <2>2, <3>1, <3>2, DecisionDeadline, SMT DEF DeadlineInv
  <2>6. QED
    BY <1>6, <2>1, <2>3, <2>4, <2>5, CommitKeeps DEF DeadlineInv
<1>7. ASSUME NEW c \in Callers, RollBack(c) PROVE DeadlineInv' /\ Kept
  <2>1. tx' = [tx EXCEPT ![c] = NoTx] /\ row' = row /\ clock' = clock
    BY <1>7 DEF RollBack
  <2>2. tx'[c].at = "none" /\ \A d \in Callers : d # c => tx'[d] = tx[d]
    BY <2>1, SMT DEF IInv, NoTx
  <2>3. \A d \in Callers : Decided(d)' => Decided(d) /\ tx'[d].next = tx[d].next
    BY <2>2, Zenon DEF Decided
  <2>4. clock' \in Nat /\ clock <= clock'
    BY <1>1, <2>1, SMT
  <2>5. QED
    BY <1>3, <2>1, <2>3, <2>4
<1>8. ASSUME UNCHANGED dbVars, clock' \in {clock, clock + 1} PROVE DeadlineInv' /\ Kept
  <2>1. clock' \in Nat /\ clock <= clock'
    BY <1>1, <1>8, SMT
  <2>2. QED
    BY <1>3, <1>8, <2>1 DEF dbVars, Decided
<1>9. ASSUME NEW c \in Callers, UNCHANGED dbVars, Breaker!CallerStep(c)
      PROVE  DeadlineInv' /\ Kept
  BY <1>8, <1>9, CallerStepKeeps
<1>10. CASE UNCHANGED dbVars /\ (Breaker!Pass \/ Breaker!Recover)
  BY <1>8, <1>10 DEF Breaker!Pass, Breaker!Tick, Breaker!Recover
<1>11. CASE UNCHANGED vars
  BY <1>8, <1>11 DEF vars, dbVars
<1>12. QED
  BY <1>4, <1>5, <1>6, <1>7, <1>9, <1>10, <1>11 DEF Next, Proceed, Busy, Fail

\* While the circuit stays open, its cool-down is only ever extended, between
\* processes too: a failure whose snapshot is old does not commit.
THEOREM CoolDownNeverShortenedHolds == Spec => CoolDownNeverShortened
<1>1. IInv /\ DeadlineInv /\ [Next]_vars => DeadlineInv'
  BY DeadlineStep
<1>2. IInv /\ DeadlineInv /\ [Next]_vars
         => [/\ Loaded(row).status = "open"
             /\ Loaded(row)'.status = "open"
             => Loaded(row)'.openUntil + Skew >= Loaded(row).openUntil]_vars
  BY DeadlineStep
<1>3. QED
  BY <1>1, <1>2, InvInit, InvStep, DeadlineInit, PTL DEF Spec, CoolDownNeverShortened

-----------------------------------------------------------------------------
(* The policy over this store *)

\* A second instance of CircuitBreaker, with the theorems proved about it; the
\* lemmas below identify it with Breaker.
Proved == INSTANCE CircuitBreakerProofs WITH circuit <- Loaded(row)

LEMMA SameCallerStep ==
    ASSUME NEW c
    PROVE  Breaker!CallerStep(c) <=> Proved!CallerStep(c)
BY Zenon
 DEF Breaker!CallerStep, Proved!CallerStep, Breaker!PolicyStep, Proved!PolicyStep,
     Breaker!Execute, Proved!Execute, Breaker!RunOp, Proved!RunOp, Breaker!ShortCircuit,
     Proved!ShortCircuit, Breaker!SinkThrowsOnProbe, Proved!SinkThrowsOnProbe,
     Breaker!OpResolves, Proved!OpResolves, Breaker!OpRejects, Proved!OpRejects,
     Breaker!ReturnResult, Proved!ReturnResult, Breaker!CatchAfterSuccess,
     Proved!CatchAfterSuccess, Breaker!RethrowError, Proved!RethrowError, Breaker!Reset,
     Proved!Reset, Breaker!ResetReturns, Proved!ResetReturns, Breaker!Crash,
     Proved!Crash, Breaker!CallAdmit, Proved!CallAdmit, Breaker!CallRecord,
     Proved!CallRecord, Breaker!AdmitRequest, Proved!AdmitRequest,
     Breaker!RecordRequest, Proved!RecordRequest, Breaker!At, Proved!At, Breaker!Goto,
     Proved!Goto, Breaker!Return, Proved!Return, Breaker!Settle, Proved!Settle,
     Breaker!Local, Proved!Local, Breaker!NoCall, Proved!NoCall, Breaker!Idle,
     Proved!Idle

LEMMA SameStoreStep ==
    ASSUME NEW c
    PROVE  Breaker!StoreStep(c) <=> Proved!StoreStep(c)
<1>1. Breaker!StoreAdmit(c) <=> Proved!StoreAdmit(c)
  BY Zenon
   DEF Breaker!StoreAdmit, Proved!StoreAdmit, Breaker!Admit, Proved!Admit,
       Breaker!Admitted, Proved!Admitted, Breaker!computeAdmit, Proved!computeAdmit,
       Breaker!Thaw, Proved!Thaw, Breaker!Grants, Proved!Grants, Breaker!HalfOpen,
       Proved!HalfOpen, Breaker!Reply, Proved!Reply, Breaker!Failed, Proved!Failed,
       Breaker!Readings, Proved!Readings, Breaker!Observe, Proved!Observe,
       Breaker!policyVars, Proved!policyVars
<1>2. Breaker!StoreRecord(c) <=> Proved!StoreRecord(c)
  BY Zenon
   DEF Breaker!StoreRecord, Proved!StoreRecord, Breaker!Record, Proved!Record,
       Breaker!Recorded, Proved!Recorded, Breaker!computeRecord, Proved!computeRecord,
       Breaker!Release, Proved!Release, Breaker!Close, Proved!Close, Breaker!Trip,
       Proved!Trip, Breaker!CountFailure, Proved!CountFailure, Breaker!Reply,
       Proved!Reply, Breaker!Failed, Proved!Failed, Breaker!Readings, Proved!Readings,
       Breaker!Observe, Proved!Observe, Breaker!policyVars, Proved!policyVars
<1>3. Breaker!StoreReject(c) <=> Proved!StoreReject(c)
  BY Zenon
   DEF Breaker!StoreReject, Proved!StoreReject, Breaker!Reject, Proved!Reject,
       Breaker!At, Proved!At, Breaker!Failed, Proved!Failed
<1>4. QED
  BY <1>1, <1>2, <1>3, Zenon DEF Breaker!StoreStep, Proved!StoreStep

LEMMA SameSpec == Breaker!Spec => Proved!Spec
<1>1. Breaker!Init => Proved!Init
  BY Zenon
   DEF Breaker!Init, Proved!Init, Breaker!StoreInit, Proved!StoreInit,
       Breaker!INITIAL_CIRCUIT_STATE, Proved!INITIAL_CIRCUIT_STATE, Breaker!NoCall,
       Proved!NoCall, Breaker!Idle, Proved!Idle
<1>2. Breaker!Next => Proved!Next
  <2>1. (Breaker!Pass <=> Proved!Pass) /\ (Breaker!Recover <=> Proved!Recover)
    BY Zenon
     DEF Breaker!Pass, Proved!Pass, Breaker!Tick, Proved!Tick, Breaker!Recover,
         Proved!Recover
  <2>2. QED
    BY <2>1, SameCallerStep, SameStoreStep, Zenon DEF Breaker!Next, Proved!Next
<1>3. [Breaker!Next]_(Breaker!vars) => [Proved!Next]_(Proved!vars)
  BY <1>2 DEF Breaker!vars, Proved!vars
<1>4. QED
  BY <1>1, <1>3, PTL DEF Breaker!Spec, Proved!Spec

LEMMA SameSlots ==
    /\ Breaker!ProbeSlotsExclusive <=> Proved!ProbeSlotsExclusive
    /\ Breaker!NoSlotLeaked <=> Proved!NoSlotLeaked
<1>1. \A S : Breaker!Cardinality(S) = Proved!Cardinality(S)
  BY Zenon DEF Breaker!Cardinality, Proved!Cardinality
<1>2. \A c : Breaker!HoldsSlot(c) <=> Proved!HoldsSlot(c)
  BY Zenon
   DEF Breaker!HoldsSlot, Proved!HoldsSlot, Breaker!InProbe, Proved!InProbe, Breaker!At,
       Proved!At
<1>3. {c \in probing : Breaker!HoldsSlot(c)} = {c \in probing : Proved!HoldsSlot(c)}
  BY <1>2, Zenon
<1>4. QED
  BY <1>1, <1>3
  DEF Breaker!ProbeSlotsExclusive, Proved!ProbeSlotsExclusive, Breaker!NoSlotLeaked,
      Proved!NoSlotLeaked

\* What the theorems assume of the constants.
LEMMA ConstantsProper ==
    /\ Cfg \in Proved!BreakerConfigs
    /\ MaxClock \in Nat /\ Skew \in Nat
    /\ Faults \subseteq Proved!FaultKinds
    /\ Resetters \subseteq Callers
BY DrizzleCfgAssumption, DrizzleClockAssumption, DrizzleSkewAssumption, DrizzleFaultsAssumption,
   DrizzleResettersAssumption
DEF BreakerConfigs, Proved!BreakerConfigs, Breaker!FaultKinds, Proved!FaultKinds

\* Whatever fails, SQLITE_BUSY included, the row never has more probe slots
\* taken than halfOpenMax, and a circuit that stays open keeps its cool-down,
\* though each transaction decides before it holds the write lock.
THEOREM PolicySafe ==
    ASSUME "store" \in Faults
    PROVE  Spec => /\ []Breaker!ProbeSlotsExclusive
                   /\ []Breaker!CoolDownBounded
                   /\ Breaker!CoolDownKept
<1>1. Proved!Spec => []Proved!ProbeSlotsExclusive
  BY ConstantsProper, Proved!ProbeSlotsExclusiveHolds
<1>2. Proved!Spec => []Proved!CoolDownBounded
  BY ConstantsProper, Proved!CoolDownBoundedHolds
<1>3. Proved!Spec => Proved!CoolDownKept
  BY ConstantsProper, Proved!CoolDownKeptHolds
<1>4. Breaker!CoolDownBounded <=> Proved!CoolDownBounded
  BY DEF Breaker!CoolDownBounded, Proved!CoolDownBounded
<1>5. Breaker!CoolDownKept <=> Proved!CoolDownKept
  BY DEF Breaker!CoolDownKept, Proved!CoolDownKept, Breaker!vars, Proved!vars
<1>6. QED
  BY <1>1, <1>2, <1>3, <1>4, <1>5, SameSlots, SameSpec, ImplementsBreakerHolds, PTL
  DEF ImplementsBreaker

=============================================================================
