------------------------------ MODULE SqlStore ------------------------------
(***************************************************************************)
(* SqlResilienceStore (packages/core/src/breaker/sql.ts) statement by      *)
(* statement, over a database with row locks and READ COMMITTED isolation, *)
(* driven by the circuit-breaker policy.  The adapters store-typeorm,      *)
(* store-prisma and store-mikro-orm only supply the SqlDriver.             *)
(*                                                                         *)
(* admit() decides from a plain read when that leaves the row as it is; a  *)
(* transition opens a transaction that inserts the row if it is missing,   *)
(* locks it, decides again on the locked row and writes it back.           *)
(* The module implements CircuitBreaker: the circuit is the committed row. *)
(***************************************************************************)
EXTENDS CircuitState, FiniteSets

CONSTANTS Callers, Cfg, MaxClock, Skew, Faults, Resetters

ASSUME SqlCfgAssumption == Cfg \in BreakerConfigs
ASSUME SqlClockAssumption == MaxClock \in Nat
ASSUME SqlSkewAssumption == Skew \in Nat

VARIABLES clock,
          row,      \* the committed row of the key, or NoRow
          lock,     \* the caller holding the row's lock: {} or {c}
          sql,      \* sql[c]: the next statement of c's call, the time it has read
          call, exec, healthy, probing, streak

NoRow == [status |-> "absent"]

rowToState(r) == IF r = NoRow THEN INITIAL_CIRCUIT_STATE ELSE r

Breaker == INSTANCE CircuitBreaker WITH circuit <- rowToState(row)

ASSUME SqlFaultsAssumption == Faults \subseteq Breaker!FaultKinds
ASSUME SqlResettersAssumption == Resetters \subseteq Callers

vars == <<clock, row, lock, sql, call, exec, healthy, probing, streak>>
dbVars == <<row, lock, sql>>

Statements == {"none", "insert", "select", "update"}
NoTx == [stmt |-> "none", now |-> 0, next |-> INITIAL_CIRCUIT_STATE,
         reply |-> Breaker!NoCall]

Init ==
    /\ clock = 0
    /\ row = NoRow
    /\ lock = {}
    /\ sql = [c \in Callers |-> NoTx]
    /\ call = [c \in Callers |-> Breaker!NoCall]
    /\ exec = [c \in Callers |-> Breaker!Idle]
    /\ healthy = FALSE
    /\ probing = {}
    /\ streak = 0

TypeOK ==
    /\ clock \in 0 .. MaxClock
    /\ row \in CircuitStates \cup {NoRow}
    /\ lock \subseteq Callers
    /\ sql \in [Callers -> [stmt: Statements, now: Nat, next: CircuitStates,
                            reply: Breaker!Calls]]
    /\ call \in [Callers -> Breaker!Calls]
    /\ exec \in [Callers -> Breaker!Execs]
    /\ healthy \in BOOLEAN
    /\ probing \subseteq Callers
    /\ streak \in 0 .. Cfg.threshold

-----------------------------------------------------------------------------
(* The statements *)

\* A process that is gone sends no further statement.
Alive(c) == exec[c].pc # "crashed"

IsAdmit(c) == call[c].kind = "admit"
IsClose(c) == call[c].kind = "record" /\ call[c].ok /\ ~call[c].probe
IsLockedRecord(c) == call[c].kind = "record" /\ ~(call[c].ok /\ ~call[c].probe)

Stmt(c, stmt, now) ==
    sql' = [sql EXCEPT ![c] = [stmt |-> stmt, now |-> now, next |-> sql[c].next,
                               reply |-> sql[c].reply]]

\* What Clock.now() may return at a time: `clock` is the time of the slowest
\* clock, and no clock is ever more than Skew ahead of it.
Now(time) == time .. time + Skew

\* admit reads its clock, and its row without a lock: answered from that
\* unless the decision changes the row.
ReadPlain(c) ==
    /\ Alive(c) /\ IsAdmit(c) /\ sql[c].stmt = "none"
    /\ \E now \in Now(call[c].since) :
         LET prev     == rowToState(row)
             decision == computeAdmit(prev, Cfg, now)
         IN  \/ /\ decision.state = prev
                /\ Breaker!Reply(c, Breaker!Admitted(decision.admission))
                /\ UNCHANGED dbVars
                /\ Breaker!Observe(c)
             \/ /\ decision.state # prev
                /\ Stmt(c, "insert", now)
                /\ UNCHANGED <<row, lock, call, probing, streak>>
    /\ UNCHANGED <<clock, exec, healthy>>

\* The transaction begins: after the plain read for an admit, at once for a
\* failure or any outcome of a probe.
\* INSERT ... ON CONFLICT DO NOTHING: inserting takes the lock of the new row,
\* invisible until the commit, and a second inserter waits for that commit.
InsertInitial(c) ==
    /\ Alive(c)
    /\ sql[c].stmt = IF IsLockedRecord(c) THEN "none" ELSE "insert"
    /\ IF row = NoRow THEN lock = {} /\ lock' = {c} ELSE UNCHANGED lock
    /\ Stmt(c, "select", sql[c].now)
    /\ UNCHANGED <<clock, row, call, exec, healthy, probing, streak>>

\* Mutated: record() reads the clock before it opens the transaction.
DecisionTimesAtCall(c) == IF IsAdmit(c) THEN {sql[c].now} ELSE Now(call[c].since)

\* record() reads the clock on the locked row; admit() has read it before its
\* plain read.
DecisionTimes(c) == IF IsAdmit(c) THEN {sql[c].now} ELSE Now(clock)

\* What the transaction writes and answers if it decides on the row at `now`.
Decision(c, now) ==
    LET prev   == rowToState(row)
        admit  == computeAdmit(prev, Cfg, now)
        record == computeRecord(prev, Cfg, call[c].ok, call[c].probe, now)
    IN  IF IsAdmit(c)
        THEN [stmt |-> "update", now |-> 0, next |-> admit.state,
              reply |-> Breaker!Admitted(admit.admission)]
        ELSE [stmt |-> "update", now |-> 0, next |-> record.state,
              reply |-> Breaker!Recorded(record.status)]

\* Mutated: FOR UPDATE is missing.
SelectPlainInTx(c) ==
    /\ Alive(c) /\ sql[c].stmt = "select"
    /\ \E now \in DecisionTimes(c) : sql' = [sql EXCEPT ![c] = Decision(c, now)]
    /\ UNCHANGED <<clock, row, lock, call, exec, healthy, probing, streak>>

\* SELECT ... FOR UPDATE: waits for the lock, then decides on the locked row.
SelectForUpdate(c) ==
    /\ Alive(c) /\ sql[c].stmt = "select"
    /\ lock \subseteq {c}
    /\ lock' = {c}
    /\ \E now \in DecisionTimes(c) : sql' = [sql EXCEPT ![c] = Decision(c, now)]
    /\ UNCHANGED <<clock, row, call, exec, healthy, probing, streak>>

\* Mutated: the transaction is left open after its last statement.
UpdateKeepsLock(c) ==
    /\ sql[c].stmt = "update"
    /\ row' = sql[c].next
    /\ UNCHANGED lock
    /\ sql' = [sql EXCEPT ![c] = NoTx]
    /\ Breaker!Reply(c, sql[c].reply)
    /\ Breaker!Observe(c)
    /\ UNCHANGED <<clock, exec, healthy>>

\* UPDATE and COMMIT.
UpdateState(c) ==
    /\ sql[c].stmt = "update"
    /\ row' = sql[c].next
    /\ lock' = {}
    /\ sql' = [sql EXCEPT ![c] = NoTx]
    /\ Breaker!Reply(c, sql[c].reply)
    /\ Breaker!Observe(c)
    /\ UNCHANGED <<clock, exec, healthy>>

Dirty(r) ==
    /\ r # NoRow
    /\ r.status # "closed" \/ r.failures # 0 \/ r.openUntil # 0

\* Mutated: a plain write that does not wait for the row lock.
CloseWithoutLock(c) ==
    /\ IsClose(c)
    /\ row' = IF Dirty(row) THEN Close(row) ELSE row
    /\ Breaker!Reply(c, Breaker!Recorded("closed"))
    /\ Breaker!Observe(c)
    /\ UNCHANGED <<clock, lock, sql, exec, healthy>>

\* A non-probe success, in one conditional UPDATE: it matches no clean row,
\* without waiting, and it waits for the lock of a dirty one.
CloseIfDirty(c) ==
    /\ IsClose(c)
    /\ IF Dirty(row) THEN lock = {} /\ row' = Close(row) ELSE UNCHANGED row
    /\ Breaker!Reply(c, Breaker!Recorded("closed"))
    /\ Breaker!Observe(c)
    /\ UNCHANGED <<clock, lock, sql, exec, healthy>>

\* A statement or the connection fails: the transaction is rolled back.
Rollback(c) ==
    /\ "store" \in Faults \/ ~Alive(c)
    /\ call[c].kind \in {"admit", "record"}
    /\ sql' = [sql EXCEPT ![c] = NoTx]
    /\ lock' = lock \ {c}
    /\ call' = [call EXCEPT ![c] = Breaker!Failed]
    /\ UNCHANGED <<clock, row, exec, healthy, probing, streak>>

-----------------------------------------------------------------------------

Proceed(c) ==
    \/ ReadPlain(c) \/ InsertInitial(c) \/ SelectForUpdate(c)
    \/ UpdateState(c) \/ CloseIfDirty(c)

Next ==
    \/ \E c \in Callers :
          \/ Proceed(c) \/ Rollback(c)
          \/ UNCHANGED dbVars /\ Breaker!CallerStep(c)
    \/ UNCHANGED dbVars /\ Breaker!Pass
    \/ UNCHANGED dbVars /\ Breaker!Recover

Spec == Init /\ [][Next]_vars

\* The database serves lock waiters in turn, hence strong fairness on a
\* statement that waits, and rolls back the transaction of a lost connection.
\* Nothing is assumed of the policy, and no other transaction need fail.
Fairness ==
    \A c \in Callers : SF_vars(Proceed(c) \/ (~Alive(c) /\ Rollback(c)))

FairSpec == Spec /\ Fairness

-----------------------------------------------------------------------------
(* Properties *)

\* The store is the atomic one the policy is written against: no lost update,
\* no failure counted twice, and probe slots granted one by one, however the
\* statements of concurrent transactions interleave.
ImplementsBreaker == Breaker!Spec

\* What a transaction has decided on the locked row is still what the current
\* row calls for when it writes it: no statement of another caller, the
\* lock-free success included, gets in between.
DecisionFresh ==
    \A c \in Callers :
        sql[c].stmt = "update" =>
            \E now \in Breaker!Readings(call[c].since, clock) :
               sql[c] = Decision(c, now)

\* While the circuit stays open its cool-down is only ever extended, but for
\* the difference of two clocks, since a failure reads the clock after it has
\* locked the row.
CoolDownNeverShortened ==
    [][/\ rowToState(row).status = "open"
       /\ rowToState(row)'.status = "open"
       => rowToState(row)'.openUntil + Skew >= rowToState(row).openUntil]_vars

\* No store call waits for ever: neither for the row lock nor for the commit
\* of a concurrent insert, also of a process that crashes between the two.
CallsAnswered ==
    \A c \in Callers : call[c].kind \in {"admit", "record"} ~>
                           call[c].kind \notin {"admit", "record"}

=============================================================================
