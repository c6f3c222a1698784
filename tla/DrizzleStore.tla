---------------------------- MODULE DrizzleStore ----------------------------
(***************************************************************************)
(* DrizzleResilienceStore (packages/store-drizzle) on one SQLite file that *)
(* several processes share.  admit and record are one transaction each:    *)
(* load the row, compute the next state at the time of the clock, upsert.  *)
(* better-sqlite3 runs it to completion, so that callers of one process    *)
(* never overlap and each caller here stands for a process of its own.     *)
(*                                                                         *)
(* Between processes SQLite serialises the transactions: only one at a time*)
(* may write, and one whose snapshot another has overwritten since may not.*)
(* It then fails at once with SQLITE_BUSY, and so does the store's call.   *)
(* The module implements CircuitBreaker: the circuit is the committed row. *)
(***************************************************************************)
EXTENDS CircuitState, FiniteSets

CONSTANTS Callers, Cfg, MaxClock, Skew, Faults, Resetters

ASSUME DrizzleCfgAssumption == Cfg \in BreakerConfigs
ASSUME DrizzleClockAssumption == MaxClock \in Nat
ASSUME DrizzleSkewAssumption == Skew \in Nat

VARIABLES clock,
          row,      \* the committed row of the key, or NoRow
          tx,       \* tx[c]: the transaction of c
          call, exec, healthy, probing, streak

NoRow == [status |-> "absent"]

Loaded(r) == IF r = NoRow THEN INITIAL_CIRCUIT_STATE ELSE r

Breaker == INSTANCE CircuitBreaker WITH circuit <- Loaded(row)

ASSUME DrizzleFaultsAssumption == Faults \subseteq Breaker!FaultKinds
ASSUME DrizzleResettersAssumption == Resetters \subseteq Callers

vars == <<clock, row, tx, call, exec, healthy, probing, streak>>
dbVars == <<row, tx>>

\* at: its last statement; stale: another has committed since it loaded.
Statements == {"none", "load", "persist"}
NoTx == [at |-> "none", stale |-> FALSE, next |-> INITIAL_CIRCUIT_STATE,
         reply |-> Breaker!NoCall]

Init ==
    /\ clock = 0
    /\ row = NoRow
    /\ tx = [c \in Callers |-> NoTx]
    /\ call = [c \in Callers |-> Breaker!NoCall]
    /\ exec = [c \in Callers |-> Breaker!Idle]
    /\ healthy = FALSE
    /\ probing = {}
    /\ streak = 0

Alive(c) == exec[c].pc # "crashed"
IsAdmit(c) == call[c].kind = "admit"
Pending(c) == call[c].kind \in {"admit", "record"}
Writers == {c \in Callers : tx[c].at = "persist"}

\* The row is a circuit, there is one writer, and it writes on what it read.
TypeOK ==
    /\ row \in CircuitStates \cup {NoRow}
    /\ tx \in [Callers -> [at: Statements, stale: BOOLEAN, next: CircuitStates,
                           reply: Breaker!Calls]]
    /\ Cardinality(Writers) <= 1
    /\ \A c \in Callers : tx[c].at # "none" => Pending(c)

-----------------------------------------------------------------------------
(* The statements *)

\* What Clock.now() may return at a time: `clock` is the time of the slowest
\* clock, and no clock is ever more than Skew ahead of it.
Now(time) == time .. time + Skew

\* Mutated: the clock is read before the transaction.
DecisionTimesAtCall(c) == Now(call[c].since)

\* The clock is read after the row.
DecisionTimes(c) == Now(clock)

Decision(c, now) ==
    LET prev   == Loaded(row)
        admit  == computeAdmit(prev, Cfg, now)
        record == computeRecord(prev, Cfg, call[c].ok, call[c].probe, now)
    IN  IF IsAdmit(c)
        THEN [at |-> "load", stale |-> FALSE, next |-> admit.state,
              reply |-> Breaker!Admitted(admit.admission)]
        ELSE [at |-> "load", stale |-> FALSE, next |-> record.state,
              reply |-> Breaker!Recorded(record.status)]

\* BEGIN, SELECT, and the decision.
Load(c) ==
    /\ Alive(c) /\ Pending(c) /\ tx[c].at = "none"
    /\ \E now \in DecisionTimes(c) : tx' = [tx EXCEPT ![c] = Decision(c, now)]
    /\ UNCHANGED <<clock, row, call, exec, healthy, probing, streak>>

\* Mutated: load() runs before the transaction, which protects the upsert only.
PersistStale(c) ==
    /\ Alive(c) /\ tx[c].at = "load"
    /\ Writers = {}
    /\ tx' = [tx EXCEPT ![c] = [@ EXCEPT !.at = "persist"]]
    /\ UNCHANGED <<clock, row, call, exec, healthy, probing, streak>>

\* INSERT ... ON CONFLICT DO UPDATE, which takes the write lock.
Persist(c) ==
    /\ Alive(c) /\ tx[c].at = "load"
    /\ Writers = {} /\ ~tx[c].stale
    /\ tx' = [tx EXCEPT ![c] = [@ EXCEPT !.at = "persist"]]
    /\ UNCHANGED <<clock, row, call, exec, healthy, probing, streak>>

\* A commit overwrites the snapshot of every transaction that has only read.
Overtaken(t) == IF t.at = "load" THEN [t EXCEPT !.stale = TRUE] ELSE t

\* COMMIT, and the write lock is free.
Commit(c) ==
    /\ tx[c].at = "persist"
    /\ row' = tx[c].next
    /\ tx' = [d \in Callers |-> IF d = c THEN NoTx ELSE Overtaken(tx[d])]
    /\ Breaker!Reply(c, tx[c].reply)
    /\ Breaker!Observe(c)
    /\ UNCHANGED <<clock, exec, healthy>>

RollBack(c) ==
    /\ tx' = [tx EXCEPT ![c] = NoTx]
    /\ call' = [call EXCEPT ![c] = Breaker!Failed]
    /\ UNCHANGED <<clock, row, exec, healthy, probing, streak>>

\* Mutated: the upsert is tried again in the same transaction.
BusyRetried(c) ==
    /\ Alive(c) /\ tx[c].at = "load"
    /\ Writers # {} \/ tx[c].stale
    /\ UNCHANGED vars

\* SQLITE_BUSY: waiting would be a deadlock, since c keeps its snapshot.
Busy(c) ==
    /\ Alive(c) /\ tx[c].at = "load"
    /\ Writers # {} \/ tx[c].stale
    /\ RollBack(c)

\* Any other failure, and the rollback of a process that is gone.
Fail(c) ==
    /\ "store" \in Faults \/ ~Alive(c)
    /\ Pending(c)
    /\ RollBack(c)

-----------------------------------------------------------------------------

Proceed(c) == Load(c) \/ Persist(c) \/ Commit(c) \/ Busy(c)

Next ==
    \/ \E c \in Callers :
          \/ Proceed(c) \/ Fail(c)
          \/ UNCHANGED dbVars /\ Breaker!CallerStep(c)
    \/ UNCHANGED dbVars /\ (Breaker!Pass \/ Breaker!Recover)

Spec == Init /\ [][Next]_vars

\* A transaction that has begun runs on, and that of a lost process is rolled
\* back; nothing is assumed of the policy.
Fairness == \A c \in Callers : WF_vars(Proceed(c) \/ (~Alive(c) /\ Fail(c)))

FairSpec == Spec /\ Fairness

-----------------------------------------------------------------------------
(* Properties *)

\* "Exactly-one half-open probe and no lost updates", also between processes:
\* the transactions are the atomic admit and record the policy is written
\* against, at the price of calls that fail under contention.
ImplementsBreaker == Breaker!Spec

\* While the circuit stays open its cool-down is only ever extended, but for
\* the difference of two clocks: the clock is read after the row, and a failure
\* that was overtaken since cannot commit.
CoolDownNeverShortened ==
    [][/\ Loaded(row).status = "open"
       /\ Loaded(row)'.status = "open"
       => Loaded(row)'.openUntil + Skew >= Loaded(row).openUntil]_vars

\* Two processes that have both read the row and both want to write it do not
\* wait for each other for ever, nor for one that crashes in between.
CallsAnswered == \A c \in Callers : Pending(c) ~> ~Pending(c)

=============================================================================
