# nestjs-resilience: TLA+ models, model checking and proofs

This directory verifies the resilience library in `packages/`: timeouts, retries,
circuit breakers and failover for NestJS, with the circuit of each key kept in a
store that several processes share.  `src/` below is the root of the repository.

Contents: [the system](#the-system), [the modules](#the-modules),
[the runs](#the-runs), [fairness](#fairness), [the proofs](#the-proofs),
[where code and documentation disagree](#where-code-and-documentation-disagree),
[what is left out](#what-is-left-out), [plan](#plan).

## The system

| component | code (`packages/`) | state | operations |
|---|---|---|---|
| circuit state machine | `core/src/breaker/state-machine.ts` | none (pure) | `computeAdmit`, `computeRecord` |
| store contract, in-memory store | `core/src/breaker/store.ts`, `in-memory.store.ts` | one `CircuitState` per key | `admit`, `record`, `snapshot` |
| SQL store | `core/src/breaker/sql.ts` | one row per key | the same, as statements and transactions |
| SQL drivers | `store-typeorm`, `store-prisma`, `store-mikro-orm` | none | `transaction`, `read`, `run` |
| Redis store | `store-redis/src/*.ts` | one hash per key | the same, as two Lua scripts |
| Drizzle store | `store-drizzle/src/drizzle.store.ts` | one row per key | the same, each in one synchronous SQLite transaction |
| circuit-breaker policy | `core/src/policies/circuit-breaker.ts` | locals of each `execute()` | `execute` |
| retry, timeout, wrap, `Clock` | `core/src/policies/*.ts`, `clock.ts` | locals, timers, abort listeners | `execute`, `delay`, `setTimer` |
| failover | `core/src/policies/failover.ts` | locals | `failover` |
| event sinks | `core/src/events.ts`, `integration/*.ts` | the cached `emit` | fan one event out |
| Nest wiring | `core/src/nest/*.ts` | decorator metadata, wrapped methods | wrap methods in policies, `reset`, `snapshot` |
| telescope | `telescope/src/*.ts` | subscriptions, recorded entries | record events, dashboard panels |

**Interaction.** A breaker's `execute()` awaits `store.admit`, runs the operation if it
is allowed to, and awaits `store.record` with the outcome; it emits events to a sink
before, between and after.  The store is the only state the executions share: those of
one process interleave at each `await`, and those of several processes at each command
the store sends.  `ResilienceService.circuit(key).reset()` records a success on the same
circuit.  Policies nest by passing a context with an abort signal inwards; the explorer
nests the ones a method is decorated with.  The telescope watches the events only.

**What is hard.** Results arrive late: an operation admitted while the circuit was closed
may record its outcome when the circuit is open or half-open, and a probe may outlive the
half-open period that granted it.  The probe slots of a half-open circuit are a
counter that admits take from and records give back to, by executions that can crash in
between.  A remote store can reject a call, or perform it and lose the reply.  A SQL
store decides on a plain read when it can and must not act on a stale one.  Two processes
that share a SQLite file may both have read the row when the first of them writes it.  The
processes' wall clocks disagree, and each decides by its own whether a cool-down is over.
A sink can throw into the policy.  A timeout leaves its operation running, and the caller
may abort the whole execution at any time.
`PROJECT.json` lists these hazards line by line, with the properties that cover them.

**What makes each component correct.**

- *Circuit*: in one half-open period at most `halfOpenMax` executions are granted a
  probe; no slot is lost, so a half-open period is always decided; the failure count of a
  closed circuit is exact; only failed operations open it, at the threshold or by a probe
  that reports late; an open circuit is never more than one cool-down away from its next
  probe; a closed one stays closed when the dependency has recovered and all earlier
  failures are recorded, and in the end it is closed for good.
- *Stores*: each is indistinguishable, for the policy, from a store in which `admit` and
  `record` are single atomic steps; no call of the SQL and Drizzle stores waits for ever
  for another one (a Redis script is one command that waits for nobody).
- *Timeout, retry, wrap*: an execution settles although operations may hang; an
  operation that nobody awaits has been told to stop, and at most one is awaited; no attempt
  starts after an abort or after a success; whatever waits within a timeout has an armed
  timer around it; in the end no timer is left, and no listener but that of a timeout whose
  operation threw synchronously, which the code leaves on the signal of its caller; every
  call a breaker admits reports its outcome, before the breaker settles.
- *Failover*: targets are tried in order until the first success.
- *Events and telescope*: every opening of the circuit is announced; a registered watcher
  hears all channels and one that is cleaned up none.

## The modules

| module | models | built on |
|---|---|---|
| `CircuitState` | the pure state machine, as operators | |
| `ResilienceStore` | the store contract: a call, its atomic step, its reply | `CircuitState` |
| `CircuitBreaker` | the policy run by concurrent callers, and `reset` | `ResilienceStore` |
| `SqlStore` | `SqlResilienceStore`, statement by statement | implements `CircuitBreaker` |
| `RedisStore` | the two Lua scripts on the hash | implements `CircuitBreaker` |
| `DrizzleStore` | `DrizzleResilienceStore` in processes that share a SQLite file | implements `CircuitBreaker` |
| `PolicyChain` | one execution of nested timeout, retry and breaker policies, or of a failover over them | |
| `Explorer` | decorator metadata to a chain of policies | extends `PolicyChain` |
| `Telescope` | the events of the breaker, the watcher that hears them, the open-circuits panel | extends `CircuitBreaker` |
| `CircuitStateProofs` | lemmas on the state machine | extends `CircuitState` |
| `CircuitBreakerProofs`, `SqlStoreProofs`, `RedisStoreProofs`, `DrizzleStoreProofs`, `TelescopeProofs`, `PolicyChainProofs` | theorems | each extends its component |
| `MC*` | instances for TLC: model values, the configuration, symmetry | |

One key is modelled: no code path of a store or of the breaker touches a second one.

**`CircuitState`.**  `computeAdmit` and `computeRecord` have the code's names and
branches: `Thaw` (an open circuit whose cool-down is over becomes half-open with all slots
free), `Grants`, `Release` (`Math.max(0, probes - 1)`), `Trip`, `Close`, `CountFailure`.
`halfOpenMax` is the effective one (`cfg.halfOpenMax ?? 1`).  A time is a whole number of
ticks.

**`ResilienceStore`.**  `call[c]` is the store call of caller `c`: a request, then its
reply.  `Admit` and `Record` are the one step in which it takes effect, at a time between
the call and now: an in-memory store takes it at once, Redis with the time the client
read, SQL with the time read before the first statement or on the locked row, Drizzle with
the time read after the row.  `clock` is the true time; each process reads it from a wall
clock that may be `Skew` ticks off either way (`Readings`), by another amount at each reading.  `Reject` is a call that fails
without effect; `Reply` may lose the answer of one that had effect.

**`CircuitBreaker`.**  `exec[c]` says at which `await` an `execute()` is suspended.

| code, `circuit-breaker.ts` | action |
|---|---|
| 25 `await store.admit(...)` | `Execute`, then `StoreAdmit` |
| 26-27 `circuit-half-open` event | `RunOp`; `SinkThrowsOnProbe` when the sink throws, outside the `try` |
| 28-31 not allowed | `ShortCircuit` |
| 33 `await op(ctx)` | `OpResolves`, `OpRejects` |
| 34 `await store.record(true)` | `StoreRecord`, then `ReturnResult` |
| 36 event on closing, 38-39 `catch` | `CatchAfterSuccess`: a rejected record or a throwing sink |
| 39-42 `record(false)`, rethrow | `StoreRecord`, then `RethrowError` |

`Reset` and `ResetReturns` are `ResilienceService.circuit(key).reset()`
(`nest/resilience.service.ts:41`).  `Crash` stops a caller for good, a request it has sent
staying in flight.  `Recover` makes the wrapped dependency healthy: from then on no
operation rejects.  `Pass` advances the clock.  The history variables `probing` (callers
granted a slot of the current half-open period) and `streak` (operations that failed,
recorded since the last success) are read by no action.

**`SqlStore`.**  `row` is the committed row, `lock` the holder of its row lock, `sql[c]`
the next statement of `c`'s transaction.  An `admit` starts with `ReadPlain`, and answers
from it when the decision leaves the row as it is; otherwise, as for a failure or a probe's
outcome, a transaction runs `InsertInitial`, `SelectForUpdate` and `UpdateState` (which
commits).  A success that is no probe is the one conditional statement `CloseIfDirty`.
Isolation is READ COMMITTED with row locks, the weakest the code can run under: a plain
read sees the last commit, a locked read waits, an insert of a row that another
transaction has inserted waits for its commit.  Each reading of a wall clock is any value of
`Now`: there `clock` is the time of the slowest clock, and a reading lies up to `Skew` ahead
of it, which is what processes see whose clocks differ by up to `Skew`, steps included.
An `admit` keeps the one it has read (`sql[c].now`), `record` reads on the locked row
(`DecisionTimes`).  `Rollback` ends a transaction at any
statement.  TypeORM, Prisma and MikroORM differ only in how they issue those statements.
The history variables of the policy are updated in the step that takes effect.

**`RedisStore`.**  `hash` maps the fields written so far to their values; a missing field
reads as its default.  `cbAdmit` and `cbRecord` are the two scripts, field by field.

**`DrizzleStore`.**  `row` is the committed row, `tx[c]` the transaction of process `c`:
`Load` (`BEGIN`, the select, and what `computeAdmit` or `computeRecord` make of it), `Persist`
(the upsert, which takes SQLite's one write lock), `Commit`.  A transaction whose snapshot
another commit has overwritten (`Overtaken`), or that finds the lock taken, fails at once
with `SQLITE_BUSY` (`Busy`): neither the driver nor the store retries it, and the caller gets
the error.  Its clocks are those of `SqlStore`.  `Fail` is any other failure, and the rollback of a process that is gone.  Within
one process better-sqlite3 runs a transaction without interruption, so each caller stands for
a process of its own.

**Refinement.**  The three stores instantiate `CircuitBreaker` with `circuit` defined from
the row or the hash, and run the policy's own actions over their store; their
property `ImplementsBreaker` is the whole specification of `CircuitBreaker`, so that what
is checked and proved of the policy over the atomic store holds over these stores.

**`PolicyChain`.**  One execution of a chain of policies on an event loop.  Every call it
makes is a frame, named by the attempts that lead to it, so that an operation that goes on
after its timeout keeps its frame while the next attempt has another.

| code | action |
|---|---|
| `timeout.ts` 8-29: timer, listener or immediate abort, the inner call | `StartTimeout` |
| 14-27 the timer aborts, and the timeouts inside that listen follow | `TimeoutFires` |
| 18-32 `Promise.race`, `finally` | `FinishTimeout` |
| `retry.ts` 24-28, 28, 29-34 | `StartRetry`, `RetryResolves`, `RetryDelays`, `RetryRejects` |
| `clock.ts` 19-36 `delay` | `DelayElapses`; rejected in the step of the abort |
| `circuit-breaker.ts` 25, 33-42 | `StartBreaker`, `StoreAdmits`, `BreakerRecords`, `StoreRecords` |
| `failover.ts` 12-28, hooks that throw included | `StartFailover`, `FailoverResolves`, `FailoverGoesOn` |
| the operation | `StartOp`, `OpSettles`, which need never happen |

Promise continuations are actions of their own and run before anything else happens
(`Quiet`): a due timer, an answer of the store or a settled operation finds every
continuation done, as on the event loop.  An operation may return a promise that has settled
already (`StartOp`): then it wins the race even of a timeout whose signal had aborted before,
since it comes first in `Promise.race` (`RaceResult`).  The `backoff` of a retry is a function
of the application that may throw, hence a retry may reject with attempts left
(`RetryRejects`).  An operation that throws instead
of returning a promise (`OpThrows`) passes through the timeouts right around it: their
`finally` was never attached.  The timer stays until it fires; the listener stays until the
signal that the timeout got aborts, which for the signal of a caller may be never.
`CallerAborts` is the application aborting the signal it passed in.  The breaker's circuit is
left open to chance (allowed or denied); `CircuitBreaker` models it.  `Chains` lists the chains an execution
may have, and the first element of a frame is the number of its own.

**`Explorer`.**  `push` and `Decorated` are the decorators, applied bottom-up onto metadata
that a method also inherits from the one it overrides; `buildPolicy` is
`ResilienceExplorer.buildPolicy`.  One chain of the `chain` run is what they make of an
overridden method (`ExplorerBuilds`, evaluated by TLC).

**`Telescope`.**  Extends the callers, store and circuit of `CircuitBreaker` with the event
each of their steps emits.  The first event of a type creates its diagnostics channel; a
watcher subscribes to the channels it finds when it registers (`Register`) and to each one
created later (`Emit`), until `Cleanup`.  `unannounced` is a history variable: whether the circuit
has opened since the last `circuit-opened` event.  `latest` is the newest recorded entry of
the key, from which `openCircuits` computes the panel of that name; `"missed"` says that the
watcher was not there to record it.  Only the breaker's own four event types are modelled.

## The runs

| run | instance | what it shows |
|---|---|---|
| `breaker_safety` | 3 callers, one also resets; threshold 2, 1 slot, clock 0..3 | the six safety properties together, without faults: slots, exact counts, what opens a circuit and what keeps it closed |
| `breaker_all_faults` | 2 callers, threshold 1, 2 slots, clock 0..2, skew 1, all faults | slots stay exclusive; a cool-down stays in reach, and a late failure shortens it by no more than its delay |
| `sql_refines` | 2 callers, one also resets; threshold 1, clock 0..1, all faults, fair | the statements implement the atomic store, with rollbacks, lost commits and crashes between statements; a cool-down is only extended; every call is answered |
| `drizzle_refines` | 2 processes, threshold 1, clock 0..1, all faults, fair | the transactions implement the atomic store, although one of two contending calls fails; a cool-down is only extended; every call is answered |
| `redis_refines` | 2 callers, one also resets; threshold 2, clock 0..1, skew 1, all faults | the scripts implement the atomic store |
| `chain` | timeout(retry(breaker(timeout(op)))), 3 attempts; failover over 2 targets; breaker(retry(timeout(op))); timeout(retry(timeout(timeout(op)))); failing store, operations that hang or throw, a caller that aborts, fair | orphans are told, nothing is left behind unless an operation threw synchronously, one operation is awaited at a time, hangs are timed; no attempt after an abort or a success, no breaker settles unrecorded; the execution settles and every admitted call is recorded |
| `telescope` | 2 callers, one also resets; threshold 1, clock 0..2, fair | the watcher hears all channels; every opening is carried to its announcement; half-open periods are decided and the circuit closes for good |
| `doc_*` | 1 to 3 callers, or one execution | the disagreements below |

The cool-down is one tick.  Why the bounds are enough: two callers are needed for every
race, and a third for a late result that meets a half-open period with a probe in flight
in addition to the one that opened the circuit; threshold 2 lets a count be lost or
doubled before it trips; a clock of 2 ticks allows one full period (open, half-open,
open again, half-open), and 3 ticks allow the results of one period to arrive in the next
but one.  One tick suffices for the stores: a call that takes effect later than it was
made, a circuit that opens and thaws.  Clocks that disagree are checked in
`breaker_all_faults` and `redis_refines`; in the two runs over a database, which also check
liveness, they agree (`Skew = 0`).  What a call waits for there is a lock, and no lock depends
on a clock, and their safety is proved for every `Skew`.  (With `Skew = 1` and `Spec`
for `FairSpec` their safety properties pass as well.)  The clock is the only quantity that is cut off (`MaxClock`); `failures` is
bounded by what the callers can record before the clock ends, since a success or a
half-open period resets the count or the circuit denies further operations.
Callers that never reset are interchangeable, so the safety runs of the breaker use
symmetry; the other runs do not.  Deadlock is checked except where crashes may stop every caller
and in `chain`, whose executions end.
Every property of a passing run has a mutant in `PROJECT.json`: a form of one definition
with a plausible bug (a missing lock, a slot too many, swapped arguments), under which TLC
finds that property violated in that run.

## Fairness

- `CircuitBreaker!FairSpec`: weak fairness of each caller's own steps (traffic keeps
  coming and operations settle: the policy is given no timeout of its own, so an operation
  that never settles keeps its slot), of the store's answers, of the clock and of the
  recovery of the dependency.  Nothing is assumed of which caller is served first.
- `SqlStore!FairSpec`: strong fairness of each caller's statements, as a database grants a
  row lock to its waiters in turn: a waiting statement is enabled again and again while
  others take the lock.  The database rolls back the transaction of a connection it has
  lost.  Nothing is assumed of the policy or of the clock, and no other transaction need
  fail.
- `DrizzleStore!FairSpec`: weak fairness of each transaction, which is synchronous code, and
  of the rollback of a lost process.  No fairness among the processes is needed, since
  nobody waits for the write lock.
- `PolicyChain!FairSpec`: weak fairness of `Run`, everything the process does of itself
  (continuations, due timers, answers of the store, time): it never stops while one of them
  is left, and no more is needed, since an execution is finite.  Nothing is assumed of the
  operations: each may hang for ever, which is what timeouts are for.
- `Telescope!TelescopeFairSpec`: the fairness of `CircuitBreaker`.  Nothing is assumed of the
  watcher.
- Faults are never fair: no run relies on a fault occurring.

## The proofs

`tlapm` checks every theorem.  The constants are arbitrary: any set of callers, finite
or not, any configuration in `BreakerConfigs` (`CfgAssumption`), any bound on the clock
(`ClockAssumption`), any bound on the error of the clocks (`SkewAssumption`), any subset of the faults
(`FaultsAssumption`), any resetters (`ResettersAssumption`).  The store modules state the
same of their own constants.  `PolicyChain` is proved for any chains whose retries and
failovers make at most `MaxAttempts` calls, and whose timeouts and delays last a whole number
of ticks (`ChainsAssumption`).

| module | theorem | statement | needs |
|---|---|---|---|
| `CircuitStateProofs` | `RecordEndsHalfOpen` | a recorded result ends a half-open period | |
| `CircuitBreakerProofs` | `TypeCorrect` | `Spec => []TypeOK` | |
| | `ProbeSlotsExclusiveHolds` | `Spec => []ProbeSlotsExclusive` | |
| | `NoSlotLeakedHolds` | `Spec => []NoSlotLeaked` | no faults |
| | `FailureCountExactHolds` | `Spec => []FailureCountExact` | no store faults |
| | `OpenedOnlyByFailedOpsHolds` | `Spec => OpenedOnlyByFailedOps` | no store faults, no throwing sinks |
| | `CoolDownBoundedHolds` | `Spec => []CoolDownBounded` | |
| | `CoolDownKeptHolds` | `Spec => CoolDownKept` | |
| | `OpensByCountOrLateProbeHolds` | `Spec => OpensByCountOrLateProbe` | no store faults |
| | `StaysClosedOnceHealthyHolds` | `Spec => StaysClosedOnceHealthy` | no store faults, no throwing sinks |
| | `WithoutSlotsOnlyLateResults` | no probe runs; only a result that is no probe ends a half-open period | `halfOpenMax = 0` |
| `SqlStoreProofs` | `TypeCorrect` | `Spec => []TypeOK` | |
| | `DecisionFreshHolds` | `Spec => []DecisionFresh` | |
| | `ImplementsBreakerHolds` | `Spec => Breaker!Spec` | |
| | `CoolDownNeverShortenedHolds` | `Spec => CoolDownNeverShortened` | |
| | `PolicySafe` | the policy over this store: `ProbeSlotsExclusive`, `CoolDownBounded`, `CoolDownKept` | |
| | `PolicyCountsExactly` | the same: `FailureCountExact`, `OpensByCountOrLateProbe` | no store faults |
| | `PolicyOpensOnFailure` | the same: `OpenedOnlyByFailedOps`, `StaysClosedOnceHealthy` | no store faults, no throwing sinks |
| | `PolicyLeaksNoSlot` | the same: `NoSlotLeaked` | no faults |
| `RedisStoreProofs` | `TypeCorrect` | `Spec => []TypeOK` | |
| | `ImplementsBreakerHolds` | `Spec => Breaker!Spec` | |
| | `PolicySafe` | the policy over this store: `ProbeSlotsExclusive`, `CoolDownBounded`, `CoolDownKept` | |
| | `PolicyCountsExactly` | the same: `FailureCountExact`, `OpensByCountOrLateProbe` | no store faults |
| | `PolicyOpensOnFailure` | the same: `OpenedOnlyByFailedOps`, `StaysClosedOnceHealthy` | no store faults, no throwing sinks |
| | `PolicyLeaksNoSlot` | the same: `NoSlotLeaked` | no faults |
| `DrizzleStoreProofs` | `TypeCorrect` | `Spec => []TypeOK` | |
| | `ImplementsBreakerHolds` | `Spec => Breaker!Spec` | store faults allowed |
| | `CoolDownNeverShortenedHolds` | `Spec => CoolDownNeverShortened` | |
| | `PolicySafe` | the policy over this store: `ProbeSlotsExclusive`, `CoolDownBounded`, `CoolDownKept` | store faults allowed |
| `TelescopeProofs` | `WatcherHearsAllHolds` | `TelescopeSpec => []WatcherHearsAll` | |
| | `TelescopeIsPassive` | `TelescopeSpec => Spec` | |
| | `OpeningCarriedHolds` | `TelescopeSpec => []OpeningCarried` | no store faults, no crashes |
| `PolicyChainProofs` | `TypeCorrect` | `Spec => []TypeOK` | |
| | `NothingLeftBehindHolds` | `Spec => []NothingLeftBehind` | |
| | `NoRetryAfterAbortHolds` | `Spec => NoRetryAfterAbort` | |
| | `OrphansToldHolds` | `Spec => []OrphansTold` | |
| | `OneAwaitedHolds` | `Spec => []OneAwaited` | |
| | `SuccessIsFinalHolds` | `Spec => SuccessIsFinal` | |
| | `HangsAreTimedHolds` | `Spec => []HangsAreTimed` | |
| | `RecordsBeforeSettlingHolds` | `Spec => RecordsBeforeSettling` | |

Where nothing is noted, every fault is allowed.

- `ProbeSlotsExclusive` is not inductive: it says nothing of a circuit that is not
  half-open, where stale slots would be counted by the next period.  `SlotInv` adds that
  slots are owed only in a half-open period and that `probing` is finite.  The step that
  matters is a record in a half-open period: by `RecordEndsHalfOpen` it ends the period,
  whoever sent it, so no late result ever gives back a slot of the current period.
- `NoSlotLeaked` needs in addition that every caller in `probing` still holds its slot
  (`SlotsHeld`, which tracks it from the reply through the operation to the record) and
  that `probes` is exactly their number (`SlotsCounted`).
- `FailureCountExact` and `OpenedOnlyByFailedOps` rest on `HonestRecords`: a failure is
  sent to the store only for an operation that rejected, or for a probe whose success a
  sink disturbed, and such a record never counts while the circuit is closed.
- `OpensByCountOrLateProbe` is what is true of the documented threshold (`doc_threshold`
  refutes the text itself).  It needs `HonestRecords` and the exact count: the record that
  opens a closed circuit either counts the last of `threshold` failures or is a probe's.
- `StaysClosedOnceHealthy` is the safety half of `ClosesForGood`: once no failure is under
  way, no step of the policy sends one, since an operation of a healthy dependency succeeds
  and, without store and sink faults, a success is never turned into a failure.
- `WithoutSlotsOnlyLateResults`: with `halfOpenMax = 0` no request, reply or execution is ever
  a probe's (`NoProbe`), while `SlotInv` still bounds the slots by zero.
- `CoolDownBounded` is inductive with `TypeOK`: whatever record sets a deadline sets it one
  cool-down after a reading that is at most `Skew` past the true time.  `CoolDownKept`
  follows from it at the step of the record that overwrites the deadline.
- The *SQL* refinement rests on `Transaction`: an `admit` that has not decided yet carries a
  reading of the clock since its call; a transaction that is about to write holds
  the row lock, and its decision is what the row calls for at some reading of the clock
  since its call.  Every other writer needs the lock, `CloseIfDirty` included, which skips
  it only for a row that a success leaves as it is.  The update then is `StoreAdmit` or
  `StoreRecord` of the atomic store, a plain read that changes nothing is `StoreAdmit`, the
  statements before the update are stuttering steps.
- The *Drizzle* refinement rests on `Fresh`: the same of a transaction that may still
  commit, where the snapshot check of SQLite plays the part of the lock.  A commit leaves no
  such transaction behind (`CommitKeeps`).  A `SQLITE_BUSY` is a store call that fails, so
  the theorem needs `"store" \in Faults`: on a shared file the Drizzle store is not a store
  without failures, not even if nothing breaks.
- The *Redis* refinement is a comparison of each script with the state machine, field by
  field (`AdmitScript`, `RecordScript`), and of the time a command carries with the
  `Readings` since its call.
- `CoolDownNeverShortened` of the SQL and Drizzle stores needs `DeadlineInv`: a transaction
  that has decided on an open row will not write an earlier deadline over it, because its
  clock was read while the row was as it is now.
- `WatcherHearsAll` is inductive once each step is known to change channels and watcher in
  one of four ways (`WatcherEffect`).  `TelescopeIsPassive` carries every theorem about
  `CircuitBreaker` over to a breaker with a telescope.
- `OpeningCarried` is the safety half of `OpeningAnnounced`.  It needs to know that only a
  `catch` block sends a failure (`FailuresFromCatch`), so that the reply "open" reaches a
  caller that announces it, and that no step of another caller touches that reply
  (`NewsKept`).  A lost reply and a crash do lose the announcement, hence the hypotheses.
- `NothingLeftBehind` rests on the shape of the tree of calls: a caller is past its start
  (`Nested`) and has numbered its calls without a gap (`Counted`), so that a call that
  starts is a new one and nothing is armed for it yet (`Armed`).  That no call listens to an
  aborted signal (`NoneDeaf`), those that threw included, needs what `OrphansTold` does: an
  abort travels through every timeout that still listens (`ListenersHear`).
- `NoRetryAfterAbort` adds `Told`: a retry in its delay listens, and its signal has not
  aborted, for the step in which it does rejects the delay.
- `OrphansTold` is not inductive: it speaks of operations, while an abort travels through
  the calls around them.  `OInv` says of every call that is not settled that it is the
  last one of its caller, which awaits it or is a timeout that has aborted (`Awaited`); that
  a timeout under way listens (`Hears`); and that an abort of any timeout around a call that is
  not settled has reached its own signal (`Reached`).  The step that matters is
  an abort with another timeout in between: if that one no longer listens it has aborted or
  settled, and then the nearest settled call around the operation is a timeout that has
  told it before (`SettledAround`).

- `SuccessIsFinal` and `OneAwaited` rest on `RInv`, on calls and their results: a success is the
  last call its caller has made and becomes the result of the caller, unless that is a
  timeout that has given it up or a breaker that could not record it.  So the earlier of two
  sibling calls has settled before the later one starts, and an operation still running below
  it lies behind a timeout that gave it up (`EarlierSettled`, `BehindGivenUp`).
- `TypeOK` of `PolicyChain` bounds the names of calls by the length of their chain
  (`TInv`, `FramesOf`); all other results are about calls of any depth.
- `HangsAreTimed` is the safety half of `Settles`.  `Timed` says it of each timeout: from
  its start until it settles, its timer is armed or its signal has aborted, since a timer goes
  only when the race is decided or by firing, and firing aborts.
- `RecordsBeforeSettling` is the safety half of `AdmittedIsRecorded`: of all the steps that
  change a call, an abort and a synchronous throw included, none moves an admitted breaker
  but to its record.

By the refinement theorems the theorems about `CircuitBreaker` hold of the policy over each
store: `PolicySafe` and the theorems after it.  They cite `CircuitBreakerProofs` through an
instance of its own in each store's module, `Proved`, of which the definitions are those of
the refinement's (`SameSpec`, `SameSlots`) and the assumptions hold (`ConstantsProper`).  What holds of a
store whose calls do not fail says nothing of the Drizzle store, whose calls do.

Only model-checked: liveness (`CallsAnswered`, `ClosesForGood`, `HalfOpenDecided`,
`OpeningAnnounced`, `Settles`, `AdmittedIsRecorded`: out of the prover's reach), what the
explorer makes of decorators (`ExplorerBuilds`, one instance), and the failing properties below.

## Where code and documentation disagree

| run | the text | the code |
|---|---|---|
| `doc_concurrent_probes` | `packages/core/README.md:109`: `halfOpenMax` is the "maximum number of concurrent half-open probes" | a late result ends the period while its probe runs; the next thaw frees all slots, so a second probe runs beside the first |
| `doc_threshold` | `packages/core/README.md:106`: "number of consecutive failures before the circuit opens" | a probe of an earlier period that fails after the circuit has closed opens it at the first failure |
| `doc_hang` | `packages/core/skills/resilience-policies/SKILL.md:149`: timeout outer, retry middle, breaker inner is "CORRECT", and the breaker "record()s the outcome" (83) | an operation that hangs in that order is never recorded: the timeout rejects its caller, the breaker goes on awaiting it, and a probe keeps its slot |
| `doc_panel` | `website/content/docs/telescope.mdx:54`: open circuits are "circuits whose latest transition left them `circuit-opened` or `circuit-half-open`" | the panel takes the latest entry of any type, so the first call an open circuit turns away (`short-circuited`) takes the circuit off the panel |
| `doc_sink` | `core/src/events.ts:28`: "a misbehaving sink must not break the others or the policy" | a single sink is called unguarded, and one that throws on `circuit-closed` makes a successful probe re-open the circuit |

A sink that throws on `circuit-half-open` is called unguarded too (`circuit-breaker.ts:27`),
after its caller was granted a slot and outside the `try`: the slot is never given back, and
`NoSlotLeaked` is stated and proved without throwing sinks.

Limits that no text denies, met while choosing properties and instances.  A `record(true)`
that fails counts the success as a failure: `FailureCountExact` and `OpenedOnlyByFailedOps`
hold of a store whose calls do not fail.  A caller that dies while it probes keeps its slot
for ever, and only a late result or `reset` ends that half-open period: `NoSlotLeaked` and
`HalfOpenDecided` are stated without crashes.  A `record(true)` that fails makes a
retry around the breaker run an operation again that has succeeded: `SuccessIsFinal`
excepts it.  A timeout around a breaker that fires while a success is being recorded makes
a failover call the next target after an operation that has succeeded: it excepts that too.
A success that is no probe closes an open or half-open circuit without an
event, as `reset` does: only openings are shown to be announced, and a lost reply or a crash
of the caller that opened the circuit leaves even that unannounced.  A timeout whose operation
throws synchronously keeps its timer until it fires, and then
rejects a promise nobody handles; its listener outlives even that, so that attempts which throw pile up
listeners on a signal their caller keeps.
`NothingLeftBehind` excepts calls that threw until their signal aborts; `Settles` shows that
in the end no timer is left, and no listener but theirs.  With `halfOpenMax: 0` no probe ever runs and only a late result or
a reset ends a half-open period (`WithoutSlotsOnlyLateResults`): liveness assumes a slot.

## What is left out

- Text and layout: error messages, SQL and ORM syntax, key prefixes, event payloads.
- `snapshot`: it reads the state and changes nothing.
- The tenant suffix of a key, read by no policy of the repository.
- The other dashboard panels, which count or list entries, and the entry the watcher makes
  of an event beyond its type.
- `FakeClock` and the store contract's test suite: test doubles and tests.
- `combineSinks` and the mirror to an event emitter: a sink that throws is modelled where it
  is called, and one behind `combineSinks` does not throw.
- The walk of the explorer over the providers, the module and its tokens: dependency
  injection, run once at start-up.  `exponential` only computes a delay.
- Error classes, build and release scripts, the documentation site.

## Plan

1. Done: the circuit, its policy and its stores (in memory, SQL, Redis, Drizzle), with
   skewed clocks; the proofs of their safety, of the three refinements, and of the safety of the
   policy over each store.
2. Done: `PolicyChain` with synchronous throws and an aborting caller; `Telescope` with its
   panel.
3. Done: proofs about `PolicyChain` for every chain; the safety halves of its liveness
   properties and of those of the breaker and the telescope.
4. Left: two breakers with one key and different configurations.
