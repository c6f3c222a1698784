---------------------------- MODULE PolicyChain ----------------------------
(***************************************************************************)
(* One execution of wrap(...policies) (packages/core/src/policies/wrap.ts) *)
(* on the event loop of one process: timeout, retry and circuitBreaker     *)
(* nested in any order around an operation, with the timers and abort      *)
(* signals of clock.ts, or a failover() that gives each of its targets     *)
(* such policies.  An operation may hang, and goes on after a timeout has  *)
(* given it up; nothing but its signal tells it to stop.                   *)
(*                                                                         *)
(* Each call the execution makes is a frame, named by the number of its    *)
(* chain of policies and those of the attempts that lead to it: <<i>> is   *)
(* the outermost policy of chain i, and a frame one longer than the chain  *)
(* is a call of the operation.                                             *)
(* A call runs down to its operation at once; then the continuations of    *)
(* promises run, until none is left (Quiet); then comes the next timer,    *)
(* answer of the store or settled operation.                               *)
(***************************************************************************)
EXTENDS Integers, SequencesExt

CONSTANTS Chains,      \* chains of policies, outermost first; a failover is the first
          MaxAttempts, \* the most attempts of a retry or targets of a failover
          StoreFails   \* whether calls of the breaker's store may reject

ASSUME ChainsAssumption ==
    /\ MaxAttempts \in Nat \ {0}
    /\ DOMAIN Chains \subseteq Nat
    /\ \A i \in DOMAIN Chains :
          /\ Len(Chains[i]) \in Nat
          /\ \A j \in 1 .. Len(Chains[i]) :
                LET p == Chains[i][j]
                IN  /\ p.kind = "timeout" => p.ms \in Nat
                    /\ p.kind = "retry" =>
                          /\ p.attempts \in Int /\ p.attempts <= MaxAttempts
                          /\ p.backoff \in Nat
                    /\ p.kind = "failover" => j = 1 /\ p.targets \in 0 .. MaxAttempts

timeout(ms) == [kind |-> "timeout", ms |-> ms]
retry(attempts, backoff) ==
    [kind |-> "retry", attempts |-> attempts, backoff |-> backoff]
circuitBreaker == [kind |-> "breaker"]
failover(targets) == [kind |-> "failover", targets |-> targets]

VARIABLES frame,      \* frame[f]: where the call f is; the calls made so far
          timers,     \* timers[f]: ticks left on the armed timer of f
          listening,  \* calls with an abort listener on the signal they got
          aborted     \* whose signal has aborted: timeouts, and the caller

vars == <<frame, timers, listening, aborted>>

\* What a call returned: the result of its promise, or an error it threw
\* instead of returning a promise, which a caller that awaits it catches as
\* well but for which a timeout is not prepared.
Outcomes == {"resolved", "rejected"}
Settled == Outcomes \cup {"threw"}
Pcs == {"start", "wait", "delay", "admit", "recordOk", "recordErr"} \cup Settled

Policy(f) == Chains[f[1]][Len(f)]
Kind(f) == IF Len(f) > Len(Chains[f[1]]) THEN "op" ELSE Policy(f).kind

Calls(kind) == {f \in DOMAIN frame : Kind(f) = kind}

\* The calls around f, and the nearest timeout among them: its signal is the
\* one f got.  Without one the signal is that of the context the caller passed.
Around(f) == {SubSeq(f, 1, n) : n \in 1 .. Len(f) - 1}
TimeoutsAround(f) == {g \in Around(f) : Kind(g) = "timeout"}
Caller == << >>
Signal(f) == LET owners == TimeoutsAround(f) \cup {Caller}
             IN  CHOOSE g \in owners : \A h \in owners : Len(h) <= Len(g)
SignalAborted(f) == Signal(f) \in aborted

\* Attempts and targets are numbered from 0.
Numbers == 0 .. MaxAttempts - 1
Frames == UNION {{<<i>> \o g : g \in UNION {[1 .. n -> Numbers] : n \in 0 .. Len(Chains[i])}} :
                    i \in DOMAIN Chains}

\* The call of f's last attempt or target; a timeout and a breaker make only one.
Attempts(f) == Cardinality({n \in Numbers : Append(f, n) \in DOMAIN frame})
Inner(f) == Append(f, Attempts(f) - 1)

Init ==
    /\ \E i \in DOMAIN Chains : frame = [f \in {<<i>>} |-> "start"]
    /\ timers = << >>
    /\ listening = {}
    /\ aborted = {}

TypeOK ==
    /\ DOMAIN frame \subseteq Frames
    /\ Range(frame) \subseteq Pcs
    /\ \A f \in DOMAIN frame : \A g \in Around(f) : g \in DOMAIN frame
    /\ DOMAIN timers \subseteq Calls("timeout") \cup Calls("retry")
    /\ Range(timers) \subseteq Nat
    /\ aborted \subseteq Calls("timeout") \cup {Caller}

-----------------------------------------------------------------------------
(* Calls: a call runs until its operation has returned or thrown *)

Goto(f, pc) == frame' = [frame EXCEPT ![f] = pc]
GotoInner(f, pc) ==
    LET inner == Append(f, Attempts(f))
    IN  frame' = [g \in DOMAIN frame \cup {inner} |->
                     IF g = inner THEN "start" ELSE IF g = f THEN pc ELSE frame[g]]
Arm(f, ticks) == timers' = [g \in DOMAIN timers \cup {f} |->
                               IF g = f THEN ticks ELSE timers[g]]
Disarm(S) == timers' = [f \in DOMAIN timers \ S |-> timers[f]]

At(f, kind, pc) == f \in DOMAIN frame /\ Kind(f) = kind /\ frame[f] = pc
InnerIs(f, pc) == Attempts(f) > 0 /\ frame[Inner(f)] = pc

\* Mutated: a signal that has already aborted is listened to.
StartTimeoutUnaborted(f) ==
    /\ At(f, "timeout", "start")
    /\ Arm(f, Policy(f).ms)
    /\ listening' = listening \cup {f}
    /\ GotoInner(f, "wait")
    /\ UNCHANGED aborted

\* Mutated: no timer, only the listener.
StartTimeoutUntimed(f) ==
    /\ At(f, "timeout", "start")
    /\ IF SignalAborted(f)
       THEN aborted' = aborted \cup {f} /\ UNCHANGED listening
       ELSE listening' = listening \cup {f} /\ UNCHANGED aborted
    /\ GotoInner(f, "wait")
    /\ UNCHANGED timers

StartTimeout(f) ==
    /\ At(f, "timeout", "start")
    /\ Arm(f, Policy(f).ms)
    /\ IF SignalAborted(f)
       THEN aborted' = aborted \cup {f} /\ UNCHANGED listening
       ELSE listening' = listening \cup {f} /\ UNCHANGED aborted
    /\ GotoInner(f, "wait")

\* Without attempts the loop ends at once: `throw last`.
StartRetry(f) ==
    /\ At(f, "retry", "start")
    /\ IF Policy(f).attempts > 0 THEN GotoInner(f, "wait")
                                 ELSE Goto(f, "rejected")
    /\ UNCHANGED <<timers, listening, aborted>>

StartBreaker(f) ==
    /\ At(f, "breaker", "start")
    /\ Goto(f, "admit")
    /\ UNCHANGED <<timers, listening, aborted>>

\* The operation returns a promise, which may have settled already.
StartOp(f) ==
    /\ At(f, "op", "start")
    /\ \E pc \in {"wait"} \cup Outcomes : Goto(f, pc)
    /\ UNCHANGED <<timers, listening, aborted>>

\* Mutated: nobody around f awaits what it returns.
PassedByAll(f) == Around(f)

\* The timeouts right around f, which an error thrown by f passes through.
\* Their finally() was never attached: the timer stays until it fires, the
\* listener until the signal aborts.
PassedBy(f) ==
    {g \in Around(f) : \A h \in Around(f) : Len(g) <= Len(h) => Kind(h) = "timeout"}

OpThrows(f) ==
    /\ At(f, "op", "start")
    /\ frame' = [g \in DOMAIN frame |->
                    IF g = f \/ g \in PassedBy(f) THEN "threw" ELSE frame[g]]
    /\ UNCHANGED <<timers, listening, aborted>>

Calling == \E f \in DOMAIN frame : frame[f] = "start"

-----------------------------------------------------------------------------
(* Continuations: the microtasks *)

InnerFailed(f) == InnerIs(f, "rejected") \/ InnerIs(f, "threw")
InnerSettled(f) == InnerIs(f, "resolved") \/ InnerFailed(f)

\* Mutated: the inner call alone decides.
RacedByInner(f) == InnerSettled(f)

\* Promise.race: whichever of the abort and the inner call came first.  Where
\* the signal had aborted before the call, an operation that returned a settled
\* promise still wins, since it comes first in the array.
Raced(f) == f \in aborted \/ InnerSettled(f)

RaceResult(f) ==
    IF InnerSettled(f) /\ (f \notin aborted \/ Kind(Inner(f)) = "op")
    THEN frame[Inner(f)]
    ELSE "rejected"

\* Mutated: no finally().
FinishTimeoutOnly(f) ==
    /\ At(f, "timeout", "wait") /\ Raced(f)
    /\ Goto(f, RaceResult(f))
    /\ UNCHANGED <<timers, listening, aborted>>

FinishTimeout(f) ==
    /\ At(f, "timeout", "wait") /\ Raced(f)
    /\ Goto(f, RaceResult(f))
    /\ Disarm({f})
    /\ listening' = listening \ {f}
    /\ UNCHANGED aborted

\* Mutated: the loop does not return on success.
RetryGoesOn(f) ==
    /\ At(f, "retry", "wait") /\ InnerIs(f, "resolved")
    /\ IF Attempts(f) < Policy(f).attempts THEN GotoInner(f, "wait")
                                           ELSE Goto(f, "resolved")
    /\ UNCHANGED <<timers, listening, aborted>>

RetryResolves(f) ==
    /\ At(f, "retry", "wait") /\ InnerIs(f, "resolved")
    /\ Goto(f, "resolved")
    /\ UNCHANGED <<timers, listening, aborted>>

\* The last attempt failed, or the signal has aborted and delay() rejects, or
\* backoff(), a function of the application, throws.
RetryRejects(f) ==
    /\ At(f, "retry", "wait") /\ InnerFailed(f)
    /\ Goto(f, "rejected")
    /\ UNCHANGED <<timers, listening, aborted>>

\* Mutated: one attempt too many.
RetryDelaysOnceMore(f) ==
    /\ At(f, "retry", "wait") /\ InnerFailed(f)
    /\ Attempts(f) <= Policy(f).attempts /\ ~SignalAborted(f)
    /\ Goto(f, "delay")
    /\ Arm(f, Policy(f).backoff)
    /\ listening' = listening \cup {f}
    /\ UNCHANGED aborted

\* Mutated: the delay is not given the signal.
RetryDelaysDeaf(f) ==
    /\ At(f, "retry", "wait") /\ InnerFailed(f)
    /\ Attempts(f) < Policy(f).attempts
    /\ Goto(f, "delay")
    /\ Arm(f, Policy(f).backoff)
    /\ UNCHANGED <<listening, aborted>>

\* Mutated: the attempt is not awaited.
RetryDelaysUnawaited(f) ==
    /\ At(f, "retry", "wait") /\ ~InnerIs(f, "resolved")
    /\ Attempts(f) < Policy(f).attempts /\ ~SignalAborted(f)
    /\ Goto(f, "delay")
    /\ Arm(f, Policy(f).backoff)
    /\ listening' = listening \cup {f}
    /\ UNCHANGED aborted

RetryDelays(f) ==
    /\ At(f, "retry", "wait") /\ InnerFailed(f)
    /\ Attempts(f) < Policy(f).attempts /\ ~SignalAborted(f)
    /\ Goto(f, "delay")
    /\ Arm(f, Policy(f).backoff)
    /\ listening' = listening \cup {f}
    /\ UNCHANGED aborted

StartFailover(f) ==
    /\ At(f, "failover", "start")
    /\ IF Policy(f).targets > 0 THEN GotoInner(f, "wait")
                                ELSE Goto(f, "rejected")
    /\ UNCHANGED <<timers, listening, aborted>>

FailoverResolves(f) ==
    /\ At(f, "failover", "wait") /\ InnerIs(f, "resolved")
    /\ Goto(f, "resolved")
    /\ UNCHANGED <<timers, listening, aborted>>

\* The next target, unless this was the last or a hook throws.
FailoverGoesOn(f) ==
    /\ At(f, "failover", "wait") /\ InnerFailed(f)
    /\ \/ Attempts(f) < Policy(f).targets /\ GotoInner(f, "wait")
       \/ Goto(f, "rejected")
    /\ UNCHANGED <<timers, listening, aborted>>

BreakerRecords(f) ==
    /\ At(f, "breaker", "wait")
    /\ \/ InnerIs(f, "resolved") /\ Goto(f, "recordOk")
       \/ InnerFailed(f) /\ Goto(f, "recordErr")
    /\ UNCHANGED <<timers, listening, aborted>>

Ready(f) == frame[f] = "wait" /\ Kind(f) # "op" /\ Raced(f)

Quiet == ~Calling /\ \A f \in DOMAIN frame : ~Ready(f)

Call(f) ==
    \/ StartTimeout(f) \/ StartRetry(f) \/ StartBreaker(f) \/ StartFailover(f)
    \/ StartOp(f) \/ OpThrows(f)

Continue(f) ==
    \/ FinishTimeout(f) \/ RetryResolves(f) \/ RetryRejects(f) \/ RetryDelays(f)
    \/ BreakerRecords(f) \/ FailoverResolves(f) \/ FailoverGoesOn(f)

-----------------------------------------------------------------------------
(* Timers, the store and the operations: the macrotasks *)

\* The timeouts that abort when s does, through their listeners, and the
\* delays these signals reject.
AbortedBy(s) ==
    {u \in Calls("timeout") :
        /\ IsPrefix(s, u)
        /\ \A v \in {u} \cup TimeoutsAround(u) :
              IsStrictPrefix(s, v) => v \in listening}
RejectedBy(T) ==
    {f \in listening : frame[f] = "delay" /\ Signal(f) \in T}

\* s aborts: the timeout s, or the caller.
Abort(s) ==
    LET T == {s} \cup AbortedBy(s)
    IN  /\ aborted' = aborted \cup T
        /\ frame' = [f \in DOMAIN frame |->
                        IF f \in RejectedBy(T) THEN "rejected" ELSE frame[f]]
        /\ listening' = listening \ ((T \ {s}) \cup RejectedBy(T))
        /\ Disarm({s} \cup RejectedBy(T))

TimeoutFires(t) ==
    /\ t \in DOMAIN timers /\ timers[t] = 0 /\ Kind(t) = "timeout"
    /\ Abort(t)

\* The caller gives the execution up.  A failover takes no context: each of its
\* targets gets a signal that never aborts.
CallerAborts ==
    /\ Caller \notin aborted
    /\ \A f \in DOMAIN frame : Kind(f) # "failover"
    /\ Abort(Caller)

DelayElapses(f) ==
    /\ f \in DOMAIN timers /\ timers[f] = 0 /\ At(f, "retry", "delay")
    /\ GotoInner(f, "wait")
    /\ Disarm({f})
    /\ listening' = listening \ {f}
    /\ UNCHANGED aborted

\* The admission: allowed, or denied (or admit() itself rejects).
StoreAdmits(f) ==
    /\ At(f, "breaker", "admit")
    /\ GotoInner(f, "wait") \/ Goto(f, "rejected")
    /\ UNCHANGED <<timers, listening, aborted>>

\* A rejected record(true) ends in the catch block, which records a failure.
StoreRecords(f) ==
    /\ \/ At(f, "breaker", "recordOk") /\ Goto(f, "resolved")
       \/ StoreFails /\ At(f, "breaker", "recordOk") /\ Goto(f, "recordErr")
       \/ At(f, "breaker", "recordErr") /\ Goto(f, "rejected")
    /\ UNCHANGED <<timers, listening, aborted>>

OpSettles(f) ==
    /\ At(f, "op", "wait")
    /\ \E pc \in Outcomes : Goto(f, pc)
    /\ UNCHANGED <<timers, listening, aborted>>

Tick ==
    /\ \E f \in DOMAIN timers : timers[f] > 0
    /\ timers' = [f \in DOMAIN timers |-> IF timers[f] > 0 THEN timers[f] - 1 ELSE 0]
    /\ UNCHANGED <<frame, listening, aborted>>

-----------------------------------------------------------------------------

Fires(f) == TimeoutFires(f) \/ DelayElapses(f)
StoreAnswers(f) == StoreAdmits(f) \/ StoreRecords(f)

\* What the process does of itself: continuations, due timers, answers of the
\* store, and time.
Run ==
    \/ \E f \in DOMAIN frame : Call(f)
    \/ ~Calling /\ \E f \in DOMAIN frame : Continue(f)
    \/ Quiet /\ \E f \in DOMAIN frame : Fires(f) \/ StoreAnswers(f)
    \/ Quiet /\ Tick

Next ==
    \/ Run
    \/ Quiet /\ \E f \in DOMAIN frame : OpSettles(f)
    \/ Quiet /\ CallerAborts

Spec == Init /\ [][Next]_vars

\* The process never stops while it has something to do.  An operation may hang.
Fairness == WF_vars(Run)

FairSpec == Spec /\ Fairness

-----------------------------------------------------------------------------
(* Properties *)

\* An operation that nobody awaits any more has been told so: when a call
\* around it has settled, its signal has aborted, also if it started only
\* after that.
OrphansTold ==
    \A f \in Calls("op") :
        frame[f] = "wait" /\ (\E g \in Around(f) : frame[g] \in Settled)
            => SignalAborted(f)

\* A call whose promise has settled has no armed timer and no abort listener
\* left, and no call listens on a signal that has aborted.  A timeout whose
\* operation threw has no finally(): it keeps its timer until that fires, and
\* its listener until the signal it got aborts, which may never happen.
NothingLeftBehind ==
    /\ \A f \in DOMAIN frame :
          frame[f] \in Outcomes => f \notin DOMAIN timers /\ f \notin listening
    /\ \A f \in listening : ~SignalAborted(f)

\* No further attempt starts once the signal of a retry has aborted, whether
\* it aborts during an attempt or during the delay after it.
NoRetryAfterAbort ==
    [][\A f \in Calls("retry") :
         0 < Attempts(f) /\ Attempts(f) < Attempts(f)' => ~SignalAborted(f)]_vars

\* Whether a timeout around f has given it up.
GivenUp(f) == TimeoutsAround(f) \cap aborted # {}

\* Of the operations that run, all but one have been given up: attempts and
\* targets follow one another, and only one that a timeout took the place of
\* goes on beside the next.
OneAwaited ==
    \A f, g \in Calls("op") :
        f # g /\ frame[f] = "wait" /\ frame[g] = "wait" => GivenUp(f) \/ GivenUp(g)

\* A breaker that has admitted a call never settles without having recorded an
\* outcome: no abort, synchronous throw or orphaned call around or inside it
\* takes it past its record, which alone gives the probe slot back.
RecordsBeforeSettling ==
    [][\A f \in Calls("breaker") :
         frame[f] = "wait" => frame'[f] \in {"wait", "recordOk", "recordErr"}]_vars

\* A call within a timeout never hangs unseen: until it settles, the timer of a
\* timeout around it is armed, or its signal has aborted.
HangsAreTimed ==
    \A f \in DOMAIN frame :
        frame[f] \notin Settled /\ TimeoutsAround(f) # {} =>
            TimeoutsAround(f) \cap DOMAIN timers # {} \/ SignalAborted(f)

\* After an operation has succeeded no other is run, neither as an attempt
\* nor for another target, unless a breaker could not record the success, or
\* one of the two belongs to a call that a timeout has given up.
SuccessIsFinal ==
    [][(\E new \in Calls("op")' \ Calls("op") : ~GivenUp(new)') =>
         \A f \in Calls("op") :
            frame[f] = "resolved" =>
               \/ GivenUp(f)
               \/ \E g \in Around(f) : Kind(g) = "breaker" /\ frame[g] = "rejected"]_vars

\* The execution settles, though operations may hang.  In the end no timer is
\* left of it, neither one of a call that was given up and went on nor the one
\* of a timeout whose operation threw, and no listener but those of timeouts
\* whose operation threw.
Settles ==
    <>[]( /\ timers = << >>
          /\ \A f \in listening : frame[f] = "threw"
          /\ \A f \in DOMAIN frame : Len(f) = 1 => frame[f] \in Settled )

\* Every call a breaker has admitted reports its outcome, though operations
\* may hang, so that no probe slot is lost and every hang counts.
AdmittedIsRecorded == []<>(\A f \in Calls("breaker") : frame[f] # "wait")

=============================================================================
