--------------------------- MODULE TelescopeProofs ---------------------------
(***************************************************************************)
(* The watcher hears what it should, for every number of callers and every *)
(* fault; announcing changes nothing about the circuit; and an opening is  *)
(* never forgotten on its way to its announcement while calls of the store *)
(* get their replies.                                                      *)
(***************************************************************************)
EXTENDS Telescope, CircuitBreakerProofs

\* How a step may change the channels and the watcher.
WatcherEffect ==
    \/ UNCHANGED <<channels, registered, subscribed>>
    \/ ~registered /\ registered' = TRUE /\ subscribed' = channels /\ UNCHANGED channels
    \/ registered /\ registered' = FALSE /\ subscribed' = {} /\ UNCHANGED channels
    \/ \E event :
          /\ channels' = channels \cup {event} /\ UNCHANGED registered
          /\ IF Listening(event) THEN subscribed' = subscribed \cup {event}
                                 ELSE UNCHANGED subscribed

LEMMA EmitEffect ==
    /\ \A event : Emit(event) => WatcherEffect
    /\ UNCHANGED telescopeVars => WatcherEffect
<1>1. ASSUME NEW event, Emit(event) PROVE WatcherEffect
  BY <1>1, Zenon DEF Emit, WatcherEffect
<1>2. CASE UNCHANGED telescopeVars
  BY <1>2, Zenon DEF telescopeVars, watcherVars, WatcherEffect
<1>3. QED
  BY <1>1, <1>2

LEMMA StepEffect == [TelescopeNext]_allVars => WatcherEffect
<1> SUFFICES ASSUME [TelescopeNext]_allVars PROVE WatcherEffect
  OBVIOUS
<1>1. CASE Register \/ Cleanup
  BY <1>1, Zenon DEF Register, Cleanup, WatcherEffect
<1>2. ASSUME NEW c \in Callers, TelescopePolicyStep(c) PROVE WatcherEffect
  <2>1. CASE SilentStep(c)
    BY <2>1, EmitEffect DEF SilentStep
  <2>2. CASE RunOpEmits(c)
    BY <2>2, EmitEffect, Zenon DEF RunOpEmits, EmitIf
  <2>3. CASE ShortCircuitEmits(c)
    BY <2>3, EmitEffect, Zenon DEF ShortCircuitEmits, EmitIf
  <2>4. CASE ReturnResultEmits(c)
    BY <2>4, EmitEffect, Zenon DEF ReturnResultEmits, EmitIf
  <2>5. CASE RethrowErrorEmits(c)
    BY <2>5, EmitEffect, Zenon DEF RethrowErrorEmits, EmitIf
  <2>6. QED
    BY <1>2, <2>1, <2>2, <2>3, <2>4, <2>5 DEF TelescopePolicyStep
<1>3. ASSUME NEW c \in Callers, TelescopeStoreStep(c) PROVE WatcherEffect
  BY <1>3, Zenon DEF TelescopeStoreStep, watcherVars, WatcherEffect
<1>4. CASE UNCHANGED telescopeVars
  BY <1>4, EmitEffect
<1>5. QED
  BY <1>1, <1>2, <1>3, <1>4, Zenon DEF TelescopeNext, allVars

\* A watcher is subscribed to exactly the channels there are while it is
\* registered, whenever a channel appears and however often it comes and goes.
THEOREM WatcherHearsAllHolds == TelescopeSpec => []WatcherHearsAll
<1> DEFINE Inv == WatcherHearsAll /\ registered \in BOOLEAN
<1>1. TelescopeInit => Inv
  BY DEF TelescopeInit, WatcherHearsAll
<1>2. Inv /\ [TelescopeNext]_allVars => Inv'
  <2> SUFFICES ASSUME Inv, WatcherEffect PROVE Inv'
    BY StepEffect
  <2>1. ASSUME NEW event,
               channels' = channels \cup {event}, UNCHANGED registered,
               IF Listening(event) THEN subscribed' = subscribed \cup {event}
                                   ELSE UNCHANGED subscribed
        PROVE  Inv'
    <3>1. CASE registered
      <4>1. subscribed = channels /\ Listening(event)
        BY <3>1, Zenon DEF Listening, WatcherHearsAll
      <4>2. QED
        BY <2>1, <3>1, <4>1 DEF WatcherHearsAll
    <3>2. CASE ~registered
      <4>1. ~Listening(event)
        BY <3>2 DEF Listening, WatcherHearsAll
      <4>2. QED
        BY <2>1, <3>2, <4>1 DEF WatcherHearsAll
    <3>3. QED
      BY <3>1, <3>2
  <2>2. CASE UNCHANGED <<channels, registered, subscribed>>
    BY <2>2 DEF WatcherHearsAll
  <2>3. CASE /\ ~registered /\ registered' = TRUE
             /\ subscribed' = channels /\ UNCHANGED channels
    BY <2>3 DEF WatcherHearsAll
  <2>4. CASE registered' = FALSE /\ subscribed' = {}
    BY <2>4 DEF WatcherHearsAll
  <2>5. QED
    BY <2>1, <2>2, <2>3, <2>4, Zenon DEF WatcherEffect
<1>3. QED
  BY <1>1, <1>2, PTL DEF TelescopeSpec

LEMMA PassiveStep == [TelescopeNext]_allVars => [Next]_vars
<1> SUFFICES ASSUME [TelescopeNext]_allVars PROVE Next \/ UNCHANGED vars
  OBVIOUS
<1>1. CASE Register \/ Cleanup \/ UNCHANGED allVars
  BY <1>1, Zenon DEF Register, Cleanup, allVars
<1>2. ASSUME NEW c \in Callers, TelescopePolicyStep(c) \/ TelescopeStoreStep(c)
      PROVE  Next
  BY <1>2, Zenon DEF TelescopePolicyStep, TelescopeStoreStep, SilentStep, RunOpEmits,
     ShortCircuitEmits, ReturnResultEmits, RethrowErrorEmits, Next, CallerStep, PolicyStep
<1>3. CASE Pass \/ Recover
  BY <1>3 DEF Next
<1>4. QED
  BY <1>1, <1>2, <1>3 DEF TelescopeNext

\* With a telescope that comes and goes the circuit breaker behaves as it does
\* without one, so that whatever holds of CircuitBreaker holds here.
THEOREM TelescopeIsPassive == TelescopeSpec => Spec
<1>1. TelescopeInit => Init
  BY DEF TelescopeInit
<1>2. QED
  BY <1>1, PassiveStep, PTL DEF TelescopeSpec, Spec

-----------------------------------------------------------------------------
(* Openings on their way to their announcement *)

\* Strengthening, when every call of the store gets its reply: only a caller in
\* its catch block records a failure.
FailuresFromCatch ==
    \A c \in Callers :
        /\ call[c].kind # "failed" /\ ~At(c, "crashed")
        /\ call[c].kind = "record" /\ ~call[c].ok => At(c, "recordErr")

LEMMA FromCatchStep ==
    ASSUME TypeOK, FailuresFromCatch, "store" \notin Faults, "crash" \notin Faults,
           [Next]_vars
    PROVE  FailuresFromCatch'
<1>1. /\ call \in [Callers -> Calls] /\ exec \in [Callers -> Execs]
  BY DEF TypeOK, StoreTypeOK
<1>2. SUFFICES ASSUME NEW d \in Callers
               PROVE  /\ call'[d].kind # "failed" /\ exec'[d].pc # "crashed"
                      /\ call'[d].kind = "record" /\ ~call'[d].ok
                            => exec'[d].pc = "recordErr"
  BY DEF FailuresFromCatch, At
<1>3. /\ call[d].kind # "failed" /\ exec[d].pc # "crashed"
      /\ call[d].kind = "record" /\ ~call[d].ok => exec[d].pc = "recordErr"
  BY DEF FailuresFromCatch, At
<1>4. ASSUME NEW c \in Callers, CallerStep(c)
      PROVE  /\ call'[d].kind # "failed" /\ exec'[d].pc # "crashed"
             /\ call'[d].kind = "record" /\ ~call'[d].ok
                   => exec'[d].pc = "recordErr"
  <2>1. CASE Execute(c)
    BY <1>1, <1>3, <2>1, SMT DEF Execute, Goto, CallAdmit, AdmitRequest
  <2>2. CASE RunOp(c)
    BY <1>1, <1>3, <2>2, SMT DEF RunOp, NoCall
  <2>3. CASE \/ ShortCircuit(c) \/ ReturnResult(c) \/ RethrowError(c)
             \/ ResetReturns(c) \/ SinkThrowsOnProbe(c)
    <3>1. Return(c)
      BY <2>3 DEF ShortCircuit, ReturnResult, RethrowError, ResetReturns,
                  SinkThrowsOnProbe
    <3>2. QED
      BY <1>1, <1>3, <3>1, SMT DEF Return, NoCall, Idle
  <2>4. CASE OpResolves(c) \/ OpRejects(c)
    BY <1>1, <1>3, <2>4, SMT DEF OpResolves, OpRejects, Settle, CallRecord,
                                 RecordRequest
  <2>5. CASE Reset(c)
    BY <1>1, <1>3, <2>5, SMT DEF Reset, Goto, CallRecord, RecordRequest
  <2>6. CASE CatchAfterSuccess(c)
    <3>1. Goto(c, "recordErr") /\ CallRecord(c, FALSE, exec[c].probe)
      BY <2>6 DEF CatchAfterSuccess
    <3>2. QED
      BY <1>1, <1>3, <3>1, SMT DEF Goto, CallRecord, RecordRequest
  <2>7. ~Crash(c)
    BY DEF Crash
  <2>8. QED
    BY <1>4, <2>1, <2>2, <2>3, <2>4, <2>5, <2>6, <2>7 DEF CallerStep, PolicyStep
<1>5. ASSUME NEW c \in Callers, StoreAdmit(c) \/ StoreRecord(c)
      PROVE  /\ call'[d].kind # "failed" /\ exec'[d].pc # "crashed"
             /\ call'[d].kind = "record" /\ ~call'[d].ok
                   => exec'[d].pc = "recordErr"
  <2>1. PICK x : /\ call' = [call EXCEPT ![c] = x]
                 /\ x.kind \in {"admitted", "recorded"}
    BY <1>5, AdmitEffect, RecordEffect DEF StoreAdmit, StoreRecord
  <2>2. exec' = exec
    BY <1>5 DEF StoreAdmit, StoreRecord, policyVars
  <2>3. QED
    BY <1>1, <1>3, <2>1, <2>2, SMT
<1>6. ASSUME NEW c \in Callers PROVE ~StoreReject(c)
  BY DEF StoreReject, FailuresFromCatch
<1>7. CASE Pass \/ Recover \/ UNCHANGED vars
  BY <1>3, <1>7 DEF Pass, Tick, Recover, vars
<1>8. QED
  BY <1>4, <1>5, <1>6, <1>7 DEF Next, StoreStep

\* The record that opens the circuit is a failure, and its reply says so.
LEMMA OpeningReply ==
    ASSUME TypeOK, FailuresFromCatch, "store" \notin Faults, NEW c \in Callers,
           StoreStep(c), circuit'.status = "open", circuit.status # "open"
    PROVE  /\ At(c, "recordErr") /\ exec' = exec
           /\ call'[c].kind = "recorded" /\ call'[c].status = "open"
<1>1. circuit \in CircuitStates /\ call \in [Callers -> Calls]
  BY DEF TypeOK, StoreTypeOK
<1>2. ~StoreAdmit(c)
  <2>1. SUFFICES ASSUME StoreAdmit(c) PROVE FALSE
    OBVIOUS
  <2>2. PICK now \in Nat : circuit' = computeAdmit(circuit, Cfg, now).state
    BY <2>1, AdmitEffect DEF StoreAdmit
  <2>3. QED
    BY <1>1, <2>2, AdmitNeverOpens, CfgAssumption
<1>3. StoreRecord(c)
  BY <1>2 DEF StoreStep, StoreReject, Reject
<1>4. PICK now : /\ circuit' = computeRecord(circuit, Cfg, call[c].ok,
                                             call[c].probe, now).state
                 /\ call' = [call EXCEPT ![c] = Recorded(
                       computeRecord(circuit, Cfg, call[c].ok,
                                     call[c].probe, now).status)]
  BY <1>3 DEF StoreRecord, Record, Reply
<1>5. ~call[c].ok
  BY <1>4, SMT DEF computeRecord, Close
<1>6. call[c].kind = "record" /\ exec' = exec
  BY <1>3, RecordEffect DEF StoreRecord, policyVars
<1>7. computeRecord(circuit, Cfg, call[c].ok, call[c].probe, now).status = "open"
  BY <1>4, Zenon DEF computeRecord
<1>8. call'[c] = Recorded("open")
  BY <1>1, <1>4, <1>7
<1>9. QED
  BY <1>5, <1>6, <1>8 DEF FailuresFromCatch, Recorded

\* A caller's step leaves the news of another caller where it is, and its own
\* until it is announced.
LEMMA NewsKept ==
    ASSUME TypeOK, NEW d \in Callers,
           At(d, "recordErr"), call[d].kind = "recorded", call[d].status = "open",
           NEW c \in Callers, TelescopePolicyStep(c), "crash" \notin Faults
    PROVE  \/ ~unannounced'
           \/ /\ exec'[d].pc = "recordErr"
              /\ call'[d].kind = "recorded" /\ call'[d].status = "open"
<1>1. /\ call \in [Callers -> Calls] /\ exec \in [Callers -> Execs]
  BY DEF TypeOK, StoreTypeOK
<1>2. CASE c = d
  <2>1. ~Crash(c)
    BY DEF Crash
  <2>2. /\ ~SilentStep(c) /\ ~RunOpEmits(c) /\ ~ShortCircuitEmits(c)
        /\ ~ReturnResultEmits(c)
    <3>1. exec[c].pc = "recordErr"
      BY <1>2 DEF At
    <3>2. QED
      BY <2>1, <3>1 DEF SilentStep, RunOpEmits, ShortCircuitEmits, ReturnResultEmits,
         Execute, OpResolves, OpRejects, CatchAfterSuccess, Reset, ResetReturns,
         RunOp, ShortCircuit, ReturnResult, At
  <2>3. RethrowErrorEmits(c)
    BY <2>2 DEF TelescopePolicyStep
  <2>4. Emit("circuit-opened")
    BY <1>2, <2>3, Zenon DEF RethrowErrorEmits, EmitIf
  <2>5. QED
    BY <2>4, Zenon DEF Emit
<1>3. CASE c # d
  <2>1. PolicyStep(c) \/ Crash(c)
    BY Zenon DEF TelescopePolicyStep, SilentStep, RunOpEmits, ShortCircuitEmits,
       ReturnResultEmits, RethrowErrorEmits, PolicyStep
  <2>2. PolicyStep(c)
    BY <2>1 DEF Crash
  <2>3. /\ \E e : exec' = [exec EXCEPT ![c] = e]
        /\ \E x : call' = [call EXCEPT ![c] = x]
    BY <2>2, Zenon DEF PolicyStep, Execute, RunOp, ShortCircuit, OpResolves, OpRejects,
       ReturnResult, CatchAfterSuccess, RethrowError, Reset, ResetReturns, Goto, Settle,
       Return, CallAdmit, CallRecord
  <2>4. exec'[d] = exec[d] /\ call'[d] = call[d]
    BY <1>1, <1>3, <2>3, Zenon
  <2>5. QED
    BY <2>4 DEF At
<1>4. QED
  BY <1>2, <1>3

\* As long as calls of the store get their replies and no process crashes, every
\* opening is carried to its announcement by the caller whose failure caused it,
\* whoever reopens, closes or probes the circuit in between.
THEOREM OpeningCarriedHolds ==
    ASSUME "store" \notin Faults, "crash" \notin Faults
    PROVE  TelescopeSpec => []OpeningCarried
<1> DEFINE Inv == TypeOK /\ FailuresFromCatch /\ OpeningCarried
<1>1. TelescopeInit => Inv
  <2>1. TelescopeInit => FailuresFromCatch
    BY SMT DEF TelescopeInit, Init, StoreInit, Idle, NoCall, FailuresFromCatch, At
  <2>2. TelescopeInit => OpeningCarried
    BY DEF TelescopeInit, OpeningCarried
  <2>3. QED
    BY <2>1, <2>2, TypeCorrectInit DEF TelescopeInit
<1>2. Inv /\ [TelescopeNext]_allVars => Inv'
  <2> SUFFICES ASSUME TypeOK, FailuresFromCatch, OpeningCarried,
                      [TelescopeNext]_allVars
               PROVE  Inv'
    OBVIOUS
  <2>1. TypeOK' /\ FailuresFromCatch'
    BY PassiveStep, TypeCorrectStep, FromCatchStep
  <2>2. SUFFICES ASSUME unannounced'
                 PROVE  \E d \in Callers : /\ exec'[d].pc = "recordErr"
                                           /\ call'[d].kind = "recorded"
                                           /\ call'[d].status = "open"
    BY <2>1 DEF OpeningCarried, At
  <2>3. ASSUME unannounced
        PROVE  \E d \in Callers : /\ exec[d].pc = "recordErr"
                                  /\ call[d].kind = "recorded"
                                  /\ call[d].status = "open"
    BY <2>3 DEF OpeningCarried, At
  <2>4. ASSUME NEW c \in Callers, TelescopePolicyStep(c)
        PROVE  \E d \in Callers : /\ exec'[d].pc = "recordErr"
                                  /\ call'[d].kind = "recorded"
                                  /\ call'[d].status = "open"
    <3>1. unannounced
      BY <2>2, <2>4, Zenon DEF TelescopePolicyStep, SilentStep, RunOpEmits,
         ShortCircuitEmits, ReturnResultEmits, RethrowErrorEmits, EmitIf, Emit,
         telescopeVars
    <3>2. PICK d \in Callers : /\ exec[d].pc = "recordErr"
                               /\ call[d].kind = "recorded"
                               /\ call[d].status = "open"
      BY <2>3, <3>1
    <3>3. QED
      BY <2>2, <2>4, <3>2, NewsKept DEF At
  <2>5. ASSUME NEW c \in Callers, TelescopeStoreStep(c)
        PROVE  \E d \in Callers : /\ exec'[d].pc = "recordErr"
                                  /\ call'[d].kind = "recorded"
                                  /\ call'[d].status = "open"
    <3>1. /\ StoreStep(c)
          /\ unannounced \/ (circuit'.status = "open" /\ circuit.status # "open")
      BY <2>2, <2>5 DEF TelescopeStoreStep
    <3>2. CASE circuit'.status = "open" /\ circuit.status # "open"
      BY <3>1, <3>2, OpeningReply DEF At
    <3>3. CASE unannounced
      <4>1. PICK d \in Callers : /\ exec[d].pc = "recordErr"
                                 /\ call[d].kind = "recorded"
                                 /\ call[d].status = "open"
        BY <2>3, <3>3
      <4>2. /\ call[c].kind \in {"admit", "record"} /\ exec' = exec
            /\ \E x : call' = [call EXCEPT ![c] = x]
        BY <3>1, AdmitEffect, RecordEffect
           DEF StoreStep, StoreAdmit, StoreRecord, StoreReject, Reject, policyVars
      <4>3. call'[d] = call[d]
        BY <4>1, <4>2 DEF TypeOK, StoreTypeOK
      <4>4. QED
        BY <4>1, <4>2, <4>3
    <3>4. QED
      BY <3>1, <3>2, <3>3
  <2>6. CASE Register \/ Cleanup \/ UNCHANGED allVars
             \/ ((Pass \/ Recover) /\ UNCHANGED telescopeVars)
    <3>1. UNCHANGED <<exec, call, unannounced>>
      BY <2>6, Zenon DEF Register, Cleanup, allVars, vars, Pass, Tick, Recover,
         telescopeVars
    <3>2. QED
      BY <2>2, <2>3, <3>1
  <2>7. QED
    BY <2>4, <2>5, <2>6 DEF TelescopeNext
<1>3. QED
  BY <1>1, <1>2, PTL DEF TelescopeSpec

=============================================================================
