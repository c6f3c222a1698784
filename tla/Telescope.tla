----------------------------- MODULE Telescope -----------------------------
(***************************************************************************)
(* What the circuit-breaker policy announces, and who hears it: the events *)
(* of circuit-breaker.ts go through diagnosticsSink (one diagnostics       *)
(* channel for each event type) to the ResilienceWatcher of                *)
(* packages/telescope, which is registered and cleaned up at any moment    *)
(* and records an entry for each event it hears; the panel of open circuits*)
(* is computed from the entries.  The callers, the store and the circuit   *)
(* are those of CircuitBreaker: one process, one key.                      *)
(***************************************************************************)
EXTENDS CircuitBreaker

VARIABLES channels,    \* the event types whose channel exists
          registered,  \* the watcher's flag
          subscribed,  \* the channels the watcher listens to
          latest,      \* the event of the newest entry of the key, or "none";
                       \* "missed" when a newer event was not recorded
          unannounced  \* history: whether the circuit has opened since the
                       \* last circuit-opened event

watcherVars == <<channels, registered, subscribed, latest>>
telescopeVars == <<watcherVars, unannounced>>
allVars == <<vars, telescopeVars>>

TelescopeInit ==
    /\ Init
    /\ channels = {} /\ registered = FALSE /\ subscribed = {}
    /\ latest = "none" /\ unannounced = FALSE

-----------------------------------------------------------------------------
(* The watcher *)

\* Mutated: the channels that exist already are not subscribed to.
RegisterLater ==
    /\ ~registered
    /\ registered' = TRUE
    /\ UNCHANGED <<vars, channels, subscribed, latest, unannounced>>

Register ==
    /\ ~registered
    /\ registered' = TRUE
    /\ subscribed' = channels
    /\ UNCHANGED <<vars, channels, latest, unannounced>>

Cleanup ==
    /\ registered
    /\ registered' = FALSE
    /\ subscribed' = {}
    /\ UNCHANGED <<vars, channels, latest, unannounced>>

\* The first event of a type creates its channel, which a registered watcher
\* then subscribes to, before the event is published.
Listening(event) ==
    event \in subscribed \/ (registered /\ event \notin channels)

Emit(event) ==
    /\ channels' = channels \cup {event}
    /\ IF Listening(event)
       THEN subscribed' = subscribed \cup {event} /\ latest' = event
       ELSE latest' = "missed" /\ UNCHANGED subscribed
    /\ unannounced' = (unannounced /\ event # "circuit-opened")
    /\ UNCHANGED registered

EmitIf(condition, event) ==
    \/ condition /\ Emit(event)
    \/ ~condition /\ UNCHANGED telescopeVars

-----------------------------------------------------------------------------
(* The steps of CircuitBreaker, with the events they emit *)

RunOpEmits(c) ==
    /\ RunOp(c)
    /\ EmitIf(call[c].admission.status = "half-open" /\ call[c].admission.probe,
              "circuit-half-open")

ShortCircuitEmits(c) ==
    /\ ShortCircuit(c)
    /\ EmitIf(call[c].kind = "admitted", "short-circuited")

ReturnResultEmits(c) ==
    /\ ReturnResult(c)
    /\ EmitIf(call[c].status = "closed" /\ exec[c].probe, "circuit-closed")

\* Mutated: only a failure of the closed circuit is announced.
RethrowErrorEmitsClosed(c) ==
    /\ RethrowError(c)
    /\ EmitIf(call[c].kind = "recorded" /\ call[c].status = "open" /\ ~exec[c].probe,
              "circuit-opened")

RethrowErrorEmits(c) ==
    /\ RethrowError(c)
    /\ EmitIf(call[c].kind = "recorded" /\ call[c].status = "open", "circuit-opened")

\* The diagnostics sink never throws: a subscriber's error does not reach it.
SilentStep(c) ==
    /\ \/ Execute(c) \/ OpResolves(c) \/ OpRejects(c) \/ CatchAfterSuccess(c)
       \/ Reset(c) \/ ResetReturns(c) \/ Crash(c)
    /\ UNCHANGED telescopeVars

TelescopePolicyStep(c) ==
    \/ SilentStep(c)
    \/ RunOpEmits(c) \/ ShortCircuitEmits(c) \/ ReturnResultEmits(c) \/ RethrowErrorEmits(c)

TelescopeStoreStep(c) ==
    /\ StoreStep(c)
    /\ unannounced' = (unannounced \/ (circuit'.status = "open" /\ circuit.status # "open"))
    /\ UNCHANGED watcherVars

TelescopeNext ==
    \/ Register \/ Cleanup
    \/ \E c \in Callers : TelescopePolicyStep(c) \/ TelescopeStoreStep(c)
    \/ (Pass \/ Recover) /\ UNCHANGED telescopeVars

TelescopeSpec == TelescopeInit /\ [][TelescopeNext]_allVars

TelescopeFairSpec == TelescopeSpec /\ Fairness

-----------------------------------------------------------------------------
(* The open-circuits panel *)

\* The number of keys, of one here, whose latest entry is one of these.  The
\* entries of one process are recorded in the order of their times.
openCircuits == IF latest \in {"circuit-opened", "circuit-half-open"} THEN 1 ELSE 0

-----------------------------------------------------------------------------
(* Properties *)

\* Every opening of the circuit is announced, by whichever caller, whatever
\* the others do in between.
OpeningAnnounced == unannounced ~> ~unannounced

\* An opening nobody has announced yet is known to a caller that is about to:
\* the record that opened the circuit returned "open" to the caller that sent
\* it, and no step of the others takes it from there.
OpeningCarried ==
    unannounced =>
        \E c \in Callers : /\ At(c, "recordErr") /\ call[c].kind = "recorded"
                          /\ call[c].status = "open"

\* A registered watcher hears every channel and one that is not hears none,
\* whichever of channel and watcher came first and however often it was
\* cleaned up and registered again.
WatcherHearsAll == subscribed = IF registered THEN channels ELSE {}

-----------------------------------------------------------------------------
(* What the documentation says and the code does not do: see README.md *)

\* "Open circuits: circuits whose latest transition left them circuit-opened
\* or circuit-half-open": once all calls have returned, and so announced what
\* they found, a panel that has recorded the last of it counts the circuit exactly
\* when it is not closed.
PanelShowsCircuit ==
    latest # "missed" /\ (\A c \in Callers : At(c, "idle")) =>
        (openCircuits = 1 <=> circuit.status # "closed")

=============================================================================
