------------------------- MODULE PolicyChainProofs -------------------------
(***************************************************************************)
(* What one execution of a chain of policies leaves behind: no timer and   *)
(* no abort listener of a settled call, no attempt after an abort, no      *)
(* operation that nobody awaits and nobody told, no two operations that    *)
(* are awaited, no success that is followed by another run; and while it   *)
(* runs, a timer over each call a timeout guards, and a record before a    *)
(* breaker settles.  For every set of chains, number of attempts and       *)
(* faults of the store.                                                    *)
(*                                                                         *)
(* IInv is about one call and its timers and listeners: the calls form a   *)
(* tree of started callers, and what is armed is being waited for.  OInv   *)
(* is about a call and those around it: a call that is not settled is      *)
(* awaited, or a timeout that has aborted has given it up.  RInv is about  *)
(* a call and its results: a success is the last call made, and the result *)
(* of its caller too, unless that is a timeout that has given it up or a   *)
(* breaker that could not record it.  TInv bounds the names of calls, and  *)
(* HInv is about a call and the timers around it: one is armed, or its     *)
(* signal has aborted.                                                     *)
(***************************************************************************)
EXTENDS PolicyChain, FiniteSetTheorems, SequenceTheorems, WellFoundedInduction, TLAPS

\* The names of calls.
Paths == {f \in Seq(Nat) : f # << >> /\ f[1] \in DOMAIN Chains}

Shape ==
    /\ frame = [f \in DOMAIN frame |-> frame[f]]
    /\ timers = [f \in DOMAIN timers |-> timers[f]]
    /\ DOMAIN frame \subseteq Paths
    /\ DOMAIN timers \subseteq DOMAIN frame
    /\ listening \subseteq DOMAIN frame

\* Whoever is around a call has called: it is past its start and its admission.
Nested(f) ==
    \A g \in Around(f) : g \in DOMAIN frame /\ frame[g] \notin {"start", "admit"}

\* f has made k calls, numbered from 0.
Counts(f, k) == \A n \in Nat : Append(f, n) \in DOMAIN frame <=> n < k

\* No call makes too many, and a retry delays only before an attempt it has left.
Counted(f) ==
    \E k \in 0 .. MaxAttempts :
        /\ Counts(f, k)
        /\ frame[f] = "delay" => k < Policy(f).attempts

\* Only a timeout under way, or one whose operation threw, and a retry in its
\* delay have a timer or a listener.
Armed(f) ==
    f \in DOMAIN timers \cup listening =>
        \/ Kind(f) = "timeout" /\ frame[f] \in {"wait", "threw"}
        \/ Kind(f) = "retry" /\ frame[f] = "delay"

\* A delay hears its signal, which has not aborted.
Told(f) ==
    frame[f] = "delay" =>
        Kind(f) = "retry" /\ f \in listening /\ ~SignalAborted(f)

\* The inductive invariant.
IInv ==
    /\ Shape
    /\ \A f \in DOMAIN frame : Nested(f) /\ Counted(f) /\ Armed(f) /\ Told(f)

-----------------------------------------------------------------------------

\* A nonempty set of numbers up to N has a largest.
LEMMA MaxExists ==
    ASSUME NEW N \in Nat, NEW L \in SUBSET (0 .. N), L # {}
    PROVE  \E m \in L : \A n \in L : n <= m
<1> DEFINE T == {N - n : n \in L}
           R == {ss \in Nat \X Nat : ss[1] < ss[2]}
<1>1. \A n \in L : n \in Nat /\ N - n \in Nat
  BY SMT
<1>2. T \subseteq Nat /\ T # {}
  BY <1>1
<1>3. OpToRel(<, Nat) = R
  BY Zenon DEF OpToRel
<1>4. IsWellFoundedOn(R, Nat)
  BY <1>3, NatLessThanWellFounded, Zenon
<1>5. PICK x \in T : \A y \in T : ~ (<<y, x>> \in R)
  BY <1>2, <1>4, WFMin
<1>6. PICK m \in L : x = N - m
  BY <1>5
<1>7. ASSUME NEW n \in L PROVE n <= m
  <2>1. ~ (<<N - n, N - m>> \in R)
    BY <1>5, <1>6
  <2>2. N - n \in Nat /\ N - m \in Nat
    BY <1>1
  <2>3. ~ (N - n < N - m)
    BY <2>1, <2>2
  <2>4. n \in Nat /\ m \in Nat
    BY <1>1
  <2>5. QED
    BY <2>3, <2>4, SMT
<1>8. QED
  BY <1>7

\* The calls around f are shorter than f.
LEMMA AroundPaths ==
    ASSUME NEW f \in Seq(Nat), NEW g \in Around(f)
    PROVE  g \in Seq(Nat) /\ Len(g) \in 1 .. Len(f) - 1
<1>1. PICK n \in 1 .. Len(f) - 1 : g = SubSeq(f, 1, n)
  BY DEF Around
<1>2. Len(f) \in Nat
  OBVIOUS
<1>3. QED
  BY <1>1, <1>2

\* Around a call of f are f and the calls around f.
LEMMA AroundAppend ==
    ASSUME NEW f \in Seq(Nat), f # << >>, NEW n \in Nat
    PROVE  Around(Append(f, n)) = Around(f) \cup {f}
<1>1. Len(f) \in Nat \ {0} /\ Len(Append(f, n)) = Len(f) + 1
  OBVIOUS
<1>2. SubSeq(Append(f, n), 1, Len(f)) = f
  <2>1. Append(f, n) \in Seq(Nat)
    OBVIOUS
  <2> QED BY <1>1, <2>1
<1>3. \A m \in 1 .. Len(f) - 1 : SubSeq(Append(f, n), 1, m) = SubSeq(f, 1, m)
  BY <1>1
<1>4. 1 .. Len(f) = (1 .. Len(f) - 1) \cup {Len(f)}
  BY <1>1
<1>5. Around(Append(f, n)) = {SubSeq(Append(f, n), 1, m) : m \in 1 .. Len(f)}
  BY <1>1 DEF Around
<1>6. QED
  BY <1>2, <1>3, <1>4, <1>5, Zenon DEF Around

\* A call of f is not f, and belongs to the same chain.
LEMMA AppendPath ==
    ASSUME NEW f \in Seq(Nat), NEW m \in Nat
    PROVE  /\ Append(f, m) \in Seq(Nat)
           /\ Append(f, m) # f
           /\ Append(f, m) # << >>
           /\ f # << >> => Append(f, m)[1] = f[1]
<1>1. Append(f, m) \in Seq(Nat) /\ Len(Append(f, m)) = Len(f) + 1 /\ Len(f) \in Nat
  OBVIOUS
<1>2. Append(f, m) # f /\ Append(f, m) # << >>
  BY <1>1
<1>3. f # << >> => Append(f, m)[1] = f[1]
  BY <1>1
<1>4. QED
  BY <1>1, <1>2, <1>3

\* The signal of f is the longest of the candidates: CHOOSE finds one.
LEMMA SignalOwner ==
    ASSUME NEW f \in Seq(Nat)
    PROVE  /\ Signal(f) \in TimeoutsAround(f) \cup {Caller}
           /\ \A g \in TimeoutsAround(f) \cup {Caller} : Len(g) <= Len(Signal(f))
<1> DEFINE owners == TimeoutsAround(f) \cup {Caller}
           L == {Len(g) : g \in owners}
<1>1. Len(f) \in Nat /\ Len(Caller) = 0
  BY DEF Caller
<1>2. \A g \in owners : Len(g) \in 0 .. Len(f)
  BY <1>1, AroundPaths DEF TimeoutsAround
<1>3. L \in SUBSET (0 .. Len(f)) /\ L # {}
  BY <1>2
<1>4. PICK m \in L : \A n \in L : n <= m
  BY <1>1, <1>3, MaxExists
<1>5. PICK g \in owners : Len(g) = m
  BY <1>4
<1>6. \A h \in owners : Len(h) <= Len(g)
  BY <1>4, <1>5
<1>7. QED
  BY <1>6, Zenon DEF Signal

\* The number of attempts is that of the calls made.
LEMMA CountAttempts ==
    ASSUME NEW f, NEW k \in 0 .. MaxAttempts, Counts(f, k)
    PROVE  Attempts(f) = k
<1>1. MaxAttempts \in Nat \ {0}
  BY ChainsAssumption
<1>2. {n \in Numbers : Append(f, n) \in DOMAIN frame} = 0 .. (k - 1)
  BY <1>1 DEF Counts, Numbers
<1>3. Cardinality(0 .. (k - 1)) = k
  BY <1>1, FS_Interval
<1>4. QED
  BY <1>2, <1>3 DEF Attempts

-----------------------------------------------------------------------------
(* What becomes of the calls *)

\* A call f that is not just starting, with k calls of its own, makes another.
LEMMA NewCall ==
    ASSUME IInv, NEW f \in DOMAIN frame, NEW k \in 0 .. MaxAttempts - 1,
           Counts(f, k), GotoInner(f, "wait")
    PROVE  LET inner == Append(f, k)
           IN  /\ inner \notin DOMAIN frame /\ inner # f /\ inner \in Paths
               /\ DOMAIN frame' = DOMAIN frame \cup {inner}
               /\ frame' = [g \in DOMAIN frame' |-> frame'[g]]
               /\ frame'[inner] = "start" /\ frame'[f] = "wait"
               /\ \A g \in DOMAIN frame \ {f} : frame'[g] = frame[g]
<1> DEFINE inner == Append(f, k)
<1>0. MaxAttempts \in Nat \ {0} /\ k \in Nat /\ k \in 0 .. MaxAttempts
  BY ChainsAssumption
<1>1. f \in Paths
  BY DEF IInv, Shape
<1>2. inner \notin DOMAIN frame
  BY <1>0 DEF Counts
<1>3. inner # f /\ inner \in Paths
  <2>1. f \in Seq(Nat) /\ f # << >> /\ f[1] \in DOMAIN Chains
    BY <1>1 DEF Paths
  <2>2. inner \in Seq(Nat) /\ inner # << >> /\ inner # f /\ inner[1] = f[1]
    BY <1>0, <2>1, AppendPath
  <2>3. QED
    BY <2>1, <2>2 DEF Paths
<1>4. Attempts(f) = k
  BY <1>0, CountAttempts
<1>5. frame' = [g \in DOMAIN frame \cup {inner} |->
                   IF g = inner THEN "start" ELSE IF g = f THEN "wait" ELSE frame[g]]
  BY <1>4, Zenon DEF GotoInner
<1> HIDE DEF inner
<1>6. QED
  <2>1. DOMAIN frame' = DOMAIN frame \cup {inner}
    BY <1>5
  <2>2. frame'[inner] = "start"
    BY <1>5
  <2>3. frame'[f] = "wait"
    BY <1>5, <1>3
  <2>4. \A g \in DOMAIN frame \ {f} : frame'[g] = frame[g]
    BY <1>5, <1>2
  <2>5. frame' = [g \in DOMAIN frame' |-> frame'[g]]
    BY <1>5
  <2>6. QED
    BY <1>2, <1>3, <2>1, <2>2, <2>3, <2>4, <2>5 DEF inner

\* The calls keep their shape when one of them makes another.
LEMMA NewCallKeeps ==
    ASSUME IInv, NEW f \in DOMAIN frame, NEW k \in 0 .. MaxAttempts - 1,
           Counts(f, k), GotoInner(f, "wait")
    PROVE  \A g \in DOMAIN frame' : Nested(g)' /\ Counted(g)'
<1> DEFINE inner == Append(f, k)
<1>0. MaxAttempts \in Nat \ {0} /\ k \in Nat /\ k \in 0 .. MaxAttempts
  BY ChainsAssumption
<1>1. /\ inner \notin DOMAIN frame /\ inner # f /\ inner \in Paths
      /\ DOMAIN frame' = DOMAIN frame \cup {inner}
      /\ frame'[inner] = "start" /\ frame'[f] = "wait"
      /\ \A g \in DOMAIN frame \ {f} : frame'[g] = frame[g]
  BY NewCall
<1>2. \A g \in DOMAIN frame' : g \in Seq(Nat) /\ g # << >>
  BY <1>1 DEF IInv, Shape, Paths
<1>3. ASSUME NEW g \in DOMAIN frame' PROVE Nested(g)'
  <2>1. \A h \in Around(f) : h \in DOMAIN frame /\ frame[h] \notin {"start", "admit"}
    BY DEF IInv, Nested
  <2>2. ASSUME NEW h \in Around(g)
        PROVE  h \in DOMAIN frame /\ (h = f \/ frame[h] \notin {"start", "admit"})
    <3>1. CASE g = inner
      <4>1. Around(g) = Around(f) \cup {f}
        BY <1>0, <1>2, <1>1, <3>1, AroundAppend
      <4>2. QED
        BY <4>1, <2>1
    <3>2. CASE g # inner
      BY <3>2, <1>1 DEF IInv, Nested
    <3>3. QED
      BY <3>1, <3>2
  <2>3. \A h \in Around(g) : h \in DOMAIN frame' /\ frame'[h] \notin {"start", "admit"}
    BY <2>2, <1>1
  <2>4. QED
    BY <2>3 DEF Nested
<1>4. ASSUME NEW g \in DOMAIN frame' PROVE Counted(g)'
  <2>1. CASE g = f
    <3>1. \A n \in Nat : Append(f, n) \in DOMAIN frame' <=> n < k + 1
      <4>1. ASSUME NEW n \in Nat
            PROVE  Append(f, n) = inner <=> n = k
        BY <1>0, <1>1, <1>2, AppendInjective
      <4>2. \A n \in Nat : Append(f, n) \in DOMAIN frame <=> n < k
        BY DEF Counts
      <4>3. \A n \in Nat : n < k + 1 <=> (n < k \/ n = k)
        BY <1>0
      <4>4. QED
        BY <1>1, <4>1, <4>2, <4>3
    <3>2. k + 1 \in 0 .. MaxAttempts
      BY <1>0
    <3>3. QED
      BY <1>1, <2>1, <3>1, <3>2 DEF Counted, Counts
  <2>2. CASE g = inner
    <3>1. \A n \in Nat : Append(inner, n) \notin DOMAIN frame'
      <4>1. SUFFICES ASSUME NEW n \in Nat, Append(inner, n) \in DOMAIN frame'
                     PROVE  FALSE
        OBVIOUS
      <4>2. inner \in Seq(Nat) /\ inner # << >>
        BY <1>1, <1>2
      <4>3. Append(inner, n) # inner
        BY <4>2, AppendPath
      <4>4. inner \in Around(Append(inner, n))
        BY <4>2, AroundAppend
      <4>5. Append(inner, n) \in DOMAIN frame
        BY <4>1, <4>3, <1>1
      <4>6. QED
        BY <4>4, <4>5, <1>1 DEF IInv, Nested
    <3>2. 0 \in 0 .. MaxAttempts /\ \A n \in Nat : ~ (n < 0)
      BY <1>0
    <3>3. QED
      BY <1>1, <2>2, <3>1, <3>2 DEF Counted, Counts
  <2>3. CASE g \in DOMAIN frame \ {f}
    <3>1. PICK j \in 0 .. MaxAttempts :
                  Counts(g, j) /\ (frame[g] = "delay" => j < Policy(g).attempts)
      BY <2>3 DEF IInv, Counted
    <3>2. \A n \in Nat : Append(g, n) # inner
      BY <1>0, <1>1, <1>2, <2>3, AppendInjective
    <3>3. QED
      BY <1>1, <2>3, <3>1, <3>2 DEF Counted, Counts
  <2>4. QED
    BY <1>1, <2>1, <2>2, <2>3
<1>5. QED
  BY <1>3, <1>4

\* A call that moves on keeps it, unless it goes back to where none can be.
LEMMA MoveKeeps ==
    ASSUME IInv, DOMAIN frame' = DOMAIN frame,
           \A g \in DOMAIN frame :
              \/ frame'[g] = frame[g]
              \/ frame'[g] \notin {"start", "admit", "delay"}
              \/ frame[g] = "start" /\ frame'[g] # "delay"
    PROVE  \A g \in DOMAIN frame' : Nested(g)' /\ Counted(g)'
<1>1. ASSUME NEW g \in DOMAIN frame PROVE Nested(g)'
  BY DEF IInv, Nested
<1>2. ASSUME NEW g \in DOMAIN frame PROVE Counted(g)'
  <2>1. PICK j \in 0 .. MaxAttempts :
                Counts(g, j) /\ (frame[g] = "delay" => j < Policy(g).attempts)
    BY DEF IInv, Counted
  <2>2. frame'[g] = "delay" => frame[g] = "delay"
    OBVIOUS
  <2>3. QED
    BY <2>1, <2>2 DEF Counted, Counts
<1>3. QED
  BY <1>1, <1>2

-----------------------------------------------------------------------------
(* Steps *)

\* No policy makes more calls than MaxAttempts, or waits for less than nothing.
LEMMA PolicyBounds ==
    ASSUME NEW f \in Paths
    PROVE  /\ Kind(f) = "timeout" => Policy(f).ms \in Nat
           /\ Kind(f) = "retry" =>
                 /\ Policy(f).attempts \in Int /\ Policy(f).attempts <= MaxAttempts
                 /\ Policy(f).backoff \in Nat
           /\ Kind(f) = "failover" => Policy(f).targets \in 0 .. MaxAttempts
<1>1. f \in Seq(Nat) /\ f # << >> /\ f[1] \in DOMAIN Chains
  BY DEF Paths
<1>2. Len(f) \in Nat \ {0}
  BY <1>1
<1>3. Len(Chains[f[1]]) \in Nat
  BY <1>1, ChainsAssumption
<1>4. CASE Len(f) > Len(Chains[f[1]])
  BY <1>4 DEF Kind
<1>5. CASE ~ (Len(f) > Len(Chains[f[1]]))
  <2>1. Len(f) \in 1 .. Len(Chains[f[1]])
    BY <1>2, <1>3, <1>5
  <2>2. Kind(f) = Policy(f).kind
    BY <1>5 DEF Kind
  <2>3. QED
    BY <1>1, <2>1, <2>2, ChainsAssumption DEF Policy
<1>6. QED
  BY <1>4, <1>5

\* A call that starts or waits for its admission has called nobody.
LEMMA NoCallsYet ==
    ASSUME IInv, NEW f \in DOMAIN frame, frame[f] \in {"start", "admit"}
    PROVE  0 \in 0 .. MaxAttempts - 1 /\ Counts(f, 0) /\ Attempts(f) = 0
<1>1. MaxAttempts \in Nat \ {0} /\ f \in Seq(Nat) /\ f # << >>
  BY ChainsAssumption DEF IInv, Shape, Paths
<1>2. \A n \in Nat : Append(f, n) \notin DOMAIN frame
  <2>1. SUFFICES ASSUME NEW n \in Nat, Append(f, n) \in DOMAIN frame PROVE FALSE
    OBVIOUS
  <2>2. f \in Around(Append(f, n))
    BY <1>1, AroundAppend
  <2>3. QED
    BY <2>1, <2>2 DEF IInv, Nested
<1>3. Counts(f, 0)
  BY <1>2 DEF Counts
<1>4. QED
  BY <1>1, <1>3, CountAttempts

\* The calls made are those numbered below Attempts.
LEMMA CallsSoFar ==
    ASSUME IInv, NEW f \in DOMAIN frame
    PROVE  /\ Attempts(f) \in 0 .. MaxAttempts /\ Counts(f, Attempts(f))
           /\ frame[f] = "delay" => Attempts(f) < Policy(f).attempts
<1>1. PICK k \in 0 .. MaxAttempts :
              Counts(f, k) /\ (frame[f] = "delay" => k < Policy(f).attempts)
  BY DEF IInv, Counted
<1>2. Attempts(f) = k
  BY <1>1, CountAttempts
<1>3. QED
  BY <1>1, <1>2

\* The signal of a call is never one of a timeout that is still to start.
LEMMA SignalStarted ==
    ASSUME IInv, NEW f \in DOMAIN frame, NEW t \in DOMAIN frame, frame[t] = "start"
    PROVE  Signal(f) # t
<1>1. f \in Seq(Nat) /\ t # << >>
  BY DEF IInv, Shape, Paths
<1>2. Signal(f) \in Around(f) \cup {<< >>}
  BY <1>1, SignalOwner DEF TimeoutsAround, Caller
<1>3. t \notin Around(f)
  BY DEF IInv, Nested
<1>4. QED
  BY <1>1, <1>2, <1>3

\* A step of f leaves the timers, listeners and signals of the others alone.
LEMMA ArmsKeep ==
    ASSUME IInv, NEW f \in DOMAIN frame,
           DOMAIN frame \subseteq DOMAIN frame',
           \A g \in DOMAIN frame' \ DOMAIN frame : frame'[g] = "start",
           \A g \in DOMAIN frame \ {f} : frame'[g] = frame[g],
           DOMAIN timers' \subseteq DOMAIN timers \cup {f},
           listening' \subseteq listening \cup {f},
           listening \subseteq listening' \cup {f},
           \/ aborted' = aborted
           \/ aborted' = aborted \cup {f} /\ frame[f] = "start",
           Armed(f)', Told(f)'
    PROVE  \A g \in DOMAIN frame' : Armed(g)' /\ Told(g)'
<1>1. DOMAIN timers \subseteq DOMAIN frame /\ listening \subseteq DOMAIN frame
  BY DEF IInv, Shape
<1>2. ASSUME NEW g \in DOMAIN frame' PROVE Armed(g)'
  <2>1. CASE g = f
    BY <2>1
  <2>2. CASE g \in DOMAIN frame \ {f}
    <3>1. g \in DOMAIN timers' \cup listening' => g \in DOMAIN timers \cup listening
      BY <2>2
    <3>2. frame'[g] = frame[g] /\ Armed(g)
      BY <2>2 DEF IInv
    <3>3. QED
      BY <3>1, <3>2 DEF Armed
  <2>3. CASE g \notin DOMAIN frame
    <3>1. g \notin DOMAIN timers' \cup listening'
      BY <2>3, <1>1
    <3>2. QED
      BY <3>1 DEF Armed
  <2>4. QED
    BY <2>1, <2>2, <2>3
<1>3. ASSUME NEW g \in DOMAIN frame' PROVE Told(g)'
  <2>1. CASE g = f
    BY <2>1
  <2>2. CASE g \in DOMAIN frame \ {f}
    <3>1. frame'[g] = frame[g] /\ Told(g)
      BY <2>2 DEF IInv
    <3>2. g \in listening => g \in listening'
      BY <2>2
    <3>3. Signal(g) \notin aborted => Signal(g) \notin aborted'
      <4>1. CASE aborted' = aborted
        BY <4>1
      <4>2. CASE aborted' = aborted \cup {f} /\ frame[f] = "start"
        <5>1. Signal(g) # f
          BY <2>2, <4>2, SignalStarted
        <5>2. QED
          BY <4>2, <5>1
      <4>3. QED
        BY <4>1, <4>2
    <3>4. QED
      BY <3>1, <3>2, <3>3 DEF Told, SignalAborted
  <2>3. CASE g \notin DOMAIN frame
    BY <2>3 DEF Told
  <2>4. QED
    BY <2>1, <2>2, <2>3
<1>4. QED
  BY <1>2, <1>3

\* Where a call may go without a call of its own.
Moves(f, pc) ==
    /\ Goto(f, pc)
    /\ pc # "delay"
    /\ pc \notin {"start", "admit"} \/ (frame[f] = "start" /\ pc = "admit")

\* f moves on, or makes its next call.
Goes(f) ==
    \/ \E pc : Moves(f, pc)
    \/ \E k \in 0 .. MaxAttempts - 1 : Counts(f, k) /\ GotoInner(f, "wait")

\* What either does to the calls.
LEMMA GoesKeeps ==
    ASSUME IInv, NEW f \in DOMAIN frame, Goes(f)
    PROVE  /\ DOMAIN frame \subseteq DOMAIN frame'
           /\ DOMAIN frame' \subseteq Paths
           /\ frame' = [g \in DOMAIN frame' |-> frame'[g]]
           /\ \A g \in DOMAIN frame' \ DOMAIN frame : frame'[g] = "start"
           /\ \A g \in DOMAIN frame \ {f} : frame'[g] = frame[g]
           /\ frame'[f] # "delay"
           /\ \A g \in DOMAIN frame' : Nested(g)' /\ Counted(g)'
<1>1. ASSUME NEW pc, Moves(f, pc)
      PROVE  /\ DOMAIN frame' = DOMAIN frame
             /\ frame' = [g \in DOMAIN frame' |-> frame'[g]]
             /\ \A g \in DOMAIN frame \ {f} : frame'[g] = frame[g]
             /\ frame'[f] = pc
  BY <1>1 DEF Moves, Goto
<1>2. CASE \E pc : Moves(f, pc)
  <2>1. PICK pc : Moves(f, pc)
    BY <1>2
  <2>2. \A g \in DOMAIN frame' : Nested(g)' /\ Counted(g)'
    BY <1>1, <2>1, MoveKeeps DEF Moves
  <2>3. QED
    BY <1>1, <2>1, <2>2 DEF Moves, IInv, Shape
<1>3. CASE \E k \in 0 .. MaxAttempts - 1 : Counts(f, k) /\ GotoInner(f, "wait")
  <2>1. PICK k \in 0 .. MaxAttempts - 1 : Counts(f, k) /\ GotoInner(f, "wait")
    BY <1>3
  <2>2. \A g \in DOMAIN frame' : Nested(g)' /\ Counted(g)'
    BY <2>1, NewCallKeeps
  <2>3. LET inner == Append(f, k)
        IN  /\ inner \notin DOMAIN frame /\ inner # f /\ inner \in Paths
            /\ DOMAIN frame' = DOMAIN frame \cup {inner}
            /\ frame' = [g \in DOMAIN frame' |-> frame'[g]]
            /\ frame'[inner] = "start" /\ frame'[f] = "wait"
            /\ \A g \in DOMAIN frame \ {f} : frame'[g] = frame[g]
    BY <2>1, NewCall
  <2>4. QED
    BY <2>2, <2>3 DEF IInv, Shape
<1>4. QED
  BY <1>2, <1>3 DEF Goes

\* A call without timer and listener goes on; nothing else happens.
LEMMA PlainStep ==
    ASSUME IInv, NEW f \in DOMAIN frame, Goes(f),
           Kind(f) # "timeout", frame[f] # "delay",
           UNCHANGED <<timers, listening, aborted>>
    PROVE  IInv'
<1>1. f \notin DOMAIN timers \cup listening
  BY DEF IInv, Armed
<1>2. Armed(f)' /\ Told(f)'
  BY <1>1, GoesKeeps DEF Armed, Told
<1>3. \A g \in DOMAIN frame' : Nested(g)' /\ Counted(g)'
  BY GoesKeeps
<1>4. \A g \in DOMAIN frame' : Armed(g)' /\ Told(g)'
  BY <1>2, GoesKeeps, ArmsKeep
<1>5. Shape'
  BY GoesKeeps DEF IInv, Shape
<1>6. QED
  BY <1>3, <1>4, <1>5 DEF IInv

\* Starting a call, unless its operation throws.
LEMMA CallSteps ==
    ASSUME IInv, NEW f \in DOMAIN frame, Call(f), ~OpThrows(f)
    PROVE  IInv'
<1>1. f \in Paths /\ MaxAttempts \in Nat \ {0}
  BY ChainsAssumption DEF IInv, Shape
<1>2. ASSUME frame[f] = "start", GotoInner(f, "wait") PROVE Goes(f)
  BY <1>2, NoCallsYet DEF Goes
<1>3. ASSUME NEW pc \in {"resolved", "rejected", "admit", "wait"}, frame[f] = "start",
             Goto(f, pc)
      PROVE  Goes(f)
  BY <1>3 DEF Goes, Moves
<1>4. CASE StartTimeout(f)
  <2>1. /\ Kind(f) = "timeout" /\ frame[f] = "start" /\ GotoInner(f, "wait")
        /\ Arm(f, Policy(f).ms)
        /\ \/ aborted' = aborted \cup {f} /\ listening' = listening
           \/ aborted' = aborted /\ listening' = listening \cup {f}
    BY <1>4 DEF StartTimeout, At
  <2>2. Goes(f)
    BY <1>2, <2>1
  <2>3. DOMAIN timers' = DOMAIN timers \cup {f} /\ timers' = [g \in DOMAIN timers' |-> timers'[g]]
    BY <2>1 DEF Arm
  <2>4. frame'[f] = "wait"
    BY <2>1, NoCallsYet, NewCall
  <2>5. Armed(f)' /\ Told(f)'
    BY <2>1, <2>4 DEF Armed, Told
  <2>6. \A g \in DOMAIN frame' : Armed(g)' /\ Told(g)'
    <3>1. /\ DOMAIN frame \subseteq DOMAIN frame'
          /\ \A g \in DOMAIN frame' \ DOMAIN frame : frame'[g] = "start"
          /\ \A g \in DOMAIN frame \ {f} : frame'[g] = frame[g]
      BY <2>2, GoesKeeps
    <3>2. /\ listening' \subseteq listening \cup {f}
          /\ listening \subseteq listening' \cup {f}
          /\ \/ aborted' = aborted
             \/ aborted' = aborted \cup {f} /\ frame[f] = "start"
      BY <2>1
    <3>3. QED
      BY <3>1, <3>2, <2>3, <2>5, ArmsKeep
  <2>7. Shape'
    BY <2>1, <2>2, <2>3, GoesKeeps DEF IInv, Shape
  <2>8. QED
    BY <2>2, <2>6, <2>7, GoesKeeps DEF IInv
<1>5. CASE StartRetry(f) \/ StartFailover(f) \/ StartBreaker(f) \/ StartOp(f)
  <2>1. /\ Kind(f) # "timeout" /\ frame[f] = "start"
        /\ UNCHANGED <<timers, listening, aborted>>
    BY <1>5 DEF StartRetry, StartFailover, StartBreaker, StartOp, At
  <2>2. GotoInner(f, "wait") \/ \E pc \in {"resolved", "rejected", "admit", "wait"} : Goto(f, pc)
    BY <1>5 DEF StartRetry, StartFailover, StartBreaker, StartOp, Outcomes
  <2>3. Goes(f)
    BY <1>2, <1>3, <2>1, <2>2
  <2>4. QED
    BY <2>1, <2>3, PlainStep
<1>6. QED
  BY <1>4, <1>5 DEF Call

\* An operation that throws: no calls, timers, listeners or signals change, and
\* of the calls around it only timeouts move.
LEMMA OpThrowsStep ==
    ASSUME IInv, NEW f \in DOMAIN frame, OpThrows(f)
    PROVE  IInv'
<1>1. /\ Kind(f) = "op" /\ frame[f] = "start"
      /\ UNCHANGED <<timers, listening, aborted>>
      /\ frame' = [g \in DOMAIN frame |->
                      IF g = f \/ g \in PassedBy(f) THEN "threw" ELSE frame[g]]
  BY DEF OpThrows, At
<1>2. ASSUME NEW g \in PassedBy(f) PROVE Kind(g) = "timeout"
  <2>1. g \in Around(f) /\ Len(g) \in Nat
    BY AroundPaths DEF PassedBy, IInv, Shape, Paths
  <2>2. QED
    BY <2>1 DEF PassedBy
<1>3. \A g \in DOMAIN frame : frame'[g] = frame[g] \/ frame'[g] = "threw"
  BY <1>1
<1>4. DOMAIN frame' = DOMAIN frame
  BY <1>1
<1>5. \A g \in DOMAIN frame' : Nested(g)' /\ Counted(g)'
  BY <1>3, <1>4, MoveKeeps
<1>6. ASSUME NEW g \in DOMAIN frame PROVE Armed(g)' /\ Told(g)'
  <2>0. Armed(g) /\ Told(g)
    BY DEF IInv
  <2>1. CASE frame'[g] = frame[g]
    BY <1>1, <2>0, <2>1 DEF Armed, Told, SignalAborted
  <2>2. CASE g = f
    BY <1>1, <2>0, <2>2 DEF Armed, Told
  <2>3. CASE g \in PassedBy(f)
    BY <1>1, <1>2, <2>0, <2>3 DEF Armed, Told
  <2>4. QED
    BY <1>1, <2>1, <2>2, <2>3
<1>7. Shape'
  BY <1>1, <1>4 DEF IInv, Shape
<1>8. QED
  BY <1>4, <1>5, <1>6, <1>7 DEF IInv

\* The continuations of promises.
LEMMA Continuations ==
    ASSUME IInv, NEW f \in DOMAIN frame, Continue(f)
    PROVE  IInv'
<1>1. f \in Paths /\ MaxAttempts \in Nat \ {0}
  BY ChainsAssumption DEF IInv, Shape
<1>2. ASSUME NEW pc \in Settled \cup {"recordOk", "recordErr"}, Goto(f, pc) PROVE Goes(f)
  BY <1>2 DEF Goes, Moves, Settled, Outcomes
<1>3. CASE FinishTimeout(f)
  <2>1. /\ Kind(f) = "timeout" /\ Goto(f, RaceResult(f)) /\ Disarm({f})
        /\ listening' = listening \ {f} /\ aborted' = aborted /\ Raced(f)
    BY <1>3 DEF FinishTimeout, At
  <2>2. RaceResult(f) \in Settled
    BY <2>1 DEF RaceResult, Raced, InnerSettled, InnerFailed, InnerIs, Settled, Outcomes
  <2>3. Goes(f)
    BY <1>2, <2>1, <2>2
  <2>4. DOMAIN timers' = DOMAIN timers \ {f} /\ timers' = [g \in DOMAIN timers' |-> timers'[g]]
    BY <2>1 DEF Disarm
  <2>5. Armed(f)' /\ Told(f)'
    BY <2>1, <2>3, <2>4, GoesKeeps DEF Armed, Told
  <2>6. \A g \in DOMAIN frame' : Armed(g)' /\ Told(g)'
    <3>1. /\ DOMAIN frame \subseteq DOMAIN frame'
          /\ \A g \in DOMAIN frame' \ DOMAIN frame : frame'[g] = "start"
          /\ \A g \in DOMAIN frame \ {f} : frame'[g] = frame[g]
      BY <2>3, GoesKeeps
    <3>2. /\ DOMAIN timers' \subseteq DOMAIN timers \cup {f}
          /\ listening' \subseteq listening \cup {f}
          /\ listening \subseteq listening' \cup {f}
      BY <2>1, <2>4
    <3>3. QED
      BY <2>1, <2>5, <3>1, <3>2, ArmsKeep
  <2>7. Shape'
    BY <2>1, <2>3, <2>4, GoesKeeps DEF IInv, Shape
  <2>8. QED
    BY <2>3, <2>6, <2>7, GoesKeeps DEF IInv
<1>4. CASE RetryDelays(f)
  <2>1. /\ Kind(f) = "retry" /\ frame[f] = "wait" /\ Goto(f, "delay")
        /\ Attempts(f) < Policy(f).attempts /\ ~SignalAborted(f)
        /\ Arm(f, Policy(f).backoff)
        /\ listening' = listening \cup {f} /\ aborted' = aborted
    BY <1>4 DEF RetryDelays, At
  <2>2. /\ DOMAIN timers' = DOMAIN timers \cup {f}
        /\ timers' = [g \in DOMAIN timers' |-> timers'[g]]
    BY <2>1 DEF Arm
  <2>3. /\ DOMAIN frame' = DOMAIN frame /\ frame' = [g \in DOMAIN frame' |-> frame'[g]]
        /\ frame'[f] = "delay" /\ \A g \in DOMAIN frame \ {f} : frame'[g] = frame[g]
    BY <2>1 DEF Goto
  <2>4. Armed(f)' /\ Told(f)'
    BY <2>1, <2>3 DEF Armed, Told, SignalAborted
  <2>5. \A g \in DOMAIN frame' : Armed(g)' /\ Told(g)'
    <3>1. /\ listening' \subseteq listening \cup {f}
          /\ listening \subseteq listening' \cup {f}
          /\ DOMAIN frame \subseteq DOMAIN frame'
          /\ \A g \in DOMAIN frame' \ DOMAIN frame : frame'[g] = "start"
      BY <2>1, <2>3
    <3>2. QED
      BY <2>1, <2>2, <2>3, <2>4, <3>1, ArmsKeep
  <2>6. ASSUME NEW g \in DOMAIN frame PROVE Nested(g)' /\ Counted(g)'
    <3>1. Nested(g)'
      BY <2>3 DEF IInv, Nested
    <3>2. PICK k \in 0 .. MaxAttempts :
                  Counts(g, k) /\ (frame[g] = "delay" => k < Policy(g).attempts)
      BY DEF IInv, Counted
    <3>3. g = f => k < Policy(g).attempts
      BY <2>1, <3>2, CountAttempts
    <3>4. Counted(g)'
      BY <2>3, <3>2, <3>3 DEF Counted, Counts
    <3>5. QED
      BY <3>1, <3>4
  <2>7. Shape'
    BY <2>1, <2>2, <2>3 DEF IInv, Shape
  <2>8. QED
    BY <2>3, <2>5, <2>6, <2>7 DEF IInv
<1>5. CASE \/ RetryResolves(f) \/ RetryRejects(f) \/ BreakerRecords(f)
           \/ FailoverResolves(f) \/ FailoverGoesOn(f)
  <2>1. /\ Kind(f) # "timeout" /\ frame[f] = "wait"
        /\ UNCHANGED <<timers, listening, aborted>>
    BY <1>5 DEF RetryResolves, RetryRejects, BreakerRecords, FailoverResolves,
                FailoverGoesOn, At
  <2>2. \/ \E pc \in Settled \cup {"recordOk", "recordErr"} : Goto(f, pc)
        \/ /\ Kind(f) = "failover" /\ Attempts(f) < Policy(f).targets
           /\ GotoInner(f, "wait")
    BY <1>5 DEF RetryResolves, RetryRejects, BreakerRecords, FailoverResolves,
                FailoverGoesOn, At, Settled, Outcomes
  <2>3. CASE \E pc \in Settled \cup {"recordOk", "recordErr"} : Goto(f, pc)
    BY <1>2, <2>1, <2>3, PlainStep
  <2>4. CASE /\ Kind(f) = "failover" /\ Attempts(f) < Policy(f).targets
             /\ GotoInner(f, "wait")
    <3>1. Policy(f).targets \in 0 .. MaxAttempts
      BY <1>1, <2>4, PolicyBounds
    <3>2. Attempts(f) \in 0 .. MaxAttempts - 1 /\ Counts(f, Attempts(f))
      BY <1>1, <2>4, <3>1, CallsSoFar
    <3>3. Goes(f)
      BY <2>4, <3>2 DEF Goes
    <3>4. QED
      BY <2>1, <3>3, PlainStep
  <2>5. QED
    BY <2>2, <2>3, <2>4
<1>6. QED
  BY <1>3, <1>4, <1>5 DEF Continue

\* Answers of the store, and operations that settle.
LEMMA Answers ==
    ASSUME IInv, NEW f \in DOMAIN frame, StoreAnswers(f) \/ OpSettles(f)
    PROVE  IInv'
<1>1. /\ Kind(f) # "timeout" /\ frame[f] \in {"admit", "recordOk", "recordErr", "wait"}
      /\ UNCHANGED <<timers, listening, aborted>>
  BY DEF StoreAnswers, StoreAdmits, StoreRecords, OpSettles, At
<1>2. \/ \E pc \in Settled \cup {"recordErr"} : Goto(f, pc)
      \/ frame[f] = "admit" /\ GotoInner(f, "wait")
  BY DEF StoreAnswers, StoreAdmits, StoreRecords, OpSettles, At, Settled, Outcomes
<1>3. CASE \E pc \in Settled \cup {"recordErr"} : Goto(f, pc)
  <2>1. Goes(f)
    BY <1>3 DEF Goes, Moves, Settled, Outcomes
  <2>2. QED
    BY <1>1, <2>1, PlainStep
<1>4. CASE frame[f] = "admit" /\ GotoInner(f, "wait")
  <2>1. Goes(f)
    BY <1>4, NoCallsYet DEF Goes
  <2>2. QED
    BY <1>1, <2>1, PlainStep
<1>5. QED
  BY <1>2, <1>3, <1>4

\* A delay ends and the next attempt starts; timer and listener are gone.
LEMMA DelayElapsesStep ==
    ASSUME IInv, NEW f \in DOMAIN frame, DelayElapses(f)
    PROVE  IInv'
<1>1. /\ Kind(f) = "retry" /\ frame[f] = "delay" /\ GotoInner(f, "wait")
      /\ Disarm({f}) /\ listening' = listening \ {f} /\ aborted' = aborted
  BY DEF DelayElapses, At
<1>2. Goes(f)
  <2>1. /\ MaxAttempts \in Nat \ {0}
        /\ Policy(f).attempts \in Int /\ Policy(f).attempts <= MaxAttempts
    BY <1>1, ChainsAssumption, PolicyBounds DEF IInv, Shape
  <2>2. Attempts(f) \in 0 .. MaxAttempts - 1 /\ Counts(f, Attempts(f))
    BY <1>1, <2>1, CallsSoFar
  <2>3. QED
    BY <1>1, <2>2 DEF Goes
<1>3. DOMAIN timers' = DOMAIN timers \ {f} /\ timers' = [g \in DOMAIN timers' |-> timers'[g]]
  BY <1>1 DEF Disarm
<1>4. Armed(f)' /\ Told(f)'
  BY <1>1, <1>2, <1>3, GoesKeeps DEF Armed, Told
<1>5. \A g \in DOMAIN frame' : Armed(g)' /\ Told(g)'
  <2>1. /\ DOMAIN frame \subseteq DOMAIN frame'
        /\ \A g \in DOMAIN frame' \ DOMAIN frame : frame'[g] = "start"
        /\ \A g \in DOMAIN frame \ {f} : frame'[g] = frame[g]
    BY <1>2, GoesKeeps
  <2>2. /\ DOMAIN timers' \subseteq DOMAIN timers \cup {f}
        /\ listening' \subseteq listening \cup {f}
        /\ listening \subseteq listening' \cup {f}
    BY <1>1, <1>3
  <2>3. QED
    BY <1>1, <1>4, <2>1, <2>2, ArmsKeep
<1>6. Shape'
  BY <1>1, <1>2, <1>3, GoesKeeps DEF IInv, Shape
<1>7. QED
  BY <1>2, <1>5, <1>6, GoesKeeps DEF IInv

\* A delay whose signal aborts has a listener for it: it is rejected.
LEMMA AbortStep ==
    ASSUME IInv, NEW s, s = Caller \/ Kind(s) = "timeout", Abort(s)
    PROVE  IInv'
<1> DEFINE T == {s} \cup AbortedBy(s)
           R == RejectedBy(T)
<1>1. /\ aborted' = aborted \cup T
      /\ frame' = [f \in DOMAIN frame |-> IF f \in R THEN "rejected" ELSE frame[f]]
      /\ listening' = listening \ ((T \ {s}) \cup R)
      /\ timers' = [f \in DOMAIN timers \ ({s} \cup R) |-> timers[f]]
  BY DEF Abort, Disarm
<1>2. \A f \in T \ {s} : Kind(f) = "timeout"
  BY DEF AbortedBy, Calls
<1>3. \A f : f \in R <=> f \in listening /\ frame[f] = "delay" /\ Signal(f) \in T
  BY DEF RejectedBy
<1> HIDE DEF T, R
<1>4. DOMAIN frame' = DOMAIN frame /\ DOMAIN timers' = DOMAIN timers \ ({s} \cup R)
  BY <1>1
<1>5. \A f \in DOMAIN frame : frame'[f] = IF f \in R THEN "rejected" ELSE frame[f]
  BY <1>1
<1>6. \A f \in DOMAIN frame' : Nested(f)' /\ Counted(f)'
  BY <1>4, <1>5, MoveKeeps
<1>7. ASSUME NEW f \in DOMAIN frame PROVE Armed(f)'
  <2>1. CASE f \in R
    <3>1. f \notin DOMAIN timers' \cup listening'
      BY <1>1, <1>4, <2>1
    <3>2. QED
      BY <3>1 DEF Armed
  <2>2. CASE f \notin R
    <3>1. frame'[f] = frame[f] /\ Armed(f)
      BY <1>5, <2>2 DEF IInv
    <3>2. QED
      BY <1>1, <1>4, <3>1 DEF Armed
  <2>3. QED
    BY <2>1, <2>2
<1>8. ASSUME NEW f \in DOMAIN frame PROVE Told(f)'
  <2>1. SUFFICES ASSUME frame'[f] = "delay"
                 PROVE  Kind(f) = "retry" /\ f \in listening' /\ Signal(f) \notin aborted'
    BY DEF Told, SignalAborted
  <2>2. f \notin R /\ frame[f] = "delay"
    BY <1>5, <2>1
  <2>3. Kind(f) = "retry" /\ f \in listening /\ Signal(f) \notin aborted
    BY <2>2 DEF IInv, Told, SignalAborted
  <2>4. Signal(f) \notin T
    BY <1>3, <2>2, <2>3
  <2>5. f \notin T \ {s}
    BY <1>2, <2>3
  <2>6. QED
    BY <1>1, <2>2, <2>3, <2>4, <2>5
<1>9. Shape'
  BY <1>1, <1>4 DEF IInv, Shape
<1>10. QED
  BY <1>4, <1>6, <1>7, <1>8, <1>9 DEF IInv

\* Time passes.
LEMMA TickStep ==
    ASSUME IInv, Tick
    PROVE  IInv'
<1>1. /\ frame' = frame /\ listening' = listening /\ aborted' = aborted
      /\ timers' = [f \in DOMAIN timers |-> IF timers[f] > 0 THEN timers[f] - 1 ELSE 0]
  BY DEF Tick
<1>2. DOMAIN timers' = DOMAIN timers /\ timers' = [f \in DOMAIN timers' |-> timers'[f]]
  BY <1>1
<1>3. Shape'
  BY <1>1, <1>2 DEF IInv, Shape
<1>4. ASSUME NEW f \in DOMAIN frame
      PROVE  Nested(f)' /\ Counted(f)' /\ Armed(f)' /\ Told(f)'
  BY <1>1, <1>2 DEF IInv, Nested, Counted, Counts, Armed, Told, SignalAborted
<1>5. QED
  BY <1>1, <1>3, <1>4 DEF IInv

LEMMA InitIInv == Init => IInv
<1>1. SUFFICES ASSUME Init PROVE IInv
  OBVIOUS
<1>2. PICK i \in DOMAIN Chains : frame = [f \in {<<i>>} |-> "start"]
  BY <1>1 DEF Init
<1>3. timers = << >> /\ listening = {}
  BY <1>1 DEF Init
<1>4. i \in Nat /\ MaxAttempts \in Nat \ {0}
  BY ChainsAssumption
<1>5. <<i>> \in Paths
  BY <1>2, <1>4 DEF Paths
<1>6. DOMAIN frame = {<<i>>} /\ frame[<<i>>] = "start"
  BY <1>2
<1>7. DOMAIN timers = {}
  BY <1>3
<1>8. Nested(<<i>>)
  <2>1. Around(<<i>>) = {}
    BY <1>4 DEF Around
  <2>2. QED
    BY <2>1 DEF Nested
<1>9. Counted(<<i>>)
  <2>1. \A n \in Nat : Append(<<i>>, n) \notin DOMAIN frame
    BY <1>4, <1>6, AppendPath
  <2>2. 0 \in 0 .. MaxAttempts /\ \A n \in Nat : ~ (n < 0)
    BY <1>4
  <2>3. Counts(<<i>>, 0)
    BY <2>1, <2>2 DEF Counts
  <2>4. QED
    BY <1>6, <2>2, <2>3 DEF Counted
<1>10. Armed(<<i>>) /\ Told(<<i>>)
  BY <1>3, <1>6, <1>7 DEF Armed, Told
<1>11. Shape
  BY <1>2, <1>3, <1>5, <1>6, <1>7 DEF Shape
<1>12. QED
  BY <1>6, <1>8, <1>9, <1>10, <1>11 DEF IInv

LEMMA NextIInv == IInv /\ [Next]_vars => IInv'
<1>1. SUFFICES ASSUME IInv, [Next]_vars PROVE IInv'
  OBVIOUS
<1>2. CASE \E f \in DOMAIN frame : Call(f)
  BY <1>1, <1>2, CallSteps, OpThrowsStep
<1>3. CASE \E f \in DOMAIN frame : Continue(f)
  BY <1>1, <1>3, Continuations
<1>4. CASE \E f \in DOMAIN frame : Fires(f) \/ StoreAnswers(f) \/ OpSettles(f)
  BY <1>1, <1>4, Answers, AbortStep, DelayElapsesStep DEF Fires, TimeoutFires
<1>5. CASE Tick
  BY <1>1, <1>5, TickStep
<1>6. CASE CallerAborts
  BY <1>1, <1>6, AbortStep DEF CallerAborts
<1>7. CASE UNCHANGED vars
  BY <1>1, <1>7 DEF vars, IInv, Shape, Nested, Counted, Counts, Armed, Told, SignalAborted
<1>8. QED
  BY <1>1, <1>2, <1>3, <1>4, <1>5, <1>6, <1>7 DEF Next, Run

-----------------------------------------------------------------------------

\* When a call makes a call of its own.
MayCall(f) ==
    \/ frame[f] \in {"start", "admit"}
    \/ Kind(f) = "retry" /\ frame[f] = "delay"
    \/ Kind(f) = "failover" /\ frame[f] = "wait" /\ Attempts(f) < Policy(f).targets

\* It then has attempts or targets left.
LEMMA CallsGo ==
    ASSUME IInv, NEW f \in DOMAIN frame, MayCall(f), GotoInner(f, "wait")
    PROVE  Goes(f) /\ Attempts(f) \in 0 .. MaxAttempts - 1 /\ Counts(f, Attempts(f))
<1>1. f \in Paths /\ MaxAttempts \in Nat \ {0}
  BY ChainsAssumption DEF IInv, Shape
<1>2. CASE frame[f] \in {"start", "admit"}
  BY <1>2, NoCallsYet DEF Goes
<1>3. CASE ~ (frame[f] \in {"start", "admit"})
  <2>1. PICK m \in 0 .. MaxAttempts : Attempts(f) < m
    BY <1>1, <1>3, CallsSoFar, PolicyBounds DEF MayCall
  <2>2. Attempts(f) \in 0 .. MaxAttempts - 1 /\ Counts(f, Attempts(f))
    BY <1>1, <2>1, CallsSoFar
  <2>3. QED
    BY <2>2 DEF Goes
<1>4. QED
  BY <1>2, <1>3

\* Only a call that may makes another, and each step makes at most one.  If a
\* timeout aborts with it, it is the one that starts.
LEMMA StepCalls ==
    ASSUME IInv, [Next]_vars
    PROVE  \/ DOMAIN frame' = DOMAIN frame
           \/ \E h \in DOMAIN frame :
                 /\ MayCall(h) /\ GotoInner(h, "wait")
                 /\ aborted' = aborted \/ (frame[h] = "start" /\ aborted' = aborted \cup {h})
<1> DEFINE AbortsBy(h) ==
              aborted' = aborted \/ (frame[h] = "start" /\ aborted' = aborted \cup {h})
           CallBy(h) == MayCall(h) /\ GotoInner(h, "wait") /\ AbortsBy(h)
           Same == DOMAIN frame' = DOMAIN frame
<1>0. ASSUME NEW f, NEW pc, Goto(f, pc) PROVE Same
  BY <1>0 DEF Goto
<1>1. ASSUME NEW f \in DOMAIN frame, Call(f) PROVE Same \/ CallBy(f)
  <2>1. CASE OpThrows(f)
    BY <2>1 DEF OpThrows
  <2>2. CASE \/ StartTimeout(f) \/ StartRetry(f) \/ StartBreaker(f)
             \/ StartFailover(f) \/ StartOp(f)
    <3>1. /\ frame[f] = "start" /\ (GotoInner(f, "wait") \/ \E pc : Goto(f, pc))
          /\ AbortsBy(f)
      BY <2>2 DEF StartTimeout, StartRetry, StartBreaker, StartFailover, StartOp, At
    <3>2. QED
      BY <1>0, <3>1 DEF MayCall
  <2>3. QED
    BY <1>1, <2>1, <2>2 DEF Call
<1>2. ASSUME NEW f \in DOMAIN frame, Continue(f) PROVE Same \/ CallBy(f)
  <2>1. CASE FailoverGoesOn(f)
    BY <1>0, <2>1 DEF FailoverGoesOn, MayCall, At
  <2>2. CASE ~FailoverGoesOn(f)
    <3>1. \E pc : Goto(f, pc)
      BY <1>2, <2>2 DEF Continue, FinishTimeout, RetryResolves, RetryRejects, RetryDelays,
                        BreakerRecords, FailoverResolves
    <3>2. QED
      BY <1>0, <3>1
  <2>3. QED
    BY <2>1, <2>2
<1>3. ASSUME NEW f \in DOMAIN frame, StoreAnswers(f) \/ OpSettles(f)
      PROVE  Same \/ CallBy(f)
  <2>1. /\ aborted' = aborted
        /\ \/ \E pc : Goto(f, pc)
           \/ frame[f] = "admit" /\ GotoInner(f, "wait")
    BY <1>3 DEF StoreAnswers, StoreAdmits, StoreRecords, OpSettles, At
  <2>2. QED
    BY <1>0, <2>1 DEF MayCall
<1>4. ASSUME NEW f \in DOMAIN frame, DelayElapses(f) PROVE CallBy(f)
  BY <1>4 DEF DelayElapses, MayCall, At
<1>5. ASSUME NEW s, Abort(s) PROVE Same
  BY <1>5 DEF Abort
<1>6. CASE Tick \/ UNCHANGED vars
  BY <1>6 DEF Tick, vars
<1>7. QED
  <2>1. \/ \E f \in DOMAIN frame : \/ Call(f) \/ Continue(f) \/ DelayElapses(f)
                                   \/ StoreAnswers(f) \/ OpSettles(f)
        \/ \E s : Abort(s)
        \/ Tick \/ UNCHANGED vars
    BY DEF Next, Run, Fires, TimeoutFires, CallerAborts
  <2>2. QED
    BY <1>1, <1>2, <1>3, <1>4, <1>5, <1>6, <2>1

\* A step of h starts no attempt of another call.
LEMMA AttemptsOfOthers ==
    ASSUME IInv, NEW f \in DOMAIN frame, NEW h \in DOMAIN frame, h # f,
           MayCall(h), GotoInner(h, "wait")
    PROVE  Attempts(f)' = Attempts(f)
<1>1. PICK k \in 0 .. MaxAttempts - 1 : Counts(h, k)
  BY CallsGo
<1>2. DOMAIN frame' = DOMAIN frame \cup {Append(h, k)}
  BY <1>1, NewCall
<1>3. f \in Seq(Nat) /\ h \in Seq(Nat) /\ MaxAttempts \in Nat /\ k \in Nat
  BY ChainsAssumption DEF IInv, Shape, Paths
<1>4. \A n \in Numbers : Append(f, n) # Append(h, k)
  BY <1>3, AppendInjective DEF Numbers
<1>5. {n \in Numbers : Append(f, n) \in DOMAIN frame'}
         = {n \in Numbers : Append(f, n) \in DOMAIN frame}
  BY <1>2, <1>4
<1>6. QED
  BY <1>5 DEF Attempts

\* Once the signal of a retry has aborted, no attempt follows the first one
\* (the loop of retry.ts and the delay() it awaits).
THEOREM NoRetryAfterAbortHolds == Spec => NoRetryAfterAbort
<1> DEFINE Kept == \A f \in Calls("retry") :
                      0 < Attempts(f) /\ Attempts(f) < Attempts(f)' => ~SignalAborted(f)
<1>1. IInv /\ [Next]_vars => Kept
  <2>1. SUFFICES ASSUME IInv, [Next]_vars, NEW f \in Calls("retry"),
                        0 < Attempts(f), Attempts(f) < Attempts(f)'
                 PROVE  ~SignalAborted(f)
    OBVIOUS
  <2>2. f \in DOMAIN frame /\ Kind(f) = "retry"
    BY DEF Calls
  <2>3. Attempts(f) \in 0 .. MaxAttempts /\ MaxAttempts \in Nat
    BY <2>1, <2>2, CallsSoFar, ChainsAssumption
  <2>4. Attempts(f)' # Attempts(f)
    BY <2>1, <2>3
  <2>5. DOMAIN frame' # DOMAIN frame
    BY <2>4 DEF Attempts
  <2>6. PICK h \in DOMAIN frame : MayCall(h) /\ GotoInner(h, "wait")
    BY <2>1, <2>5, StepCalls
  <2>7. h = f
    BY <2>1, <2>2, <2>4, <2>6, AttemptsOfOthers
  <2>8. frame[f] \notin {"start", "admit"}
    BY <2>1, <2>2, <2>3, NoCallsYet
  <2>9. frame[f] = "delay"
    BY <2>2, <2>6, <2>7, <2>8 DEF MayCall
  <2>10. QED
    BY <2>1, <2>2, <2>9 DEF IInv, Told
<1>2. QED
  BY <1>1, InitIInv, NextIInv, PTL DEF Spec, NoRetryAfterAbort

-----------------------------------------------------------------------------
(* Operations that nobody awaits *)

\* Calls of one call are made one after the other, and an operation makes none.
Single(f) ==
    \A n \in Nat : Append(f, n) \in DOMAIN frame =>
        Kind(f) # "op" /\ (n = 0 \/ Kind(f) \in {"retry", "failover"})

\* A call that is not settled is the last of its caller, which awaits it or is
\* a timeout that has given it up.
Awaited(f) ==
    \A n \in Nat :
        Append(f, n) \in DOMAIN frame /\ frame[Append(f, n)] \notin Settled =>
            /\ Append(f, n + 1) \notin DOMAIN frame
            /\ frame[f] = "wait" \/ (Kind(f) = "timeout" /\ f \in aborted)

\* A timeout that is under way hears the signal it got, or has aborted itself.
Hears(f) ==
    Kind(f) = "timeout" /\ frame[f] \notin Settled \cup {"start"} =>
        f \in listening \/ f \in aborted

\* Whoever aborts around a call that is not settled has aborted its signal.
Reached(f) ==
    frame[f] \notin Settled /\ (\E t \in TimeoutsAround(f) \cup {Caller} : t \in aborted)
        => SignalAborted(f)

OInv == \A f \in DOMAIN frame : Single(f) /\ Awaited(f) /\ Hears(f) /\ Reached(f)

\* Being around is transitive.
LEMMA AroundAround ==
    ASSUME NEW f \in Seq(Nat), NEW g \in Around(f)
    PROVE  Around(g) \subseteq Around(f)
<1>1. PICK n \in 1 .. Len(f) - 1 : g = SubSeq(f, 1, n)
  BY DEF Around
<1>2. Len(f) \in Nat
  OBVIOUS
<1>3. Len(g) = n /\ g \in Seq(Nat)
  BY <1>1, <1>2
<1>4. \A m \in 1 .. n - 1 : SubSeq(g, 1, m) = SubSeq(f, 1, m)
  BY <1>1, <1>2, <1>3
<1>5. \A m \in 1 .. n - 1 : m \in 1 .. Len(f) - 1
  BY <1>2
<1>6. QED
  BY <1>3, <1>4, <1>5 DEF Around

\* So is every prefix of a call around f.
LEMMA AroundPrefix ==
    ASSUME NEW f \in Seq(Nat), NEW g \in Around(f)
    PROVE  \A s \in Seq(Nat) : IsPrefix(s, g) /\ s # << >> => s \in Around(f)
<1>1. PICK n \in 1 .. Len(f) - 1 : g = SubSeq(f, 1, n)
  BY DEF Around
<1>2. Len(f) \in Nat
  OBVIOUS
<1>3. Len(g) = n /\ g \in Seq(Nat)
  BY <1>1, <1>2
<1>4. ASSUME NEW s \in Seq(Nat), IsPrefix(s, g), s # << >> PROVE s \in Around(f)
  <2>1. Len(s) \in 1 .. n
    BY <1>3, <1>4 DEF IsPrefix
  <2>2. s = SubSeq(g, 1, Len(s))
    <3>1. s = SubSeq(s, 1, Len(s))
      BY <2>1
    <3>2. QED
      BY <1>4, <3>1 DEF IsPrefix
  <2>3. SubSeq(g, 1, Len(s)) = SubSeq(f, 1, Len(s))
    BY <1>1, <1>2, <1>3, <2>1
  <2>4. Len(s) \in 1 .. Len(f) - 1
    BY <1>2, <2>1
  <2>5. QED
    BY <2>2, <2>3, <2>4 DEF Around
<1>5. QED
  BY <1>4

\* Of two calls around f the shorter is around the longer, or the same.
LEMMA AroundOrdered ==
    ASSUME NEW f \in Seq(Nat), NEW g \in Around(f), NEW h \in Around(f), Len(g) <= Len(h)
    PROVE  IsPrefix(g, h)
<1>1. PICK n \in 1 .. Len(f) - 1 : g = SubSeq(f, 1, n)
  BY DEF Around
<1>2. PICK m \in 1 .. Len(f) - 1 : h = SubSeq(f, 1, m)
  BY DEF Around
<1>3. Len(f) \in Nat
  OBVIOUS
<1>4. Len(g) = n /\ Len(h) = m /\ n <= m /\ g \in Seq(Nat) /\ h \in Seq(Nat)
  <2>1. Len(g) = n /\ g \in Seq(Nat)
    BY <1>1, <1>3
  <2>2. Len(h) = m /\ h \in Seq(Nat)
    BY <1>2, <1>3
  <2>3. QED
    BY <2>1, <2>2
<1>5. SubSeq(g, 1, n) = g
  BY <1>4
<1>6. SubSeq(h, 1, n) = SubSeq(f, 1, n)
  BY <1>2, <1>3, <1>4
<1>7. QED
  BY <1>1, <1>4, <1>5, <1>6 DEF IsPrefix

\* Of two calls around f the shorter is around the longer.
LEMMA AroundNested ==
    ASSUME NEW f \in Seq(Nat), NEW g \in Around(f), NEW h \in Around(f),
           Len(g) <= Len(h), g # h
    PROVE  g \in Around(h)
<1>1. PICK n \in 1 .. Len(f) - 1 : g = SubSeq(f, 1, n)
  BY DEF Around
<1>2. PICK m \in 1 .. Len(f) - 1 : h = SubSeq(f, 1, m)
  BY DEF Around
<1>3. Len(f) \in Nat
  OBVIOUS
<1>4. Len(g) = n /\ Len(h) = m /\ h \in Seq(Nat)
  BY <1>1, <1>2, <1>3
<1>5. n # m
  BY <1>1, <1>2
<1>6. n \in 1 .. Len(h) - 1
  BY <1>3, <1>4, <1>5
<1>7. SubSeq(h, 1, n) = SubSeq(f, 1, n)
  BY <1>2, <1>3, <1>4, <1>6
<1>8. QED
  BY <1>1, <1>6, <1>7 DEF Around

\* The call of g on the way to f.
LEMMA NextOnTheWay ==
    ASSUME NEW f \in Seq(Nat), NEW g \in Around(f)
    PROVE  \E n \in Nat : /\ Append(g, n) = f \/ Append(g, n) \in Around(f)
                         /\ Len(Append(g, n)) = Len(g) + 1
<1>1. PICK m \in 1 .. Len(f) - 1 : g = SubSeq(f, 1, m)
  BY DEF Around
<1>2. Len(f) \in Nat
  OBVIOUS
<1>3. f[m + 1] \in Nat /\ g \in Seq(Nat) /\ Len(g) = m
  BY <1>1, <1>2
<1>4. Append(g, f[m + 1]) = SubSeq(f, 1, m + 1)
  BY <1>1, <1>2, <1>3
<1>5. CASE m + 1 = Len(f)
  <2>1. SubSeq(f, 1, Len(f)) = f
    BY SubSeqFull
  <2>2. QED
    BY <1>3, <1>4, <1>5, <2>1
<1>6. CASE m + 1 # Len(f)
  <2>1. m + 1 \in 1 .. Len(f) - 1
    BY <1>2, <1>6
  <2>2. SubSeq(f, 1, m + 1) \in Around(f)
    BY <2>1 DEF Around
  <2>3. Append(g, f[m + 1]) \in Around(f)
    BY <1>4, <2>2
  <2>4. Len(Append(g, f[m + 1])) = Len(g) + 1
    BY <1>3
  <2>5. QED
    BY <1>3, <2>3, <2>4, Zenon
<1>7. QED
  BY <1>5, <1>6

\* The calls made are named by sequences, and so are those around them.
LEMMA PathsOf ==
    ASSUME IInv, NEW f \in DOMAIN frame
    PROVE  /\ f \in Seq(Nat) /\ f # << >> /\ MaxAttempts \in Nat \ {0}
           /\ \A g \in Around(f) : g \in DOMAIN frame /\ g \in Seq(Nat) /\ g # << >>
<1>1. \A g \in Around(f) : g \in DOMAIN frame
  BY DEF IInv, Nested
<1>2. QED
  BY <1>1, ChainsAssumption DEF IInv, Shape, Paths

\* The nearest settled call around a call that is not settled has given it up.
LEMMA SettledGaveUp ==
    ASSUME IInv, OInv, NEW f \in DOMAIN frame, frame[f] \notin Settled,
           NEW g \in Around(f), frame[g] \in Settled
    PROVE  GivenUp(f)
<1> DEFINE S == {h \in Around(f) : frame[h] \in Settled}
           L == {Len(h) : h \in S}
<1>1. f \in Seq(Nat) /\ Len(f) \in Nat
  BY PathsOf
<1>2. \A h \in Around(f) : Len(h) \in 0 .. Len(f)
  BY <1>1, AroundPaths
<1>3. L \in SUBSET (0 .. Len(f)) /\ L # {}
  BY <1>2
<1>4. PICK m \in L : \A n \in L : n <= m
  BY <1>1, <1>3, MaxExists
<1>5. PICK p \in S : Len(p) = m
  BY <1>4
<1>6. PICK n \in Nat : /\ Append(p, n) = f \/ Append(p, n) \in Around(f)
                      /\ Len(Append(p, n)) = Len(p) + 1
  BY <1>1, <1>5, NextOnTheWay
<1>7. Append(p, n) \in DOMAIN frame /\ p \in DOMAIN frame
  BY <1>5, <1>6, PathsOf
<1>8. frame[Append(p, n)] \notin Settled
  <2>1. CASE Append(p, n) = f
    BY <2>1
  <2>2. CASE Append(p, n) \in Around(f)
    <3>1. SUFFICES ASSUME frame[Append(p, n)] \in Settled PROVE FALSE
      OBVIOUS
    <3>2. Len(p) + 1 \in L
      BY <1>6, <2>2, <3>1
    <3>3. Len(p) + 1 <= Len(p) /\ Len(p) \in Nat
      BY <1>2, <1>4, <1>5, <3>2
    <3>4. QED
      BY <3>3
  <2>3. QED
    BY <1>6, <2>1, <2>2
<1>9. frame[p] = "wait" \/ (Kind(p) = "timeout" /\ p \in aborted)
  BY <1>7, <1>8 DEF OInv, Awaited
<1>10. Kind(p) = "timeout" /\ p \in aborted
  BY <1>5, <1>9 DEF Settled, Outcomes
<1>11. p \in TimeoutsAround(f)
  BY <1>5, <1>10 DEF TimeoutsAround
<1>12. QED
  BY <1>10, <1>11 DEF GivenUp

\* Its signal has aborted then.
LEMMA SettledAround ==
    ASSUME IInv, OInv, NEW f \in DOMAIN frame, frame[f] \notin Settled,
           NEW g \in Around(f), frame[g] \in Settled
    PROVE  SignalAborted(f)
<1>1. GivenUp(f)
  BY SettledGaveUp
<1>2. QED
  BY <1>1 DEF OInv, Reached, GivenUp

\* Every call of f has settled.
AllSettled(f) ==
    \A n \in Nat : Append(f, n) \in DOMAIN frame => frame[Append(f, n)] \in Settled

\* The last call of f has, so all have; so have they all when f waits for none.
LEMMA NoneLeft ==
    ASSUME IInv, OInv, NEW f \in DOMAIN frame,
           InnerSettled(f) \/ (frame[f] # "wait" /\ Kind(f) # "timeout")
    PROVE  AllSettled(f)
<1>1. SUFFICES ASSUME NEW n \in Nat, Append(f, n) \in DOMAIN frame,
                      frame[Append(f, n)] \notin Settled
               PROVE  FALSE
  BY DEF AllSettled
<1>2. /\ Append(f, n + 1) \notin DOMAIN frame
      /\ frame[f] = "wait" \/ Kind(f) = "timeout"
  BY <1>1 DEF OInv, Awaited
<1>3. Attempts(f) \in 0 .. MaxAttempts /\ Counts(f, Attempts(f)) /\ MaxAttempts \in Nat
  BY CallsSoFar, PathsOf
<1>4. n < Attempts(f) /\ ~ (n + 1 < Attempts(f))
  BY <1>1, <1>2, <1>3 DEF Counts
<1>5. n = Attempts(f) - 1
  BY <1>3, <1>4
<1>6. frame[Inner(f)] \in Settled
  BY <1>2 DEF InnerSettled, InnerFailed, InnerIs, Settled, Outcomes
<1>7. QED
  BY <1>1, <1>5, <1>6 DEF Inner

\* A call moves on when its calls have settled, or when it has given them up.
LEMMA MovesOn ==
    ASSUME IInv, OInv, NEW f \in DOMAIN frame, NEW pc, Goto(f, pc),
           frame[f] \notin Settled, pc # "start",
           AllSettled(f) \/ (Kind(f) = "timeout" /\ f \in aborted),
           Kind(f) = "timeout" => pc \in Settled,
           aborted' = aborted, listening \subseteq listening' \cup {f}
    PROVE  OInv'
<1>1. /\ DOMAIN frame' = DOMAIN frame /\ frame'[f] = pc
      /\ \A g \in DOMAIN frame \ {f} : frame'[g] = frame[g]
  BY DEF Goto
<1>2. ASSUME NEW g \in DOMAIN frame PROVE Single(g)'
  BY <1>1 DEF OInv, Single
<1>3. ASSUME NEW g \in DOMAIN frame PROVE Awaited(g)'
  <2>1. SUFFICES ASSUME NEW n \in Nat, Append(g, n) \in DOMAIN frame,
                        frame'[Append(g, n)] \notin Settled
                 PROVE  /\ Append(g, n + 1) \notin DOMAIN frame
                        /\ frame'[g] = "wait" \/ (Kind(g) = "timeout" /\ g \in aborted)
    BY <1>1 DEF Awaited
  <2>2. frame[Append(g, n)] \notin Settled
    BY <1>1, <2>1
  <2>3. /\ Append(g, n + 1) \notin DOMAIN frame
        /\ frame[g] = "wait" \/ (Kind(g) = "timeout" /\ g \in aborted)
    BY <2>1, <2>2 DEF OInv, Awaited
  <2>4. CASE g = f
    BY <2>1, <2>2, <2>3, <2>4 DEF AllSettled
  <2>5. CASE g # f
    BY <1>1, <2>3, <2>5
  <2>6. QED
    BY <2>4, <2>5
<1>4. ASSUME NEW g \in DOMAIN frame PROVE Hears(g)'
  BY <1>1 DEF OInv, Hears
<1>5. ASSUME NEW g \in DOMAIN frame PROVE Reached(g)'
  BY <1>1 DEF OInv, Reached, SignalAborted
<1>6. QED
  BY <1>1, <1>2, <1>3, <1>4, <1>5 DEF OInv

\* A call makes another when those before have settled.
LEMMA CallsOn ==
    ASSUME IInv, IInv', OInv, NEW f \in DOMAIN frame, MayCall(f), GotoInner(f, "wait"),
           Kind(f) # "op", AllSettled(f), frame[f] \notin Settled,
           frame[f] = "start" \/ Kind(f) # "timeout",
           listening \subseteq listening' \cup {f},
           \/ Kind(f) # "timeout" /\ aborted' = aborted
           \/ /\ Kind(f) = "timeout"
              /\ IF SignalAborted(f) THEN aborted' = aborted \cup {f}
                                     ELSE aborted' = aborted /\ f \in listening'
    PROVE  OInv'
<1> DEFINE inner == Append(f, Attempts(f))
<1>1. /\ inner \notin DOMAIN frame /\ inner # f
      /\ DOMAIN frame' = DOMAIN frame \cup {inner}
      /\ frame'[inner] = "start" /\ frame'[f] = "wait"
      /\ \A g \in DOMAIN frame \ {f} : frame'[g] = frame[g]
  BY CallsGo, NewCall
<1>2. /\ f \in Seq(Nat) /\ f # << >> /\ Attempts(f) \in Nat
      /\ \A g \in DOMAIN frame : g \in Seq(Nat) /\ g # << >>
  BY CallsGo, PathsOf
<1>3. inner \in Seq(Nat)
  BY <1>2, AppendPath
<1>4. \A n \in Nat : Append(inner, n) \notin DOMAIN frame'
  <2>1. SUFFICES ASSUME NEW n \in Nat, Append(inner, n) \in DOMAIN frame'
                 PROVE  FALSE
    OBVIOUS
  <2>2. inner # << >>
    BY <1>2, AppendPath
  <2>3. inner \in Around(Append(inner, n))
    BY <1>3, <2>2, AroundAppend
  <2>4. QED
    BY <1>1, <2>1, <2>3 DEF IInv, Nested
<1>5. \A g \in DOMAIN frame \ {f}, n \in Nat : Append(g, n) # inner
  BY <1>2, AppendInjective
<1>6. \A n \in Nat : Append(f, n) = inner <=> n = Attempts(f)
  BY <1>2, AppendInjective
<1>7. aborted \subseteq aborted' /\ aborted' \subseteq aborted \cup {f}
  OBVIOUS
<1> HIDE DEF inner
<1>8. ASSUME NEW g \in DOMAIN frame' PROVE Single(g)'
  <2>1. SUFFICES ASSUME NEW n \in Nat, Append(g, n) \in DOMAIN frame'
                 PROVE  Kind(g) # "op" /\ (n = 0 \/ Kind(g) \in {"retry", "failover"})
    BY DEF Single
  <2>2. CASE Append(g, n) \in DOMAIN frame
    <3>1. g \in DOMAIN frame
      BY <1>1, <1>4, <2>1
    <3>2. QED
      BY <2>2, <3>1 DEF OInv, Single
  <2>3. CASE Append(g, n) = inner
    <3>1. g = f
      BY <1>1, <1>4, <1>5, <2>1, <2>3
    <3>2. n = Attempts(f)
      BY <1>6, <2>3, <3>1
    <3>3. CASE frame[f] \in {"start", "admit"}
      BY <3>1, <3>2, <3>3, NoCallsYet
    <3>4. CASE frame[f] \notin {"start", "admit"}
      BY <3>1, <3>4 DEF MayCall
    <3>5. QED
      BY <3>3, <3>4
  <2>4. QED
    BY <1>1, <2>1, <2>2, <2>3
<1>9. ASSUME NEW g \in DOMAIN frame' PROVE Awaited(g)'
  <2>1. SUFFICES ASSUME NEW n \in Nat, Append(g, n) \in DOMAIN frame',
                        frame'[Append(g, n)] \notin Settled
                 PROVE  /\ Append(g, n + 1) \notin DOMAIN frame'
                        /\ frame'[g] = "wait" \/ (Kind(g) = "timeout" /\ g \in aborted')
    BY DEF Awaited
  <2>2. g # inner
    BY <1>4, <2>1
  <2>3. CASE g = f
    <3>1. Append(f, n) # f
      BY <1>2, AppendPath
    <3>2. Append(f, n) = inner
      BY <1>1, <2>1, <2>3, <3>1 DEF AllSettled
    <3>3. n = Attempts(f) /\ n + 1 # n
      BY <1>6, <3>2
    <3>4. Append(f, n + 1) \notin DOMAIN frame
      BY <3>3, CallsGo DEF Counts
    <3>5. Append(f, n + 1) # inner
      BY <1>6, <3>3
    <3>6. QED
      BY <1>1, <2>3, <3>4, <3>5
  <2>4. CASE g # f
    <3>1. g \in DOMAIN frame \ {f} /\ n + 1 \in Nat
      BY <1>1, <2>2, <2>4
    <3>2. Append(g, n) \in DOMAIN frame /\ Append(g, n + 1) # inner
      BY <1>1, <1>5, <2>1, <3>1
    <3>3. frame[Append(g, n)] \notin Settled
      BY <1>1, <2>1, <3>2
    <3>4. /\ Append(g, n + 1) \notin DOMAIN frame
          /\ frame[g] = "wait" \/ (Kind(g) = "timeout" /\ g \in aborted)
      BY <3>1, <3>2, <3>3 DEF OInv, Awaited
    <3>5. QED
      BY <1>1, <1>7, <3>1, <3>2, <3>4
  <2>5. QED
    BY <2>3, <2>4
<1>10. ASSUME NEW g \in DOMAIN frame' PROVE Hears(g)'
  <2>1. CASE g = inner
    BY <1>1, <2>1 DEF Hears
  <2>2. CASE g = f
    BY <2>2 DEF Hears
  <2>3. CASE g \in DOMAIN frame \ {f}
    BY <1>1, <1>7, <2>3 DEF OInv, Hears
  <2>4. QED
    BY <1>1, <2>1, <2>2, <2>3
<1>11. ASSUME NEW g \in DOMAIN frame' PROVE Reached(g)'
  <2>1. SUFFICES ASSUME frame'[g] \notin Settled,
                        NEW t \in TimeoutsAround(g) \cup {Caller}, t \in aborted'
                 PROVE  Signal(g) \in aborted'
    BY DEF Reached, SignalAborted
  <2>2. CASE g = inner
    <3>1. Around(inner) = Around(f) \cup {f}
      BY <1>2, AroundAppend DEF inner
    <3>2. CASE Kind(f) # "timeout"
      <4>1. TimeoutsAround(inner) = TimeoutsAround(f)
        BY <3>1, <3>2 DEF TimeoutsAround
      <4>2. Signal(inner) = Signal(f)
        BY <4>1, Zenon DEF Signal
      <4>3. t \in TimeoutsAround(f) \cup {Caller} /\ t \in aborted
        BY <2>1, <2>2, <3>2, <4>1
      <4>4. SignalAborted(f)
        BY <4>3 DEF OInv, Reached
      <4>5. QED
        BY <2>2, <1>7, <4>2, <4>4 DEF SignalAborted
    <3>3. CASE Kind(f) = "timeout"
      <4>1. TimeoutsAround(inner) = TimeoutsAround(f) \cup {f}
        BY <3>1, <3>3 DEF TimeoutsAround
      <4>2. Signal(inner) = f
        <5>1. /\ Signal(inner) \in TimeoutsAround(f) \cup {f, Caller}
              /\ Len(f) <= Len(Signal(inner))
          BY <1>3, <4>1, SignalOwner
        <5>2. \A h \in Around(f) \cup {Caller} : ~ (Len(f) <= Len(h))
          BY <1>2, AroundPaths DEF Caller
        <5>3. QED
          BY <5>1, <5>2 DEF TimeoutsAround
      <4>3. CASE t = f
        BY <2>1, <2>2, <4>2, <4>3
      <4>4. CASE t # f
        <5>1. t \in TimeoutsAround(f) \cup {Caller} /\ t \in aborted
          BY <1>7, <2>1, <2>2, <4>1, <4>4
        <5>2. SignalAborted(f)
          BY <5>1 DEF OInv, Reached
        <5>3. QED
          BY <2>2, <3>3, <4>2, <5>2
      <4>5. QED
        BY <4>3, <4>4
    <3>4. QED
      BY <3>2, <3>3
  <2>3. CASE g \in DOMAIN frame
    <3>1. frame[g] \notin Settled
      BY <1>1, <2>1, <2>3
    <3>2. t \in aborted
      <4>1. CASE Kind(f) # "timeout"
        BY <2>1, <4>1
      <4>2. CASE Kind(f) = "timeout"
        <5>1. f # Caller /\ f \notin Around(g)
          BY <1>2, <2>3, <4>2 DEF IInv, Nested, Caller
        <5>2. QED
          BY <1>7, <2>1, <5>1 DEF TimeoutsAround
      <4>3. QED
        BY <4>1, <4>2
    <3>3. SignalAborted(g)
      BY <2>1, <2>3, <3>1, <3>2 DEF OInv, Reached
    <3>4. QED
      BY <1>7, <3>3 DEF SignalAborted
  <2>4. QED
    BY <1>1, <2>2, <2>3
<1>12. QED
  BY <1>8, <1>9, <1>10, <1>11 DEF OInv

\* Of the calls an error passes through, each has made the one it came from.
LEMMA PassedOn ==
    ASSUME IInv, OInv, NEW f \in DOMAIN frame, NEW g \in PassedBy(f),
           NEW n \in Nat, Append(g, n) \in DOMAIN frame
    PROVE  Append(g, n) = f \/ Append(g, n) \in PassedBy(f)
<1>1. f \in Seq(Nat) /\ \A h \in Around(f) : h \in DOMAIN frame /\ Len(h) \in Nat
  BY PathsOf
<1>2. g \in Around(f) /\ \A h \in Around(f) : Len(g) <= Len(h) => Kind(h) = "timeout"
  BY DEF PassedBy
<1>3. Kind(g) = "timeout"
  BY <1>1, <1>2
<1>4. PICK j \in Nat : /\ Append(g, j) = f \/ Append(g, j) \in Around(f)
                      /\ Len(Append(g, j)) = Len(g) + 1
  BY <1>1, <1>2, NextOnTheWay
<1>5. Append(g, j) \in DOMAIN frame
  BY <1>1, <1>4
<1>6. j = 0 /\ n = 0
  BY <1>2, <1>1, <1>3, <1>5 DEF OInv, Single
<1>7. CASE Append(g, j) = f
  BY <1>6, <1>7
<1>8. CASE Append(g, j) \in Around(f)
  <2>1. \A h \in Around(f) : Len(Append(g, j)) <= Len(h) => Len(g) <= Len(h)
    BY <1>1, <1>2, <1>4
  <2>2. QED
    BY <1>2, <1>6, <1>8, <2>1 DEF PassedBy
<1>9. QED
  BY <1>4, <1>7, <1>8

\* The error of an operation settles the one call of each timeout it passes.
LEMMA OpThrowsOn ==
    ASSUME IInv, OInv, NEW f \in DOMAIN frame, OpThrows(f)
    PROVE  OInv'
<1>1. /\ Kind(f) = "op" /\ aborted' = aborted /\ listening' = listening
      /\ frame' = [g \in DOMAIN frame |->
                      IF g = f \/ g \in PassedBy(f) THEN "threw" ELSE frame[g]]
  BY DEF OpThrows, At
<1>2. /\ DOMAIN frame' = DOMAIN frame
      /\ \A g \in DOMAIN frame :
            \/ (g = f \/ g \in PassedBy(f)) /\ frame'[g] \in Settled
            \/ ~ (g = f \/ g \in PassedBy(f)) /\ frame'[g] = frame[g]
  BY <1>1 DEF Settled
<1>3. f \in Seq(Nat) /\ \A g \in Around(f) : g \in DOMAIN frame /\ Len(g) \in Nat
  BY PathsOf
<1>4. ASSUME NEW g \in DOMAIN frame PROVE Single(g)'
  BY <1>2 DEF OInv, Single
<1>5. ASSUME NEW g \in DOMAIN frame PROVE Awaited(g)'
  <2>1. SUFFICES ASSUME NEW n \in Nat, Append(g, n) \in DOMAIN frame,
                        frame'[Append(g, n)] \notin Settled
                 PROVE  /\ Append(g, n + 1) \notin DOMAIN frame
                        /\ frame'[g] = "wait" \/ (Kind(g) = "timeout" /\ g \in aborted)
    BY <1>1, <1>2 DEF Awaited
  <2>2. /\ Append(g, n) # f /\ Append(g, n) \notin PassedBy(f)
        /\ frame[Append(g, n)] \notin Settled
    BY <1>2, <2>1
  <2>3. /\ Append(g, n + 1) \notin DOMAIN frame
        /\ frame[g] = "wait" \/ (Kind(g) = "timeout" /\ g \in aborted)
    BY <2>1, <2>2 DEF OInv, Awaited
  <2>4. g # f
    BY <1>1, <2>1 DEF OInv, Single
  <2>5. g \notin PassedBy(f)
    BY <1>3, <2>1, <2>2, PassedOn
  <2>6. QED
    BY <1>2, <2>3, <2>4, <2>5
<1>6. ASSUME NEW g \in DOMAIN frame PROVE Hears(g)'
  BY <1>1, <1>2 DEF OInv, Hears
<1>7. ASSUME NEW g \in DOMAIN frame PROVE Reached(g)'
  BY <1>1, <1>2 DEF OInv, Reached, SignalAborted
<1>8. QED
  BY <1>2, <1>4, <1>5, <1>6, <1>7 DEF OInv

\* An abort reaches the signal of every call that is not settled: the timeouts
\* in between listen, unless one has aborted or one has settled before.
LEMMA AbortsOn ==
    ASSUME IInv, OInv, NEW s \in Seq(Nat), s = Caller \/ Kind(s) = "timeout", Abort(s)
    PROVE  OInv'
<1> DEFINE T == {s} \cup AbortedBy(s)
           R == RejectedBy(T)
<1>1. /\ aborted' = aborted \cup T
      /\ frame' = [f \in DOMAIN frame |-> IF f \in R THEN "rejected" ELSE frame[f]]
      /\ listening' = listening \ ((T \ {s}) \cup R)
  BY DEF Abort
<1>2. \A u : u \in T <=>
          \/ u = s
          \/ /\ u \in Calls("timeout") /\ IsPrefix(s, u)
             /\ \A v \in {u} \cup TimeoutsAround(u) : IsStrictPrefix(s, v) => v \in listening
  BY DEF AbortedBy
<1>3. ASSUME NEW f \in R
      PROVE  f \in DOMAIN frame /\ frame[f] = "delay" /\ Kind(f) = "retry"
  <2>1. f \in listening /\ frame[f] = "delay"
    BY DEF RejectedBy
  <2>2. f \in DOMAIN frame
    BY <2>1 DEF IInv, Shape
  <2>3. QED
    BY <2>1, <2>2 DEF IInv, Told
<1> HIDE DEF T, R
<1>4. /\ DOMAIN frame' = DOMAIN frame
      /\ \A f \in DOMAIN frame :
            \/ f \in R /\ frame'[f] = "rejected"
            \/ f \notin R /\ frame'[f] = frame[f]
  BY <1>1
<1>5. ASSUME NEW f \in DOMAIN frame, frame'[f] \notin Settled
      PROVE  frame'[f] = frame[f] /\ frame[f] \notin Settled
  BY <1>4, <1>5 DEF Settled, Outcomes
<1>6. ASSUME NEW f \in DOMAIN frame PROVE Single(f)'
  BY <1>4 DEF OInv, Single
<1>7. ASSUME NEW f \in DOMAIN frame PROVE Awaited(f)'
  <2>1. SUFFICES ASSUME NEW n \in Nat, Append(f, n) \in DOMAIN frame,
                        frame'[Append(f, n)] \notin Settled
                 PROVE  /\ Append(f, n + 1) \notin DOMAIN frame
                        /\ frame'[f] = "wait" \/ (Kind(f) = "timeout" /\ f \in aborted')
    BY <1>4 DEF Awaited
  <2>2. frame[Append(f, n)] \notin Settled
    BY <1>5, <2>1
  <2>3. /\ Append(f, n + 1) \notin DOMAIN frame
        /\ frame[f] = "wait" \/ (Kind(f) = "timeout" /\ f \in aborted)
    BY <2>1, <2>2 DEF OInv, Awaited
  <2>4. QED
    BY <1>1, <1>3, <1>4, <2>3
<1>8. ASSUME NEW f \in DOMAIN frame PROVE Hears(f)'
  <2>1. SUFFICES ASSUME Kind(f) = "timeout", frame'[f] \notin Settled \cup {"start"}
                 PROVE  f \in listening' \/ f \in aborted'
    BY DEF Hears
  <2>2. f \in listening \/ f \in aborted
    BY <1>5, <2>1 DEF OInv, Hears
  <2>3. QED
    BY <1>1, <1>3, <2>1, <2>2
<1>9. ASSUME NEW f \in DOMAIN frame PROVE Reached(f)'
  <2>1. SUFFICES ASSUME frame'[f] \notin Settled, Signal(f) \notin aborted,
                        NEW t \in TimeoutsAround(f) \cup {Caller}, t \in aborted'
                 PROVE  Signal(f) \in T
    BY <1>1 DEF Reached, SignalAborted
  <2>2. frame[f] \notin Settled /\ f \in Seq(Nat)
    BY <1>5, <2>1, PathsOf
  <2>3. \A v \in TimeoutsAround(f) \cup {Caller} : v \notin aborted
    BY <2>1, <2>2 DEF OInv, Reached, SignalAborted
  <2>4. ASSUME NEW v \in TimeoutsAround(f) PROVE v \in listening
    <3>1. v \in Around(f) /\ v \in DOMAIN frame /\ Kind(v) = "timeout"
      BY PathsOf DEF TimeoutsAround
    <3>2. frame[v] \notin Settled
      BY <2>1, <2>2, <3>1, SettledAround DEF SignalAborted
    <3>3. frame[v] # "start"
      BY <3>1 DEF IInv, Nested
    <3>4. QED
      BY <2>3, <3>1, <3>2, <3>3 DEF OInv, Hears
  <2>5. s \in TimeoutsAround(f) \cup {Caller}
    <3>1. t \in T
      BY <1>1, <2>1, <2>3
    <3>2. CASE s = Caller
      BY <3>2
    <3>3. CASE s # Caller
      <4>1. t # << >>
        <5>1. CASE t = s
          BY <3>3, <5>1 DEF Caller
        <5>2. CASE t # s
          BY <1>2, <3>1, <5>2, PathsOf DEF Calls
        <5>3. QED
          BY <5>1, <5>2
      <4>2. t \in TimeoutsAround(f)
        BY <2>1, <4>1 DEF Caller
      <4>3. CASE t = s
        BY <4>2, <4>3
      <4>4. CASE t # s
        <5>1. IsPrefix(s, t) /\ s # << >> /\ t \in Around(f)
          BY <1>2, <3>1, <3>3, <4>2, <4>4 DEF Caller, TimeoutsAround
        <5>2. s \in Around(f)
          BY <2>2, <5>1, AroundPrefix
        <5>3. QED
          BY <3>3, <5>2 DEF TimeoutsAround
      <4>5. QED
        BY <4>3, <4>4
    <3>4. QED
      BY <3>2, <3>3
  <2>6. /\ Signal(f) \in TimeoutsAround(f) \cup {Caller}
        /\ Len(s) <= Len(Signal(f))
    BY <2>2, <2>5, SignalOwner
  <2>7. CASE Signal(f) = Caller
    <3>1. \A v \in TimeoutsAround(f) : ~ (Len(v) <= Len(Caller))
      BY <2>2, AroundPaths DEF TimeoutsAround, Caller
    <3>2. s = Caller
      BY <2>5, <2>6, <2>7, <3>1
    <3>3. QED
      BY <1>2, <2>7, <3>2
  <2>8. CASE Signal(f) \in TimeoutsAround(f)
    <3> DEFINE u == Signal(f)
    <3>1. u \in Around(f) /\ u \in Calls("timeout") /\ u \in Seq(Nat)
      BY <2>8, PathsOf DEF TimeoutsAround, Calls
    <3>2. IsPrefix(s, u)
      <4>1. CASE s = Caller
        <5>1. Len(s) = 0 /\ Len(u) \in Nat
          BY <3>1, <4>1 DEF Caller
        <5>2. SubSeq(s, 1, 0) = << >> /\ SubSeq(u, 1, 0) = << >>
          BY SubSeqEmpty
        <5>3. QED
          BY <5>1, <5>2 DEF IsPrefix
      <4>2. CASE s \in TimeoutsAround(f)
        BY <2>2, <2>6, <3>1, <4>2, AroundOrdered DEF TimeoutsAround
      <4>3. QED
        BY <2>5, <4>1, <4>2
    <3>3. {u} \cup TimeoutsAround(u) \subseteq TimeoutsAround(f)
      BY <2>2, <2>8, <3>1, AroundAround DEF TimeoutsAround
    <3>4. QED
      BY <1>2, <2>4, <3>1, <3>2, <3>3
  <2>9. QED
    BY <2>6, <2>7, <2>8
<1>10. QED
  BY <1>4, <1>6, <1>7, <1>8, <1>9 DEF OInv

LEMMA InitOInv == Init => OInv
<1>1. SUFFICES ASSUME Init PROVE OInv
  OBVIOUS
<1>2. PICK i \in DOMAIN Chains : frame = [f \in {<<i>>} |-> "start"]
  BY <1>1 DEF Init
<1>3. IInv /\ aborted = {}
  BY <1>1, InitIInv DEF Init
<1>4. DOMAIN frame = {<<i>>} /\ frame[<<i>>] = "start"
  BY <1>2
<1>5. \A n \in Nat : Append(<<i>>, n) \notin DOMAIN frame
  BY <1>3, <1>4, NoCallsYet DEF Counts
<1>6. Single(<<i>>) /\ Awaited(<<i>>)
  BY <1>5 DEF Single, Awaited
<1>7. Hears(<<i>>) /\ Reached(<<i>>)
  BY <1>3, <1>4 DEF Hears, Reached
<1>8. QED
  BY <1>4, <1>6, <1>7 DEF OInv

LEMMA NextOInv == IInv /\ IInv' /\ OInv /\ [Next]_vars => OInv'
<1>1. SUFFICES ASSUME IInv, IInv', OInv, [Next]_vars PROVE OInv'
  OBVIOUS
<1>2. ASSUME NEW f \in DOMAIN frame, frame[f] \in {"start", "admit"}
      PROVE  AllSettled(f) /\ frame[f] \notin Settled
  BY <1>1, <1>2, NoCallsYet DEF Counts, AllSettled, Settled, Outcomes
<1>3. ASSUME NEW f \in DOMAIN frame, Call(f) PROVE OInv'
  <2>1. CASE StartTimeout(f)
    <3>1. /\ Kind(f) = "timeout" /\ frame[f] = "start" /\ GotoInner(f, "wait")
          /\ listening \subseteq listening'
          /\ IF SignalAborted(f) THEN aborted' = aborted \cup {f}
                                 ELSE aborted' = aborted /\ f \in listening'
      BY <2>1 DEF StartTimeout, At
    <3>2. QED
      BY <1>1, <1>2, <3>1, CallsOn DEF MayCall
  <2>2. CASE StartRetry(f) \/ StartFailover(f) \/ StartBreaker(f) \/ StartOp(f)
    <3>1. /\ Kind(f) # "timeout" /\ frame[f] = "start"
          /\ listening' = listening /\ aborted' = aborted
      BY <2>2 DEF StartRetry, StartFailover, StartBreaker, StartOp, At
    <3>2. \/ Kind(f) # "op" /\ GotoInner(f, "wait")
          \/ \E pc \in {"resolved", "rejected", "admit", "wait"} : Goto(f, pc)
      BY <2>2 DEF StartRetry, StartFailover, StartBreaker, StartOp, At, Outcomes
    <3>3. CASE Kind(f) # "op" /\ GotoInner(f, "wait")
      BY <1>1, <1>2, <3>1, <3>3, CallsOn DEF MayCall
    <3>4. CASE \E pc \in {"resolved", "rejected", "admit", "wait"} : Goto(f, pc)
      BY <1>1, <1>2, <3>1, <3>4, MovesOn
    <3>5. QED
      BY <3>2, <3>3, <3>4
  <2>3. CASE OpThrows(f)
    BY <1>1, <2>3, OpThrowsOn
  <2>4. QED
    BY <1>3, <2>1, <2>2, <2>3 DEF Call
<1>4. ASSUME NEW f \in DOMAIN frame, frame[f] = "wait", InnerSettled(f)
      PROVE  AllSettled(f) /\ frame[f] \notin Settled
  BY <1>1, <1>4, NoneLeft DEF Settled, Outcomes
<1>5. ASSUME NEW f \in DOMAIN frame, Continue(f) PROVE OInv'
  <2>1. CASE FinishTimeout(f)
    <3>1. /\ Kind(f) = "timeout" /\ frame[f] = "wait" /\ Goto(f, RaceResult(f))
          /\ Raced(f) /\ aborted' = aborted /\ listening' = listening \ {f}
      BY <2>1 DEF FinishTimeout, At
    <3>2. RaceResult(f) \in Settled
      BY <3>1 DEF RaceResult, Raced, InnerSettled, InnerFailed, InnerIs, Settled, Outcomes
    <3>3. AllSettled(f) \/ (Kind(f) = "timeout" /\ f \in aborted)
      BY <1>4, <3>1 DEF Raced
    <3>4. frame[f] \notin Settled /\ RaceResult(f) # "start"
      BY <3>1, <3>2 DEF Settled, Outcomes
    <3>5. QED
      BY <1>1, <3>1, <3>2, <3>3, <3>4, MovesOn
  <2>2. CASE \/ RetryResolves(f) \/ RetryRejects(f) \/ RetryDelays(f)
             \/ BreakerRecords(f) \/ FailoverResolves(f) \/ FailoverGoesOn(f)
    <3>1. /\ Kind(f) \in {"retry", "breaker", "failover"} /\ frame[f] = "wait"
          /\ InnerSettled(f) /\ aborted' = aborted /\ listening \subseteq listening'
      BY <2>2 DEF RetryResolves, RetryRejects, RetryDelays, BreakerRecords,
                  FailoverResolves, FailoverGoesOn, At, InnerSettled, InnerFailed
    <3>2. \/ \E pc : pc # "start" /\ Goto(f, pc)
          \/ MayCall(f) /\ GotoInner(f, "wait")
      BY <2>2 DEF RetryResolves, RetryRejects, RetryDelays, BreakerRecords,
                  FailoverResolves, FailoverGoesOn, At, MayCall
    <3>3. CASE \E pc : pc # "start" /\ Goto(f, pc)
      BY <1>1, <1>4, <3>1, <3>3, MovesOn
    <3>4. CASE MayCall(f) /\ GotoInner(f, "wait")
      BY <1>1, <1>4, <3>1, <3>4, CallsOn
    <3>5. QED
      BY <3>2, <3>3, <3>4
  <2>3. QED
    BY <1>5, <2>1, <2>2 DEF Continue
<1>6. ASSUME NEW f \in DOMAIN frame, StoreAnswers(f) \/ OpSettles(f) PROVE OInv'
  <2>1. \/ /\ Kind(f) = "breaker" /\ frame[f] \in {"admit", "recordOk", "recordErr"}
        \/ Kind(f) = "op" /\ frame[f] = "wait"
    BY <1>6 DEF StoreAnswers, StoreAdmits, StoreRecords, OpSettles, At
  <2>2. \/ \E pc : pc # "start" /\ Goto(f, pc)
        \/ MayCall(f) /\ Kind(f) # "op" /\ GotoInner(f, "wait")
    BY <1>6 DEF StoreAnswers, StoreAdmits, StoreRecords, OpSettles, At, MayCall, Outcomes
  <2>3. listening' = listening /\ aborted' = aborted
    BY <1>6 DEF StoreAnswers, StoreAdmits, StoreRecords, OpSettles
  <2>4. AllSettled(f) /\ frame[f] \notin Settled
    <3>1. CASE Kind(f) = "breaker" /\ frame[f] \in {"admit", "recordOk", "recordErr"}
      BY <1>1, <3>1, NoneLeft DEF Settled, Outcomes
    <3>2. CASE Kind(f) = "op" /\ frame[f] = "wait"
      BY <1>1, <3>2 DEF OInv, Single, AllSettled, Settled, Outcomes
    <3>3. QED
      BY <2>1, <3>1, <3>2
  <2>5. CASE \E pc : pc # "start" /\ Goto(f, pc)
    BY <1>1, <2>1, <2>3, <2>4, <2>5, MovesOn
  <2>6. CASE MayCall(f) /\ Kind(f) # "op" /\ GotoInner(f, "wait")
    BY <1>1, <2>1, <2>3, <2>4, <2>6, CallsOn
  <2>7. QED
    BY <2>2, <2>5, <2>6
<1>7. ASSUME NEW f \in DOMAIN frame, DelayElapses(f) PROVE OInv'
  <2>1. /\ Kind(f) = "retry" /\ frame[f] = "delay" /\ GotoInner(f, "wait")
        /\ listening' = listening \ {f} /\ aborted' = aborted
    BY <1>7 DEF DelayElapses, At
  <2>2. AllSettled(f) /\ frame[f] \notin Settled
    BY <1>1, <2>1, NoneLeft DEF Settled, Outcomes
  <2>3. QED
    BY <1>1, <2>1, <2>2, CallsOn DEF MayCall
<1>8. ASSUME NEW f \in DOMAIN frame, TimeoutFires(f) PROVE OInv'
  BY <1>1, <1>8, PathsOf, AbortsOn DEF TimeoutFires
<1>9. CASE CallerAborts
  <2>1. Caller \in Seq(Nat) /\ Abort(Caller)
    BY <1>9 DEF CallerAborts, Caller
  <2>2. QED
    BY <1>1, <2>1, AbortsOn
<1>10. CASE Tick \/ UNCHANGED vars
  <2>1. frame' = frame /\ listening' = listening /\ aborted' = aborted
    BY <1>10 DEF Tick, vars
  <2>2. QED
    BY <1>1, <2>1 DEF OInv, Single, Awaited, Hears, Reached, SignalAborted
<1>11. QED
  BY <1>1, <1>3, <1>5, <1>6, <1>7, <1>8, <1>9, <1>10 DEF Next, Run, Fires

\* An operation still running below a settled call has had its signal aborted
\* (timeout.ts links the signals of nested timeouts).
THEOREM OrphansToldHolds == Spec => []OrphansTold
<1>1. IInv /\ OInv => OrphansTold
  <2>1. SUFFICES ASSUME IInv, OInv, NEW f \in Calls("op"), frame[f] = "wait",
                        NEW g \in Around(f), frame[g] \in Settled
                 PROVE  SignalAborted(f)
    BY DEF OrphansTold
  <2>2. f \in DOMAIN frame /\ frame[f] \notin Settled
    BY <2>1 DEF Calls, Settled, Outcomes
  <2>3. QED
    BY <2>1, <2>2, SettledAround
<1>2. QED
  BY <1>1, InitIInv, NextIInv, InitOInv, NextOInv, PTL DEF Spec

-----------------------------------------------------------------------------
(* Nothing is left behind *)

\* A timeout that listens on the signal of one that aborts with s does so too.
LEMMA ListenersHear ==
    ASSUME NEW f \in Seq(Nat), f # << >>, f \in Calls("timeout"), f \in listening,
           NEW s \in Seq(Nat), Signal(f) \in {s} \cup AbortedBy(s)
    PROVE  f \in AbortedBy(s) /\ f # s
<1> DEFINE t == Signal(f)
<1>1. t \in TimeoutsAround(f) \cup {Caller} /\ Len(f) \in Nat \ {0} /\ Len(s) \in Nat
  BY SignalOwner
<1>2. t \in Seq(Nat) /\ Len(t) < Len(f)
  <2>1. CASE t = Caller
    BY <1>1, <2>1 DEF Caller
  <2>2. CASE t \in Around(f)
    BY <1>1, <2>2, AroundPaths
  <2>3. QED
    BY <1>1, <2>1, <2>2 DEF TimeoutsAround
<1>3. IsPrefix(s, t)
  BY <1>2 DEF AbortedBy, IsPrefix
<1>4. Len(s) < Len(f)
  BY <1>1, <1>2, <1>3 DEF IsPrefix
<1>5. IsPrefix(s, f)
  <2>1. CASE t = Caller
    <3>1. Len(s) = 0
      BY <1>1, <1>3, <2>1 DEF IsPrefix, Caller
    <3>2. SubSeq(s, 1, 0) = << >> /\ SubSeq(f, 1, 0) = << >>
      BY SubSeqEmpty
    <3>3. QED
      BY <1>1, <3>1, <3>2 DEF IsPrefix
  <2>2. CASE t \in Around(f)
    <3>1. PICK n \in 1 .. Len(f) - 1 : t = SubSeq(f, 1, n)
      BY <2>2 DEF Around
    <3>2. Len(t) = n /\ Len(s) <= n
      BY <1>1, <1>3, <3>1 DEF IsPrefix
    <3>3. SubSeq(t, 1, Len(s)) = SubSeq(f, 1, Len(s))
      BY <1>1, <3>1, <3>2
    <3>4. QED
      BY <1>3, <1>4, <1>1, <3>3 DEF IsPrefix
  <2>3. QED
    BY <1>1, <2>1, <2>2 DEF TimeoutsAround
<1>6. ASSUME NEW v \in TimeoutsAround(f), IsStrictPrefix(s, v) PROVE v \in listening
  <2>1. v \in Around(f) /\ v \in Seq(Nat) /\ Len(v) \in Nat \ {0} /\ Kind(v) = "timeout"
    BY AroundPaths DEF TimeoutsAround
  <2>2. Len(v) <= Len(t)
    BY SignalOwner
  <2>3. t \in Around(f)
    BY <1>1, <2>1, <2>2 DEF Caller, TimeoutsAround
  <2>4. v = t \/ v \in TimeoutsAround(t)
    BY <2>1, <2>2, <2>3, AroundNested DEF TimeoutsAround
  <2>5. CASE t = s
    <3>1. Len(v) = Len(s)
      BY <1>1, <1>6, <2>1, <2>2, <2>5 DEF IsStrictPrefix, IsPrefix
    <3>2. SubSeq(v, 1, Len(v)) = v /\ SubSeq(s, 1, Len(s)) = s
      BY <2>1
    <3>3. QED
      BY <1>6, <3>1, <3>2 DEF IsStrictPrefix, IsPrefix
  <2>6. CASE t \in AbortedBy(s)
    BY <1>6, <2>4, <2>6 DEF AbortedBy
  <2>7. QED
    BY <2>5, <2>6
<1>7. QED
  BY <1>4, <1>5, <1>6 DEF AbortedBy

\* No call listens on a signal that has aborted.
NoneDeaf == \A f \in listening : ~SignalAborted(f)

LEMMA NextNoneDeaf == IInv /\ NoneDeaf /\ [Next]_vars => NoneDeaf'
<1>1. SUFFICES ASSUME IInv, NoneDeaf, [Next]_vars PROVE NoneDeaf'
  OBVIOUS
<1>2. listening \subseteq DOMAIN frame
  BY <1>1 DEF IInv, Shape
<1>3. ASSUME listening' \subseteq listening, aborted' = aborted PROVE NoneDeaf'
  BY <1>1, <1>3 DEF NoneDeaf, SignalAborted
<1>4. ASSUME NEW f, ~SignalAborted(f), aborted' = aborted, listening' = listening \cup {f}
      PROVE  NoneDeaf'
  BY <1>1, <1>4 DEF NoneDeaf, SignalAborted
<1>5. ASSUME NEW f \in DOMAIN frame, Call(f) PROVE NoneDeaf'
  <2>1. CASE StartTimeout(f)
    <3>1. /\ frame[f] = "start"
          /\ \/ aborted' = aborted \cup {f} /\ listening' = listening
             \/ ~SignalAborted(f) /\ aborted' = aborted /\ listening' = listening \cup {f}
      BY <2>1 DEF StartTimeout, At
    <3>2. \A g \in listening : Signal(g) # f
      BY <1>1, <1>2, <3>1, SignalStarted
    <3>3. CASE aborted' = aborted \cup {f} /\ listening' = listening
      BY <1>1, <3>2, <3>3 DEF NoneDeaf, SignalAborted
    <3>4. QED
      BY <1>4, <3>1, <3>3
  <2>2. CASE ~StartTimeout(f)
    <3>1. UNCHANGED <<listening, aborted>>
      BY <1>5, <2>2 DEF Call, StartRetry, StartBreaker, StartFailover, StartOp, OpThrows
    <3>2. QED
      BY <1>3, <3>1
  <2>3. QED
    BY <2>1, <2>2
<1>6. ASSUME NEW f \in DOMAIN frame, Continue(f) PROVE NoneDeaf'
  <2>1. CASE RetryDelays(f)
    BY <1>4, <2>1 DEF RetryDelays
  <2>2. CASE ~RetryDelays(f)
    <3>1. listening' \subseteq listening /\ aborted' = aborted
      BY <1>6, <2>2 DEF Continue, FinishTimeout, RetryResolves, RetryRejects,
                        BreakerRecords, FailoverResolves, FailoverGoesOn
    <3>2. QED
      BY <1>3, <3>1
  <2>3. QED
    BY <2>1, <2>2
<1>7. ASSUME NEW f \in DOMAIN frame, StoreAnswers(f) \/ OpSettles(f) \/ DelayElapses(f)
      PROVE  NoneDeaf'
  <2>1. listening' \subseteq listening /\ aborted' = aborted
    BY <1>7 DEF StoreAnswers, StoreAdmits, StoreRecords, OpSettles, DelayElapses
  <2>2. QED
    BY <1>3, <2>1
<1>8. ASSUME NEW s \in Seq(Nat), Abort(s) PROVE NoneDeaf'
  <2> DEFINE T == {s} \cup AbortedBy(s)
  <2>1. /\ aborted' = aborted \cup T
        /\ listening' = listening \ ((T \ {s}) \cup RejectedBy(T))
    BY <1>8 DEF Abort
  <2>2. SUFFICES ASSUME NEW f \in listening, f \notin (T \ {s}) \cup RejectedBy(T)
                 PROVE  Signal(f) \notin aborted'
    BY <2>1 DEF NoneDeaf, SignalAborted
  <2>3. f \in Seq(Nat) /\ f # << >>
    BY <1>1, <1>2, PathsOf
  <2>4. Kind(f) = "timeout" \/ frame[f] = "delay"
    BY <1>1, <1>2 DEF IInv, Armed
  <2>5. Signal(f) \notin T
    <3>1. CASE Kind(f) = "timeout"
      <4>1. f \in Calls("timeout")
        BY <1>2, <3>1 DEF Calls
      <4>2. QED
        BY <2>2, <2>3, <4>1, ListenersHear
    <3>2. CASE frame[f] = "delay"
      BY <2>2, <3>2 DEF RejectedBy
    <3>3. QED
      BY <2>4, <3>1, <3>2
  <2>6. Signal(f) \notin aborted
    BY <1>1 DEF NoneDeaf, SignalAborted
  <2>7. QED
    BY <2>1, <2>5, <2>6
<1>9. ASSUME NEW f \in DOMAIN frame, TimeoutFires(f) PROVE NoneDeaf'
  <2>1. f \in Seq(Nat) /\ Abort(f)
    BY <1>1, <1>9, PathsOf DEF TimeoutFires
  <2>2. QED
    BY <1>8, <2>1
<1>10. CASE CallerAborts
  <2>1. Caller \in Seq(Nat) /\ Abort(Caller)
    BY <1>10 DEF CallerAborts, Caller
  <2>2. QED
    BY <1>8, <2>1
<1>11. CASE Tick \/ UNCHANGED vars
  BY <1>3, <1>11 DEF Tick, vars
<1>12. QED
  BY <1>1, <1>5, <1>6, <1>7, <1>9, <1>10, <1>11 DEF Next, Run, Fires

\* No timer and no abort listener stays behind a call whose promise has settled,
\* and none on a signal that has aborted (the finally() and the { once: true } of
\* timeout.ts, and delay() of clock.ts).
THEOREM NothingLeftBehindHolds == Spec => []NothingLeftBehind
<1>1. Init => NoneDeaf
  BY DEF Init, NoneDeaf
<1>2. IInv /\ NoneDeaf => NothingLeftBehind
  BY DEF IInv, Armed, NoneDeaf, NothingLeftBehind, Outcomes
<1>3. QED
  BY <1>1, <1>2, InitIInv, NextIInv, NextNoneDeaf, PTL DEF Spec

-----------------------------------------------------------------------------
(* A success is final *)

\* Every call belongs to the one execution.
SameChain == \A f, g \in DOMAIN frame : f[1] = g[1]

\* A call of f that has succeeded is its last, and f has succeeded or still
\* can, unless it is a timeout that has given it up or a breaker that could not
\* record it.
Keeps(f) ==
    \/ frame[f] \in {"wait", "recordOk", "resolved"}
    \/ Kind(f) = "timeout" /\ f \in aborted
    \/ Kind(f) = "breaker" /\ frame[f] \in {"recordErr", "rejected"}

Succeeded(f, n) == Append(f, n) \in DOMAIN frame /\ frame[Append(f, n)] = "resolved"

Kept(f) ==
    \A n \in Nat : Succeeded(f, n) => Append(f, n + 1) \notin DOMAIN frame /\ Keeps(f)

RInv == SameChain /\ \A f \in DOMAIN frame : Kept(f)

\* No call of f has succeeded when the last one has failed, nor in a delay.
LEMMA NoneSucceeded ==
    ASSUME IInv, RInv, NEW f \in DOMAIN frame,
           InnerFailed(f) \/ frame[f] \in {"start", "admit"} \/
           (frame[f] = "delay" /\ Kind(f) = "retry")
    PROVE  \A n \in Nat : ~Succeeded(f, n)
<1>1. SUFFICES ASSUME NEW n \in Nat, Succeeded(f, n) PROVE FALSE
  OBVIOUS
<1>2. Append(f, n + 1) \notin DOMAIN frame /\ Keeps(f)
  BY <1>1 DEF RInv, Kept
<1>3. Attempts(f) \in 0 .. MaxAttempts /\ Counts(f, Attempts(f)) /\ MaxAttempts \in Nat
  BY CallsSoFar, PathsOf
<1>4. n < Attempts(f) /\ ~ (n + 1 < Attempts(f))
  BY <1>1, <1>2, <1>3 DEF Counts, Succeeded
<1>5. n = Attempts(f) - 1
  BY <1>3, <1>4
<1>6. InnerIs(f, "resolved")
  BY <1>1, <1>3, <1>4, <1>5 DEF InnerIs, Inner, Succeeded
<1>7. ~InnerFailed(f)
  BY <1>6 DEF InnerFailed, InnerIs
<1>8. CASE frame[f] \in {"start", "admit"}
  BY <1>4, <1>8, NoCallsYet
<1>9. CASE frame[f] = "delay" /\ Kind(f) = "retry"
  BY <1>2, <1>9 DEF Keeps
<1>10. QED
  BY <1>7, <1>8, <1>9

\* A call that moves on when none of its own has succeeded, or to where it
\* keeps a success.
LEMMA MovesKeep ==
    ASSUME IInv, OInv, RInv, NEW f \in DOMAIN frame, NEW pc, Goto(f, pc),
           frame[f] \notin Settled, aborted' = aborted,
           (\A n \in Nat : ~Succeeded(f, n)) \/ Keeps(f)'
    PROVE  RInv'
<1>1. /\ DOMAIN frame' = DOMAIN frame /\ frame'[f] = pc
      /\ \A g \in DOMAIN frame \ {f} : frame'[g] = frame[g]
  BY DEF Goto
<1>2. SameChain'
  BY <1>1 DEF RInv, SameChain
<1>3. ASSUME NEW g \in DOMAIN frame PROVE Kept(g)'
  <2>1. SUFFICES ASSUME NEW n \in Nat, Append(g, n) \in DOMAIN frame,
                        frame'[Append(g, n)] = "resolved"
                 PROVE  Append(g, n + 1) \notin DOMAIN frame /\ Keeps(g)'
    BY <1>1 DEF Kept, Succeeded
  <2>2. Append(g, n) # g
    BY PathsOf, AppendPath
  <2>3. CASE Append(g, n) = f
    <3>1. /\ Append(g, n + 1) \notin DOMAIN frame
          /\ frame[g] = "wait" \/ (Kind(g) = "timeout" /\ g \in aborted)
      BY <2>1, <2>3 DEF OInv, Awaited
    <3>2. QED
      BY <1>1, <2>2, <2>3, <3>1 DEF Keeps
  <2>4. CASE Append(g, n) # f
    <3>1. Succeeded(g, n)
      BY <1>1, <2>1, <2>4 DEF Succeeded
    <3>2. Append(g, n + 1) \notin DOMAIN frame /\ Keeps(g)
      BY <3>1 DEF RInv, Kept
    <3>3. CASE g = f
      BY <3>1, <3>2, <3>3
    <3>4. CASE g # f
      BY <1>1, <3>2, <3>4 DEF Keeps
    <3>5. QED
      BY <3>3, <3>4
  <2>5. QED
    BY <2>3, <2>4
<1>4. QED
  BY <1>1, <1>2, <1>3 DEF RInv

\* A call that makes another, when none before has succeeded.
LEMMA CallsKeep ==
    ASSUME IInv, RInv, NEW f \in DOMAIN frame, MayCall(f), GotoInner(f, "wait"),
           \A n \in Nat : ~Succeeded(f, n), aborted \subseteq aborted'
    PROVE  RInv'
<1> DEFINE inner == Append(f, Attempts(f))
<1>1. /\ inner \notin DOMAIN frame /\ inner # f
      /\ DOMAIN frame' = DOMAIN frame \cup {inner}
      /\ frame'[inner] = "start" /\ frame'[f] = "wait"
      /\ \A g \in DOMAIN frame \ {f} : frame'[g] = frame[g]
  BY CallsGo, NewCall
<1>2. /\ f \in Seq(Nat) /\ f # << >> /\ Attempts(f) \in Nat
      /\ \A g \in DOMAIN frame : g \in Seq(Nat) /\ g # << >>
  BY CallsGo, PathsOf
<1>3. inner[1] = f[1] /\ inner \in Seq(Nat)
  BY <1>2, AppendPath
<1>4. \A g \in DOMAIN frame \ {f}, n \in Nat : Append(g, n) # inner
  BY <1>2, AppendInjective
<1>5. SameChain'
  BY <1>1, <1>3 DEF RInv, SameChain
<1> HIDE DEF inner
<1>6. ASSUME NEW g \in DOMAIN frame' PROVE Kept(g)'
  <2>1. SUFFICES ASSUME NEW n \in Nat, Append(g, n) \in DOMAIN frame',
                        frame'[Append(g, n)] = "resolved"
                 PROVE  Append(g, n + 1) \notin DOMAIN frame' /\ Keeps(g)'
    BY DEF Kept, Succeeded
  <2>2. Append(g, n) \in DOMAIN frame \ {f} /\ frame[Append(g, n)] = "resolved"
    BY <1>1, <2>1
  <2>3. g # f
    BY <2>2 DEF Succeeded
  <2>4. g # inner
    <3>1. SUFFICES ASSUME g = inner PROVE FALSE
      OBVIOUS
    <3>2. inner # << >>
      BY <1>2, AppendPath DEF inner
    <3>3. inner \in Around(Append(g, n))
      BY <1>3, <3>1, <3>2, AroundAppend
    <3>4. QED
      BY <1>1, <2>2, <3>3 DEF IInv, Nested
  <2>5. g \in DOMAIN frame \ {f} /\ n + 1 \in Nat
    BY <1>1, <2>3, <2>4
  <2>6. Append(g, n + 1) \notin DOMAIN frame /\ Keeps(g)
    BY <2>2, <2>5 DEF RInv, Kept, Succeeded
  <2>7. QED
    BY <1>1, <1>4, <2>5, <2>6 DEF Keeps
<1>7. QED
  BY <1>5, <1>6 DEF RInv

\* An operation that throws: no call it passes has succeeded.
LEMMA ThrowKeeps ==
    ASSUME IInv, OInv, RInv, NEW f \in DOMAIN frame, OpThrows(f)
    PROVE  RInv'
<1>1. /\ Kind(f) = "op" /\ aborted' = aborted
      /\ frame' = [g \in DOMAIN frame |->
                      IF g = f \/ g \in PassedBy(f) THEN "threw" ELSE frame[g]]
  BY DEF OpThrows, At
<1>2. /\ DOMAIN frame' = DOMAIN frame
      /\ \A g \in DOMAIN frame :
            \/ (g = f \/ g \in PassedBy(f)) /\ frame'[g] = "threw"
            \/ ~ (g = f \/ g \in PassedBy(f)) /\ frame'[g] = frame[g]
  BY <1>1
<1>3. f \in Seq(Nat) /\ \A g \in Around(f) : g \in DOMAIN frame /\ Len(g) \in Nat
  BY PathsOf
<1>4. SameChain'
  BY <1>2 DEF RInv, SameChain
<1>5. ASSUME NEW g \in DOMAIN frame PROVE Kept(g)'
  <2>1. SUFFICES ASSUME NEW n \in Nat, Append(g, n) \in DOMAIN frame,
                        frame'[Append(g, n)] = "resolved"
                 PROVE  Append(g, n + 1) \notin DOMAIN frame /\ Keeps(g)'
    BY <1>2 DEF Kept, Succeeded
  <2>2. /\ Append(g, n) # f /\ Append(g, n) \notin PassedBy(f)
        /\ frame[Append(g, n)] = "resolved"
    BY <1>2, <2>1
  <2>3. Append(g, n + 1) \notin DOMAIN frame /\ Keeps(g)
    BY <2>1, <2>2 DEF RInv, Kept, Succeeded
  <2>4. g # f
    BY <1>1, <2>1 DEF OInv, Single
  <2>5. g \notin PassedBy(f)
    BY <1>3, <2>1, <2>2, PassedOn
  <2>6. QED
    BY <1>1, <1>2, <2>3, <2>4, <2>5 DEF Keeps
<1>6. QED
  BY <1>2, <1>4, <1>5 DEF RInv

\* An abort: the delays it rejects follow a failure.
LEMMA AbortKeeps ==
    ASSUME IInv, RInv, NEW s, Abort(s)
    PROVE  RInv'
<1> DEFINE T == {s} \cup AbortedBy(s)
           R == RejectedBy(T)
<1>1. /\ aborted' = aborted \cup T
      /\ frame' = [f \in DOMAIN frame |-> IF f \in R THEN "rejected" ELSE frame[f]]
  BY DEF Abort
<1>2. ASSUME NEW f \in R PROVE frame[f] = "delay"
  BY DEF RejectedBy
<1> HIDE DEF T, R
<1>3. /\ DOMAIN frame' = DOMAIN frame
      /\ \A f \in DOMAIN frame :
            \/ f \in R /\ frame'[f] = "rejected"
            \/ f \notin R /\ frame'[f] = frame[f]
  BY <1>1
<1>4. SameChain'
  BY <1>3 DEF RInv, SameChain
<1>5. ASSUME NEW f \in DOMAIN frame PROVE Kept(f)'
  <2>1. SUFFICES ASSUME NEW n \in Nat, Append(f, n) \in DOMAIN frame,
                        frame'[Append(f, n)] = "resolved"
                 PROVE  Append(f, n + 1) \notin DOMAIN frame /\ Keeps(f)'
    BY <1>3 DEF Kept, Succeeded
  <2>2. Succeeded(f, n)
    BY <1>3, <2>1 DEF Succeeded
  <2>3. Append(f, n + 1) \notin DOMAIN frame /\ Keeps(f)
    BY <2>2 DEF RInv, Kept
  <2>4. CASE f \in R
    <3>1. frame[f] = "delay" /\ Kind(f) = "retry"
      BY <1>2, <2>4 DEF IInv, Told
    <3>2. QED
      BY <2>2, <3>1, NoneSucceeded
  <2>5. CASE f \notin R
    BY <1>1, <1>3, <2>3, <2>5 DEF Keeps
  <2>6. QED
    BY <2>4, <2>5
<1>6. QED
  BY <1>3, <1>4, <1>5 DEF RInv

LEMMA InitRInv == Init => RInv
<1>1. SUFFICES ASSUME Init PROVE RInv
  OBVIOUS
<1>2. PICK i \in DOMAIN Chains : frame = [f \in {<<i>>} |-> "start"]
  BY <1>1 DEF Init
<1>3. IInv
  BY <1>1, InitIInv
<1>4. DOMAIN frame = {<<i>>} /\ frame[<<i>>] = "start"
  BY <1>2
<1>5. \A n \in Nat : Append(<<i>>, n) \notin DOMAIN frame
  BY <1>3, <1>4, NoCallsYet DEF Counts
<1>6. Kept(<<i>>)
  BY <1>5 DEF Kept, Succeeded
<1>7. SameChain
  BY <1>4 DEF SameChain
<1>8. QED
  BY <1>4, <1>6, <1>7 DEF RInv

LEMMA NextRInv == IInv /\ OInv /\ RInv /\ [Next]_vars => RInv'
<1>1. SUFFICES ASSUME IInv, OInv, RInv, [Next]_vars PROVE RInv'
  OBVIOUS
<1>2. ASSUME NEW f \in DOMAIN frame, Call(f) PROVE RInv'
  <2>1. CASE OpThrows(f)
    BY <1>1, <2>1, ThrowKeeps
  <2>2. CASE ~OpThrows(f)
    <3>1. /\ frame[f] = "start" /\ aborted \subseteq aborted'
          /\ \/ GotoInner(f, "wait")
             \/ aborted' = aborted /\ \E pc : Goto(f, pc)
      BY <1>2, <2>2 DEF Call, StartTimeout, StartRetry, StartBreaker, StartFailover,
                        StartOp, At
    <3>2. \A n \in Nat : ~Succeeded(f, n)
      BY <1>1, <3>1, NoneSucceeded
    <3>3. CASE GotoInner(f, "wait")
      BY <1>1, <3>1, <3>2, <3>3, CallsKeep DEF MayCall
    <3>4. CASE aborted' = aborted /\ \E pc : Goto(f, pc)
      BY <1>1, <3>1, <3>2, <3>4, MovesKeep DEF Settled, Outcomes
    <3>5. QED
      BY <3>1, <3>3, <3>4
  <2>3. QED
    BY <2>1, <2>2
<1>3. ASSUME NEW f \in DOMAIN frame, Continue(f) PROVE RInv'
  <2>1. /\ frame[f] = "wait" /\ aborted' = aborted /\ frame[f] \notin Settled
    BY <1>3 DEF Continue, FinishTimeout, RetryResolves, RetryRejects, RetryDelays,
                BreakerRecords, FailoverResolves, FailoverGoesOn, At, Settled, Outcomes
  <2>2. ASSUME NEW pc, Goto(f, pc) PROVE frame'[f] = pc
    BY <2>2 DEF Goto
  <2>3. CASE InnerFailed(f) /\ ~FinishTimeout(f)
    <3>1. \/ \E pc : Goto(f, pc)
          \/ MayCall(f) /\ GotoInner(f, "wait")
      BY <1>3, <2>3 DEF Continue, RetryResolves, RetryRejects, RetryDelays,
                BreakerRecords, FailoverResolves, FailoverGoesOn, At, MayCall
    <3>2. \A n \in Nat : ~Succeeded(f, n)
      BY <1>1, <2>3, NoneSucceeded
    <3>3. CASE \E pc : Goto(f, pc)
      BY <1>1, <2>1, <3>2, <3>3, MovesKeep
    <3>4. CASE MayCall(f) /\ GotoInner(f, "wait")
      BY <1>1, <2>1, <3>2, <3>4, CallsKeep
    <3>5. QED
      BY <3>1, <3>3, <3>4
  <2>4. CASE ~InnerFailed(f) /\ ~FinishTimeout(f)
    <3>1. \E pc \in {"resolved", "recordOk"} : Goto(f, pc)
      BY <1>3, <2>4 DEF Continue, RetryResolves, RetryRejects, RetryDelays,
                BreakerRecords, FailoverResolves, FailoverGoesOn
    <3>2. QED
      BY <1>1, <2>1, <2>2, <3>1, MovesKeep DEF Keeps
  <2>5. CASE FinishTimeout(f)
    <3>1. Kind(f) = "timeout" /\ Raced(f) /\ Goto(f, RaceResult(f))
      BY <2>5 DEF FinishTimeout, At
    <3>2. CASE f \in aborted
      BY <1>1, <2>1, <3>1, <3>2, MovesKeep DEF Keeps
    <3>3. CASE f \notin aborted /\ InnerIs(f, "resolved")
      <4>1. Goto(f, "resolved")
        BY <3>1, <3>3 DEF RaceResult, InnerSettled, InnerIs
      <4>2. QED
        BY <1>1, <2>1, <2>2, <4>1, MovesKeep DEF Keeps
    <3>4. CASE InnerFailed(f)
      BY <1>1, <2>1, <3>1, <3>4, NoneSucceeded, MovesKeep
    <3>5. QED
      BY <3>1, <3>2, <3>3, <3>4 DEF Raced, InnerSettled
  <2>6. QED
    BY <2>3, <2>4, <2>5
<1>4. ASSUME NEW f \in DOMAIN frame, StoreAdmits(f) PROVE RInv'
  <2>1. /\ frame[f] = "admit" /\ aborted' = aborted
        /\ GotoInner(f, "wait") \/ Goto(f, "rejected")
    BY <1>4 DEF StoreAdmits, At
  <2>2. \A n \in Nat : ~Succeeded(f, n)
    BY <1>1, <2>1, NoneSucceeded
  <2>3. QED
    BY <1>1, <2>1, <2>2, CallsKeep, MovesKeep DEF MayCall, Settled, Outcomes
<1>5. ASSUME NEW f \in DOMAIN frame, StoreRecords(f) PROVE RInv'
  <2>1. /\ Kind(f) = "breaker" /\ aborted' = aborted /\ frame[f] \notin Settled
        /\ \E pc \in {"resolved", "recordErr", "rejected"} : Goto(f, pc)
    BY <1>5 DEF StoreRecords, At, Settled, Outcomes
  <2>2. PICK pc \in {"resolved", "recordErr", "rejected"} : Goto(f, pc)
    BY <2>1
  <2>3. frame'[f] = pc
    BY <2>2 DEF Goto
  <2>4. Keeps(f)'
    BY <2>1, <2>3 DEF Keeps
  <2>5. QED
    BY <1>1, <2>1, <2>2, <2>4, MovesKeep
<1>6. ASSUME NEW f \in DOMAIN frame, OpSettles(f) PROVE RInv'
  <2>1. /\ Kind(f) = "op" /\ frame[f] \notin Settled /\ aborted' = aborted
        /\ \E pc : Goto(f, pc)
    BY <1>6 DEF OpSettles, At, Settled, Outcomes
  <2>2. \A n \in Nat : ~Succeeded(f, n)
    BY <1>1, <2>1 DEF OInv, Single, Succeeded
  <2>3. QED
    BY <1>1, <2>1, <2>2, MovesKeep
<1>7. ASSUME NEW f \in DOMAIN frame, DelayElapses(f) PROVE RInv'
  <2>1. /\ Kind(f) = "retry" /\ frame[f] = "delay" /\ GotoInner(f, "wait")
        /\ aborted' = aborted
    BY <1>7 DEF DelayElapses, At
  <2>2. \A n \in Nat : ~Succeeded(f, n)
    BY <1>1, <2>1, NoneSucceeded
  <2>3. QED
    BY <1>1, <2>1, <2>2, CallsKeep DEF MayCall
<1>8. ASSUME NEW s, Abort(s) PROVE RInv'
  BY <1>1, <1>8, AbortKeeps
<1>9. CASE Tick \/ UNCHANGED vars
  <2>1. frame' = frame /\ aborted' = aborted
    BY <1>9 DEF Tick, vars
  <2>2. QED
    BY <1>1, <2>1 DEF RInv, SameChain, Kept, Succeeded, Keeps
<1>10. QED
  BY <1>1, <1>2, <1>3, <1>4, <1>5, <1>6, <1>7, <1>8, <1>9
     DEF Next, Run, Fires, TimeoutFires, StoreAnswers, CallerAborts

\* Two calls of one chain, neither around the other, part at a call around both.
LEMMA PartingCall ==
    ASSUME NEW f \in Seq(Nat), NEW g \in Seq(Nat), f # << >>, g # << >>, f[1] = g[1],
           f # g, f \notin Around(g), g \notin Around(f)
    PROVE  \E p \in Around(f) \cap Around(g), a \in Nat, b \in Nat :
              /\ a # b
              /\ Append(p, a) \in Around(f) \cup {f}
              /\ Append(p, b) \in Around(g) \cup {g}
<1> DEFINE K == {k \in 1 .. Len(f) : k <= Len(g) /\ SubSeq(f, 1, k) = SubSeq(g, 1, k)}
<1>1. Len(f) \in Nat \ {0} /\ Len(g) \in Nat \ {0}
  OBVIOUS
<1>2. 1 \in K
  <2>1. /\ SubSeq(f, 1, 1) \in Seq(Nat) /\ SubSeq(g, 1, 1) \in Seq(Nat)
        /\ Len(SubSeq(f, 1, 1)) = 1 /\ Len(SubSeq(g, 1, 1)) = 1
        /\ SubSeq(f, 1, 1)[1] = f[1] /\ SubSeq(g, 1, 1)[1] = g[1]
    BY <1>1
  <2>2. SubSeq(f, 1, 1) = SubSeq(g, 1, 1)
    BY <2>1, SeqEqual
  <2>3. QED
    BY <1>1, <2>2
<1>3. K \in SUBSET (0 .. Len(f)) /\ K # {}
  BY <1>1, <1>2
<1>4. PICK m \in K : \A k \in K : k <= m
  BY <1>1, <1>3, MaxExists
<1>5. m \in 1 .. Len(f) /\ m <= Len(g) /\ SubSeq(f, 1, m) = SubSeq(g, 1, m)
  BY <1>4
<1>6. SubSeq(f, 1, Len(f)) = f /\ SubSeq(g, 1, Len(g)) = g
  BY SubSeqFull
<1>7. m # Len(f)
  <2>1. SUFFICES ASSUME m = Len(f) PROVE FALSE
    OBVIOUS
  <2>2. f = SubSeq(g, 1, m)
    BY <1>5, <1>6, <2>1
  <2>3. m # Len(g)
    BY <1>6, <2>2
  <2>4. m \in 1 .. Len(g) - 1
    BY <1>1, <1>5, <2>3
  <2>5. QED
    BY <2>2, <2>4 DEF Around
<1>8. m # Len(g)
  <2>1. SUFFICES ASSUME m = Len(g) PROVE FALSE
    OBVIOUS
  <2>2. g = SubSeq(f, 1, m)
    BY <1>5, <1>6, <2>1
  <2>3. m \in 1 .. Len(f) - 1
    BY <1>1, <1>5, <1>7
  <2>4. QED
    BY <2>2, <2>3 DEF Around
<1>9. m \in 1 .. Len(f) - 1 /\ m \in 1 .. Len(g) - 1
  BY <1>1, <1>5, <1>7, <1>8
<1> DEFINE p == SubSeq(f, 1, m)
<1>10. p \in Around(f) /\ p \in Around(g)
  BY <1>5, <1>9 DEF Around
<1>11. f[m + 1] \in Nat /\ g[m + 1] \in Nat
  BY <1>1, <1>9
<1>12. Append(p, f[m + 1]) = SubSeq(f, 1, m + 1)
  BY <1>1, <1>9
<1>13. Append(p, g[m + 1]) = SubSeq(g, 1, m + 1)
  <2>1. Append(SubSeq(g, 1, m), g[m + 1]) = SubSeq(g, 1, m + 1)
    BY <1>1, <1>9
  <2>2. QED
    BY <1>5, <2>1
<1>14. f[m + 1] # g[m + 1]
  <2>1. SUFFICES ASSUME f[m + 1] = g[m + 1] PROVE FALSE
    OBVIOUS
  <2>2. SubSeq(f, 1, m + 1) = SubSeq(g, 1, m + 1)
    BY <1>12, <1>13, <2>1
  <2>3. m + 1 \in 1 .. Len(f) /\ m + 1 <= Len(g)
    BY <1>1, <1>9
  <2>4. m + 1 \in K
    BY <2>2, <2>3
  <2>5. QED
    BY <1>4, <1>5, <2>4
<1>15. SubSeq(f, 1, m + 1) \in Around(f) \cup {f}
  <2>1. CASE m + 1 = Len(f)
    BY <1>6, <2>1
  <2>2. CASE m + 1 # Len(f)
    <3>1. m + 1 \in 1 .. Len(f) - 1
      BY <1>1, <1>9, <2>2
    <3>2. QED
      BY <3>1 DEF Around
  <2>3. QED
    BY <2>1, <2>2
<1>16. SubSeq(g, 1, m + 1) \in Around(g) \cup {g}
  <2>1. CASE m + 1 = Len(g)
    BY <1>6, <2>1
  <2>2. CASE m + 1 # Len(g)
    <3>1. m + 1 \in 1 .. Len(g) - 1
      BY <1>1, <1>9, <2>2
    <3>2. QED
      BY <3>1 DEF Around
  <2>3. QED
    BY <2>1, <2>2
<1> HIDE DEF p
<1>17. QED
  BY <1>10, <1>11, <1>12, <1>13, <1>14, <1>15, <1>16

\* An operation is around no call.
LEMMA OpInnermost ==
    ASSUME IInv, OInv, NEW f \in DOMAIN frame, NEW g \in Around(f)
    PROVE  Kind(g) # "op"
<1>1. f \in Seq(Nat) /\ g \in DOMAIN frame
  BY PathsOf
<1>2. PICK n \in Nat : Append(g, n) = f \/ Append(g, n) \in Around(f)
  BY <1>1, NextOnTheWay
<1>3. Append(g, n) \in DOMAIN frame
  BY <1>2, PathsOf
<1>4. QED
  BY <1>1, <1>3 DEF OInv, Single

\* Of a success a failed call around it was not told: a timeout gave it up, or a
\* breaker could not record it.
LEMMA SuccessLost ==
    ASSUME IInv, OInv, RInv, NEW f \in DOMAIN frame, frame[f] = "resolved",
           NEW c \in Around(f), frame[c] \in Settled \ {"resolved"}
    PROVE  \/ GivenUp(f)
           \/ \E g \in Around(f) : Kind(g) = "breaker" /\ frame[g] = "rejected"
<1> DEFINE S == {h \in Around(f) : frame[h] # "resolved" /\ Len(c) <= Len(h)}
           L == {Len(h) : h \in S}
<1>1. f \in Seq(Nat) /\ Len(f) \in Nat
  BY PathsOf
<1>2. \A h \in Around(f) : Len(h) \in 0 .. Len(f) /\ h \in DOMAIN frame
  BY <1>1, AroundPaths, PathsOf
<1>3. L \in SUBSET (0 .. Len(f)) /\ L # {}
  <2>1. c \in S
    BY <1>2
  <2>2. QED
    BY <1>2, <2>1
<1>4. PICK m \in L : \A n \in L : n <= m
  BY <1>1, <1>3, MaxExists
<1>5. PICK h \in S : Len(h) = m
  BY <1>4
<1>6. h \in Around(f) /\ frame[h] # "resolved" /\ Len(c) <= Len(h) /\ h \in DOMAIN frame
  BY <1>2, <1>5
<1>7. PICK n \in Nat : /\ Append(h, n) = f \/ Append(h, n) \in Around(f)
                      /\ Len(Append(h, n)) = Len(h) + 1
  BY <1>1, <1>6, NextOnTheWay
<1>8. Append(h, n) \in DOMAIN frame
  BY <1>2, <1>7
<1>9. frame[Append(h, n)] = "resolved"
  <2>1. CASE Append(h, n) = f
    BY <2>1
  <2>2. CASE Append(h, n) \in Around(f)
    <3>1. SUFFICES ASSUME frame[Append(h, n)] # "resolved" PROVE FALSE
      OBVIOUS
    <3>2. Len(c) <= Len(Append(h, n))
      BY <1>2, <1>6, <1>7
    <3>3. Len(h) + 1 \in L
      BY <1>7, <2>2, <3>1, <3>2
    <3>4. Len(h) + 1 <= Len(h) /\ Len(h) \in Nat
      BY <1>2, <1>4, <1>5, <1>6, <3>3
    <3>5. QED
      BY <3>4
  <2>3. QED
    BY <1>7, <2>1, <2>2
<1>10. Keeps(h)
  BY <1>6, <1>8, <1>9 DEF RInv, Kept, Succeeded
<1>11. CASE Kind(h) = "timeout" /\ h \in aborted
  BY <1>6, <1>11 DEF GivenUp, TimeoutsAround
<1>12. CASE Kind(h) = "breaker" /\ frame[h] = "rejected"
  BY <1>6, <1>12
<1>13. CASE frame[h] \in {"wait", "recordOk", "recordErr"}
  <2>1. frame[h] \notin Settled /\ h # c
    BY <1>13 DEF Settled, Outcomes
  <2>2. c \in Around(h)
    BY <1>1, <1>6, <2>1, AroundNested
  <2>3. GivenUp(h)
    BY <1>6, <2>1, <2>2, SettledGaveUp
  <2>4. Around(h) \subseteq Around(f)
    BY <1>1, <1>6, AroundAround
  <2>5. QED
    BY <2>3, <2>4 DEF GivenUp, TimeoutsAround
<1>14. QED
  BY <1>6, <1>10, <1>11, <1>12, <1>13 DEF Keeps

\* What a starting operation says of one that has succeeded.
Final ==
    \A new, f \in Calls("op") :
        frame[new] = "start" /\ ~GivenUp(new) /\ frame[f] = "resolved" =>
            \/ GivenUp(f)
            \/ \E g \in Around(f) : Kind(g) = "breaker" /\ frame[g] = "rejected"

\* One of the two calls at which the ways to both operations part is settled.
LEMMA FinalHolds == IInv /\ OInv /\ RInv => Final
<1>1. SUFFICES ASSUME IInv, OInv, RInv, NEW new \in Calls("op"), NEW f \in Calls("op"),
                      frame[new] = "start", ~GivenUp(new), frame[f] = "resolved"
               PROVE  \/ GivenUp(f)
                      \/ \E g \in Around(f) : Kind(g) = "breaker" /\ frame[g] = "rejected"
  BY DEF Final
<1>2. /\ new \in DOMAIN frame /\ f \in DOMAIN frame /\ new # f
      /\ Kind(new) = "op" /\ Kind(f) = "op"
  BY <1>1 DEF Calls
<1>3. /\ new \in Seq(Nat) /\ new # << >> /\ f \in Seq(Nat) /\ f # << >>
      /\ new[1] = f[1]
  BY <1>1, <1>2, PathsOf DEF RInv, SameChain
<1>4. f \notin Around(new) /\ new \notin Around(f)
  BY <1>1, <1>2, OpInnermost
<1>5. PICK p \in Around(f) \cap Around(new), a \in Nat, b \in Nat :
              /\ a # b
              /\ Append(p, a) \in Around(f) \cup {f}
              /\ Append(p, b) \in Around(new) \cup {new}
  BY <1>2, <1>3, <1>4, PartingCall
<1>6. /\ p \in DOMAIN frame
      /\ Append(p, a) \in DOMAIN frame /\ Append(p, b) \in DOMAIN frame
  BY <1>1, <1>2, <1>5, PathsOf
<1>7. PICK k \in 0 .. MaxAttempts : Counts(p, k)
  BY <1>1, <1>6 DEF IInv, Counted
<1>8. a < k /\ b < k /\ k \in Nat
  BY <1>1, <1>2, <1>6, <1>7, PathsOf DEF Counts
<1>9. CASE b < a
  <2>1. b + 1 \in Nat /\ b + 1 < k
    BY <1>8, <1>9
  <2>2. Append(p, b + 1) \in DOMAIN frame
    BY <1>7, <2>1 DEF Counts
  <2>3. frame[Append(p, b)] \in Settled
    BY <1>1, <1>6, <2>2 DEF OInv, Awaited
  <2>4. frame[new] \notin Settled
    BY <1>1 DEF Settled, Outcomes
  <2>5. Append(p, b) \in Around(new)
    BY <1>5, <2>3, <2>4
  <2>6. QED
    BY <1>1, <1>2, <2>3, <2>4, <2>5, SettledGaveUp
<1>10. CASE a < b
  <2>1. a + 1 \in Nat /\ a + 1 < k
    BY <1>8, <1>10
  <2>2. Append(p, a + 1) \in DOMAIN frame
    BY <1>7, <2>1 DEF Counts
  <2>3. frame[Append(p, a)] \in Settled
    BY <1>1, <1>6, <2>2 DEF OInv, Awaited
  <2>4. frame[Append(p, a)] # "resolved"
    BY <1>1, <1>6, <2>2 DEF RInv, Kept, Succeeded
  <2>5. Append(p, a) \in Around(f)
    BY <1>1, <1>5, <2>4
  <2>6. QED
    BY <1>1, <1>2, <2>3, <2>4, <2>5, SuccessLost
<1>11. QED
  BY <1>5, <1>9, <1>10

\* After a success no other operation is run, but for calls that a timeout has
\* given up and successes that a breaker could not record (the loops of retry.ts
\* and failover.ts, which return at the first result).
THEOREM SuccessIsFinalHolds == Spec => SuccessIsFinal
<1> DEFINE Step == (\E new \in Calls("op")' \ Calls("op") : ~GivenUp(new)') =>
                     \A f \in Calls("op") :
                        frame[f] = "resolved" =>
                           \/ GivenUp(f)
                           \/ \E g \in Around(f) : Kind(g) = "breaker" /\ frame[g] = "rejected"
<1>1. IInv /\ Final' /\ [Next]_vars => Step
  <2>1. SUFFICES ASSUME IInv, Final', [Next]_vars,
                        NEW new \in Calls("op")', new \notin Calls("op"), ~GivenUp(new)',
                        NEW f \in Calls("op"), frame[f] = "resolved"
                 PROVE  \/ GivenUp(f)
                        \/ \E g \in Around(f) : Kind(g) = "breaker" /\ frame[g] = "rejected"
    OBVIOUS
  <2>2. /\ new \in DOMAIN frame' /\ new \notin DOMAIN frame /\ Kind(new) = "op"
        /\ f \in DOMAIN frame /\ Kind(f) = "op"
    BY <2>1 DEF Calls
  <2>3. PICK p \in DOMAIN frame :
                /\ MayCall(p) /\ GotoInner(p, "wait")
                /\ aborted' = aborted \/ (frame[p] = "start" /\ aborted' = aborted \cup {p})
    BY <2>1, <2>2, StepCalls
  <2>4. Attempts(p) \in 0 .. MaxAttempts - 1 /\ Counts(p, Attempts(p))
    BY <2>1, <2>3, CallsGo
  <2>5. /\ DOMAIN frame' = DOMAIN frame \cup {Append(p, Attempts(p))}
        /\ frame'[Append(p, Attempts(p))] = "start" /\ frame'[p] = "wait"
        /\ \A g \in DOMAIN frame \ {p} : frame'[g] = frame[g]
    BY <2>1, <2>3, <2>4, NewCall
  <2>6. frame'[new] = "start" /\ f # p
    BY <2>1, <2>2, <2>3, <2>5 DEF MayCall
  <2>7. frame'[f] = "resolved" /\ f \in Calls("op")'
    BY <2>1, <2>2, <2>5, <2>6 DEF Calls
  <2>8. \/ GivenUp(f)'
        \/ \E g \in Around(f) : Kind(g) = "breaker" /\ frame'[g] = "rejected"
    BY <2>1, <2>6, <2>7 DEF Final
  <2>9. CASE GivenUp(f)'
    <3>1. PICK t \in TimeoutsAround(f) : t \in aborted'
      BY <2>9 DEF GivenUp
    <3>2. frame[p] = "start" => t # p
      BY <2>1, <2>2, <3>1 DEF IInv, Nested, TimeoutsAround
    <3>3. t \in aborted
      BY <2>3, <3>1, <3>2
    <3>4. QED
      BY <3>1, <3>3 DEF GivenUp
  <2>10. CASE \E g \in Around(f) : Kind(g) = "breaker" /\ frame'[g] = "rejected"
    <3>1. PICK g \in Around(f) : Kind(g) = "breaker" /\ frame'[g] = "rejected"
      BY <2>10
    <3>2. g \in DOMAIN frame \ {p}
      BY <2>1, <2>2, <2>5, <3>1, PathsOf
    <3>3. QED
      BY <2>5, <3>1, <3>2
  <2>11. QED
    BY <2>8, <2>9, <2>10
<1>2. QED
  BY <1>1, InitIInv, NextIInv, InitOInv, NextOInv, InitRInv, NextRInv, FinalHolds, PTL
     DEF Spec, SuccessIsFinal

-----------------------------------------------------------------------------
(* The types of calls, timers and signals *)

TInv ==
    /\ \A f \in DOMAIN frame : frame[f] \in Pcs
    /\ \A f \in DOMAIN timers : timers[f] \in Nat
    /\ aborted \subseteq Calls("timeout") \cup {Caller}

\* A step of f keeps it, if what it arms and aborts is right.
LEMMA StepTypes ==
    ASSUME TInv, NEW f \in DOMAIN frame,
           GotoInner(f, "wait") \/ \E pc \in Pcs : Goto(f, pc),
           \/ timers' = timers
           \/ \E ticks \in Nat : Arm(f, ticks)
           \/ Disarm({f}),
           aborted' = aborted \/ (Kind(f) = "timeout" /\ aborted' = aborted \cup {f})
    PROVE  TInv'
<1>1. DOMAIN frame \subseteq DOMAIN frame' /\ \A g \in DOMAIN frame' : frame'[g] \in Pcs
  <2>1. "start" \in Pcs /\ "wait" \in Pcs
    BY DEF Pcs
  <2>2. CASE GotoInner(f, "wait")
    BY <2>1, <2>2 DEF GotoInner, TInv
  <2>3. CASE \E pc \in Pcs : Goto(f, pc)
    BY <2>3 DEF Goto, TInv
  <2>4. QED
    BY <2>2, <2>3
<1>2. \A g \in DOMAIN timers' : timers'[g] \in Nat
  <2>1. CASE timers' = timers
    BY <2>1 DEF TInv
  <2>2. CASE \E ticks \in Nat : Arm(f, ticks)
    BY <2>2 DEF Arm, TInv
  <2>3. CASE Disarm({f})
    BY <2>3 DEF Disarm, TInv
  <2>4. QED
    BY <2>1, <2>2, <2>3
<1>3. aborted' \subseteq Calls("timeout")' \cup {Caller}
  BY <1>1 DEF TInv, Calls
<1>4. QED
  BY <1>1, <1>2, <1>3 DEF TInv

\* So does an abort.
LEMMA AbortTypes ==
    ASSUME TInv, NEW s \in DOMAIN frame \cup {Caller}, s = Caller \/ Kind(s) = "timeout",
           Abort(s)
    PROVE  TInv'
<1> DEFINE T == {s} \cup AbortedBy(s)
           R == RejectedBy(T)
<1>1. /\ aborted' = aborted \cup T
      /\ frame' = [f \in DOMAIN frame |-> IF f \in R THEN "rejected" ELSE frame[f]]
      /\ timers' = [f \in DOMAIN timers \ ({s} \cup R) |-> timers[f]]
  BY DEF Abort, Disarm
<1>2. T \subseteq Calls("timeout") \cup {Caller}
  BY DEF AbortedBy, Calls
<1> HIDE DEF T, R
<1>3. DOMAIN frame' = DOMAIN frame /\ Calls("timeout")' = Calls("timeout")
  BY <1>1 DEF Calls
<1>4. \A f \in DOMAIN frame' : frame'[f] \in Pcs
  BY <1>1 DEF TInv, Pcs, Settled, Outcomes
<1>5. \A f \in DOMAIN timers' : timers'[f] \in Nat
  BY <1>1 DEF TInv
<1>6. QED
  BY <1>1, <1>2, <1>3, <1>4, <1>5 DEF TInv

LEMMA NextTInv == IInv /\ TInv /\ [Next]_vars => TInv'
<1>1. SUFFICES ASSUME IInv, TInv, [Next]_vars PROVE TInv'
  OBVIOUS
<1>2. \A f \in DOMAIN frame : f \in Paths
  BY <1>1 DEF IInv, Shape
<1>3. ASSUME NEW f \in DOMAIN frame, Call(f) PROVE TInv'
  <2>1. CASE StartTimeout(f)
    <3>1. /\ Kind(f) = "timeout" /\ GotoInner(f, "wait") /\ Arm(f, Policy(f).ms)
          /\ aborted' = aborted \/ aborted' = aborted \cup {f}
      BY <2>1 DEF StartTimeout, At
    <3>2. Policy(f).ms \in Nat
      BY <1>2, <3>1, PolicyBounds
    <3>3. QED
      BY <1>1, <3>1, <3>2, StepTypes
  <2>2. CASE StartRetry(f) \/ StartFailover(f) \/ StartBreaker(f) \/ StartOp(f)
    <3>1. timers' = timers /\ aborted' = aborted
      BY <2>2 DEF StartRetry, StartFailover, StartBreaker, StartOp
    <3>2. GotoInner(f, "wait") \/ \E pc \in Pcs : Goto(f, pc)
      BY <2>2 DEF StartRetry, StartFailover, StartBreaker, StartOp, Pcs, Settled, Outcomes
    <3>3. QED
      BY <1>1, <3>1, <3>2, StepTypes
  <2>3. CASE OpThrows(f)
    <3>1. /\ timers' = timers /\ aborted' = aborted
          /\ frame' = [g \in DOMAIN frame |->
                          IF g = f \/ g \in PassedBy(f) THEN "threw" ELSE frame[g]]
      BY <2>3 DEF OpThrows
    <3>2. DOMAIN frame' = DOMAIN frame /\ \A g \in DOMAIN frame' : frame'[g] \in Pcs
      BY <1>1, <3>1 DEF TInv, Pcs, Settled
    <3>3. QED
      BY <1>1, <3>1, <3>2 DEF TInv, Calls
  <2>4. QED
    BY <1>3, <2>1, <2>2, <2>3 DEF Call
<1>4. ASSUME NEW f \in DOMAIN frame, Continue(f) PROVE TInv'
  <2>1. CASE FinishTimeout(f)
    <3>1. Goto(f, RaceResult(f)) /\ Disarm({f}) /\ aborted' = aborted /\ Raced(f)
      BY <2>1 DEF FinishTimeout
    <3>2. RaceResult(f) \in Pcs
      BY <3>1 DEF RaceResult, Raced, InnerSettled, InnerFailed, InnerIs, Pcs, Settled, Outcomes
    <3>3. QED
      BY <1>1, <3>1, <3>2, StepTypes
  <2>2. CASE RetryDelays(f)
    <3>1. /\ Kind(f) = "retry" /\ Goto(f, "delay") /\ Arm(f, Policy(f).backoff)
          /\ aborted' = aborted
      BY <2>2 DEF RetryDelays, At
    <3>2. Policy(f).backoff \in Nat /\ "delay" \in Pcs
      BY <1>2, <3>1, PolicyBounds DEF Pcs
    <3>3. QED
      BY <1>1, <3>1, <3>2, StepTypes
  <2>3. CASE \/ RetryResolves(f) \/ RetryRejects(f) \/ BreakerRecords(f)
             \/ FailoverResolves(f) \/ FailoverGoesOn(f)
    <3>1. timers' = timers /\ aborted' = aborted
      BY <2>3 DEF RetryResolves, RetryRejects, BreakerRecords, FailoverResolves, FailoverGoesOn
    <3>2. GotoInner(f, "wait") \/ \E pc \in Pcs : Goto(f, pc)
      BY <2>3 DEF RetryResolves, RetryRejects, BreakerRecords, FailoverResolves,
                  FailoverGoesOn, Pcs, Settled, Outcomes
    <3>3. QED
      BY <1>1, <3>1, <3>2, StepTypes
  <2>4. QED
    BY <1>4, <2>1, <2>2, <2>3 DEF Continue
<1>5. ASSUME NEW f \in DOMAIN frame, StoreAnswers(f) \/ OpSettles(f) PROVE TInv'
  <2>1. timers' = timers /\ aborted' = aborted
    BY <1>5 DEF StoreAnswers, StoreAdmits, StoreRecords, OpSettles
  <2>2. GotoInner(f, "wait") \/ \E pc \in Pcs : Goto(f, pc)
    BY <1>5 DEF StoreAnswers, StoreAdmits, StoreRecords, OpSettles, Pcs, Settled, Outcomes
  <2>3. QED
    BY <1>1, <2>1, <2>2, StepTypes
<1>6. ASSUME NEW f \in DOMAIN frame, DelayElapses(f) PROVE TInv'
  BY <1>1, <1>6, StepTypes DEF DelayElapses
<1>7. ASSUME NEW f \in DOMAIN frame, TimeoutFires(f) PROVE TInv'
  BY <1>1, <1>7, AbortTypes DEF TimeoutFires
<1>8. CASE CallerAborts
  BY <1>1, <1>8, AbortTypes DEF CallerAborts
<1>9. CASE Tick
  <2>1. /\ frame' = frame /\ aborted' = aborted
        /\ timers' = [f \in DOMAIN timers |-> IF timers[f] > 0 THEN timers[f] - 1 ELSE 0]
    BY <1>9 DEF Tick
  <2>2. \A f \in DOMAIN timers' : timers'[f] \in Nat
    BY <1>1, <2>1 DEF TInv
  <2>3. QED
    BY <1>1, <2>1, <2>2 DEF TInv, Calls
<1>10. CASE UNCHANGED vars
  BY <1>1, <1>10 DEF vars, TInv, Calls
<1>11. QED
  BY <1>1, <1>3, <1>4, <1>5, <1>6, <1>7, <1>8, <1>9, <1>10 DEF Next, Run, Fires

\* A call is its chain's number and those of the attempts that lead to it, and no
\* longer than the chain allows.
LEMMA FramesOf ==
    ASSUME IInv, OInv, NEW f \in DOMAIN frame
    PROVE  f \in Frames
<1> DEFINE C == Chains[f[1]]
           n == Len(f) - 1
           g == [k \in 1 .. n |-> f[k + 1]]
<1>1. f \in Seq(Nat) /\ f # << >> /\ MaxAttempts \in Nat \ {0}
  BY PathsOf
<1>2. f[1] \in DOMAIN Chains /\ Len(C) \in Nat
  BY ChainsAssumption DEF IInv, Shape, Paths
<1>3. Len(f) \in Nat \ {0} /\ n \in Nat
  BY <1>1
<1>4. n <= Len(C)
  <2>1. SUFFICES ASSUME n > Len(C) PROVE FALSE
    BY <1>2, <1>3
  <2>2. n \in 1 .. Len(f) - 1
    BY <1>2, <1>3, <2>1
  <2>3. SubSeq(f, 1, n) \in Around(f)
    BY <2>2 DEF Around
  <2>4. Len(SubSeq(f, 1, n)) = n /\ SubSeq(f, 1, n)[1] = f[1]
    BY <1>1, <2>2
  <2>5. Kind(SubSeq(f, 1, n)) = "op"
    BY <2>1, <2>4 DEF Kind
  <2>6. QED
    BY <2>3, <2>5, OpInnermost
<1>5. ASSUME NEW k \in 1 .. n PROVE f[k + 1] \in Numbers
  <2>1. k \in 1 .. Len(f) - 1 /\ f[k + 1] \in Nat
    BY <1>1, <1>3
  <2>2. SubSeq(f, 1, k) \in Around(f)
    BY <2>1 DEF Around
  <2>3. Append(SubSeq(f, 1, k), f[k + 1]) = SubSeq(f, 1, k + 1)
    BY <1>1, <2>1
  <2>4. SubSeq(f, 1, k + 1) \in Around(f) \cup {f}
    <3>1. CASE k + 1 = Len(f)
      BY <3>1, SubSeqFull, <1>1
    <3>2. CASE k + 1 # Len(f)
      <4>1. k + 1 \in 1 .. Len(f) - 1
        BY <1>3, <2>1, <3>2
      <4>2. QED
        BY <4>1 DEF Around
    <3>3. QED
      BY <3>1, <3>2
  <2>5. /\ SubSeq(f, 1, k) \in DOMAIN frame
        /\ Append(SubSeq(f, 1, k), f[k + 1]) \in DOMAIN frame
    BY <2>2, <2>3, <2>4, PathsOf
  <2>6. PICK j \in 0 .. MaxAttempts : Counts(SubSeq(f, 1, k), j)
    BY <2>5 DEF IInv, Counted
  <2>7. f[k + 1] < j
    BY <2>1, <2>5, <2>6 DEF Counts
  <2>8. QED
    BY <1>1, <2>1, <2>7 DEF Numbers
<1>6. g \in [1 .. n -> Numbers] /\ n \in 0 .. Len(C)
  BY <1>2, <1>3, <1>4, <1>5
<1>7. f = <<f[1]>> \o g
  <2>1. g \in Seq(Nat) /\ Len(g) = n
    <3>1. \A k \in 1 .. n : f[k + 1] \in Nat
      BY <1>1, <1>3
    <3>2. QED
      BY <1>3, <3>1, IsASeq
  <2>2. /\ <<f[1]>> \o g \in Seq(Nat) /\ Len(<<f[1]>> \o g) = Len(f)
        /\ \A k \in 1 .. Len(f) : (<<f[1]>> \o g)[k] = f[k]
    BY <1>1, <1>3, <2>1
  <2>3. QED
    BY <1>1, <2>2, SeqEqual
<1> HIDE DEF C, n, g
<1>8. g \in UNION {[1 .. m -> Numbers] : m \in 0 .. Len(C)}
  BY <1>6
<1>9. f \in {<<f[1]>> \o h : h \in UNION {[1 .. m -> Numbers] : m \in 0 .. Len(C)}}
  BY <1>7, <1>8, Zenon
<1>10. QED
  BY <1>2, <1>9, Zenon DEF Frames, C

\* What a call, a timer and a signal are, in every reachable state: no call is
\* longer than its chain, no attempt numbered beyond the most a policy makes.
THEOREM TypeCorrect == Spec => []TypeOK
<1>1. Init => TInv
  BY DEF Init, TInv, Pcs
<1>2. IInv /\ OInv /\ TInv => TypeOK
  <2>1. SUFFICES ASSUME IInv, OInv, TInv PROVE TypeOK
    OBVIOUS
  <2>2. DOMAIN frame \subseteq Frames
    BY <2>1, FramesOf
  <2>3. \A f \in DOMAIN frame : \A g \in Around(f) : g \in DOMAIN frame
    BY <2>1 DEF IInv, Nested
  <2>4. DOMAIN timers \subseteq Calls("timeout") \cup Calls("retry")
    BY <2>1 DEF IInv, Shape, Armed, Calls
  <2>5. Range(frame) \subseteq Pcs /\ Range(timers) \subseteq Nat
    BY <2>1 DEF TInv, Range
  <2>6. QED
    BY <2>1, <2>2, <2>3, <2>4, <2>5 DEF TypeOK, TInv
<1>3. QED
  BY <1>1, <1>2, InitIInv, NextIInv, InitOInv, NextOInv, NextTInv, PTL DEF Spec
-----------------------------------------------------------------------------
(* Operations beside one another *)

\* Of two calls of p the earlier one has settled, with whatever it left running.
LEMMA EarlierSettled ==
    ASSUME IInv, OInv, NEW p \in DOMAIN frame, NEW a \in Nat, NEW b \in Nat, a < b,
           Append(p, b) \in DOMAIN frame
    PROVE  Append(p, a) \in DOMAIN frame => frame[Append(p, a)] \in Settled
<1>1. PICK k \in 0 .. MaxAttempts : Counts(p, k)
  BY DEF IInv, Counted
<1>2. b < k /\ k \in Nat
  BY <1>1, PathsOf DEF Counts
<1>3. a + 1 \in Nat /\ a + 1 < k
  BY <1>2
<1>4. Append(p, a + 1) \in DOMAIN frame
  BY <1>1, <1>3 DEF Counts
<1>5. QED
  BY <1>4 DEF OInv, Awaited

\* An operation that runs behind a later call of the same caller was given up.
LEMMA BehindGivenUp ==
    ASSUME IInv, OInv, NEW f \in DOMAIN frame, frame[f] = "wait",
           NEW p \in Around(f), NEW a \in Nat, NEW b \in Nat, a < b,
           Append(p, a) \in Around(f) \cup {f}, Append(p, b) \in DOMAIN frame
    PROVE  GivenUp(f)
<1>1. p \in DOMAIN frame /\ Append(p, a) \in DOMAIN frame
  BY PathsOf
<1>2. frame[Append(p, a)] \in Settled
  BY <1>1, EarlierSettled
<1>3. frame[f] \notin Settled
  BY DEF Settled, Outcomes
<1>4. Append(p, a) \in Around(f)
  BY <1>2, <1>3
<1>5. QED
  BY <1>2, <1>3, <1>4, SettledGaveUp

\* Operations run beside one another only after a timeout has given all but one
\* of them up: the loops of retry.ts and failover.ts await each call before the
\* next.
THEOREM OneAwaitedHolds == Spec => []OneAwaited
<1>1. IInv /\ OInv /\ RInv => OneAwaited
  <2>1. SUFFICES ASSUME IInv, OInv, RInv, NEW f \in Calls("op"), NEW g \in Calls("op"),
                        f # g, frame[f] = "wait", frame[g] = "wait"
                 PROVE  GivenUp(f) \/ GivenUp(g)
    BY DEF OneAwaited
  <2>2. /\ f \in DOMAIN frame /\ Kind(f) = "op"
        /\ g \in DOMAIN frame /\ Kind(g) = "op"
    BY <2>1 DEF Calls
  <2>3. /\ f \in Seq(Nat) /\ f # << >> /\ g \in Seq(Nat) /\ g # << >>
        /\ f[1] = g[1]
    BY <2>1, <2>2, PathsOf DEF RInv, SameChain
  <2>4. f \notin Around(g) /\ g \notin Around(f)
    BY <2>1, <2>2, OpInnermost
  <2>5. PICK p \in Around(f) \cap Around(g), a \in Nat, b \in Nat :
                /\ a # b
                /\ Append(p, a) \in Around(f) \cup {f}
                /\ Append(p, b) \in Around(g) \cup {g}
    BY <2>1, <2>3, <2>4, PartingCall
  <2>6. Append(p, a) \in DOMAIN frame /\ Append(p, b) \in DOMAIN frame
    BY <2>1, <2>2, <2>5, PathsOf
  <2>7. CASE a < b
    BY <2>1, <2>2, <2>5, <2>6, <2>7, BehindGivenUp
  <2>8. CASE b < a
    BY <2>1, <2>2, <2>5, <2>6, <2>8, BehindGivenUp
  <2>9. QED
    BY <2>5, <2>7, <2>8
<1>2. QED
  BY <1>1, InitIInv, NextIInv, InitOInv, NextOInv, InitRInv, NextRInv, PTL DEF Spec

-----------------------------------------------------------------------------
(* Calls that hang *)

\* A timeout under way has its timer armed, until it has aborted.
Timed(f) ==
    Kind(f) = "timeout" /\ frame[f] \notin Settled \cup {"start"} =>
        f \in DOMAIN timers \/ f \in aborted

HInv == \A f \in DOMAIN frame : Timed(f)

\* A step of f keeps it for the other calls.
LEMMA TimedStep ==
    ASSUME HInv, NEW f \in DOMAIN frame,
           GotoInner(f, "wait") \/ \E pc : Goto(f, pc),
           DOMAIN timers \ {f} \subseteq DOMAIN timers', aborted \subseteq aborted',
           Kind(f) # "timeout" \/ f \in DOMAIN timers' \/ frame'[f] \in Settled
    PROVE  HInv'
<1>1. SUFFICES ASSUME NEW g \in DOMAIN frame' PROVE Timed(g)'
  BY DEF HInv
<1>2. \/ g = f
      \/ frame'[g] = "start"
      \/ g \in DOMAIN frame /\ frame'[g] = frame[g]
  <2>1. CASE GotoInner(f, "wait")
    BY <2>1 DEF GotoInner
  <2>2. CASE \E pc : Goto(f, pc)
    BY <2>2 DEF Goto
  <2>3. QED
    BY <2>1, <2>2
<1>3. QED
  BY <1>2 DEF HInv, Timed

\* So does a step that settles some calls, or moves none, and takes their timers.
LEMMA TimedSettles ==
    ASSUME HInv, DOMAIN frame' = DOMAIN frame,
           \A f \in DOMAIN frame : \/ frame'[f] \in Settled
                                   \/ /\ frame'[f] = frame[f]
                                      /\ f \in DOMAIN timers => f \in DOMAIN timers' \cup aborted',
           aborted \subseteq aborted'
    PROVE  HInv'
BY DEF HInv, Timed

LEMMA TimedAborts ==
    ASSUME HInv, NEW s, Abort(s)
    PROVE  HInv'
<1> DEFINE T == {s} \cup AbortedBy(s)
           R == RejectedBy(T)
<1>1. /\ aborted' = aborted \cup T
      /\ frame' = [f \in DOMAIN frame |-> IF f \in R THEN "rejected" ELSE frame[f]]
      /\ timers' = [f \in DOMAIN timers \ ({s} \cup R) |-> timers[f]]
  BY DEF Abort, Disarm
<1>2. s \in aborted' /\ aborted \subseteq aborted'
  BY <1>1
<1> HIDE DEF R, T
<1>3. DOMAIN frame' = DOMAIN frame /\ DOMAIN timers' = DOMAIN timers \ ({s} \cup R)
  BY <1>1
<1>4. \A f \in DOMAIN frame : IF f \in R THEN frame'[f] = "rejected"
                                        ELSE frame'[f] = frame[f]
  BY <1>1
<1>5. "rejected" \in Settled
  BY DEF Settled, Outcomes
<1>6. QED
  BY <1>2, <1>3, <1>4, <1>5, TimedSettles

LEMMA NextHInv == HInv /\ [Next]_vars => HInv'
<1>1. SUFFICES ASSUME HInv, [Next]_vars PROVE HInv'
  OBVIOUS
<1>2. ASSUME NEW f \in DOMAIN frame, Call(f) PROVE HInv'
  <2>1. CASE StartTimeout(f)
    <3>1. /\ GotoInner(f, "wait") /\ Arm(f, Policy(f).ms)
          /\ aborted \subseteq aborted'
      BY <2>1 DEF StartTimeout
    <3>2. DOMAIN timers' = DOMAIN timers \cup {f}
      BY <3>1 DEF Arm
    <3>3. QED
      BY <1>1, <3>1, <3>2, TimedStep
  <2>2. CASE StartRetry(f) \/ StartFailover(f) \/ StartBreaker(f) \/ StartOp(f)
    <3>1. timers' = timers /\ aborted' = aborted /\ Kind(f) # "timeout"
      BY <2>2 DEF StartRetry, StartFailover, StartBreaker, StartOp, At
    <3>2. GotoInner(f, "wait") \/ \E pc : Goto(f, pc)
      BY <2>2 DEF StartRetry, StartFailover, StartBreaker, StartOp
    <3>3. QED
      BY <1>1, <3>1, <3>2, TimedStep
  <2>3. CASE OpThrows(f)
    <3>1. /\ timers' = timers /\ aborted' = aborted
          /\ frame' = [g \in DOMAIN frame |->
                          IF g = f \/ g \in PassedBy(f) THEN "threw" ELSE frame[g]]
      BY <2>3 DEF OpThrows
    <3>2. /\ DOMAIN frame' = DOMAIN frame
          /\ \A g \in DOMAIN frame : frame'[g] \in Settled \/ frame'[g] = frame[g]
      BY <3>1 DEF Settled
    <3>3. QED
      BY <1>1, <3>1, <3>2, TimedSettles
  <2>4. QED
    BY <1>2, <2>1, <2>2, <2>3 DEF Call
<1>3. ASSUME NEW f \in DOMAIN frame, Continue(f) PROVE HInv'
  <2>1. CASE FinishTimeout(f)
    <3>1. Goto(f, RaceResult(f)) /\ Disarm({f}) /\ aborted' = aborted /\ Raced(f)
      BY <2>1 DEF FinishTimeout
    <3>2. frame'[f] = RaceResult(f) /\ RaceResult(f) \in Settled
      BY <3>1 DEF Goto, RaceResult, Raced, InnerSettled, InnerFailed, InnerIs, Settled, Outcomes
    <3>3. DOMAIN timers' = DOMAIN timers \ {f}
      BY <3>1 DEF Disarm
    <3>4. QED
      BY <1>1, <3>1, <3>2, <3>3, TimedStep
  <2>2. CASE RetryDelays(f)
    <3>1. /\ Kind(f) = "retry" /\ Goto(f, "delay") /\ Arm(f, Policy(f).backoff)
          /\ aborted' = aborted
      BY <2>2 DEF RetryDelays, At
    <3>2. DOMAIN timers' = DOMAIN timers \cup {f}
      BY <3>1 DEF Arm
    <3>3. QED
      BY <1>1, <3>1, <3>2, TimedStep
  <2>3. CASE \/ RetryResolves(f) \/ RetryRejects(f) \/ BreakerRecords(f)
             \/ FailoverResolves(f) \/ FailoverGoesOn(f)
    <3>1. timers' = timers /\ aborted' = aborted /\ Kind(f) # "timeout"
      BY <2>3 DEF RetryResolves, RetryRejects, BreakerRecords, FailoverResolves,
                  FailoverGoesOn, At
    <3>2. GotoInner(f, "wait") \/ \E pc : Goto(f, pc)
      BY <2>3 DEF RetryResolves, RetryRejects, BreakerRecords, FailoverResolves, FailoverGoesOn
    <3>3. QED
      BY <1>1, <3>1, <3>2, TimedStep
  <2>4. QED
    BY <1>3, <2>1, <2>2, <2>3 DEF Continue
<1>4. ASSUME NEW f \in DOMAIN frame, StoreAnswers(f) \/ OpSettles(f) PROVE HInv'
  <2>1. timers' = timers /\ aborted' = aborted /\ Kind(f) # "timeout"
    BY <1>4 DEF StoreAnswers, StoreAdmits, StoreRecords, OpSettles, At
  <2>2. GotoInner(f, "wait") \/ \E pc : Goto(f, pc)
    BY <1>4 DEF StoreAnswers, StoreAdmits, StoreRecords, OpSettles
  <2>3. QED
    BY <1>1, <2>1, <2>2, TimedStep
<1>5. ASSUME NEW f \in DOMAIN frame, DelayElapses(f) PROVE HInv'
  <2>1. /\ Kind(f) = "retry" /\ GotoInner(f, "wait") /\ Disarm({f})
        /\ aborted' = aborted
    BY <1>5 DEF DelayElapses, At
  <2>2. DOMAIN timers' = DOMAIN timers \ {f}
    BY <2>1 DEF Disarm
  <2>3. QED
    BY <1>1, <2>1, <2>2, TimedStep
<1>6. ASSUME NEW s, Abort(s) PROVE HInv'
  BY <1>1, <1>6, TimedAborts
<1>7. CASE Tick \/ UNCHANGED vars
  <2>1. frame' = frame /\ aborted' = aborted /\ DOMAIN timers' = DOMAIN timers
    BY <1>7 DEF Tick, vars
  <2>2. QED
    BY <1>1, <2>1 DEF HInv, Timed
<1>8. QED
  BY <1>1, <1>2, <1>3, <1>4, <1>5, <1>6, <1>7
     DEF Next, Run, Fires, TimeoutFires, StoreAnswers, CallerAborts

\* A call within a timeout cannot hang for good: while it has not settled, a
\* timer around it is running or its signal has aborted (timeout.ts arms the
\* timer before it calls, and disarms it only when the race is decided).
THEOREM HangsAreTimedHolds == Spec => []HangsAreTimed
<1>1. Init => HInv
  BY DEF Init, HInv, Timed
<1>2. IInv /\ OInv /\ HInv => HangsAreTimed
  <2>1. SUFFICES ASSUME IInv, OInv, HInv, NEW f \in DOMAIN frame,
                        frame[f] \notin Settled, NEW t \in TimeoutsAround(f)
                 PROVE  t \in DOMAIN timers \/ SignalAborted(f)
    BY DEF HangsAreTimed
  <2>2. t \in Around(f) /\ Kind(t) = "timeout"
    BY DEF TimeoutsAround
  <2>3. t \in DOMAIN frame /\ frame[t] # "start"
    BY <2>1, <2>2 DEF IInv, Nested
  <2>4. CASE frame[t] \in Settled
    BY <2>1, <2>2, <2>4, SettledAround
  <2>5. CASE t \in aborted
    BY <2>1, <2>5 DEF OInv, Reached
  <2>6. CASE frame[t] \notin Settled /\ t \notin aborted
    BY <2>1, <2>2, <2>3, <2>6 DEF HInv, Timed
  <2>7. QED
    BY <2>4, <2>5, <2>6
<1>3. QED
  BY <1>1, <1>2, InitIInv, NextIInv, InitOInv, NextOInv, NextHInv, PTL DEF Spec

-----------------------------------------------------------------------------
(* Breakers that have admitted a call *)

\* A step of one call leaves the others where they are.
LEMMA OthersStay ==
    ASSUME IInv, NEW h \in DOMAIN frame,
           (\E pc : Goto(h, pc)) \/ (MayCall(h) /\ GotoInner(h, "wait"))
    PROVE  \A g \in DOMAIN frame \ {h} : frame'[g] = frame[g]
<1>1. CASE \E pc : Goto(h, pc)
  BY <1>1 DEF Goto
<1>2. CASE MayCall(h) /\ GotoInner(h, "wait")
  BY <1>2, CallsGo, GoesKeeps
<1>3. QED
  BY <1>1, <1>2

\* Nothing takes a breaker past its record: what its operation does, an abort of
\* whatever signal and a thrown error all lead through it (the try block of
\* circuit-breaker.ts).
THEOREM RecordsBeforeSettlingHolds == Spec => RecordsBeforeSettling
<1> DEFINE Records(f) == frame'[f] \in {"wait", "recordOk", "recordErr"}
           Step == \A f \in Calls("breaker") : frame[f] = "wait" => Records(f)
<1>1. IInv /\ [Next]_vars => Step
  <2>1. SUFFICES ASSUME IInv, [Next]_vars, NEW f \in DOMAIN frame,
                        Kind(f) = "breaker", frame[f] = "wait"
                 PROVE  Records(f)
    BY DEF Calls
  <2>2. frame'[f] = frame[f] => Records(f)
    BY <2>1
  <2>3. ASSUME NEW h \in DOMAIN frame,
               (\E pc : Goto(h, pc)) \/ (MayCall(h) /\ GotoInner(h, "wait")), h # f
        PROVE  Records(f)
    BY <2>1, <2>2, <2>3, OthersStay
  <2>4. ASSUME NEW h \in DOMAIN frame, Call(h) PROVE Records(f)
    <3>1. CASE OpThrows(h)
      <4>1. /\ Kind(h) = "op"
            /\ frame' = [g \in DOMAIN frame |->
                            IF g = h \/ g \in PassedBy(h) THEN "threw" ELSE frame[g]]
        BY <3>1 DEF OpThrows, At
      <4>2. f \notin PassedBy(h)
        <5>1. f \in PassedBy(h) => f \in Around(h) /\ Len(f) <= Len(f)
          BY <2>1 DEF PassedBy, IInv, Shape, Paths
        <5>2. QED
          BY <2>1, <5>1 DEF PassedBy
      <4>3. QED
        BY <2>1, <2>2, <4>1, <4>2
    <3>2. CASE \/ StartTimeout(h) \/ StartRetry(h) \/ StartBreaker(h)
               \/ StartFailover(h) \/ StartOp(h)
      <4>1. frame[h] = "start" /\ (GotoInner(h, "wait") \/ \E pc : Goto(h, pc))
        BY <3>2 DEF StartTimeout, StartRetry, StartBreaker, StartFailover, StartOp, At
      <4>2. QED
        BY <2>1, <2>3, <4>1 DEF MayCall
    <3>3. QED
      BY <2>4, <3>1, <3>2 DEF Call
  <2>5. ASSUME NEW h \in DOMAIN frame, Continue(h) PROVE Records(f)
    <3>1. CASE BreakerRecords(h)
      <4>1. Goto(h, "recordOk") \/ Goto(h, "recordErr")
        BY <3>1 DEF BreakerRecords
      <4>2. CASE h = f
        BY <2>1, <4>1, <4>2 DEF Goto
      <4>3. QED
        BY <2>3, <4>1, <4>2
    <3>2. CASE ~BreakerRecords(h)
      <4>1. /\ Kind(h) # "breaker"
            /\ (\E pc : Goto(h, pc)) \/ (MayCall(h) /\ GotoInner(h, "wait"))
        BY <2>5, <3>2 DEF Continue, FinishTimeout, RetryResolves, RetryRejects,
           RetryDelays, FailoverResolves, FailoverGoesOn, MayCall, At
      <4>2. QED
        BY <2>1, <2>3, <4>1
    <3>3. QED
      BY <3>1, <3>2
  <2>6. ASSUME NEW h \in DOMAIN frame, StoreAnswers(h) \/ OpSettles(h) \/ DelayElapses(h)
        PROVE  Records(f)
    <3>1. \/ frame[h] # "wait"
          \/ Kind(h) = "op"
      BY <2>6 DEF StoreAnswers, StoreAdmits, StoreRecords, OpSettles, DelayElapses, At
    <3>2. (\E pc : Goto(h, pc)) \/ (MayCall(h) /\ GotoInner(h, "wait"))
      BY <2>6 DEF StoreAnswers, StoreAdmits, StoreRecords, OpSettles, DelayElapses, At,
                  MayCall
    <3>3. QED
      BY <2>1, <2>3, <3>1, <3>2
  <2>7. ASSUME NEW s, Abort(s) PROVE Records(f)
    <3> DEFINE R == RejectedBy({s} \cup AbortedBy(s))
    <3>1. frame' = [g \in DOMAIN frame |-> IF g \in R THEN "rejected" ELSE frame[g]]
      BY <2>7 DEF Abort
    <3>2. f \notin R
      BY <2>1 DEF RejectedBy
    <3> HIDE DEF R
    <3>3. QED
      BY <2>1, <2>2, <3>1, <3>2
  <2>8. CASE Tick \/ UNCHANGED vars
    BY <2>1, <2>2, <2>8 DEF Tick, vars
  <2>9. QED
    BY <2>1, <2>4, <2>5, <2>6, <2>7, <2>8
       DEF Next, Run, Fires, TimeoutFires, CallerAborts
<1>2. QED
  BY <1>1, InitIInv, NextIInv, PTL DEF Spec, RecordsBeforeSettling

=============================================================================
