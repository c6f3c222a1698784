------------------------------ MODULE Explorer ------------------------------
(***************************************************************************)
(* From decorators to the policies of a method (packages/core/src/nest/    *)
(* decorators.ts, explorer.ts).  Decorators are applied bottom-up, each in *)
(* front of the metadata found so far; Reflect.getMetadata also finds what *)
(* an overridden method of the superclass was decorated with.              *)
(***************************************************************************)
EXTENDS PolicyChain

Timeout(ms) == [kind |-> "timeout", ms |-> ms]
Retry(attempts, backoff) ==
    [kind |-> "retry", attempts |-> attempts, backoff |-> backoff]
CircuitBreaker == [kind |-> "circuit"]

push(meta, existing) == <<meta>> \o existing

\* The metadata of a method with these decorators, in source order, around
\* the metadata it inherits.
Decorated(decorators, inherited) == FoldRight(push, decorators, inherited)

Policies(m) == CASE m.kind = "timeout" -> timeout(m.ms)
                 [] m.kind = "retry"   -> retry(m.attempts, m.backoff)
                 [] OTHER              -> circuitBreaker

buildPolicy(metas) == [i \in DOMAIN metas |-> Policies(metas[i])]

=============================================================================
