--------------------------- MODULE MCPolicyChain ---------------------------
(* Chains of policies for TLC. *)
EXTENDS Explorer

\* The order of the guide: the timeout bounds the retry loop.
TimeoutRetryBreaker == <<timeout(2), retry(2, 1), circuitBreaker>>

\* A method decorated with a breaker and a deadline for each attempt,
\* overridden by one decorated with a retry and a deadline for all attempts.
Method == Decorated(<<CircuitBreaker, Timeout(1)>>, << >>)
Override == Decorated(<<Timeout(3), Retry(3, 1)>>, Method)

NestedTimeouts == <<timeout(3), retry(3, 1), circuitBreaker, timeout(1)>>

ASSUME ExplorerBuilds == NestedTimeouts = buildPolicy(Override)

\* Each target is called through a deadline, a breaker and a deadline.
FailoverChain == <<failover(2), timeout(2), circuitBreaker, timeout(1)>>

\* The breaker sees the timeout of every attempt.
BreakerOutside == <<circuitBreaker, retry(2, 1), timeout(1)>>

\* Two deadlines right around the operation, and retries without a backoff.
Deadlines == <<timeout(2), retry(2, 0), timeout(1), timeout(1)>>

DocumentedChain == <<TimeoutRetryBreaker>>
SafeChains == <<NestedTimeouts, FailoverChain, BreakerOutside, Deadlines>>
=============================================================================
