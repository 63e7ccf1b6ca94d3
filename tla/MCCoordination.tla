--------------------------- MODULE MCCoordination ---------------------------
(* Small instances of Coordination.                                         *)
EXTENDS Coordination, TLC

CONSTANTS k1, k2, c1, c2, t1, t2, t3, t4, v1, v2

Budget(max, rps, ttl) == [maxInFlight |-> max, requestsPerSecond |-> rps, leaseTTL |-> ttl]

\* Replicas with one configuration, which admits one assessment at a time.
MCEqualSettings == [c \in Clients |-> Budget(1, 2, 3)]

\* Two configurations that must not share a namespace: one with the smaller budget,
\* one with the shorter leases.
MCMixedSettings == (c1 :> Budget(1, 1, 2)) @@ (c2 :> Budget(2, 2, 1))

MCTokens  == Permutations(Tokens)
MCTokensAndKeys == Permutations(Tokens) \cup Permutations(Keys)
MCInterchangeable == Permutations(Tokens) \cup Permutations(Clients)
                     \cup Permutations(Values) \cup Permutations(Keys)
=============================================================================
