---------------------- MODULE MCCoordinatedProcessor ----------------------
(* A processor with one worker, and one worker of another replica.         *)
EXTENDS CoordinatedProcessor, TLC

CONSTANTS a, d1, w1, c1, t1, t2, t3

MCBatches  == {<<a>>}
MCKeeps    == a :> {1}
MCSettings == [c \in Clients |-> [maxInFlight |-> 1, requestsPerSecond |-> 2, leaseTTL |-> 1]]
MCTokens   == Permutations(Tokens)
=============================================================================
