------------------------ MODULE MCMetricsProcessor ------------------------
(* Small instances of MetricsProcessor.  Of the metrics, a is worth        *)
(* dropping or keeping, b is uncertain, p is protected and u has no        *)
(* identity; p and u would be dropped if Jev were asked.                   *)
EXTENDS MetricsProcessor

CONSTANTS a, b, p, u, d1, d2, w1, w2

MCMetrics == {a, b, p, u}

\* Two batches that hold the same metrics in opposite orders.
MCCrossing == {<<a, p, b>>, <<b, a>>}

\* A batch that holds one metric twice, and one with a metric without identity.
MCTwice == {<<a, a>>, <<u, b>>}

MCKeeps == (a :> {1, 9}) @@ (b :> {5}) @@ (p :> {1}) @@ (u :> {1})

MCWorkers    == Permutations({w1, w2})
MCGoroutines == Permutations({d1, d2}) \cup MCWorkers
=============================================================================
