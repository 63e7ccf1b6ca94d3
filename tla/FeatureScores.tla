---------------------------- MODULE FeatureScores ----------------------------
(***************************************************************************)
(* How the standalone exporter turns four values read from Prometheus into *)
(* an assessment without Jev: the normalisation of src/internal/features   *)
(* and the baseline of src/internal/evaluator/evaluator.go.                *)
(*                                                                         *)
(* Numbers are whole multiples of units fine enough to make all results    *)
(* exact: errors in hundredths, latency in quarter seconds, traffic in     *)
(* hundreds per second, saturation in tenths; scores in 1/Unit; and        *)
(* probabilities in 1/One.  Rounding is left out, NaN is not: it compares  *)
(* as false with everything and spreads through arithmetic.                *)
(***************************************************************************)
EXTENDS Integers, Sequences

CONSTANT NaN

Features == <<"errors", "latency", "traffic", "saturation">>

Unit == 441       \* divisible by the width of each feature's range
One  == 40 * Unit

Healthy == [errors |-> 1,  latency |-> 1, traffic |-> 1,  saturation |-> 7]
Bad     == [errors |-> 10, latency |-> 8, traffic |-> 50, saturation |-> 10]

AtMost(x, y) == x # NaN /\ y # NaN /\ x <= y

\* Mutant: the distance from the wrong end.
normalizeInverted(v, healthy, bad) ==
  IF AtMost(v, healthy) THEN 0
  ELSE IF AtMost(bad, v) THEN Unit
  ELSE IF v = NaN THEN NaN
  ELSE (bad - v) * (Unit \div (bad - healthy))

normalize(v, healthy, bad) ==
  IF AtMost(v, healthy) THEN 0
  ELSE IF AtMost(bad, v) THEN Unit
  ELSE IF v = NaN THEN NaN
  ELSE (v - healthy) * (Unit \div (bad - healthy))

\* raw: the four values, in the order of Features.
Extract(raw) ==
  [f \in {Features[i] : i \in DOMAIN Features} |->
     LET i == CHOOSE j \in DOMAIN Features : Features[j] = f
     IN  normalize(raw[i], Healthy[f], Bad[f])]

\* Mutant: only one end is clamped.
clampAbove(v) == IF v = NaN THEN NaN ELSE IF v > One THEN One ELSE v

\* math.Max(0, math.Min(1, v)).
clamp(v) ==
  IF v = NaN THEN NaN ELSE IF v > One THEN One ELSE IF v < 0 THEN 0 ELSE v

Domains == {"resource", "errors", "latency", "unknown"}

\* Mutant: saturation is looked at last.
DomainOfErrors(s) ==
  IF AtMost(s.latency, s.errors) THEN "errors"
  ELSE IF AtMost(s.errors, s.saturation) THEN "resource" ELSE "latency"

Domain(s) ==
  IF AtMost(s.errors, s.saturation) /\ AtMost(s.latency, s.saturation) THEN "resource"
  ELSE IF AtMost(s.latency, s.errors) THEN "errors" ELSE "latency"

\* A sum of products with positive weights, in twentieths.
Weighted(s, weight) ==
  LET fs == DOMAIN weight
      term(f) == IF f \in fs THEN weight[f] * s[f] ELSE 0
  IN  IF \E f \in fs : s[f] = NaN THEN NaN
      ELSE 2 * (term("errors") + term("latency") + term("traffic") + term("saturation"))

Mean(x, y) == IF x = NaN \/ y = NaN THEN NaN ELSE (x + y) \div 2

Baseline(s) ==
  LET anomaly == clamp(Weighted(s, [errors |-> 9, latency |-> 6, saturation |-> 3, traffic |-> 2]))
      impact  == clamp(Weighted(s, [errors |-> 12, latency |-> 6, traffic |-> 2]))
  IN  [anomaly |-> anomaly, impact |-> impact, investigate |-> clamp(Mean(anomaly, impact)),
       domain |-> Domain(s)]
=============================================================================
