------------------------ MODULE ConfigurationProofs ------------------------
(***************************************************************************)
(* Theorems about ProcessorConfiguration and ExporterConfiguration: what   *)
(* an accepted configuration guarantees to the other modules, which assume *)
(* it of their constants.                                                  *)
(***************************************************************************)
EXTENDS ProcessorConfiguration, Sequences, TLAPS

-----------------------------------------------------------------------------
(* What a valid configuration guarantees.                                   *)

\* The default configuration lacks nothing but the API key, also when a Redis is named.
THEOREM DefaultIsValid ==
  ASSUME {NaN, Infinity, Unparsed} \cap Int = {}
  PROVE  /\ ~Validate(createDefaultConfig)
         /\ Validate(Completed(TRUE, "none")) /\ Validate(Completed(TRUE, "valid"))
<1>1. ~Validate(createDefaultConfig)
  BY SMT DEF createDefaultConfig, Completed, Validate
<1>2. \A url \in {"none", "valid"} : Validate(Completed(TRUE, url))
  BY SMT DEF Completed, Validate, ValidateCoordination, Positive, Probability, Second,
             Millisecond, One
<1> QED
  BY <1>1, <1>2

\* An accepted threshold is a number of the scale.
LEMMA Thresholds ==
  ASSUME NEW x \in Floats, Probability(x)
  PROVE  x \in 0 .. One
<1>1. x \in Int
  BY DEF Floats, Probability
<1>2. 0 <= x /\ x <= One
  BY DEF Probability
<1>3. One \in Int
  BY DEF One
<1> QED
  BY <1>1, <1>2, <1>3

\* The assumptions of RetentionPolicy, ScoreCache and MetricsProcessor on their constants:
\* the thresholds are ordered probabilities, all sizes are positive, and so are
\* the timeout of Jev's client and the lifetime of an assessment.
THEOREM SizesAndThresholds ==
  ASSUME NEW c \in Config, Validate(c)
  PROVE  /\ {c.policy.keepThreshold, c.policy.dropThreshold} \subseteq 0 .. One
         /\ c.policy.dropThreshold <= c.policy.keepThreshold
         /\ {c.queueSize, c.cacheSize, c.workers, c.rateLimit.burst} \subseteq Nat \ {0}
         /\ {c.timeout, c.policy.scoreTTL} \subseteq Nat \ {0}
<1>1. c.policy.keepThreshold \in Floats /\ c.policy.dropThreshold \in Floats
  BY DEF Config
<1>2. c.policy.keepThreshold \in 0 .. One /\ c.policy.dropThreshold \in 0 .. One
  BY <1>1, Thresholds DEF Validate
<1>3. {c.queueSize, c.cacheSize, c.workers, c.rateLimit.burst} \subseteq Nat \ {0}
  BY DEF Config, Validate
<1>4. {c.timeout, c.policy.scoreTTL} \subseteq Nat \ {0}
  BY DEF Config, Validate, Positive, Durations
<1> QED
  BY <1>2, <1>3, <1>4 DEF Validate

\* A processor does exactly one of the two, however its mode is spelled: without
\* the normalisation, "Reduce" is valid, and neither annotates nor drops.
THEOREM OneMode ==
  ASSUME NEW c \in Config, Validate(c)
  PROVE  Annotates(normalized(c.mode)) # Reduces(normalized(c.mode))
BY DEF Config, Validate, normalized, Annotates, Reduces

\* Cutting to milliseconds takes off less than one.
LEMMA Cut ==
  ASSUME NEW d \in Int
  PROVE  Milliseconds(d) \in Int /\ InRedis(d) <= d /\ d - Millisecond < InRedis(d)
BY SMT DEF Milliseconds, InRedis, Millisecond

\* A whole number of milliseconds below a duration is not above what is left of it.
LEMMA CutKeepsWhole ==
  ASSUME NEW d \in Int, NEW n \in Int, n * Millisecond < d
  PROVE  n * Millisecond <= InRedis(d)
BY SMT DEF Milliseconds, InRedis, Millisecond

\* A lease that lasts for an inference and two calls, in whole milliseconds.
LEMMA LeaseIsCut ==
  ASSUME NEW timeout \in Int, NEW call \in Int, NEW lease \in Int,
         lease > timeout + 2 * call
  PROVE  /\ InRedis(timeout) = timeout /\ InRedis(call) = call => InRedis(lease) >= timeout + 2 * call
         /\ InRedis(lease) > (timeout + 2 * call) - Millisecond
         /\ timeout >= Millisecond => InRedis(lease) > 2 * call
<1>1. InRedis(lease) > (timeout + 2 * call) - Millisecond
  BY SMT DEF Milliseconds, InRedis, Millisecond
<1>2. timeout >= Millisecond => InRedis(lease) > 2 * call
  BY SMT DEF Milliseconds, InRedis, Millisecond
<1>3. ASSUME InRedis(timeout) = timeout, InRedis(call) = call
      PROVE  InRedis(lease) >= timeout + 2 * call
  <2> DEFINE sum == Milliseconds(timeout) + 2 * Milliseconds(call)
  <2>1. sum \in Int
    BY Cut
  <2>2. timeout + 2 * call = sum * Millisecond
    BY <1>3, SMT DEF InRedis, Milliseconds, Millisecond
  <2> QED
    BY <2>1, <2>2, CutKeepsWhole
<1> QED
  BY <1>1, <1>2, <1>3

\* What Redis makes of durations.  An assessment lives there for at least a millisecond,
\* and never longer than score_ttl, so that decode refuses no fresh hit.  A lease is cut
\* by less than a millisecond: with timeouts of whole milliseconds it still lasts until
\* a prompt owner has published; with any timeouts, if an inference may take a
\* millisecond, it lasts for two calls of Redis, which Coordination assumes.
THEOREM LeasesInRedis ==
  ASSUME NEW c \in Config, Validate(c), c.coordination.redisURL # "none"
  PROVE  /\ Milliseconds(c.policy.scoreTTL) >= 1
         /\ InRedis(c.policy.scoreTTL) <= c.policy.scoreTTL
         /\ (InRedis(c.timeout) = c.timeout /\ InRedis(c.coordination.timeout) = c.coordination.timeout)
            => InRedis(c.coordination.leaseTTL) >= LatestPublication(c)
         /\ InRedis(c.coordination.leaseTTL) > LatestPublication(c) - Millisecond
         /\ c.timeout >= Millisecond
            => InRedis(c.coordination.leaseTTL) > 2 * c.coordination.timeout
<1>1. /\ c.timeout \in Int /\ c.coordination.timeout \in Int
      /\ c.coordination.leaseTTL \in Int /\ c.policy.scoreTTL \in Int
  BY DEF Config, Validate, ValidateCoordination, Positive, Durations
<1>2. /\ c.coordination.leaseTTL > c.timeout + 2 * c.coordination.timeout
      /\ c.policy.scoreTTL >= Millisecond
  BY DEF Validate, ValidateCoordination
<1>3. Milliseconds(c.policy.scoreTTL) >= 1 /\ InRedis(c.policy.scoreTTL) <= c.policy.scoreTTL
  BY <1>1, <1>2, SMT DEF Milliseconds, InRedis, Millisecond
<1>4. (InRedis(c.timeout) = c.timeout /\ InRedis(c.coordination.timeout) = c.coordination.timeout)
      => InRedis(c.coordination.leaseTTL) >= LatestPublication(c)
  BY <1>1, <1>2, LeaseIsCut DEF LatestPublication
<1>5. InRedis(c.coordination.leaseTTL) > LatestPublication(c) - Millisecond
  BY <1>1, <1>2, LeaseIsCut DEF LatestPublication
<1>6. c.timeout >= Millisecond => InRedis(c.coordination.leaseTTL) > 2 * c.coordination.timeout
  BY <1>1, <1>2, LeaseIsCut
<1> QED
  BY <1>3, <1>4, <1>5, <1>6

-----------------------------------------------------------------------------
(* What a start guarantees, and what it does not.                           *)

CONSTANTS Unset,  \* a text that is missing or empty
          Names   \* the names signals may have, without the empty one

Exporter == INSTANCE ExporterConfiguration

\* The exporter that starts has one of the three evaluators of StandaloneExporter, and
\* every call of Jev ends by a timeout, also if the file says "0s" or less: what
\* StandaloneExporter assumes of its constants and of fairness.
THEOREM ExporterStartsBounded ==
  ASSUME NEW f \in Exporter!File, NEW keyGiven \in BOOLEAN, Exporter!Starts(f, keyGiven)
  PROVE  /\ Exporter!Evaluator(Exporter!Loaded(f)) \in {"baseline", "jev", "fallback"}
         /\ Exporter!Evaluator(Exporter!Loaded(f)) # "baseline" => keyGiven
         /\ Exporter!JevTimeout(Exporter!Loaded(f)) \in Nat \ {0}
         /\ Exporter!Loaded(f).signals \in Seq(Names)
<1>1. Exporter!Loaded(f).timeout \in Int
  BY DEF Exporter!Starts, Exporter!Loads, Exporter!Loaded, Exporter!OrDefault, Exporter!File,
         Exporter!Durations
<1>2. Exporter!JevTimeout(Exporter!Loaded(f)) \in Nat \ {0}
  BY <1>1 DEF Exporter!JevTimeout
<1>3. Exporter!Evaluator(Exporter!Loaded(f)) # "baseline" => keyGiven
  BY DEF Exporter!Starts, Exporter!Loads, Exporter!Evaluator
<1>4. Exporter!Loaded(f).signals = f.signals /\ f.signals \in Seq(Names \cup {Unset})
  BY DEF Exporter!Loaded, Exporter!File
<1>5. \A i \in 1 .. Len(f.signals) : f.signals[i] \in Names
  BY <1>4 DEF Exporter!Starts, Exporter!Loads
<1>6. Exporter!Loaded(f).signals \in Seq(Names)
  BY <1>4, <1>5
<1> QED
  BY <1>2, <1>3, <1>6 DEF Exporter!Evaluator

\* Nothing guarantees a ticker: a file with a poll_interval of "0s" is loaded, the first
\* round is polled, and then NewTicker panics (exporter.go:46).
THEOREM NotEveryStartTicks ==
  ASSUME Unset \notin Int, Unparsed \notin Int, Unset # "baseline"
  PROVE  \E f \in Exporter!File : Exporter!Starts(f, FALSE) /\ ~Exporter!Ticks(Exporter!Loaded(f))
<1> DEFINE f == [url |-> TRUE, poll |-> 0, type |-> "baseline", timeout |-> 3,
                 fallback |-> FALSE, signals |-> << >>]
<1>1. f \in Exporter!File
  BY DEF Exporter!File, Exporter!Durations
<1>2. /\ Exporter!Loaded(f).poll = 0 /\ Exporter!Loaded(f).timeout = 3
      /\ Exporter!Loaded(f).type = "baseline"
  BY DEF Exporter!Loaded, Exporter!OrDefault
<1>3. Exporter!Starts(f, FALSE) /\ ~Exporter!Ticks(Exporter!Loaded(f))
  BY <1>2 DEF Exporter!Starts, Exporter!Loads, Exporter!Ticks
<1> QED
  BY <1>1, <1>3
=============================================================================
