----------------------- MODULE ProcessorConfiguration -----------------------
(***************************************************************************)
(* Which configurations the processor starts with                          *)
(* (src/otelprocessor/config.go, factory.go).                              *)
(*                                                                         *)
(* Durations are in nanoseconds, thresholds in millionths, rates in        *)
(* millionths per second.  Of a text the model keeps what Validate asks:   *)
(* whether it is there ("none"), parses, or is one of two words.           *)
(***************************************************************************)
EXTENDS Integers

CONSTANTS Unparsed,  \* a text that is no duration
          NaN, Infinity

Millisecond == 1000000
Second      == 1000 * Millisecond
One         == 1000000

Durations == Int \cup {Unparsed}
Floats    == Int \cup {NaN, Infinity}

Config ==
  [rateLimit    : [requestsPerSecond : Floats, burst : Int],
   coordination : [redisURL : {"none", "valid", "malformed"}, namespace : BOOLEAN, revision : BOOLEAN,
                   timeout : Durations, leaseTTL : Durations,
                   maxInFlight : Int, requestsPerSecond : Int],
   apiKey : BOOLEAN, baseURL : BOOLEAN, model : BOOLEAN,
   timeout : Durations,
   mode : [word : {"annotate", "reduce", "other"}, lower : BOOLEAN],
   queueSize : Int, cacheSize : Int, workers : Int,
   policy : [keepThreshold : Floats, dropThreshold : Floats, scoreTTL : Durations]]

Positive(d) == d # Unparsed /\ d > 0

\* Infinity exceeds one, which every threshold may not.
Probability(x) == x \notin {NaN, Infinity} /\ 0 <= x /\ x <= One

ValidateCoordination(c) ==
  /\ c.coordination.redisURL = "valid"
  /\ c.coordination.namespace /\ c.coordination.revision
  /\ c.coordination.timeout # Unparsed /\ c.coordination.timeout >= Millisecond
  /\ c.coordination.leaseTTL # Unparsed
  /\ c.coordination.leaseTTL > c.timeout + 2 * c.coordination.timeout
  /\ c.policy.scoreTTL >= Millisecond
  /\ c.coordination.maxInFlight > 0 /\ c.coordination.requestsPerSecond > 0

Validate(c) ==
  /\ c.rateLimit.requestsPerSecond \notin {NaN, Infinity}
  /\ c.rateLimit.requestsPerSecond > 0 /\ c.rateLimit.burst > 0
  /\ c.apiKey /\ c.baseURL /\ c.model
  /\ Positive(c.timeout) /\ Positive(c.policy.scoreTTL)
  /\ c.mode.word \in {"annotate", "reduce"}
  /\ c.queueSize > 0 /\ c.workers > 0 /\ c.cacheSize > 0
  /\ Probability(c.policy.keepThreshold) /\ Probability(c.policy.dropThreshold)
  /\ c.policy.dropThreshold <= c.policy.keepThreshold
  /\ c.coordination.redisURL # "none" => ValidateCoordination(c)

\* The default configuration, completed with a key and the URL of a Redis.
Completed(key, redisURL) ==
  [rateLimit    |-> [requestsPerSecond |-> 10 * One, burst |-> 1],
   coordination |-> [redisURL |-> redisURL, namespace |-> TRUE, revision |-> TRUE,
                     timeout |-> Second, leaseTTL |-> 10 * Second,
                     maxInFlight |-> 4, requestsPerSecond |-> 10],
   apiKey |-> key, baseURL |-> TRUE, model |-> TRUE,
   timeout |-> 3 * Second,
   mode |-> [word |-> "annotate", lower |-> TRUE],
   queueSize |-> 256, cacheSize |-> 10000, workers |-> 2,
   policy |-> [keepThreshold |-> 700000, dropThreshold |-> 300000, scoreTTL |-> 900 * Second]]

createDefaultConfig == Completed(FALSE, "none")

-----------------------------------------------------------------------------
(* What the processor makes of a configuration.                             *)

\* newProcessor keeps the mode in lower case.
normalized(mode) == [word |-> mode.word, lower |-> TRUE]

\* The comparisons of ConsumeMetrics, letter by letter.
Annotates(mode) == mode = [word |-> "annotate", lower |-> TRUE]
Reduces(mode)   == mode = [word |-> "reduce", lower |-> TRUE]

\* Redis counts whole milliseconds; the remainder is cut off.
Milliseconds(d) == d \div Millisecond
InRedis(d)      == Milliseconds(d) * Millisecond

\* The latest a prompt owner's result reaches Redis, counted from its request for the
\* lease: the grant, the inference and the publication each end by their timeouts.
LatestPublication(c) == c.timeout + 2 * c.coordination.timeout
=============================================================================
