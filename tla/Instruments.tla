----------------------------- MODULE Instruments -----------------------------
(***************************************************************************)
(* What an assessment is filed under, and what it is about                 *)
(* (src/otelprocessor/score.go): the identity of a metric, the summary     *)
(* Jev is told, and which metrics are decided by one assessment.           *)
(*                                                                         *)
(* An attribute's value has a kind, and a text: that of a string itself,   *)
(* of a number its shortest decimal form, of bytes their base64 form.      *)
(* A text need not be valid UTF-8: the collector does not look.            *)
(* SHA-256 is taken to be injective; nested maps and lists are left out.   *)
(***************************************************************************)
EXTENDS Naturals, Sequences, FiniteSets, Functions

CONSTANTS Instruments,        \* the metrics that may arrive, with scope and resource
          ProtectedMetrics,   \* policy.protected_metrics
          ProtectedPrefixes,  \* policy.protected_prefixes
          StartsWith,         \* pairs of a name and a prefix of it
          Coercion,           \* per text that is not valid UTF-8: what json writes for it
          Before,             \* pairs of texts, the first sorted before the second
          ContextAttributes,  \* context_attributes
          Absent              \* a field that is left out

VARIABLES assessed,  \* per key with a fresh assessment: the instrument Jev was told of
          decided    \* the last instrument decided by an assessment, and that one's
vars == <<assessed, decided>>

-----------------------------------------------------------------------------
(* Values.                                                                  *)

Quoted    == {"string", "bytes"}
NonFinite == {"NaN", "Inf"}

Encodes(v) == ~(v.kind = "double" /\ v.text \in NonFinite)

\* json.Marshal writes \ufffd for every byte that is not UTF-8.
Text(s) == IF s \in DOMAIN Coercion THEN Coercion[s] ELSE s

\* A number's kind does not show: 1 and 1.0 are the same text.
JSON(v) == [quoted |-> v.kind \in Quoted, text |-> Text(v.text)]

\* A map: its entries in the order of their names, which are coerced only as they are
\* written, so that two of them may come out the same.
Place(k, attributes) == Cardinality({n \in DOMAIN attributes : <<n, k>> \in Before})
Object(attributes) ==
  {[at |-> Place(k, attributes), name |-> Text(k), value |-> JSON(attributes[k])] :
     k \in DOMAIN attributes}

\* fmt.Sprint of the raw value: without quotes, and bytes as a list of numbers.
Printed(v) == [list |-> v.kind = "bytes", text |-> v.text]

Each(Op(_), attributes) == [k \in DOMAIN attributes |-> Op(attributes[k])]

AllEncode(attributes) == \A k \in DOMAIN attributes : Encodes(attributes[k])

-----------------------------------------------------------------------------
(* Identity and summary.                                                    *)

HasTemporality == {"Sum", "Histogram", "ExponentialHistogram"}

summarizeIdentity(i) ==
  [name |-> i.name, description |-> i.description, unit |-> i.unit, type |-> i.type,
   scopeName |-> i.scope.name, scopeVersion |-> i.scope.version,
   temporality |-> IF i.type \in HasTemporality THEN i.temporality ELSE Absent,
   monotonic   |-> IF i.type = "Sum" THEN i.monotonic ELSE Absent]

\* The same as JSON.
Written(s) ==
  [s EXCEPT !.name = Text(@), !.description = Text(@), !.unit = Text(@),
            !.scopeName = Text(@), !.scopeVersion = Text(@)]

\* The empty key of an instrument that cannot be encoded.
NoKey == [encoded |-> FALSE]

scoreKey(i) ==
  IF AllEncode(i.resource.attributes) /\ AllEncode(i.scope.attributes)
  THEN [encoded     |-> TRUE,
        resource    |-> Object(i.resource.attributes),
        scope       |-> Object(i.scope.attributes),
        resourceURL |-> Text(i.resource.url), scopeURL |-> Text(i.scope.url),
        identity    |-> Written(summarizeIdentity(i))]
  ELSE NoKey

copyAllowedContext(attributes) ==
  [k \in DOMAIN attributes \cap ContextAttributes |-> Printed(attributes[k])]

\* The attributes of the data points; an instrument without data has none.
Points(i) == IF i.type = "Empty" THEN << >> ELSE i.points

\* What Jev is told of an instrument, before it is written as JSON.
summarizeMetric(i) ==
  [identity        |-> summarizeIdentity(i),
   dataPoints      |-> Len(Points(i)),
   estimatedSeries |-> Cardinality({Each(Printed, p) : p \in Range(Points(i))}),
   attributeKeys   |-> UNION {DOMAIN p : p \in Range(Points(i))},
   context         |-> copyAllowedContext(i.resource.attributes)]

protectedMetric(name) ==
  name \in ProtectedMetrics \/ \E prefix \in ProtectedPrefixes : <<name, prefix>> \in StartsWith

-----------------------------------------------------------------------------
(* Assessments and decisions, of one processor or of all that share them.   *)

Assessable(i) == ~protectedMetric(i.name) /\ scoreKey(i) # NoKey

Init == assessed = [k \in {} |-> Absent] /\ decided = << >>

\* An instrument without a fresh assessment is enqueued, and assessed by its summary.
Assess(i) ==
  /\ Assessable(i) /\ scoreKey(i) \notin DOMAIN assessed
  /\ assessed' = [k \in DOMAIN assessed \cup {scoreKey(i)} |->
                    IF k = scoreKey(i) THEN i ELSE assessed[k]]
  /\ UNCHANGED decided

\* An instrument with one is decided by it.
Decide(i) ==
  /\ Assessable(i) /\ scoreKey(i) \in DOMAIN assessed
  /\ decided' = <<i, assessed[scoreKey(i)]>>
  /\ UNCHANGED assessed

\* An assessment expires or is evicted.
Forget(key) ==
  /\ key \in DOMAIN assessed
  /\ assessed' = Restrict(assessed, DOMAIN assessed \ {key})
  /\ UNCHANGED decided

Next == (\E i \in Instruments : Assess(i) \/ Decide(i)) \/ (\E key \in DOMAIN assessed : Forget(key))

Spec == Init /\ [][Next]_vars

-----------------------------------------------------------------------------
(* What must hold.                                                          *)

SameIdentity(i, j) ==
  /\ i.resource = j.resource /\ i.scope = j.scope
  /\ summarizeIdentity(i) = summarizeIdentity(j)

\* README.md:269 and score.go:109: an instrument is decided by an assessment of its own
\* complete identity, the types of its attributes' values included.
DecidedByItsOwnIdentity ==
  decided # << >> => SameIdentity(decided[1], decided[2])

\* What the key does guarantee.  Two instruments decided by one assessment are, as json
\* writes texts, the same metric of the same scope and schemas, their attributes have
\* the same names, and neither is protected.
Names(attributes) == {Text(k) : k \in DOMAIN attributes}

Related(i, j) ==
  /\ Written(summarizeIdentity(i)) = Written(summarizeIdentity(j))
  /\ Text(i.resource.url) = Text(j.resource.url) /\ Text(i.scope.url) = Text(j.scope.url)
  /\ Names(i.resource.attributes) = Names(j.resource.attributes)
  /\ Names(i.scope.attributes) = Names(j.scope.attributes)
  /\ ~protectedMetric(i.name) /\ ~protectedMetric(j.name)

DecidedByARelative == decided # << >> => Related(decided[1], decided[2])

\* What Jev is told of an instrument apart from its data points.
Description(i) ==
  [identity |-> summarizeMetric(i).identity, context |-> summarizeMetric(i).context]
=============================================================================
