-------------------------- MODULE StandaloneExporter --------------------------
(***************************************************************************)
(* The standalone exporter (src/internal/exporter/exporter.go): one        *)
(* goroutine polls Prometheus for each configured signal, has it assessed  *)
(* and publishes the result; scrapes read what is published, under the     *)
(* same lock, so that every state below is one a scrape may see.           *)
(*                                                                         *)
(* Published state belongs to a name, and names may repeat.  Of the time   *)
(* of the last success the model keeps whether there was one; counters of  *)
(* failed queries are left out.                                            *)
(***************************************************************************)
EXTENDS FeatureScores, FiniteSets

CONSTANTS Signals,       \* the names of the configured signals, in order
          Unqueried,     \* pairs of name and feature without a query
          Flaky,         \* names whose queries may fail
          Answers,       \* per feature: what Prometheus may answer
          Evaluators,    \* the evaluators that may be configured
          JevAnswers,    \* what Jev may answer
          None           \* no failure domain yet, or no assessment

ASSUME ExporterAssumption ==
  /\ Signals \in Seq(STRING) /\ Signals # << >>
  /\ Evaluators \subseteq {"baseline", "jev", "fallback"}
  /\ JevAnswers \subseteq [anomaly : Int, impact : Int, investigate : Int, domain : Domains]

\* What the proofs use of numbers: NaN is none of them, and None is not a row of them.
ASSUME NumbersAssumption ==
  /\ NaN \notin Int
  /\ \A i \in DOMAIN Features : Answers[Features[i]] \subseteq Int \cup {NaN}
  /\ None \notin Seq(Int \cup {NaN})

VARIABLES
  evaluator,  \* the one configured; "fallback" is Jev, then the baseline
  state,      \* e.state: what is published per name
  turn,       \* the signal collect is at; 0 between two rounds
  raw,        \* the values collect has read for it so far
  cancelled,  \* whether the context is cancelled
  returned,   \* whether Run has returned
  heard,      \* history: what Prometheus answered for this signal in this round
  basis       \* history, per name: the answers the published assessment is for
vars == <<evaluator, state, turn, raw, cancelled, returned, heard, basis>>

Names == {Signals[i] : i \in DOMAIN Signals}

Unassessed == [anomaly |-> 0, impact |-> 0, investigate |-> 0, domain |-> None]

\* Run begins with a round at once.
Init ==
  /\ evaluator \in Evaluators
  /\ state = [n \in Names |-> [assessment |-> Unassessed, success |-> FALSE]]
  /\ turn = 1 /\ raw = << >>
  /\ cancelled = FALSE /\ returned = FALSE
  /\ heard = << >> /\ basis = [n \in Names |-> None]

Name    == Signals[turn]
Feature == Features[Len(raw) + 1]

Querying   == turn # 0 /\ Len(raw) < Len(Features)
Evaluating == turn # 0 /\ Len(raw) = Len(Features)

NextSignal ==
  /\ turn' = IF turn = Len(Signals) THEN 0 ELSE turn + 1
  /\ raw' = << >> /\ heard' = << >>

\* An empty query is not asked; its value is 0, as is that of an empty result.
QuerySucceeds ==
  /\ Querying
  /\ \E v \in IF <<Name, Feature>> \in Unqueried THEN {0} ELSE Answers[Feature] \cup {0} :
       raw' = Append(raw, v) /\ heard' = Append(heard, v)
  /\ UNCHANGED <<evaluator, state, turn, cancelled, returned, basis>>

MayFail == <<Name, Feature>> \notin Unqueried /\ (Name \in Flaky \/ cancelled)

\* Mutants: a failed query counts as zero; it ends the round.
QueryFailsAsZero ==
  /\ Querying /\ MayFail
  /\ raw' = Append(raw, 0)
  /\ UNCHANGED <<evaluator, state, turn, cancelled, returned, heard, basis>>

QueryFailsForAll ==
  /\ Querying /\ MayFail
  /\ turn' = 0 /\ raw' = << >> /\ heard' = << >>
  /\ UNCHANGED <<evaluator, state, cancelled, returned, basis>>

\* The signal keeps what it published before.
QueryFails ==
  /\ Querying /\ MayFail
  /\ NextSignal
  /\ UNCHANGED <<evaluator, state, cancelled, returned, basis>>

\* Jev's answers are clamped.  A request that holds a NaN cannot be encoded.
JevAssessments(values) ==
  IF \E i \in DOMAIN values : values[i] = NaN THEN {}
  ELSE {[anomaly |-> clamp(a.anomaly), impact |-> clamp(a.impact),
         investigate |-> clamp(a.investigate), domain |-> a.domain] : a \in JevAnswers}

Assessments(values) ==
  (IF evaluator = "baseline" THEN {} ELSE JevAssessments(values))
  \cup (IF evaluator = "jev" THEN {} ELSE {Baseline(Extract(values))})

\* Fallback included: Jev may fail at any time, and the baseline is then asked.
Publish ==
  /\ Evaluating
  /\ \E a \in Assessments(raw) :
       state' = [state EXCEPT ![Name].assessment = a, ![Name].success = TRUE]
  /\ basis' = [basis EXCEPT ![Name] = heard]
  /\ NextSignal
  /\ UNCHANGED <<evaluator, cancelled, returned>>

\* An error of the evaluator is logged only.
EvaluationFails ==
  /\ Evaluating
  /\ evaluator = "jev"
  /\ NextSignal
  /\ UNCHANGED <<evaluator, state, cancelled, returned, basis>>

\* The ticker fires.
NextRound ==
  /\ turn = 0 /\ ~returned
  /\ turn' = 1
  /\ UNCHANGED <<evaluator, state, raw, cancelled, returned, heard, basis>>

\* A signal ends the program.
Cancel ==
  /\ ~cancelled
  /\ cancelled' = TRUE
  /\ UNCHANGED <<evaluator, state, turn, raw, returned, heard, basis>>

\* collect does not look at the context; Run does, between two rounds.
Return ==
  /\ turn = 0 /\ cancelled /\ ~returned
  /\ returned' = TRUE
  /\ UNCHANGED <<evaluator, state, turn, raw, cancelled, heard, basis>>

Poll == QuerySucceeds \/ QueryFails \/ Publish \/ EvaluationFails \/ NextRound \/ Return

Next == Poll \/ Cancel

Spec == Init /\ [][Next]_vars

\* Queries and evaluations end: their HTTP clients have timeouts.
FairSpec == Spec /\ WF_vars(Poll)

-----------------------------------------------------------------------------
Probability == 0 .. One

TypeOK ==
  /\ evaluator \in Evaluators
  /\ state \in [Names -> [assessment : [anomaly : Probability \cup {NaN},
                                        impact : Probability \cup {NaN},
                                        investigate : Probability \cup {NaN},
                                        domain : Domains \cup {None}],
                          success : BOOLEAN]]
  /\ turn \in 0 .. Len(Signals)
  /\ Len(raw) <= Len(Features)
  /\ cancelled \in BOOLEAN /\ returned \in BOOLEAN

\* What is published for a name is an assessment of four values that Prometheus
\* answered in one round for a signal of that name: a failed query never goes in as
\* a value, nor a value of another signal, nor one of an earlier round.
RestsOnOneRound ==
  \A n \in Names :
    IF state[n].success
    THEN /\ basis[n] # None /\ Len(basis[n]) = Len(Features)
         /\ state[n].assessment \in Assessments(basis[n])
    ELSE state[n].assessment = Unassessed

\* Values that are no better never make a signal look better: normalisation, weights and
\* clamping keep the order - where the baseline assesses and no value is NaN.
Comparable(n) == evaluator = "baseline" /\ basis[n] # None /\ \A i \in DOMAIN Features : basis[n][i] # NaN
WorseIsNotBetter ==
  \A m, n \in Names :
    (Comparable(m) /\ Comparable(n) /\ \A i \in DOMAIN Features : basis[m][i] >= basis[n][i])
    => /\ state[m].assessment.anomaly >= state[n].assessment.anomaly
       /\ state[m].assessment.impact >= state[n].assessment.impact
       /\ state[m].assessment.investigate >= state[n].assessment.investigate

Severity(s) == [resource |-> s.saturation, errors |-> s.errors, latency |-> s.latency]

\* The failure domain the baseline publishes is one with the highest score.
DomainIsWorst ==
  \A n \in Names : Comparable(n) =>
    LET severity == Severity(Extract(basis[n]))
    IN  \A d \in DOMAIN severity : severity[d] <= severity[state[n].assessment.domain]

\* exporter.go:120 and 122: the published probabilities lie between 0 and 1.
PublishedProbabilities ==
  \A n \in Names : {state[n].assessment.anomaly, state[n].assessment.impact} \subseteq Probability

\* A signal whose queries are answered is assessed again and again until the program
\* ends, however other signals fail - unless Jev is asked alone, which may always fail.
Refreshes(n) == Evaluating /\ Name = n /\ Publish
StaysFresh ==
  \A n \in Names \ Flaky :
    evaluator # "jev" => <>cancelled \/ []<><<Refreshes(n)>>_vars
=============================================================================
