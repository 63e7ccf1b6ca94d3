----------------------- MODULE StandaloneExporterProofs -----------------------
(***************************************************************************)
(* Theorems about StandaloneExporter and the scores of FeatureScores: for  *)
(* any number of signals, with any names, any values Prometheus answers    *)
(* and any answers of Jev.                                                 *)
(***************************************************************************)
EXTENDS StandaloneExporter, TLAPS

-----------------------------------------------------------------------------
(* The scores.                                                              *)

Value     == Int \cup {NaN}
Score     == 0 .. Unit
FeatureOf == {"errors", "latency", "traffic", "saturation"}

\* Four values, one per feature.
Row == {row \in Seq(Value) : Len(row) = Len(Features)}

LEMMA FourFeatures ==
  /\ Len(Features) = 4 /\ DOMAIN Features = 1 .. 4
  /\ {Features[i] : i \in DOMAIN Features} = FeatureOf
BY DEF Features, FeatureOf

LEMMA NumbersCompare ==
  ASSUME NEW x \in Int, NEW y \in Int
  PROVE  x # NaN /\ (AtMost(x, y) <=> x <= y)
BY NumbersAssumption DEF AtMost

LEMMA NormalizeNumber ==
  ASSUME NEW x \in Int, NEW h \in Int, NEW b \in Int
  PROVE  normalize(x, h, b) = IF x <= h THEN 0 ELSE IF b <= x THEN Unit
                              ELSE (x - h) * (Unit \div (b - h))
<1>1. x # NaN /\ (AtMost(x, h) <=> x <= h) /\ (AtMost(b, x) <=> b <= x)
  BY NumbersCompare
<1> QED BY <1>1 DEF normalize

LEMMA RangesAreNumbers ==
  /\ \A x \in Score : x \in Int /\ x # NaN
  /\ \A x \in Probability : x \in Int /\ x # NaN /\ 0 <= x /\ x <= One
  /\ One \in Int /\ 0 < One
<1>1. \A x \in Int : x # NaN
  BY NumbersAssumption
<1>2. One \in Int /\ Unit \in Int /\ 0 < One
  BY DEF One, Unit
<1> QED BY <1>1, <1>2 DEF Score, Probability

\* A number is normalised between 0 and Unit, and a greater one to no less.
LEMMA Normalised ==
  ASSUME NEW f \in FeatureOf, NEW v \in Int, NEW w \in Int
  PROVE  /\ normalize(v, Healthy[f], Bad[f]) \in Score
         /\ v <= w => normalize(v, Healthy[f], Bad[f]) <= normalize(w, Healthy[f], Bad[f])
<1> DEFINE n(x) == normalize(x, Healthy[f], Bad[f])
<1>1. ASSUME NEW x \in Int, NEW h \in Int, NEW b \in Int, NEW q \in Int,
             Healthy[f] = h, Bad[f] = b, Unit \div (b - h) = q
      PROVE  n(x) = IF x <= h THEN 0 ELSE IF b <= x THEN Unit ELSE (x - h) * q
  BY <1>1, NormalizeNumber
<1> HIDE DEF n
<1>2. CASE f = "errors"
  <2>1. Healthy[f] = 1 /\ Bad[f] = 10 /\ Unit \div (10 - 1) = 49
    BY <1>2 DEF Healthy, Bad, Unit
  <2>2. ASSUME NEW x \in Int
        PROVE  n(x) = IF x <= 1 THEN 0 ELSE IF 10 <= x THEN Unit ELSE (x - 1) * 49
    BY <1>1, <2>1
  <2>3. n(v) \in Score /\ (v <= w => n(v) <= n(w))
    BY <2>2 DEF Score, Unit
  <2> QED BY <2>3 DEF n
<1>3. CASE f = "latency"
  <2>1. Healthy[f] = 1 /\ Bad[f] = 8 /\ Unit \div (8 - 1) = 63
    BY <1>3 DEF Healthy, Bad, Unit
  <2>2. ASSUME NEW x \in Int
        PROVE  n(x) = IF x <= 1 THEN 0 ELSE IF 8 <= x THEN Unit ELSE (x - 1) * 63
    BY <1>1, <2>1
  <2>3. n(v) \in Score /\ (v <= w => n(v) <= n(w))
    BY <2>2 DEF Score, Unit
  <2> QED BY <2>3 DEF n
<1>4. CASE f = "traffic"
  <2>1. Healthy[f] = 1 /\ Bad[f] = 50 /\ Unit \div (50 - 1) = 9
    BY <1>4 DEF Healthy, Bad, Unit
  <2>2. ASSUME NEW x \in Int
        PROVE  n(x) = IF x <= 1 THEN 0 ELSE IF 50 <= x THEN Unit ELSE (x - 1) * 9
    BY <1>1, <2>1
  <2>3. n(v) \in Score /\ (v <= w => n(v) <= n(w))
    BY <2>2 DEF Score, Unit
  <2> QED BY <2>3 DEF n
<1>5. CASE f = "saturation"
  <2>1. Healthy[f] = 7 /\ Bad[f] = 10 /\ Unit \div (10 - 7) = 147
    BY <1>5 DEF Healthy, Bad, Unit
  <2>2. ASSUME NEW x \in Int
        PROVE  n(x) = IF x <= 7 THEN 0 ELSE IF 10 <= x THEN Unit ELSE (x - 7) * 147
    BY <1>1, <2>1
  <2>3. n(v) \in Score /\ (v <= w => n(v) <= n(w))
    BY <2>2 DEF Score, Unit
  <2> QED BY <2>3 DEF n
<1> QED BY <1>2, <1>3, <1>4, <1>5 DEF FeatureOf

\* NaN is neither healthy nor bad.
LEMMA NaNStays ==
  ASSUME NEW f \in FeatureOf
  PROVE  normalize(NaN, Healthy[f], Bad[f]) = NaN
BY DEF normalize, AtMost

\* Extract normalises every feature's value by that feature's range.
LEMMA ExtractNormalises ==
  ASSUME NEW row
  PROVE  LET s == Extract(row)
         IN  /\ s = [f \in FeatureOf |-> s[f]]
             /\ s.errors = normalize(row[1], Healthy["errors"], Bad["errors"])
             /\ s.latency = normalize(row[2], Healthy["latency"], Bad["latency"])
             /\ s.traffic = normalize(row[3], Healthy["traffic"], Bad["traffic"])
             /\ s.saturation = normalize(row[4], Healthy["saturation"], Bad["saturation"])
<1> DEFINE place(f) == CHOOSE j \in DOMAIN Features : Features[j] = f
<1>1. place("errors") = 1 /\ place("latency") = 2 /\ place("traffic") = 3 /\ place("saturation") = 4
  BY FourFeatures DEF Features
<1>2. Extract(row) = [f \in FeatureOf |-> normalize(row[place(f)], Healthy[f], Bad[f])]
  BY FourFeatures DEF Extract
<1> HIDE DEF place
<1> QED BY <1>1, <1>2 DEF FeatureOf

\* Without NaN there is a number for every feature.
Clear(row) == \A i \in DOMAIN Features : row[i] # NaN

LEMMA RowScores ==
  ASSUME NEW row \in Row, NEW f \in FeatureOf
  PROVE  /\ Extract(row)[f] \in Score \cup {NaN}
         /\ Clear(row) => Extract(row)[f] \in Score
<1>1. \A i \in 1 .. 4 : row[i] \in Value
  BY FourFeatures DEF Row
<1>2. \A v \in Value : normalize(v, Healthy[f], Bad[f]) \in Score \cup {NaN}
  BY Normalised, NaNStays DEF Value
<1>3. \A i \in 1 .. 4 : Clear(row) => row[i] \in Int
  BY <1>1, FourFeatures DEF Clear, Value
<1>4. PICK i \in 1 .. 4 : Extract(row)[f] = normalize(row[i], Healthy[f], Bad[f])
  BY ExtractNormalises DEF FeatureOf
<1> QED BY <1>1, <1>2, <1>3, <1>4, Normalised

LEMMA RowsCompare ==
  ASSUME NEW row \in Row, NEW other \in Row, Clear(row), Clear(other),
         \A i \in DOMAIN Features : row[i] >= other[i],
         NEW f \in FeatureOf
  PROVE  Extract(row)[f] >= Extract(other)[f]
<1>1. ASSUME NEW i \in 1 .. 4
      PROVE  row[i] \in Int /\ other[i] \in Int /\ other[i] <= row[i]
  <2>1. row[i] \in Value /\ other[i] \in Value /\ row[i] # NaN /\ other[i] # NaN /\ row[i] >= other[i]
    BY FourFeatures DEF Row, Clear
  <2> QED BY <2>1 DEF Value
<1>2. PICK i \in 1 .. 4 : /\ Extract(row)[f] = normalize(row[i], Healthy[f], Bad[f])
                          /\ Extract(other)[f] = normalize(other[i], Healthy[f], Bad[f])
  BY ExtractNormalises DEF FeatureOf
<1>3. normalize(other[i], Healthy[f], Bad[f]) <= normalize(row[i], Healthy[f], Bad[f])
  BY <1>1, Normalised
<1>4. Extract(row)[f] \in Score /\ Extract(other)[f] \in Score
  BY RowScores
<1> QED BY <1>2, <1>3, <1>4 DEF Score

Scored(s) == \A f \in FeatureOf : s[f] \in Score

LEMMA ScoredFeatures ==
  ASSUME NEW s, Scored(s)
  PROVE  /\ s.errors \in Int /\ s.latency \in Int /\ s.traffic \in Int /\ s.saturation \in Int
BY RangesAreNumbers DEF Scored, FeatureOf

\* The weighted sums of the baseline.
AnomalyWeight == [errors |-> 9, latency |-> 6, saturation |-> 3, traffic |-> 2]
ImpactWeight  == [errors |-> 12, latency |-> 6, traffic |-> 2]

LEMMA Sums ==
  ASSUME NEW s, Scored(s)
  PROVE  /\ Weighted(s, AnomalyWeight) =
              2 * (9 * s.errors + 6 * s.latency + 2 * s.traffic + 3 * s.saturation)
         /\ Weighted(s, ImpactWeight) = 2 * (12 * s.errors + 6 * s.latency + 2 * s.traffic)
<1>1. \A f \in FeatureOf : s[f] # NaN /\ s[f] \in Int
  BY RangesAreNumbers DEF Scored
<1>2. Weighted(s, AnomalyWeight) =
        2 * (9 * s.errors + 6 * s.latency + 2 * s.traffic + 3 * s.saturation)
  BY <1>1 DEF Weighted, AnomalyWeight, FeatureOf
<1>3. Weighted(s, ImpactWeight) = 2 * (12 * s.errors + 6 * s.latency + 2 * s.traffic + 0)
  BY <1>1 DEF Weighted, ImpactWeight, FeatureOf
<1> QED BY <1>1, <1>2, <1>3 DEF FeatureOf

LEMMA SumsAreValues ==
  ASSUME NEW s, \A f \in FeatureOf : s[f] \in Score \cup {NaN}
  PROVE  Weighted(s, AnomalyWeight) \in Value /\ Weighted(s, ImpactWeight) \in Value
<1>1. \A f \in FeatureOf : s[f] # NaN => s[f] \in Int
  BY RangesAreNumbers
<1>2. Weighted(s, AnomalyWeight) \in Value
  BY <1>1 DEF Weighted, AnomalyWeight, FeatureOf, Value
<1>3. Weighted(s, ImpactWeight) \in Value
  BY <1>1 DEF Weighted, ImpactWeight, FeatureOf, Value
<1> QED BY <1>2, <1>3

LEMMA ClampConfines ==
  ASSUME NEW v \in Value
  PROVE  /\ clamp(v) \in Probability \cup {NaN}
         /\ v \in Int => clamp(v) \in Probability
<1>1. CASE v = NaN
  BY <1>1, NumbersAssumption DEF clamp
<1>2. CASE v \in Int
  BY <1>2, NumbersCompare, RangesAreNumbers DEF clamp, Probability
<1> QED BY <1>1, <1>2 DEF Value

LEMMA ClampKeepsOrder ==
  ASSUME NEW v \in Int, NEW w \in Int, v <= w
  PROVE  clamp(v) <= clamp(w)
BY NumbersAssumption DEF clamp, One, Unit

LEMMA MeanIsBetween ==
  ASSUME NEW x \in Probability \cup {NaN}, NEW y \in Probability \cup {NaN}
  PROVE  /\ Mean(x, y) \in Value
         /\ x \in Probability /\ y \in Probability => Mean(x, y) \in Int
BY RangesAreNumbers DEF Mean, Value

LEMMA MeanKeepsOrder ==
  ASSUME NEW x \in Probability, NEW y \in Probability, NEW v \in Probability, NEW w \in Probability,
         x <= v, y <= w
  PROVE  Mean(x, y) <= Mean(v, w)
<1>1. x # NaN /\ y # NaN /\ v # NaN /\ w # NaN
  BY RangesAreNumbers
<1>2. x \in Int /\ y \in Int /\ v \in Int /\ w \in Int
  BY RangesAreNumbers
<1>3. (x + y) \div 2 <= (v + w) \div 2
  BY <1>2
<1> QED BY <1>1, <1>3 DEF Mean

-----------------------------------------------------------------------------
(* The baseline.                                                            *)

Published == [anomaly : Probability \cup {NaN}, impact : Probability \cup {NaN},
              investigate : Probability \cup {NaN}, domain : Domains \cup {None}]

BaselineOf(s) ==
  LET anomaly == clamp(Weighted(s, AnomalyWeight))
      impact  == clamp(Weighted(s, ImpactWeight))
  IN  [anomaly |-> anomaly, impact |-> impact, investigate |-> clamp(Mean(anomaly, impact)),
       domain |-> Domain(s)]

LEMMA BaselineFields == \A s : Baseline(s) = BaselineOf(s)
BY DEF Baseline, BaselineOf, AnomalyWeight, ImpactWeight

LEMMA BaselineTyped ==
  ASSUME NEW s, \A f \in FeatureOf : s[f] \in Score \cup {NaN}
  PROVE  /\ Baseline(s) \in Published
         /\ Scored(s) => /\ Baseline(s).anomaly \in Probability
                         /\ Baseline(s).impact \in Probability
                         /\ Baseline(s).investigate \in Probability
<1> DEFINE anomaly == clamp(Weighted(s, AnomalyWeight))
           impact  == clamp(Weighted(s, ImpactWeight))
           mean    == clamp(Mean(anomaly, impact))
<1>1. anomaly \in Probability \cup {NaN} /\ impact \in Probability \cup {NaN}
  BY SumsAreValues, ClampConfines
<1>2. mean \in Probability \cup {NaN}
  BY <1>1, MeanIsBetween, ClampConfines
<1>3. Domain(s) \in Domains
  BY DEF Domain, Domains
<1>4. ASSUME Scored(s)
      PROVE  anomaly \in Probability /\ impact \in Probability /\ mean \in Probability
  <2>1. Weighted(s, AnomalyWeight) \in Int /\ Weighted(s, ImpactWeight) \in Int
    BY <1>4, Sums, ScoredFeatures
  <2>2. anomaly \in Probability /\ impact \in Probability
    BY <2>1, ClampConfines DEF Value
  <2> HIDE DEF anomaly, impact
  <2> QED BY <1>1, <2>2, MeanIsBetween, ClampConfines
<1>5. Baseline(s) = [anomaly |-> anomaly, impact |-> impact, investigate |-> mean, domain |-> Domain(s)]
  BY BaselineFields DEF BaselineOf
<1> HIDE DEF anomaly, impact, mean
<1> QED BY <1>1, <1>2, <1>3, <1>4, <1>5 DEF Published

LEMMA BaselineKeepsOrder ==
  ASSUME NEW s, NEW t, Scored(s), Scored(t), \A f \in FeatureOf : s[f] >= t[f]
  PROVE  /\ Baseline(s).anomaly >= Baseline(t).anomaly
         /\ Baseline(s).impact >= Baseline(t).impact
         /\ Baseline(s).investigate >= Baseline(t).investigate
<1> DEFINE anomaly(x) == clamp(Weighted(x, AnomalyWeight))
           impact(x)  == clamp(Weighted(x, ImpactWeight))
<1>1. \A x \in {s, t} : \A f \in FeatureOf : x[f] \in Score \cup {NaN}
  BY DEF Scored
<1>2. ASSUME NEW x \in {s, t}
      PROVE  /\ Weighted(x, AnomalyWeight) \in Int /\ Weighted(x, ImpactWeight) \in Int
             /\ anomaly(x) \in Probability /\ impact(x) \in Probability
             /\ Mean(anomaly(x), impact(x)) \in Int
  <2>1. Weighted(x, AnomalyWeight) \in Int /\ Weighted(x, ImpactWeight) \in Int
    BY Sums, ScoredFeatures
  <2>2. anomaly(x) \in Probability /\ impact(x) \in Probability
    BY <2>1, ClampConfines DEF Value
  <2> HIDE DEF anomaly, impact
  <2> QED BY <2>1, <2>2, MeanIsBetween
<1>3. /\ Weighted(s, AnomalyWeight) >= Weighted(t, AnomalyWeight)
      /\ Weighted(s, ImpactWeight) >= Weighted(t, ImpactWeight)
  <2>1. s.errors >= t.errors /\ s.latency >= t.latency /\ s.traffic >= t.traffic
        /\ s.saturation >= t.saturation
    BY DEF FeatureOf
  <2>2. /\ 2 * (9 * s.errors + 6 * s.latency + 2 * s.traffic + 3 * s.saturation)
             >= 2 * (9 * t.errors + 6 * t.latency + 2 * t.traffic + 3 * t.saturation)
        /\ 2 * (12 * s.errors + 6 * s.latency + 2 * s.traffic)
             >= 2 * (12 * t.errors + 6 * t.latency + 2 * t.traffic)
    BY <2>1, ScoredFeatures
  <2> QED BY <2>2, Sums
<1>4. anomaly(s) >= anomaly(t) /\ impact(s) >= impact(t)
  BY <1>2, <1>3, ClampKeepsOrder
<1>5. \A x : /\ Baseline(x).anomaly = anomaly(x) /\ Baseline(x).impact = impact(x)
             /\ Baseline(x).investigate = clamp(Mean(anomaly(x), impact(x)))
  BY BaselineFields DEF BaselineOf
<1> HIDE DEF anomaly, impact
<1>6. Mean(anomaly(s), impact(s)) >= Mean(anomaly(t), impact(t))
  BY <1>2, <1>4, MeanKeepsOrder DEF Probability
<1>7. clamp(Mean(anomaly(s), impact(s))) >= clamp(Mean(anomaly(t), impact(t)))
  BY <1>2, <1>6, ClampKeepsOrder
<1> QED BY <1>4, <1>5, <1>7

LEMMA DomainHasTheHighestScore ==
  ASSUME NEW s, Scored(s)
  PROVE  LET severity == Severity(s)
         IN  /\ Domain(s) \in DOMAIN severity
             /\ \A d \in DOMAIN severity : severity[d] <= severity[Domain(s)]
<1>1. /\ s.errors \in Int /\ s.latency \in Int /\ s.saturation \in Int
      /\ AtMost(s.errors, s.saturation) <=> s.errors <= s.saturation
      /\ AtMost(s.latency, s.saturation) <=> s.latency <= s.saturation
      /\ AtMost(s.latency, s.errors) <=> s.latency <= s.errors
  BY NumbersCompare, ScoredFeatures
<1> QED BY <1>1 DEF Domain, Severity

-----------------------------------------------------------------------------
(* The rounds.  What was read is what was heard, and what is published for a *)
(* name is an assessment of a whole row that was heard for it.              *)

LEMMA AssessmentsTyped ==
  ASSUME NEW row \in Row
  PROVE  Assessments(row) \subseteq Published
<1>1. Baseline(Extract(row)) \in Published
  BY RowScores, BaselineTyped
<1>2. JevAssessments(row) \subseteq Published
  <2>1. ASSUME NEW a \in JevAnswers
        PROVE  [anomaly |-> clamp(a.anomaly), impact |-> clamp(a.impact),
                investigate |-> clamp(a.investigate), domain |-> a.domain] \in Published
    <3>1. a \in [anomaly : Int, impact : Int, investigate : Int, domain : Domains]
      BY ExporterAssumption
    <3>2. /\ clamp(a.anomaly) \in Probability /\ clamp(a.impact) \in Probability
          /\ clamp(a.investigate) \in Probability /\ a.domain \in Domains
      BY <3>1, ClampConfines DEF Value
    <3> QED BY <3>2 DEF Published
  <2> QED BY <2>1 DEF JevAssessments
<1> QED BY <1>1, <1>2 DEF Assessments

RoundInv ==
  /\ TypeOK
  /\ raw \in Seq(Value) /\ heard = raw
  /\ basis \in [Names -> Row \cup {None}]
  /\ \A n \in Names : basis[n] # None => state[n].success
  /\ RestsOnOneRound

\* TypeOK without the field names.
LEMMA StateTyped ==
  TypeOK <=> /\ evaluator \in Evaluators
             /\ state \in [Names -> [assessment : Published, success : BOOLEAN]]
             /\ turn \in 0 .. Len(Signals)
             /\ Len(raw) <= Len(Features)
             /\ cancelled \in BOOLEAN /\ returned \in BOOLEAN
BY DEF TypeOK, Published

LEMMA NameIsConfigured ==
  ASSUME TypeOK, turn # 0
  PROVE  Name \in Names
<1>1. turn \in DOMAIN Signals
  BY ExporterAssumption DEF TypeOK
<1> QED BY <1>1 DEF Name, Names

LEMMA NoneIsNoRow == None \notin Row
BY NumbersAssumption DEF Row, Value

LEMMA InitRound == Init => RoundInv
<1> SUFFICES ASSUME Init PROVE RoundInv
  OBVIOUS
<1>1. Unassessed \in Published
  BY RangesAreNumbers DEF Unassessed, Published, Probability
<1>2. /\ Len(Signals) \in Nat /\ Len(Signals) >= 1
  BY ExporterAssumption
<1>3. TypeOK
  <2>1. state \in [Names -> [assessment : Published, success : BOOLEAN]]
    BY <1>1 DEF Init
  <2>2. turn \in 0 .. Len(Signals) /\ Len(raw) <= Len(Features)
    BY <1>2, FourFeatures DEF Init
  <2> QED BY <2>1, <2>2, StateTyped DEF Init
<1> QED BY <1>3 DEF Init, RoundInv, RestsOnOneRound

\* A step of the poll that publishes nothing.
LEMMA NothingPublished ==
  ASSUME RoundInv, UNCHANGED <<evaluator, state, basis>>,
         raw' \in Seq(Value), heard' = raw', Len(raw') <= Len(Features),
         turn' \in 0 .. Len(Signals), cancelled' \in BOOLEAN, returned' \in BOOLEAN
  PROVE  RoundInv'
<1>1. TypeOK'
  BY DEF RoundInv, TypeOK
<1>2. \A row : Assessments(row)' = Assessments(row)
  BY DEF Assessments
<1>3. RestsOnOneRound'
  BY <1>2 DEF RoundInv, RestsOnOneRound
<1> QED BY <1>1, <1>3 DEF RoundInv

LEMMA NextSignalMoves ==
  ASSUME TypeOK, NextSignal, turn # 0
  PROVE  raw' \in Seq(Value) /\ heard' = raw' /\ Len(raw') <= Len(Features) /\ turn' \in 0 .. Len(Signals)
BY FourFeatures, ExporterAssumption DEF NextSignal, TypeOK

LEMMA SuccessField ==
  ASSUME NEW a, NEW old, NEW new
  PROVE  [[assessment |-> a, success |-> old] EXCEPT !.success = new] = [assessment |-> a, success |-> new]
OBVIOUS

LEMMA PublishRound ==
  ASSUME RoundInv, Publish
  PROVE  RoundInv'
<1>1. TypeOK /\ turn # 0 /\ raw \in Row /\ heard = raw
  BY DEF Publish, Evaluating, RoundInv, Row
<1>2. PICK a \in Assessments(raw) :
        state' = [state EXCEPT ![Name].assessment = a, ![Name].success = TRUE]
  BY DEF Publish
<1> PICK n : n = Name
  OBVIOUS
<1>3. n \in Names
  BY <1>1, NameIsConfigured
<1>4. a \in Published
  BY <1>1, <1>2, AssessmentsTyped
<1>5. state \in [Names -> [assessment : Published, success : BOOLEAN]]
  BY <1>1, StateTyped
<1>6. /\ state'[n] = [assessment |-> a, success |-> TRUE]
      /\ \A m \in Names : m # n => state'[m] = state[m]
      /\ state' \in [Names -> [assessment : Published, success : BOOLEAN]]
  <2>1. state[n] = [assessment |-> state[n].assessment, success |-> state[n].success]
    BY <1>3, <1>5
  <2>2. state' = [[state EXCEPT ![n].assessment = a] EXCEPT ![n].success = TRUE]
    BY <1>2
  <2> DEFINE one == [state EXCEPT ![n].assessment = a]
  <2>3. one[n] = [assessment |-> a, success |-> state[n].success]
        /\ one \in [Names -> [assessment : Published, success : BOOLEAN]]
        /\ \A m \in Names : m # n => one[m] = state[m]
    BY <1>3, <1>4, <1>5, <2>1
  <2>4. state' = [one EXCEPT ![n].success = TRUE]
    BY <2>2
  <2> HIDE DEF one
  <2>5. [one[n] EXCEPT !.success = TRUE] = [assessment |-> a, success |-> TRUE]
    <3>1. [[assessment |-> a, success |-> state[n].success] EXCEPT !.success = TRUE]
          = [assessment |-> a, success |-> TRUE]
      BY SuccessField, Zenon
    <3> QED BY <2>3, <3>1, Zenon
  <2>6. state' = [one EXCEPT ![n] = [assessment |-> a, success |-> TRUE]]
    BY <2>4, <2>5
  <2> QED BY <1>3, <1>4, <2>3, <2>6
<1>7. /\ basis' \in [Names -> Row \cup {None}] /\ basis'[n] = raw
      /\ \A m \in Names : m # n => basis'[m] = basis[m]
  BY <1>1, <1>3 DEF Publish, RoundInv
<1>8. /\ raw' \in Seq(Value) /\ heard' = raw' /\ Len(raw') <= Len(Features)
      /\ turn' \in 0 .. Len(Signals) /\ UNCHANGED <<evaluator, cancelled, returned>>
  BY <1>1, NextSignalMoves DEF Publish
<1>9. TypeOK'
  BY <1>1, <1>6, <1>8 DEF TypeOK, Published
<1>10. \A row : Assessments(row)' = Assessments(row)
  BY <1>8 DEF Assessments
<1>11. ASSUME NEW m \in Names
       PROVE  IF state'[m].success
              THEN /\ basis'[m] # None /\ Len(basis'[m]) = Len(Features)
                   /\ state'[m].assessment \in Assessments(basis'[m])
              ELSE state'[m].assessment = Unassessed
  <2>1. CASE m = n
    BY <1>1, <1>2, <1>6, <1>7, <2>1, NoneIsNoRow DEF Row
  <2>2. CASE m # n
    BY <1>6, <1>7, <2>2 DEF RoundInv, RestsOnOneRound
  <2> QED BY <2>1, <2>2
<1>12. RestsOnOneRound'
  BY <1>10, <1>11 DEF RestsOnOneRound
<1>13. ASSUME NEW m \in Names, basis'[m] # None PROVE state'[m].success
  <2>1. CASE m = n
    BY <1>6, <2>1
  <2>2. CASE m # n
    BY <1>6, <1>7, <1>13, <2>2 DEF RoundInv
  <2> QED BY <2>1, <2>2
<1> QED BY <1>7, <1>8, <1>9, <1>12, <1>13 DEF RoundInv

LEMMA NextRounds ==
  ASSUME RoundInv, [Next]_vars
  PROVE  RoundInv'
<1>1. /\ TypeOK /\ raw \in Seq(Value) /\ heard = raw /\ Len(raw) <= Len(Features)
      /\ turn \in 0 .. Len(Signals) /\ cancelled \in BOOLEAN /\ returned \in BOOLEAN
      /\ Len(Signals) \in Nat /\ Len(Signals) >= 1
  BY ExporterAssumption DEF RoundInv, TypeOK
<1>2. CASE QuerySucceeds
  <2>1. PICK v \in IF <<Name, Feature>> \in Unqueried THEN {0} ELSE Answers[Feature] \cup {0} :
          raw' = Append(raw, v) /\ heard' = Append(heard, v)
    BY <1>2 DEF QuerySucceeds
  <2>2. v \in Value
    <3>1. Len(raw) + 1 \in DOMAIN Features
      BY <1>1, <1>2, FourFeatures DEF QuerySucceeds, Querying
    <3>2. Answers[Feature] \subseteq Value
      BY <3>1, NumbersAssumption DEF Feature, Value
    <3> QED BY <2>1, <3>2 DEF Value
  <2>3. raw' \in Seq(Value) /\ Len(raw') <= Len(Features)
    BY <1>1, <1>2, <2>1, <2>2, FourFeatures DEF QuerySucceeds, Querying
  <2> QED BY <1>1, <1>2, <2>1, <2>3, NothingPublished DEF QuerySucceeds
<1>3. CASE QueryFails
  BY <1>1, <1>3, NextSignalMoves, NothingPublished DEF QueryFails, Querying
<1>4. CASE EvaluationFails
  BY <1>1, <1>4, NextSignalMoves, NothingPublished DEF EvaluationFails, Evaluating
<1>5. CASE NextRound \/ Return \/ Cancel
  <2>1. /\ UNCHANGED <<evaluator, state, basis, raw, heard>>
        /\ turn' \in {1, turn} /\ cancelled' \in {TRUE, cancelled} /\ returned' \in {TRUE, returned}
    BY <1>5 DEF NextRound, Return, Cancel
  <2>2. turn' \in 0 .. Len(Signals)
    BY <1>1, <2>1
  <2>3. cancelled' \in BOOLEAN /\ returned' \in BOOLEAN
    BY <1>1, <2>1, Zenon
  <2>4. raw' \in Seq(Value) /\ heard' = raw' /\ Len(raw') <= Len(Features)
    BY <1>1, <2>1
  <2> QED BY <2>1, <2>2, <2>3, <2>4, NothingPublished
<1>6. CASE UNCHANGED vars
  BY <1>1, <1>6, NothingPublished DEF vars
<1> QED BY <1>2, <1>3, <1>4, <1>5, <1>6, PublishRound DEF Next, Poll

LEMMA Rounds == Spec => []RoundInv
<1>1. RoundInv /\ [Next]_vars => RoundInv'
  BY NextRounds
<1> QED BY <1>1, InitRound, PTL DEF Spec

\* Type correctness of the exporter.
THEOREM Typing == Spec => []TypeOK
<1>1. RoundInv => TypeOK
  BY DEF RoundInv
<1> QED BY <1>1, Rounds, PTL

\* What is published never mixes rounds, signals or failures.
THEOREM OneRound == Spec => []RestsOnOneRound
<1>1. RoundInv => RestsOnOneRound
  BY DEF RoundInv
<1> QED BY <1>1, Rounds, PTL

\* Where the baseline assesses numbers, it publishes Baseline of the row it heard.
LEMMA ComparableIsBaseline ==
  ASSUME RoundInv, NEW n \in Names, Comparable(n)
  PROVE  /\ basis[n] \in Row /\ Clear(basis[n])
         /\ Scored(Extract(basis[n]))
         /\ state[n].assessment = Baseline(Extract(basis[n]))
<1>1. basis[n] \in Row /\ Clear(basis[n]) /\ state[n].success /\ evaluator = "baseline"
  BY DEF RoundInv, Comparable, Clear
<1>2. Scored(Extract(basis[n]))
  BY <1>1, RowScores DEF Scored
<1>3. state[n].assessment \in Assessments(basis[n])
  BY <1>1 DEF RoundInv, RestsOnOneRound
<1> QED BY <1>1, <1>2, <1>3 DEF Assessments

\* Worse values never make a signal look better, whatever the values.
THEOREM Monotone == Spec => []WorseIsNotBetter
<1>1. RoundInv => WorseIsNotBetter
  <2> SUFFICES ASSUME RoundInv, NEW m \in Names, NEW n \in Names, Comparable(m), Comparable(n),
                      \A i \in DOMAIN Features : basis[m][i] >= basis[n][i]
               PROVE  /\ state[m].assessment.anomaly >= state[n].assessment.anomaly
                      /\ state[m].assessment.impact >= state[n].assessment.impact
                      /\ state[m].assessment.investigate >= state[n].assessment.investigate
    BY DEF WorseIsNotBetter
  <2>1. \A f \in FeatureOf : Extract(basis[m])[f] >= Extract(basis[n])[f]
    BY ComparableIsBaseline, RowsCompare
  <2> QED BY <2>1, ComparableIsBaseline, BaselineKeepsOrder
<1> QED BY <1>1, Rounds, PTL

\* The failure domain is one with the highest score.
THEOREM WorstDomain == Spec => []DomainIsWorst
<1>1. RoundInv => DomainIsWorst
  <2> SUFFICES ASSUME RoundInv, NEW n \in Names, Comparable(n)
               PROVE  LET severity == Severity(Extract(basis[n]))
                      IN  \A d \in DOMAIN severity : severity[d] <= severity[state[n].assessment.domain]
    BY DEF DomainIsWorst
  <2>1. state[n].assessment.domain = Domain(Extract(basis[n]))
    BY ComparableIsBaseline, BaselineFields DEF BaselineOf
  <2> QED BY <2>1, ComparableIsBaseline, DomainHasTheHighestScore
<1> QED BY <1>1, Rounds, PTL

-----------------------------------------------------------------------------
(* If Prometheus never answers NaN.                                         *)

NumbersOnly == \A i \in DOMAIN Features : NaN \notin Answers[Features[i]]

HeardNumbers ==
  /\ \A i \in 1 .. Len(raw) : raw[i] # NaN
  /\ \A n \in Names : basis[n] # None => Clear(basis[n])

LEMMA NextHearsNumbers ==
  ASSUME NumbersOnly, RoundInv, HeardNumbers, [Next]_vars
  PROVE  HeardNumbers'
<1>1. TypeOK /\ raw \in Seq(Value) /\ heard = raw /\ basis \in [Names -> Row \cup {None}]
  BY DEF RoundInv
<1>2. ASSUME raw' = raw \/ raw' = << >>, UNCHANGED basis PROVE HeardNumbers'
  BY <1>2 DEF HeardNumbers, Clear
<1>3. CASE QuerySucceeds
  <2>1. PICK v \in IF <<Name, Feature>> \in Unqueried THEN {0} ELSE Answers[Feature] \cup {0} :
          raw' = Append(raw, v)
    BY <1>3 DEF QuerySucceeds
  <2>2. v # NaN
    <3>1. Len(raw) + 1 \in DOMAIN Features
      BY <1>1, <1>3, FourFeatures DEF QuerySucceeds, Querying, TypeOK
    <3>2. NaN \notin Answers[Feature]
      BY <3>1 DEF NumbersOnly, Feature
    <3> QED BY <2>1, <3>2, NumbersAssumption
  <2>3. ASSUME NEW i \in 1 .. Len(raw') PROVE raw'[i] # NaN
    <3>1. Len(raw') = Len(raw) + 1 /\ raw'[Len(raw) + 1] = v /\ \A j \in 1 .. Len(raw) : raw'[j] = raw[j]
      BY <1>1, <2>1
    <3>2. i = Len(raw) + 1 \/ i \in 1 .. Len(raw)
      BY <1>1, <3>1
    <3> QED BY <2>2, <3>1, <3>2 DEF HeardNumbers
  <2>4. UNCHANGED basis
    BY <1>3 DEF QuerySucceeds
  <2> QED BY <2>3, <2>4 DEF HeardNumbers, Clear
<1>4. CASE Publish
  <2>1. turn # 0 /\ Len(raw) = Len(Features) /\ basis' = [basis EXCEPT ![Name] = raw] /\ raw' = << >>
    BY <1>1, <1>4 DEF Publish, Evaluating, NextSignal
  <2>2. Clear(raw)
    BY <2>1, FourFeatures DEF HeardNumbers, Clear
  <2>3. \A n \in Names : basis'[n] = raw \/ basis'[n] = basis[n]
    BY <1>1, <2>1
  <2>4. \A n \in Names : basis'[n] # None => Clear(basis'[n])
    BY <2>2, <2>3 DEF HeardNumbers
  <2> QED BY <2>1, <2>4 DEF HeardNumbers, Clear
<1>5. CASE QueryFails \/ EvaluationFails
  BY <1>2, <1>5 DEF QueryFails, EvaluationFails, NextSignal
<1>6. CASE NextRound \/ Return \/ Cancel \/ UNCHANGED vars
  BY <1>2, <1>6 DEF NextRound, Return, Cancel, vars
<1> QED BY <1>3, <1>4, <1>5, <1>6 DEF Next, Poll

\* NaN is the only thing that keeps a published probability from lying between 0 and 1
\* (exporter.go:120 and 122): neither other values nor any answer of Jev can.
THEOREM ProbabilitiesOfNumbers ==
  ASSUME NumbersOnly
  PROVE  Spec => []PublishedProbabilities
<1>1. Init => HeardNumbers
  BY DEF Init, HeardNumbers
<1>2. RoundInv /\ HeardNumbers /\ [Next]_vars => HeardNumbers'
  BY NextHearsNumbers
<1>3. RoundInv /\ HeardNumbers => PublishedProbabilities
  <2> SUFFICES ASSUME RoundInv, HeardNumbers, NEW n \in Names
               PROVE  {state[n].assessment.anomaly, state[n].assessment.impact} \subseteq Probability
    BY DEF PublishedProbabilities
  <2>1. CASE state[n].success
    <3>1. basis[n] \in Row /\ Clear(basis[n]) /\ state[n].assessment \in Assessments(basis[n])
      BY <2>1 DEF RoundInv, RestsOnOneRound, HeardNumbers
    <3>2. Scored(Extract(basis[n]))
      BY <3>1, RowScores DEF Scored
    <3>3. /\ Baseline(Extract(basis[n])).anomaly \in Probability
          /\ Baseline(Extract(basis[n])).impact \in Probability
      BY <3>2, BaselineTyped DEF Scored
    <3>4. ASSUME NEW a \in JevAssessments(basis[n])
          PROVE  a.anomaly \in Probability /\ a.impact \in Probability
      <4>1. PICK answer \in JevAnswers :
              a = [anomaly |-> clamp(answer.anomaly), impact |-> clamp(answer.impact),
                   investigate |-> clamp(answer.investigate), domain |-> answer.domain]
        BY <3>4 DEF JevAssessments
      <4>2. answer.anomaly \in Int /\ answer.impact \in Int
        BY ExporterAssumption
      <4> QED BY <4>1, <4>2, ClampConfines DEF Value
    <3> QED BY <3>1, <3>3, <3>4 DEF Assessments
  <2>2. CASE ~state[n].success
    <3>1. state[n].assessment = Unassessed
      BY <2>2 DEF RoundInv, RestsOnOneRound
    <3> QED BY <3>1, RangesAreNumbers DEF Unassessed, Probability
  <2> QED BY <2>1, <2>2
<1> QED BY <1>1, <1>2, <1>3, Rounds, PTL DEF Spec
=============================================================================
