----------------------- MODULE MetricsProcessorProofs -----------------------
(***************************************************************************)
(* Theorems about MetricsProcessor, for every number of goroutines and     *)
(* metrics and every size of queue and cache.                              *)
(***************************************************************************)
EXTENDS MetricsProcessor, TLAPS

-----------------------------------------------------------------------------
(* The cache operations keep entries for metrics and of type S; get returns *)
(* only what the cache held.                                                *)

Holding(c, S) ==
  /\ c = [entries |-> c.entries, order |-> c.order]
  /\ c.entries = [m \in DOMAIN c.entries |-> c.entries[m]]
  /\ DOMAIN c.entries \subseteq Metrics
  /\ \A m \in DOMAIN c.entries : c.entries[m] \in S[m]

LEMMA GetHolds ==
  ASSUME NEW c, NEW S, Holding(c, S), NEW k \in Metrics, NEW at
  PROVE  /\ Holding(getCache(c, k, at), S)
         /\ getResult(c, k, at) # NoScore =>
              getResult(c, k, at) \in S[k] /\ ~Expired(getResult(c, k, at), at)
BY DEF Holding, getCache, getResult, remove, MoveToFront

LEMMA PutHolds ==
  ASSUME NEW c, NEW S, Holding(c, S), NEW k \in Metrics, NEW s \in S[k]
  PROVE  Holding(put(c, k, s), S)
<1>1. CASE k \in DOMAIN c.entries
  BY <1>1 DEF Holding, put, MoveToFront
<1>2. ASSUME NEW b, Holding(b, S) PROVE Holding(Insert(b, k, s), S)
  BY <1>2 DEF Holding, Insert
<1>3. ASSUME NEW j PROVE Holding(remove(c, j), S)
  BY DEF Holding, remove
<1>4. CASE k \notin DOMAIN c.entries
  BY <1>2, <1>3, <1>4 DEF put
<1> QED BY <1>1, <1>4

LEMMA PruneHolds ==
  ASSUME NEW c, NEW S, Holding(c, S), NEW at
  PROVE  Holding(prune(c, at), S)
BY DEF Holding, prune

-----------------------------------------------------------------------------
(* Typing.  Shape is what the typing of a step rests on beyond TypeOK: the   *)
(* cache and the workers only hold scores Jev gives for the metric they     *)
(* stand for, a goroutine inside enqueue has a current metric, and a worker *)
(* at work has a job.                                                       *)

Answers == [m \in Metrics |-> {s \in Score : s.keep \in JevKeeps[m]}]

Enqueueing(d) == stage[d] \in {"reserve", "send", "unmark"}

Shape ==
  /\ Holding(cache, Answers)
  /\ \A d \in Deliverers : Enqueueing(d) => todo[d] # << >>
  /\ \A w \in Workers : Busy(w) => job[w] \in Metrics
  /\ \A w \in Workers : result[w] # NoScore =>
       doing[w] = "recording" /\ result[w] \in Answers[job[w]]

ShapedType == TypeOK /\ Shape

LEMMA AnswersAreScores ==
  ASSUME NEW m \in Metrics
  PROVE  Answers[m] \subseteq Score /\ \A s \in Answers[m] : s.keep \in JevKeeps[m]
BY DEF Answers

\* A score is dated anew.
LEMMA Restamped ==
  ASSUME NEW s \in Score, NEW t \in Int
  PROVE  /\ [s EXCEPT !.scoredAt = t] = [keep |-> s.keep, scoredAt |-> t]
         /\ [s EXCEPT !.scoredAt = t] \in Score
BY DEF Score

LEMMA HoldingIsTyped ==
  ASSUME NEW c, Holding(c, Answers)
  PROVE  DOMAIN c.entries \subseteq Metrics /\ \A m \in DOMAIN c.entries : c.entries[m] \in Score
BY AnswersAreScores DEF Holding

\* The current metric of a goroutine that has one.
LEMMA CurrentIsMetric ==
  ASSUME TypeOK, NEW d \in Deliverers, todo[d] # << >>
  PROVE  Current(d) \in Metrics /\ Tail(todo[d]) \in Seq(Metrics)
BY DEF TypeOK, Current

\* Deciding a metric keeps the types of the delivery goroutines.
LEMMA SettleTyped ==
  ASSUME ShapedType, NEW d \in Deliverers, todo[d] # << >>,
         NEW s \in Score \cup {NoScore}, Settle(d, s)
  PROVE  /\ stage' \in [Deliverers -> Stages]
         /\ todo' \in [Deliverers -> Seq(Metrics)]
         /\ began' \in [Deliverers -> Nat]
         /\ removed' \in [Deliverers -> SUBSET Verdict]
         /\ emitted' \in [Deliverers -> SUBSET Verdict]
         /\ \A e \in Deliverers : Enqueueing(e)' => todo'[e] # << >>
<1>1. Current(d) \in Metrics /\ Tail(todo[d]) \in Seq(Metrics)
  BY CurrentIsMetric DEF ShapedType
<1>2. [metric |-> Current(d), score |-> s] \in Verdict
  BY <1>1 DEF Verdict
<1>3. /\ removed' \in [Deliverers -> SUBSET Verdict]
      /\ emitted' \in [Deliverers -> SUBSET Verdict]
  BY <1>2 DEF Settle, ShapedType, TypeOK
<1>4. /\ stage' \in [Deliverers -> Stages]
      /\ todo' \in [Deliverers -> Seq(Metrics)]
      /\ began' \in [Deliverers -> Nat]
  BY <1>1 DEF Settle, ShapedType, TypeOK, Stages
<1>5. ASSUME NEW e \in Deliverers, Enqueueing(e)' PROVE todo'[e] # << >>
  BY <1>5 DEF Settle, ShapedType, Shape, TypeOK, Enqueueing
<1> QED BY <1>3, <1>4, <1>5

LEMMA InitShaped == Init => ShapedType
<1> SUFFICES ASSUME Init PROVE ShapedType
  OBVIOUS
<1>1. Holding(cache, Answers)
  BY DEF Init, newScoreCache, Holding
<1>2. TypeOK
  BY <1>1, ProcessorAssumption DEF Init, TypeOK, Stages, Doings, newScoreCache
<1>3. Shape
  BY <1>1 DEF Init, Shape, Enqueueing, Busy
<1> QED BY <1>2, <1>3 DEF ShapedType

LEMMA DeliveryShaped ==
  ASSUME ShapedType, NEW d \in Deliverers,
         Deliver(d) \/ \E b \in Batches : ConsumeMetrics(d, b)
  PROVE  ShapedType'
<1> USE DEF ShapedType
<1>1. ASSUME NEW b \in Batches, ConsumeMetrics(d, b) PROVE ShapedType'
  <2>1. b \in Seq(Metrics)
    BY ProcessorAssumption
  <2>2. TypeOK'
    BY <1>1, <2>1 DEF ConsumeMetrics, TypeOK, shared, scoring, Stages
  <2>3. Shape'
    BY <1>1 DEF ConsumeMetrics, TypeOK, Shape, shared, scoring, Enqueueing, Busy
  <2> QED BY <2>2, <2>3
<1>2. CASE Bypass(d)
  <2>1. todo[d] # << >> /\ Settle(d, NoScore)
    BY <1>2 DEF Bypass, Inspecting
  <2>2. TypeOK'
    BY <1>2, <2>1, SettleTyped DEF Bypass, TypeOK, shared, scoring
  <2>3. Shape'
    BY <1>2, <2>1, SettleTyped DEF Bypass, Shape, shared, scoring, Busy
  <2> QED BY <2>2, <2>3
<1>3. CASE CacheHit(d)
  <2>1. todo[d] # << >> /\ Current(d) \in Metrics
    BY <1>3, CurrentIsMetric DEF CacheHit, LookingUp, Inspecting
  <2>2. Holding(cache', Answers) /\ Lookup(d) \in Score
    BY <1>3, <2>1, GetHolds, AnswersAreScores DEF CacheHit, LookingUp, Lookup, Shape
  <2>3. Settle(d, Lookup(d))
    BY <1>3 DEF CacheHit
  <2>4. TypeOK'
    BY <1>3, <2>1, <2>2, <2>3, SettleTyped, HoldingIsTyped DEF CacheHit, TypeOK, scoring
  <2>5. Shape'
    BY <1>3, <2>1, <2>2, <2>3, SettleTyped DEF CacheHit, Shape, scoring, Busy
  <2> QED BY <2>4, <2>5
<1>4. CASE CacheMiss(d)
  <2>1. todo[d] # << >> /\ Current(d) \in Metrics
    BY <1>4, CurrentIsMetric DEF CacheMiss, LookingUp, Inspecting
  <2>2. Holding(cache', Answers)
    BY <1>4, <2>1, GetHolds DEF CacheMiss, LookingUp, Shape
  <2>3. TypeOK'
    BY <1>4, <2>2, HoldingIsTyped DEF CacheMiss, TypeOK, scoring, Stages
  <2>4. Shape'
    BY <1>4, <2>1, <2>2 DEF CacheMiss, TypeOK, Shape, scoring, Enqueueing, Busy
  <2> QED BY <2>3, <2>4
<1>5. CASE EnqueueRefused(d)
  <2>1. todo[d] # << >> /\ Settle(d, NoScore)
    BY <1>5 DEF EnqueueRefused, Shape, Enqueueing
  <2>2. TypeOK'
    BY <1>5, <2>1, SettleTyped DEF EnqueueRefused, TypeOK, shared, scoring
  <2>3. Shape'
    BY <1>5, <2>1, SettleTyped DEF EnqueueRefused, Shape, shared, scoring, Busy
  <2> QED BY <2>2, <2>3
<1>6. CASE Reserve(d)
  <2>1. todo[d] # << >> /\ Current(d) \in Metrics
    BY <1>6, CurrentIsMetric DEF Reserve, Shape, Enqueueing
  <2>2. TypeOK'
    BY <1>6, <2>1 DEF Reserve, TypeOK, scoring, Stages
  <2>3. Shape'
    BY <1>6, <2>1 DEF Reserve, TypeOK, Shape, scoring, Enqueueing, Busy
  <2> QED BY <2>2, <2>3
<1>7. CASE SendJob(d)
  <2>1. todo[d] # << >> /\ Settle(d, NoScore) /\ Current(d) \in Metrics
    BY <1>7, CurrentIsMetric DEF SendJob, Shape, Enqueueing
  <2>2. TypeOK'
    BY <1>7, <2>1, SettleTyped DEF SendJob, TypeOK, shared, scoring
  <2>3. Shape'
    BY <1>7, <2>1, SettleTyped DEF SendJob, Shape, shared, scoring, Busy
  <2> QED BY <2>2, <2>3
<1>8. CASE QueueFull(d)
  <2>1. TypeOK'
    BY <1>8 DEF QueueFull, TypeOK, shared, scoring, Stages
  <2>2. Shape'
    BY <1>8 DEF QueueFull, TypeOK, Shape, shared, scoring, Enqueueing, Busy
  <2> QED BY <2>1, <2>2
<1>9. CASE Unmark(d)
  <2>1. todo[d] # << >> /\ Settle(d, NoScore)
    BY <1>9 DEF Unmark, Shape, Enqueueing
  <2>2. TypeOK'
    BY <1>9, <2>1, SettleTyped DEF Unmark, TypeOK, scoring
  <2>3. Shape'
    BY <1>9, <2>1, SettleTyped DEF Unmark, Shape, scoring, Busy
  <2> QED BY <2>2, <2>3
<1>10. CASE Forward(d)
  <2>1. TypeOK'
    BY <1>10 DEF Forward, TypeOK, shared, scoring, Stages
  <2>2. Shape'
    BY <1>10 DEF Forward, TypeOK, Shape, shared, scoring, Enqueueing, Busy
  <2> QED BY <2>1, <2>2
<1> QED BY <1>1, <1>2, <1>3, <1>4, <1>5, <1>6, <1>7, <1>8, <1>9, <1>10 DEF Deliver

LEMMA WorkShaped ==
  ASSUME ShapedType, NEW w \in Workers, Work(w)
  PROVE  ShapedType'
<1> USE DEF ShapedType, TypeOK, Shape, Busy, delivery, shared, Doings, Enqueueing
<1>1. CASE TakeJob(w)
  <2>1. Head(jobs) \in Metrics /\ Tail(jobs) \in Seq(Metrics)
    BY <1>1 DEF TakeJob
  <2> QED BY <1>1, <2>1 DEF TakeJob, Go
<1>2. CASE Exit(w)
  BY <1>2 DEF Exit, Go
<1>3. CASE Admit(w)
  BY <1>3 DEF Admit, Go
<1>4. CASE AdmissionCancelled(w)
  BY <1>4 DEF AdmissionCancelled, LeaveJob, Go
<1>5. CASE AbandonJob(w)
  BY <1>5 DEF AbandonJob, LeaveJob, Go
<1>6. CASE SkipCooling(w)
  BY <1>6 DEF SkipCooling, LeaveJob, Go
<1>7. CASE PassCheck(w) \/ BeginScoring(w)
  BY <1>7 DEF PassCheck, BeginScoring, Go
<1>8. CASE BeginInference(w)
  BY <1>8 DEF BeginInference, Go
<1>9. ASSUME doing[w] \in {"scoring", "inferring"},
             NEW r \in Answers[job[w]] \cup {NoScore}, Return(w, r)
      PROVE  ShapedType'
  <2>1. job[w] \in Metrics /\ r \in Score \cup {NoScore}
    BY <1>9, AnswersAreScores
  <2> QED BY <1>9, <2>1 DEF Return, Go
<1>10. CASE Answer(w) \/ SharedHit(w)
  <2>1. job[w] \in Metrics /\ JevKeeps[job[w]] \subseteq Probability
    BY <1>10, ProcessorAssumption DEF Answer, SharedHit
  <2>2. ASSUME NEW p \in JevKeeps[job[w]], NEW at \in Int
        PROVE  [keep |-> p, scoredAt |-> at] \in Answers[job[w]]
    BY <2>1 DEF Answers, Score
  <2>3. AnswerTimes \subseteq Int /\ (1 - ScoreTTL) .. now \subseteq Int
    BY CacheAssumption DEF AnswerTimes
  <2> QED BY <1>9, <1>10, <2>2, <2>3 DEF Answer, SharedHit
<1>11. CASE InferenceFails(w) \/ CoordinationFails(w)
  BY <1>9, <1>11 DEF InferenceFails, CoordinationFails
<1>12. CASE RecordSuccess(w)
  <2> DEFINE s == IF Coordinated THEN result[w] ELSE [result[w] EXCEPT !.scoredAt = now]
  <2>1. job[w] \in Metrics /\ result[w] \in Answers[job[w]]
    BY <1>12 DEF RecordSuccess
  <2>2. result[w] \in Score /\ result[w].keep \in JevKeeps[job[w]]
    BY <2>1, AnswersAreScores
  <2>3. [result[w] EXCEPT !.scoredAt = now] \in Answers[job[w]]
    <3>1. /\ [result[w] EXCEPT !.scoredAt = now] = [keep |-> result[w].keep, scoredAt |-> now]
          /\ [result[w] EXCEPT !.scoredAt = now] \in Score
      BY <2>2, Restamped
    <3> QED BY <2>1, <2>2, <3>1 DEF Answers
  <2>4. s \in Answers[job[w]]
    BY <2>1, <2>3
  <2>5. cache' = put(cache, job[w], s)
    BY <1>12 DEF RecordSuccess
  <2> HIDE DEF s
  <2>6. Holding(cache', Answers)
    BY <2>1, <2>4, <2>5, PutHolds
  <2>7. TypeOK'
    <3>1. DOMAIN cache'.entries \subseteq Metrics
          /\ \A m \in DOMAIN cache'.entries : cache'.entries[m] \in Score
      BY <2>6, HoldingIsTyped
    <3>2. /\ doing' \in [Workers -> Doings]
          /\ job' \in [Workers -> Metrics \cup {NoJob}]
          /\ result' \in [Workers -> Score \cup {NoScore}]
      BY <1>12 DEF RecordSuccess, LeaveJob, Go
    <3>3. queued' \subseteq Metrics /\ failures' \in 0 .. FailureCap /\ retryUntil' \in Nat
      BY <1>12, ProcessorAssumption DEF RecordSuccess
    <3> QED BY <1>12, <3>1, <3>2, <3>3 DEF RecordSuccess
  <2>8. Shape'
    BY <1>12, <2>6 DEF RecordSuccess, LeaveJob, Go
  <2> QED BY <2>7, <2>8
<1>13. CASE RecordFailure(w)
  <2>1. failures' \in 1 .. FailureCap
    BY <1>13, ProcessorAssumption DEF RecordFailure
  <2>2. retryUntil' \in Nat
    BY <1>13, <2>1, DelayAssumption DEF RecordFailure
  <2> QED BY <1>13, <2>1, <2>2 DEF RecordFailure, LeaveJob, Go
<1> QED BY <1>1, <1>2, <1>3, <1>4, <1>5, <1>6, <1>7, <1>8, <1>10, <1>11, <1>12, <1>13 DEF Work

LEMMA NextShaped ==
  ASSUME ShapedType, [Next]_vars
  PROVE  ShapedType'
<1> USE DEF ShapedType
<1>1. CASE Start \/ Shutdown \/ ShutdownReturns
  BY <1>1 DEF Start, Shutdown, ShutdownReturns, TypeOK, Shape, Enqueueing, Busy,
              shared, delivery, scoring
<1>2. CASE Prune
  <2>1. Holding(cache', Answers)
    BY <1>2, PruneHolds DEF Prune, Shape
  <2> QED BY <1>2, <2>1, HoldingIsTyped
             DEF Prune, TypeOK, Shape, Enqueueing, Busy, delivery, scoring
<1>3. CASE Tick
  BY <1>3 DEF Tick, TypeOK, Shape, Enqueueing, Busy, shared, delivery, scoring
<1>4. CASE UNCHANGED vars
  BY <1>4 DEF vars, TypeOK, Shape, Enqueueing, Busy, shared, delivery, scoring
<1> QED BY <1>1, <1>2, <1>3, <1>4, DeliveryShaped, WorkShaped DEF Next

THEOREM Shaped == Spec => []ShapedType
<1>1. Init => ShapedType
  BY InitShaped
<1>2. ShapedType /\ [Next]_vars => ShapedType'
  BY NextShaped
<1> QED BY <1>1, <1>2, PTL DEF Spec

\* Type correctness of the processor.
THEOREM Typing == Spec => []TypeOK
<1>1. ShapedType => TypeOK
  BY DEF ShapedType
<1> QED BY <1>1, Shaped, PTL

-----------------------------------------------------------------------------
(* Reservations.  Neither invariant is inductive without the other: deleting *)
(* the identity of one job from queued keeps the other jobs reserved only    *)
(* because they are for other identities, and a new job is for an identity   *)
(* of its own only because all the others are reserved.                      *)

Reservation == ReservationsMatchJobs /\ OneAssessmentPerIdentity

Running == phase \in {"new", "running"}

\* A step that leaks nothing, and with which no exited worker comes back.
LEMMA NothingLeaks ==
  ASSUME Reservation, CarriedIsReserved', OneAssessmentPerIdentity',
         Leaked' \subseteq Leaked, Running' => Running,
         \A w \in Workers : doing[w] = "exited" => doing'[w] = "exited"
  PROVE  Reservation'
<1>1. PICK last \in [Workers -> Metrics \cup {NoJob}] :
        \A m \in Leaked : \E w \in Workers : doing[w] = "exited" /\ last[w] = m
  BY DEF Reservation, ReservationsMatchJobs
<1>2. \A m \in Leaked' : \E w \in Workers : doing'[w] = "exited" /\ last[w] = m
  BY <1>1
<1>3. Running' => Leaked' = {}
  BY DEF Reservation, ReservationsMatchJobs, Running
<1> QED BY <1>2, <1>3 DEF Reservation, ReservationsMatchJobs, Running

\* A step after which the same goroutines carry the same identities.
LEMMA SameCarriers ==
  ASSUME Reservation, queued' = queued, jobs' = jobs, Running' => Running,
         \A w \in Workers : doing[w] = "exited" => doing'[w] = "exited",
         \A d \in Deliverers : /\ Carrying(d)' <=> Carrying(d)
                               /\ Carrying(d) => Current(d)' = Current(d),
         \A w \in Workers : /\ Busy(w)' <=> Busy(w)
                            /\ Busy(w) => job'[w] = job[w]
  PROVE  Reservation'
<1>1. CarriedIsReserved'
  BY DEF Reservation, ReservationsMatchJobs, CarriedIsReserved
<1>2. OneAssessmentPerIdentity'
  BY DEF Reservation, OneAssessmentPerIdentity
<1>3. Leaked' \subseteq Leaked
  BY DEF Leaked, Carried
<1> QED BY <1>1, <1>2, <1>3, NothingLeaks

\* A delivery goroutine whose step leaves queued and jobs alone, and which neither
\* begins nor ends to carry an identity.
LEMMA IdleDelivery ==
  ASSUME Reservation, ShapedType, NEW d \in Deliverers,
         UNCHANGED <<phase, queued, jobs, doing, job>>,
         stage' = [stage EXCEPT ![d] = stage'[d]], todo' = [todo EXCEPT ![d] = todo'[d]],
         Carrying(d)' <=> Carrying(d), Carrying(d) => todo'[d] = todo[d]
  PROVE  Reservation'
<1>1. \A e \in Deliverers : /\ Carrying(e)' <=> Carrying(e)
                            /\ Carrying(e) => Current(e)' = Current(e)
  BY DEF ShapedType, TypeOK, Carrying, Current
<1>2. \A w \in Workers : (Busy(w)' <=> Busy(w)) /\ (Busy(w) => job'[w] = job[w])
  BY DEF Busy
<1> QED BY <1>1, <1>2, SameCarriers DEF Running

\* Of the goroutines, only d changes where it stands, and it ends to carry.
LEMMA SettleCarriers ==
  ASSUME ShapedType, NEW d \in Deliverers, NEW s, Settle(d, s)
  PROVE  /\ stage' = [stage EXCEPT ![d] = stage'[d]]
         /\ todo' = [todo EXCEPT ![d] = todo'[d]]
         /\ ~Carrying(d)'
         /\ \A e \in Deliverers : e # d => /\ Carrying(e)' <=> Carrying(e)
                                           /\ Current(e)' = Current(e)
BY DEF Settle, ShapedType, TypeOK, Carrying, Current

LEMMA DeliveryReserves ==
  ASSUME Reservation, ShapedType, NEW d \in Deliverers,
         Deliver(d) \/ \E b \in Batches : ConsumeMetrics(d, b)
  PROVE  Reservation'
<1> USE DEF ShapedType
<1>1. ASSUME NEW b \in Batches, ConsumeMetrics(d, b) PROVE Reservation'
  BY <1>1, IdleDelivery DEF ConsumeMetrics, shared, scoring, TypeOK, Carrying
<1>2. CASE Bypass(d) \/ CacheHit(d) \/ EnqueueRefused(d)
  <2>1. PICK s \in {NoScore, Lookup(d)} : Settle(d, s)
    BY <1>2 DEF Bypass, CacheHit, EnqueueRefused
  <2>2. ~Carrying(d)
    BY <1>2 DEF Bypass, CacheHit, EnqueueRefused, LookingUp, Inspecting, Carrying
  <2>3. UNCHANGED <<phase, queued, jobs, doing, job>>
    BY <1>2 DEF Bypass, CacheHit, EnqueueRefused, LookingUp, shared, scoring
  <2> QED BY <2>1, <2>2, <2>3, SettleCarriers, IdleDelivery
<1>3. CASE CacheMiss(d)
  BY <1>3, IdleDelivery DEF CacheMiss, LookingUp, Inspecting, scoring, TypeOK, Carrying
<1>4. CASE QueueFull(d)
  BY <1>4, IdleDelivery DEF QueueFull, shared, scoring, TypeOK, Carrying
<1>5. CASE Forward(d)
  BY <1>5, IdleDelivery DEF Forward, shared, scoring, TypeOK, Carrying
<1>6. CASE Reserve(d)
  <2>1. /\ \A e \in Deliverers : Current(e)' = Current(e)
        /\ \A e \in Deliverers : e # d => (Carrying(e)' <=> Carrying(e))
        /\ ~Carrying(d) /\ Carrying(d)'
    BY <1>6 DEF Reserve, TypeOK, Carrying, Current
  <2>2. /\ Current(d) \notin queued /\ queued' = queued \cup {Current(d)}
        /\ jobs' = jobs /\ phase' = phase
        /\ \A w \in Workers : (Busy(w)' <=> Busy(w)) /\ job'[w] = job[w]
    BY <1>6 DEF Reserve, scoring, Busy
  <2>3. CarriedIsReserved'
    BY <2>1, <2>2 DEF Reservation, ReservationsMatchJobs, CarriedIsReserved
  <2>4. OneAssessmentPerIdentity'
    BY <2>1, <2>2 DEF Reservation, ReservationsMatchJobs, CarriedIsReserved,
                      OneAssessmentPerIdentity
  <2>5. Leaked' \subseteq Leaked
    BY <2>1, <2>2 DEF Leaked, Carried
  <2>6. doing' = doing
    BY <1>6 DEF Reserve, scoring
  <2> QED BY <2>2, <2>3, <2>4, <2>5, <2>6, NothingLeaks DEF Running
<1>7. CASE SendJob(d)
  <2>1. todo[d] # << >> /\ Settle(d, NoScore) /\ Carrying(d)
    BY <1>7 DEF SendJob, Shape, Enqueueing, Carrying
  <2>2. /\ Current(d) \in Metrics /\ jobs \in Seq(Metrics)
        /\ jobs' = Append(jobs, Current(d)) /\ queued' = queued /\ phase' = phase
        /\ \A w \in Workers : (Busy(w)' <=> Busy(w)) /\ job'[w] = job[w]
    BY <1>7, <2>1, CurrentIsMetric DEF SendJob, shared, scoring, Busy, TypeOK
  <2>3. /\ DOMAIN jobs = 1 .. Len(jobs) /\ Len(jobs) \in Nat
        /\ DOMAIN jobs' = 1 .. (Len(jobs) + 1)
        /\ \A i \in DOMAIN jobs : jobs'[i] = jobs[i]
        /\ jobs'[Len(jobs) + 1] = Current(d)
    BY <2>2
  <2>4. CarriedIsReserved'
    BY <2>1, <2>2, <2>3, SettleCarriers
       DEF Reservation, ReservationsMatchJobs, CarriedIsReserved
  <2>5. OneAssessmentPerIdentity'
    BY <2>1, <2>2, <2>3, SettleCarriers DEF Reservation, OneAssessmentPerIdentity
  <2>6. Leaked' \subseteq Leaked
    BY <2>1, <2>2, <2>3, SettleCarriers DEF Leaked, Carried
  <2>7. doing' = doing
    BY <1>7 DEF SendJob, scoring
  <2> QED BY <2>2, <2>4, <2>5, <2>6, <2>7, NothingLeaks DEF Running
<1>8. CASE Unmark(d)
  <2>1. Settle(d, NoScore) /\ Carrying(d)
    BY <1>8 DEF Unmark, Carrying
  <2>2. /\ queued' = queued \ {Current(d)} /\ jobs' = jobs /\ phase' = phase
        /\ \A w \in Workers : (Busy(w)' <=> Busy(w)) /\ job'[w] = job[w]
    BY <1>8 DEF Unmark, scoring, Busy
  <2>3. CarriedIsReserved'
    BY <2>1, <2>2, SettleCarriers
       DEF Reservation, ReservationsMatchJobs, CarriedIsReserved, OneAssessmentPerIdentity
  <2>4. OneAssessmentPerIdentity'
    BY <2>1, <2>2, SettleCarriers DEF Reservation, OneAssessmentPerIdentity
  <2>5. Leaked' \subseteq Leaked
    BY <2>1, <2>2, SettleCarriers DEF Leaked, Carried
  <2>6. doing' = doing
    BY <1>8 DEF Unmark, scoring
  <2> QED BY <2>2, <2>3, <2>4, <2>5, <2>6, NothingLeaks DEF Running
<1> QED BY <1>1, <1>2, <1>3, <1>4, <1>5, <1>6, <1>7, <1>8 DEF Deliver

\* A worker's step that leaves queued and jobs alone, and with which it neither
\* takes nor leaves a job.
LEMMA SameJob ==
  ASSUME Reservation, ShapedType, NEW w \in Workers, NEW where,
         UNCHANGED <<phase, queued, jobs, stage, todo, job>>,
         Go(w, where), doing[w] # "exited",
         where \in {"admission", "check", "cooldown", "scoring", "inferring", "recording"} <=> Busy(w)
  PROVE  Reservation'
<1>1. \A v \in Workers : (Busy(v)' <=> Busy(v)) /\ (doing[v] = "exited" => doing'[v] = "exited")
  BY DEF ShapedType, TypeOK, Go, Busy, Doings
<1>2. \A d \in Deliverers : (Carrying(d)' <=> Carrying(d)) /\ Current(d)' = Current(d)
  BY DEF Carrying, Current
<1> QED BY <1>1, <1>2, SameCarriers DEF Running

\* A worker leaves its job and deletes its identity from queued.
LEMMA Release ==
  ASSUME Reservation, ShapedType, NEW w \in Workers, Busy(w), NEW where \in {"idle", "exited"},
         UNCHANGED <<phase, jobs, stage, todo>>,
         queued' = queued \ {job[w]}, LeaveJob(w, where)
  PROVE  Reservation'
<1>1. /\ ~Busy(w)'
      /\ \A v \in Workers : v # w => (Busy(v)' <=> Busy(v)) /\ job'[v] = job[v]
  BY DEF ShapedType, TypeOK, LeaveJob, Go, Busy
<1>2. \A d \in Deliverers : (Carrying(d)' <=> Carrying(d)) /\ Current(d)' = Current(d)
  BY DEF Carrying, Current
<1>3. CarriedIsReserved'
  BY <1>1, <1>2 DEF Reservation, ReservationsMatchJobs, CarriedIsReserved,
                    OneAssessmentPerIdentity
<1>4. OneAssessmentPerIdentity'
  BY <1>1, <1>2 DEF Reservation, OneAssessmentPerIdentity
<1>5. Leaked' \subseteq Leaked
  BY <1>1, <1>2 DEF Leaked, Carried
<1>6. \A v \in Workers : doing[v] = "exited" => doing'[v] = "exited"
  BY DEF ShapedType, TypeOK, LeaveJob, Go, Busy
<1> QED BY <1>3, <1>4, <1>5, <1>6, NothingLeaks DEF Running

LEMMA WorkReserves ==
  ASSUME Reservation, ShapedType, NEW w \in Workers, Work(w)
  PROVE  Reservation'
<1>1. CASE TakeJob(w)
  <2>1. /\ jobs \in Seq(Metrics) /\ jobs # << >> /\ jobs' = Tail(jobs)
        /\ queued' = queued /\ phase' = phase /\ ~Busy(w)
    BY <1>1 DEF TakeJob, ShapedType, TypeOK, shared, Busy
  <2>2. /\ DOMAIN jobs = 1 .. Len(jobs) /\ Len(jobs) \in Nat \ {0}
        /\ DOMAIN jobs' = 1 .. (Len(jobs) - 1)
        /\ \A i \in DOMAIN jobs' : jobs'[i] = jobs[i + 1] /\ i + 1 \in DOMAIN jobs
        /\ Head(jobs) = jobs[1]
    BY <2>1
  <2>3. /\ Busy(w)' /\ job'[w] = jobs[1]
        /\ \A v \in Workers : v # w => (Busy(v)' <=> Busy(v)) /\ job'[v] = job[v]
    BY <1>1, <2>2 DEF TakeJob, ShapedType, TypeOK, Go, Busy
  <2>4. \A d \in Deliverers : (Carrying(d)' <=> Carrying(d)) /\ Current(d)' = Current(d)
    BY <1>1 DEF TakeJob, delivery, Carrying, Current
  <2>5. 1 \in DOMAIN jobs /\ \A i \in DOMAIN jobs' : i + 1 # 1
    BY <2>2
  <2>6. CarriedIsReserved'
    BY <2>1, <2>2, <2>3, <2>4, <2>5
       DEF Reservation, ReservationsMatchJobs, CarriedIsReserved
  <2>7. OneAssessmentPerIdentity'
    BY <2>1, <2>2, <2>3, <2>4, <2>5 DEF Reservation, OneAssessmentPerIdentity
  <2>8. Leaked' \subseteq Leaked
    <3>1. ASSUME NEW i \in DOMAIN jobs, i # 1 PROVE \E j \in DOMAIN jobs' : jobs'[j] = jobs[i]
      <4>1. i - 1 \in DOMAIN jobs' /\ (i - 1) + 1 = i
        BY <2>2, <3>1
      <4> QED BY <2>2, <4>1
    <3>2. \A m : Carried(m) => Carried(m)'
      BY <2>1, <2>3, <2>4, <3>1 DEF Carried
    <3> QED BY <2>1, <3>2 DEF Leaked
  <2>9. \A v \in Workers : doing[v] = "exited" => doing'[v] = "exited"
    BY <1>1 DEF TakeJob, ShapedType, TypeOK, Go
  <2> QED BY <2>1, <2>6, <2>7, <2>8, <2>9, NothingLeaks DEF Running
<1>2. CASE Exit(w)
  BY <1>2, SameJob DEF Exit, Busy, shared, delivery
<1>3. CASE Admit(w) \/ PassCheck(w) \/ BeginScoring(w) \/ BeginInference(w)
  <2>1. PICK where \in {"check", "cooldown", "scoring", "inferring"} : Go(w, where)
    BY <1>3 DEF Admit, PassCheck, BeginScoring, BeginInference
  <2>2. Busy(w) /\ UNCHANGED <<phase, queued, jobs, stage, todo, job>>
    BY <1>3 DEF Admit, PassCheck, BeginScoring, BeginInference, Busy, shared, delivery
  <2> QED BY <2>1, <2>2, SameJob DEF Busy
<1>4. CASE Answer(w) \/ InferenceFails(w) \/ SharedHit(w) \/ CoordinationFails(w)
  <2>1. Busy(w) /\ \E r : Return(w, r)
    BY <1>4 DEF Answer, InferenceFails, SharedHit, CoordinationFails, Busy
  <2>2. Go(w, "recording") /\ UNCHANGED <<phase, queued, jobs, stage, todo, job>>
    BY <2>1 DEF Return, shared, delivery
  <2> QED BY <2>1, <2>2, SameJob DEF Busy
<1>5. CASE AdmissionCancelled(w) \/ SkipCooling(w) \/ RecordSuccess(w) \/ RecordFailure(w)
  <2>1. Busy(w) /\ queued' = queued \ {job[w]} /\ UNCHANGED <<phase, jobs, stage, todo>>
    BY <1>5 DEF AdmissionCancelled, SkipCooling, RecordSuccess, RecordFailure, Busy, delivery
  <2>2. PICK where \in {"idle", "exited"} : LeaveJob(w, where)
    BY <1>5 DEF AdmissionCancelled, SkipCooling, RecordSuccess, RecordFailure
  <2> QED BY <2>1, <2>2, Release
<1>6. CASE AbandonJob(w)
  <2>1. /\ queued' = queued /\ jobs' = jobs /\ ~Running'
        /\ ~Busy(w)'
        /\ \A v \in Workers : v # w => (Busy(v)' <=> Busy(v)) /\ job'[v] = job[v]
        /\ \A d \in Deliverers : (Carrying(d)' <=> Carrying(d)) /\ Current(d)' = Current(d)
    BY <1>6 DEF AbandonJob, Cancelled, Running, LeaveJob, Go, Busy, ShapedType, TypeOK,
                shared, delivery, Carrying, Current
  <2>2. CarriedIsReserved'
    BY <2>1 DEF Reservation, ReservationsMatchJobs, CarriedIsReserved
  <2>3. OneAssessmentPerIdentity'
    BY <2>1 DEF Reservation, OneAssessmentPerIdentity
  <2>4. PICK last \in [Workers -> Metrics \cup {NoJob}] :
          \A m \in Leaked : \E v \in Workers : doing[v] = "exited" /\ last[v] = m
    BY DEF Reservation, ReservationsMatchJobs
  <2>5. job[w] \in Metrics /\ doing[w] = "check" /\ doing' = [doing EXCEPT ![w] = "exited"]
    BY <1>6 DEF AbandonJob, LeaveJob, Go, ShapedType, Shape, Busy
  <2>6. Leaked' \subseteq Leaked \cup {job[w]}
    BY <2>1 DEF Leaked, Carried
  <2>7. \A m \in Leaked' : \E v \in Workers :
          doing'[v] = "exited" /\ [last EXCEPT ![w] = job[w]][v] = m
    BY <2>4, <2>5, <2>6 DEF ShapedType, TypeOK
  <2>8. [last EXCEPT ![w] = job[w]] \in [Workers -> Metrics \cup {NoJob}]
    BY <2>5
  <2> QED BY <2>1, <2>2, <2>3, <2>7, <2>8 DEF Reservation, ReservationsMatchJobs, Running
<1> QED BY <1>1, <1>2, <1>3, <1>4, <1>5, <1>6 DEF Work

LEMMA NextReserves ==
  ASSUME Reservation, ShapedType, [Next]_vars
  PROVE  Reservation'
<1>1. CASE Start \/ Shutdown \/ ShutdownReturns \/ Prune \/ Tick \/ UNCHANGED vars
  <2>1. UNCHANGED <<queued, jobs, stage, todo, doing, job>> /\ (Running' => Running)
    BY <1>1 DEF Start, Shutdown, ShutdownReturns, Prune, Tick, vars, Running,
                shared, delivery, scoring
  <2>2. \A d \in Deliverers : (Carrying(d)' <=> Carrying(d)) /\ Current(d)' = Current(d)
    BY <2>1 DEF Carrying, Current
  <2>3. \A w \in Workers : Busy(w)' <=> Busy(w)
    BY <2>1 DEF Busy
  <2> QED BY <2>1, <2>2, <2>3, SameCarriers
<1> QED BY <1>1, DeliveryReserves, WorkReserves DEF Next

\* Jobs and reservations match, and no metric is assessed twice at the same time,
\* however many goroutines there are and however their steps interleave.
THEOREM Reservations == Spec => [](ReservationsMatchJobs /\ OneAssessmentPerIdentity)
<1>1. Init => Reservation
  BY DEF Init, Reservation, ReservationsMatchJobs, CarriedIsReserved, Leaked,
         OneAssessmentPerIdentity, Carrying, Busy
<1>2. Reservation /\ ShapedType /\ [Next]_vars => Reservation'
  BY NextReserves
<1>3. Reservation => ReservationsMatchJobs /\ OneAssessmentPerIdentity
  BY DEF Reservation
<1> QED BY <1>1, <1>2, <1>3, Shaped, PTL DEF Spec

\* The part of it that c.queued exists for: whatever batches repeat a metric, one
\* delivery, one place in the channel or one worker has it, and no other.
THEOREM OneAssessment == Spec => []OneAssessmentPerIdentity
<1>1. ReservationsMatchJobs /\ OneAssessmentPerIdentity => OneAssessmentPerIdentity
  OBVIOUS
<1> QED BY <1>1, Reservations, PTL

-----------------------------------------------------------------------------
(* Backoff.  That a late failure does not shorten a cooldown is a matter of  *)
(* the bound on the retry time: the next one is at least as far away.        *)

\* Delays are positive and do not shrink from one failure to the next.
LEMMA DelayGrows ==
  ASSUME ShapedType, NEW w \in Workers, RecordFailure(w)
  PROVE  /\ failures' \in 1 .. FailureCap
         /\ Delay(failures') \in Nat \ {0}
         /\ failures > 0 => Delay(failures) \in Nat /\ Delay(failures) <= Delay(failures')
<1>1. failures \in 0 .. FailureCap /\ FailureCap \in Nat \ {0}
  BY ProcessorAssumption DEF ShapedType, TypeOK
<1>2. failures' = IF failures < FailureCap THEN failures + 1 ELSE failures
  BY DEF RecordFailure
<1>3. failures' \in 1 .. FailureCap
  BY <1>1, <1>2
<1>4. ASSUME failures > 0
      PROVE  Delay(failures) \in Nat /\ Delay(failures) <= Delay(failures')
  <2>1. failures \in 1 .. FailureCap
    BY <1>1, <1>4
  <2>2. CASE failures < FailureCap
    BY <1>2, <2>1, <2>2, DelayAssumption
  <2>3. CASE failures = FailureCap
    <3>1. Delay(failures) \in Nat
      BY <2>1, DelayAssumption
    <3>2. failures' = failures
      BY <1>1, <1>2, <2>3
    <3> QED BY <3>1, <3>2
  <2> QED BY <1>1, <2>2, <2>3
<1> QED BY <1>3, <1>4, DelayAssumption

\* Every step but the recording of an outcome leaves the backoff alone.
LEMMA OthersKeepBackoff ==
  ASSUME ShapedType, [Next]_vars,
         \A w \in Workers : ~RecordSuccess(w) /\ ~RecordFailure(w)
  PROVE  UNCHANGED <<retryUntil, failures>> /\ now' \in Nat /\ now' >= now
<1>1. now \in Nat
  BY DEF ShapedType, TypeOK
<1>2. ASSUME NEW d \in Deliverers, NEW b \in Batches, ConsumeMetrics(d, b)
      PROVE  UNCHANGED <<retryUntil, failures, now>>
  BY <1>2 DEF ConsumeMetrics, shared
<1>3. ASSUME NEW d \in Deliverers, Deliver(d)
      PROVE  UNCHANGED <<retryUntil, failures, now>>
  BY <1>3 DEF Deliver, Bypass, CacheHit, CacheMiss, EnqueueRefused, Reserve, SendJob, QueueFull,
              Unmark, Forward, shared
<1>4. ASSUME NEW w \in Workers, Work(w)
      PROVE  UNCHANGED <<retryUntil, failures, now>>
  BY <1>4 DEF Work, TakeJob, Exit, Admit, AdmissionCancelled, AbandonJob, PassCheck, SkipCooling,
              BeginScoring, BeginInference, Answer, InferenceFails, SharedHit,
              CoordinationFails, Return, shared
<1>5. CASE Start \/ Shutdown \/ ShutdownReturns \/ Prune \/ UNCHANGED vars
  BY <1>1, <1>5 DEF Start, Shutdown, ShutdownReturns, Prune, vars, shared
<1>6. CASE Tick
  BY <1>1, <1>6 DEF Tick, shared
<1> QED BY <1>1, <1>2, <1>3, <1>4, <1>5, <1>6 DEF Next

LEMMA NextBacksOff ==
  ASSUME ShapedType, BackoffMatchesFailures, [Next]_vars
  PROVE  BackoffMatchesFailures' /\ (retryUntil' < retryUntil => failures' = 0)
<1>1. now \in Nat /\ retryUntil \in Nat /\ failures \in 0 .. FailureCap
  BY DEF ShapedType, TypeOK
<1>2. ASSUME NEW w \in Workers, RecordFailure(w)
      PROVE  BackoffMatchesFailures' /\ ~(retryUntil' < retryUntil)
  <2>1. retryUntil' = now + Delay(failures') /\ now' = now
    BY <1>2 DEF RecordFailure
  <2>2. retryUntil > 0 => failures > 0 /\ retryUntil <= now + Delay(failures)
    BY <1>1, ProcessorAssumption DEF BackoffMatchesFailures
  <2> DEFINE old == Delay(failures)
             new == Delay(failures')
  <2>3. failures' \in 1 .. FailureCap /\ new \in Nat \ {0} /\ (failures > 0 => old \in Nat /\ old <= new)
    BY <1>2, DelayGrows
  <2>4. retryUntil' = now + new
    BY <2>1
  <2>5. retryUntil > 0 => failures > 0 /\ retryUntil <= now + old
    BY <2>2
  <2>6. BackoffMatchesFailures' <=> /\ failures' = 0 <=> retryUntil' = 0
                                    /\ failures' > 0 => retryUntil' <= now' + new
    BY DEF BackoffMatchesFailures
  <2> HIDE DEF old, new
  <2> QED BY <1>1, <2>1, <2>3, <2>4, <2>5, <2>6
<1>3. ASSUME NEW w \in Workers, RecordSuccess(w)
      PROVE  BackoffMatchesFailures' /\ failures' = 0
  BY <1>3 DEF RecordSuccess, BackoffMatchesFailures
<1>4. ASSUME \A w \in Workers : ~RecordSuccess(w) /\ ~RecordFailure(w)
      PROVE  BackoffMatchesFailures' /\ ~(retryUntil' < retryUntil)
  <2>1. UNCHANGED <<retryUntil, failures>> /\ now' \in Nat /\ now' >= now
    BY <1>4, OthersKeepBackoff
  <2>2. failures > 0 => Delay(failures) \in Nat
    BY <1>1, ProcessorAssumption, DelayAssumption
  <2> DEFINE old == Delay(failures)
  <2>3. Delay(failures)' = old
    BY <2>1 DEF Delay
  <2>4. failures > 0 => old \in Nat
    BY <2>2
  <2>5. /\ failures = 0 <=> retryUntil = 0
        /\ failures > 0 => retryUntil <= now + old
    BY DEF BackoffMatchesFailures
  <2>6. BackoffMatchesFailures' <=> /\ failures' = 0 <=> retryUntil' = 0
                                    /\ failures' > 0 => retryUntil' <= now' + old
    BY <2>3 DEF BackoffMatchesFailures
  <2> HIDE DEF old
  <2> QED BY <1>1, <2>1, <2>4, <2>5, <2>6
<1> QED BY <1>1, <1>2, <1>3, <1>4

\* The retry time and the number of failures agree at all times.
THEOREM Backoff == Spec => []BackoffMatchesFailures
<1>1. Init => BackoffMatchesFailures
  BY DEF Init, BackoffMatchesFailures
<1>2. ShapedType /\ BackoffMatchesFailures /\ [Next]_vars => BackoffMatchesFailures'
  BY NextBacksOff
<1> QED BY <1>1, <1>2, Shaped, PTL DEF Spec

\* No failure, however late and of whichever worker, shortens a cooldown.
THEOREM CooldownsOnlyGrow == Spec => OnlySuccessEndsCooldown
<1>1. ShapedType /\ BackoffMatchesFailures /\ [Next]_vars
        => [retryUntil' < retryUntil => failures' = 0]_vars
  BY NextBacksOff
<1> QED BY <1>1, Backoff, Shaped, PTL DEF Spec, OnlySuccessEndsCooldown

-----------------------------------------------------------------------------
(* Drops.  A batch is empty of verdicts when it arrives, so that the time it *)
(* began belongs to all of them; a verdict is only added on a cache hit.     *)

Justified ==
  /\ DropsAreJustified
  /\ \A d \in Deliverers : stage[d] = "idle" => removed[d] = {} /\ emitted[d] = {}

\* Fail-open: without a score there is no verdict.
LEMMA NoScoreNoVerdict ==
  ASSUME NEW d \in Deliverers, Settle(d, NoScore)
  PROVE  UNCHANGED <<began, removed, emitted>>
BY DEF Settle, Decision, decideRetention

\* Only a keep probability at or below the threshold drops.
LEMMA DropIsDecided ==
  ASSUME NEW m \in Metrics, NEW s \in Score, s # NoScore, ~Decision(m, s).keep
  PROVE  s.keep <= DropThreshold
BY DEF Decision, decideRetention

LEMMA HitIsJustified ==
  ASSUME ShapedType, Justified, NEW d \in Deliverers, CacheHit(d)
  PROVE  Justified'
<1> DEFINE s == Lookup(d)
           m == Current(d)
           v == [metric |-> m, score |-> s]
<1>1. /\ m \in Metrics /\ m \notin Protected \cup Unidentified
      /\ s # NoScore /\ Settle(d, s)
  BY CurrentIsMetric DEF CacheHit, LookingUp, Inspecting, ShapedType
<1>2. s \in Answers[m] /\ ~Expired(s, began[d])
  BY <1>1, GetHolds DEF ShapedType, Shape, Lookup
<1>3. s \in Score /\ s.keep \in JevKeeps[m]
  BY <1>1, <1>2, AnswersAreScores
<1>4. began[d] - s.scoredAt < ScoreTTL
  BY <1>2, <1>3, CacheAssumption DEF Expired, Score, ShapedType, TypeOK
<1>5. Substantiated(d, v)
  BY <1>1, <1>3, <1>4 DEF Substantiated
<1>6. ~Decision(m, s).keep => v.score.keep <= DropThreshold
  BY <1>1, <1>3, DropIsDecided
<1>7. /\ removed' = IF Mode = "reduce" /\ ~Decision(m, s).keep
                    THEN [removed EXCEPT ![d] = @ \cup {v}] ELSE removed
      /\ emitted' = IF Mode = "annotate" THEN [emitted EXCEPT ![d] = @ \cup {v}] ELSE emitted
      /\ stage' = [stage EXCEPT ![d] = "lookup"] /\ began' = began
  BY <1>1 DEF Settle
<1>8. \A e \in Deliverers : \A x : Substantiated(e, x)' <=> Substantiated(e, x)
  BY <1>7 DEF Substantiated
<1> HIDE DEF v, s, m
<1>9. ASSUME NEW e \in Deliverers, NEW x \in removed'[e]
      PROVE  Mode = "reduce" /\ Substantiated(e, x) /\ x.score.keep <= DropThreshold
  <2>1. CASE x \in removed[e]
    BY <2>1 DEF Justified, DropsAreJustified
  <2>2. CASE x \notin removed[e]
    <3>1. e = d /\ x = v /\ Mode = "reduce" /\ ~Decision(m, s).keep
      BY <1>7, <2>2 DEF ShapedType, TypeOK
    <3> QED BY <1>5, <1>6, <3>1
  <2> QED BY <2>1, <2>2
<1>10. ASSUME NEW e \in Deliverers, NEW x \in emitted'[e]
       PROVE  Mode = "annotate" /\ Substantiated(e, x)
  <2>1. CASE x \in emitted[e]
    BY <2>1 DEF Justified, DropsAreJustified
  <2>2. CASE x \notin emitted[e]
    BY <1>5, <1>7, <2>2 DEF ShapedType, TypeOK
  <2> QED BY <2>1, <2>2
<1>11. \A e \in Deliverers : stage'[e] = "idle" => removed'[e] = {} /\ emitted'[e] = {}
  BY <1>7 DEF Justified, ShapedType, TypeOK
<1> QED BY <1>8, <1>9, <1>10, <1>11 DEF Justified, DropsAreJustified

\* A step of d that leaves the verdicts alone, and the time the batch began too
\* unless the batch is just arriving.
LEMMA SameVerdicts ==
  ASSUME ShapedType, Justified, UNCHANGED <<removed, emitted>>,
         \A d \in Deliverers : \/ began'[d] = began[d] /\ (stage'[d] = "idle" => stage[d] = "idle")
                               \/ stage[d] = "idle"
  PROVE  Justified'
<1>1. ASSUME NEW d \in Deliverers, NEW x \in removed[d] \cup emitted[d]
      PROVE  Substantiated(d, x) => Substantiated(d, x)'
  BY <1>1 DEF Substantiated, Justified
<1>2. DropsAreJustified'
  BY <1>1 DEF Justified, DropsAreJustified
<1> QED BY <1>2 DEF Justified

LEMMA NextJustifies ==
  ASSUME ShapedType, Justified, [Next]_vars
  PROVE  Justified'
<1>1. ASSUME NEW d \in Deliverers, NEW b \in Batches, ConsumeMetrics(d, b) PROVE Justified'
  BY <1>1, SameVerdicts DEF ConsumeMetrics, ShapedType, TypeOK
<1>2. ASSUME NEW d \in Deliverers,
             Bypass(d) \/ EnqueueRefused(d) \/ SendJob(d) \/ Unmark(d)
      PROVE  Justified'
  <2>1. Settle(d, NoScore)
    BY <1>2 DEF Bypass, EnqueueRefused, SendJob, Unmark
  <2>2. UNCHANGED <<began, removed, emitted>>
    BY <2>1, NoScoreNoVerdict
  <2>3. stage' = [stage EXCEPT ![d] = "lookup"]
    BY <2>1 DEF Settle
  <2> QED BY <2>2, <2>3, SameVerdicts DEF ShapedType, TypeOK
<1>3. ASSUME NEW d \in Deliverers, CacheMiss(d) \/ Reserve(d) \/ QueueFull(d)
      PROVE  Justified'
  <2>1. UNCHANGED <<began, removed, emitted>>
        /\ \E s \in {"reserve", "send", "unmark"} : stage' = [stage EXCEPT ![d] = s]
    BY <1>3 DEF CacheMiss, Reserve, QueueFull
  <2> QED BY <2>1, SameVerdicts DEF ShapedType, TypeOK
<1>4. ASSUME NEW d \in Deliverers, Forward(d) PROVE Justified'
  <2>1. /\ removed' = [removed EXCEPT ![d] = {}] /\ emitted' = [emitted EXCEPT ![d] = {}]
        /\ began' = [began EXCEPT ![d] = 0] /\ stage' = [stage EXCEPT ![d] = "idle"]
    BY <1>4 DEF Forward
  <2>2. removed'[d] = {} /\ emitted'[d] = {}
    BY <2>1 DEF ShapedType, TypeOK
  <2>3. ASSUME NEW e \in Deliverers, e # d
        PROVE  /\ removed'[e] = removed[e] /\ emitted'[e] = emitted[e]
               /\ began'[e] = began[e] /\ stage'[e] = stage[e]
    BY <2>1, <2>3 DEF ShapedType, TypeOK
  <2>4. \A e \in Deliverers : \A x : e # d /\ Substantiated(e, x) => Substantiated(e, x)'
    BY <2>3 DEF Substantiated
  <2>5. DropsAreJustified'
    BY <2>2, <2>3, <2>4 DEF Justified, DropsAreJustified
  <2> QED BY <2>2, <2>3, <2>5 DEF Justified
<1>5. ASSUME NEW w \in Workers, Work(w) PROVE UNCHANGED delivery
  BY <1>5 DEF Work, TakeJob, Exit, Admit, AdmissionCancelled, AbandonJob, PassCheck, SkipCooling,
              BeginScoring, BeginInference, Answer, InferenceFails, SharedHit,
              CoordinationFails, RecordSuccess, RecordFailure, Return
<1>6. ASSUME Start \/ Shutdown \/ ShutdownReturns \/ Prune \/ Tick \/ UNCHANGED vars
      PROVE  UNCHANGED delivery
  BY <1>6 DEF Start, Shutdown, ShutdownReturns, Prune, Tick, vars
<1>7. ASSUME UNCHANGED delivery PROVE Justified'
  BY <1>7, SameVerdicts DEF delivery
<1> QED BY <1>1, <1>2, <1>3, <1>4, <1>5, <1>6, <1>7, HitIsJustified DEF Next, Deliver

\* The processor only ever drops a metric on a fresh answer of Jev for that metric,
\* at or below the drop threshold; nothing that fails or is missing drops one.
THEOREM FailOpen == Spec => []DropsAreJustified
<1>1. Init => Justified
  BY DEF Init, Justified, DropsAreJustified
<1>2. ShapedType /\ Justified /\ [Next]_vars => Justified'
  BY NextJustifies
<1>3. Justified => DropsAreJustified
  BY DEF Justified
<1> QED BY <1>1, <1>2, <1>3, Shaped, PTL DEF Spec
=============================================================================
