-------------------------- MODULE MetricsProcessor --------------------------
(***************************************************************************)
(* One instance of the collector processor (src/otelprocessor/             *)
(* processor.go).  Delivery goroutines run ConsumeMetrics: they decide     *)
(* every metric of a batch from the local cache, reserve and enqueue the   *)
(* metrics that have no fresh assessment, and hand the batch on.           *)
(* Background workers take the jobs, ask Jev - directly, or through the    *)
(* Redis coordinator - and record the answer or start a cooldown.  A third *)
(* goroutine prunes the cache.  What runs under c.mu is one step; every    *)
(* unlock, channel operation and remote call is a point where the other    *)
(* goroutines run.                                                         *)
(*                                                                         *)
(* A metric stands for its identity (scoreKey); the nested loops over      *)
(* resources, scopes and metrics are one sequence of metrics.              *)
(***************************************************************************)
EXTENDS Integers, Sequences, FiniteSets, RetentionPolicy, ScoreCache

CONSTANTS Metrics,       \* metric identities that occur in batches
          Protected,     \* those the policy names as protected
          Unidentified,  \* those whose metadata has no identity (scoreKey = "")
          Batches,       \* the batches that receivers deliver
          JevKeeps,      \* for each metric, the keep probabilities Jev may answer
          Deliverers,    \* goroutines that call ConsumeMetrics
          Workers,       \* goroutines that run worker
          QueueSize,     \* queue_size
          Mode,          \* "annotate" or "reduce"
          Coordinated,   \* whether coordination.redis_url is set
          FailureCap,    \* the bound on failures (6 in the code)
          NoJob,         \* a worker between jobs
          MaxNow         \* bound on the clock; its unit is the one-second delay

ASSUME ProcessorAssumption ==
  /\ Protected \subseteq Metrics /\ Unidentified \subseteq Metrics
  /\ Batches \subseteq Seq(Metrics)
  /\ JevKeeps \in [Metrics -> SUBSET Probability]
  /\ QueueSize \in Nat \ {0}
  /\ Mode \in {"annotate", "reduce"} /\ Coordinated \in BOOLEAN
  /\ FailureCap \in Nat \ {0} /\ MaxNow \in Nat
  /\ NoJob \notin Metrics

\* The cooldown after the n-th failure in a row: time.Second << (n - 1).
Delay(n) == 2 ^ (n - 1)

\* What the proofs use of powers of two: delays are positive and never shrink.
ASSUME DelayAssumption ==
  \A n \in 1 .. FailureCap :
    Delay(n) \in Nat \ {0} /\ (n < FailureCap => Delay(n) <= Delay(n + 1))

VARIABLES
  phase,       \* life cycle of the component
  now,         \* c.now()
  cache,       \* c.scores
  retryUntil,  \* c.retryUntil; 0 is the zero time
  failures,    \* c.failures
  queued,      \* c.queued: the reserved identities
  jobs,        \* the channel c.jobs
  stage,       \* per delivery goroutine: where it stands in ConsumeMetrics
  todo,        \* its metrics not yet decided, the current one first
  began,       \* the time it read once, at the start of the batch
  removed,     \* the metrics it removed, each with the score that justified it
  emitted,     \* the metrics it will annotate, each with the score emitted
  doing,       \* per worker: where it stands in worker
  job,         \* the identity of its job
  result       \* what scoring returned; NoScore is an error

shared   == <<cache, retryUntil, failures, queued>>
delivery == <<stage, todo, began, removed, emitted>>
scoring  == <<doing, job, result>>
vars     == <<phase, now, shared, jobs, delivery, scoring>>

Score == [keep : Probability, scoredAt : Int]

Init ==
  /\ phase = "new" /\ now = 0
  /\ cache = newScoreCache
  /\ retryUntil = 0 /\ failures = 0
  /\ queued = {} /\ jobs = << >>
  /\ stage = [d \in Deliverers |-> "idle"]
  /\ todo = [d \in Deliverers |-> << >>]
  /\ began = [d \in Deliverers |-> 0]
  /\ removed = [d \in Deliverers |-> {}]
  /\ emitted = [d \in Deliverers |-> {}]
  /\ doing = [w \in Workers |-> "idle"]
  /\ job = [w \in Workers |-> NoJob]
  /\ result = [w \in Workers |-> NoScore]

-----------------------------------------------------------------------------
(* Delivery.  ConsumeMetrics has no guard on the life cycle: batches may    *)
(* arrive before Start, and while or after Shutdown runs.                   *)

ConsumeMetrics(d, batch) ==
  /\ stage[d] = "idle"
  /\ stage' = [stage EXCEPT ![d] = "lookup"]
  /\ todo' = [todo EXCEPT ![d] = batch]
  /\ began' = [began EXCEPT ![d] = now]
  /\ UNCHANGED <<phase, now, shared, jobs, removed, emitted, scoring>>

Current(d) == Head(todo[d])

Decision(m, s) ==
  decideRetention(m \in Protected, m \notin Unidentified, s # NoScore,
                  IF s = NoScore THEN 0 ELSE s.keep)

\* What RemoveIf's callback does last with the current metric, s the score found
\* for it: record an annotation, decide, and go on to the next metric.
Settle(d, s) ==
  LET verdict == [metric |-> Current(d), score |-> s]
      drop    == Mode = "reduce" /\ ~Decision(Current(d), s).keep
  IN  /\ emitted' = IF Mode = "annotate" /\ s # NoScore
                    THEN [emitted EXCEPT ![d] = @ \cup {verdict}] ELSE emitted
      /\ removed' = IF drop THEN [removed EXCEPT ![d] = @ \cup {verdict}] ELSE removed
      /\ todo' = [todo EXCEPT ![d] = Tail(@)]
      /\ stage' = [stage EXCEPT ![d] = "lookup"]
      /\ UNCHANGED began

Inspecting(d) == stage[d] = "lookup" /\ todo[d] # << >>

\* A protected metric, or one without an identity, is never looked up.
Bypass(d) ==
  /\ Inspecting(d)
  /\ Current(d) \in Protected \cup Unidentified
  /\ Settle(d, NoScore)
  /\ UNCHANGED <<phase, now, shared, jobs, scoring>>

Lookup(d) == getResult(cache, Current(d), began[d])

LookingUp(d) ==
  /\ Inspecting(d)
  /\ Current(d) \notin Protected \cup Unidentified
  /\ cache' = getCache(cache, Current(d), began[d])

CacheHit(d) ==
  /\ LookingUp(d)
  /\ Lookup(d) # NoScore
  /\ Settle(d, Lookup(d))
  /\ UNCHANGED <<phase, now, retryUntil, failures, queued, jobs, scoring>>

CacheMiss(d) ==
  /\ LookingUp(d)
  /\ Lookup(d) = NoScore
  /\ stage' = [stage EXCEPT ![d] = "reserve"]
  /\ UNCHANGED <<phase, now, retryUntil, failures, queued, jobs,
                 todo, began, removed, emitted, scoring>>

Cooling == now < retryUntil

\* enqueue's first critical section, when it returns early.
EnqueueRefused(d) ==
  /\ stage[d] = "reserve"
  /\ Current(d) \in queued \/ Cooling
  /\ Settle(d, NoScore)
  /\ UNCHANGED <<phase, now, shared, jobs, scoring>>

\* Mutant: the reservation is not looked at.
ReserveBlindly(d) ==
  /\ stage[d] = "reserve" /\ ~Cooling
  /\ queued' = queued \cup {Current(d)}
  /\ stage' = [stage EXCEPT ![d] = "send"]
  /\ UNCHANGED <<phase, now, cache, retryUntil, failures, jobs,
                 todo, began, removed, emitted, scoring>>

\* enqueue's first critical section, when it marks the identity.
Reserve(d) ==
  /\ stage[d] = "reserve"
  /\ Current(d) \notin queued /\ ~Cooling
  /\ queued' = queued \cup {Current(d)}
  /\ stage' = [stage EXCEPT ![d] = "send"]
  /\ UNCHANGED <<phase, now, cache, retryUntil, failures, jobs,
                 todo, began, removed, emitted, scoring>>

\* The two outcomes of the non-blocking send.
SendJob(d) ==
  /\ stage[d] = "send"
  /\ Len(jobs) < QueueSize
  /\ jobs' = Append(jobs, Current(d))
  /\ Settle(d, NoScore)
  /\ UNCHANGED <<phase, now, shared, scoring>>

\* Mutant: the send blocks.
QueueFullBlocks(d) ==
  /\ stage[d] = "send"
  /\ Len(jobs) >= QueueSize
  /\ UNCHANGED vars

QueueFull(d) ==
  /\ stage[d] = "send"
  /\ Len(jobs) >= QueueSize
  /\ stage' = [stage EXCEPT ![d] = "unmark"]
  /\ UNCHANGED <<phase, now, shared, jobs, todo, began, removed, emitted, scoring>>

\* enqueue's second critical section, after a full queue.
Unmark(d) ==
  /\ stage[d] = "unmark"
  /\ queued' = queued \ {Current(d)}
  /\ Settle(d, NoScore)
  /\ UNCHANGED <<phase, now, cache, retryUntil, failures, jobs, scoring>>

\* The next consumer returns, with or without an error, and so does the call.
Forward(d) ==
  /\ stage[d] = "lookup" /\ todo[d] = << >>
  /\ stage' = [stage EXCEPT ![d] = "idle"]
  /\ began' = [began EXCEPT ![d] = 0]
  /\ removed' = [removed EXCEPT ![d] = {}]
  /\ emitted' = [emitted EXCEPT ![d] = {}]
  /\ UNCHANGED <<phase, now, shared, jobs, todo, scoring>>

Deliver(d) ==
  \/ Bypass(d) \/ CacheHit(d) \/ CacheMiss(d)
  \/ EnqueueRefused(d) \/ Reserve(d) \/ SendJob(d) \/ QueueFull(d) \/ Unmark(d)
  \/ Forward(d)

-----------------------------------------------------------------------------
(* Workers.  The limiter (golang.org/x/time/rate) is a wait of arbitrary    *)
(* length; Jev and the coordinator answer after any time, or fail.          *)

Started   == phase \in {"running", "stopping"}
Cancelled == phase \in {"stopping", "stopped"}

Go(w, where) == doing' = [doing EXCEPT ![w] = where]

LeaveJob(w, where) == Go(w, where) /\ job' = [job EXCEPT ![w] = NoJob]

\* Both cases of the select may be ready; Go then picks either.
TakeJob(w) ==
  /\ Started /\ doing[w] = "idle"
  /\ jobs # << >>
  /\ job' = [job EXCEPT ![w] = Head(jobs)]
  /\ jobs' = Tail(jobs)
  /\ Go(w, IF Coordinated THEN "check" ELSE "admission")
  /\ UNCHANGED <<phase, now, shared, delivery, result>>

\* Mutant: an idle worker only watches the queue.
ExitNever(w) ==
  /\ Cancelled /\ doing[w] = "idle"
  /\ UNCHANGED vars

Exit(w) ==
  /\ Cancelled /\ doing[w] = "idle"
  /\ Go(w, "exited")
  /\ UNCHANGED <<phase, now, shared, jobs, delivery, job, result>>

Admit(w) ==
  /\ doing[w] = "admission"
  /\ Go(w, "check")
  /\ UNCHANGED <<phase, now, shared, jobs, delivery, job, result>>

\* limiter.Wait returns the context's error.
AdmissionCancelled(w) ==
  /\ Cancelled /\ doing[w] = "admission"
  /\ queued' = queued \ {job[w]}
  /\ LeaveJob(w, "exited")
  /\ UNCHANGED <<phase, now, cache, retryUntil, failures, jobs, delivery, result>>

\* The return on ctx.Err() leaves the identity reserved.
AbandonJob(w) ==
  /\ Cancelled /\ doing[w] = "check"
  /\ LeaveJob(w, "exited")
  /\ UNCHANGED <<phase, now, shared, jobs, delivery, result>>

\* The context was not cancelled when it was looked at; it may be before the lock for
\* the next check is taken.
PassCheck(w) ==
  /\ ~Cancelled /\ doing[w] = "check"
  /\ Go(w, "cooldown")
  /\ UNCHANGED <<phase, now, shared, jobs, delivery, job, result>>

\* Mutant: the dropped job stays reserved.
SkipCoolingReserved(w) ==
  /\ doing[w] = "cooldown"
  /\ Cooling
  /\ LeaveJob(w, "idle")
  /\ UNCHANGED <<phase, now, shared, jobs, delivery, result>>

\* Pending work is dropped during a cooldown.
SkipCooling(w) ==
  /\ doing[w] = "cooldown"
  /\ Cooling
  /\ queued' = queued \ {job[w]}
  /\ LeaveJob(w, "idle")
  /\ UNCHANGED <<phase, now, cache, retryUntil, failures, jobs, delivery, result>>

BeginScoring(w) ==
  /\ doing[w] = "cooldown"
  /\ ~Cooling
  /\ Go(w, "scoring")
  /\ UNCHANGED <<phase, now, shared, jobs, delivery, job, result>>

\* infer: at once without a coordinator; with one, once it has answered "owner",
\* after any number of "wait" answers.
BeginInference(w) ==
  /\ doing[w] = "scoring"
  /\ Go(w, "inferring")
  /\ UNCHANGED <<phase, now, shared, jobs, delivery, job, result>>

Return(w, r) ==
  /\ result' = [result EXCEPT ![w] = r]
  /\ Go(w, "recording")
  /\ UNCHANGED <<phase, now, shared, jobs, delivery, job>>

\* Jev's answer is dated when it arrives.  A coordinator returns it only after it has
\* published it, which takes any time.
AnswerTimes == IF Coordinated THEN 0 .. now ELSE {now}

Answer(w) ==
  /\ doing[w] = "inferring"
  /\ \E p \in JevKeeps[job[w]], at \in AnswerTimes :
       Return(w, [keep |-> p, scoredAt |-> at])

InferenceFails(w) == doing[w] = "inferring" /\ Return(w, NoScore)

\* The coordinator returns another replica's assessment, aged by what has passed
\* of its shared life when the request for it was sent.
SharedHit(w) ==
  /\ Coordinated /\ doing[w] = "scoring"
  /\ \E p \in JevKeeps[job[w]], at \in (1 - ScoreTTL) .. now :
       Return(w, [keep |-> p, scoredAt |-> at])

CoordinationFails(w) ==
  Coordinated /\ doing[w] = "scoring" /\ Return(w, NoScore)

\* Mutants: every assessment gets a new lifetime; the retry time stays.
RecordSuccessRestamped(w) ==
  /\ doing[w] = "recording" /\ result[w] # NoScore
  /\ queued' = queued \ {job[w]}
  /\ cache' = put(cache, job[w], [result[w] EXCEPT !.scoredAt = now])
  /\ failures' = 0
  /\ retryUntil' = 0
  /\ LeaveJob(w, "idle")
  /\ result' = [result EXCEPT ![w] = NoScore]
  /\ UNCHANGED <<phase, now, jobs, delivery>>

RecordSuccessStillCooling(w) ==
  /\ doing[w] = "recording" /\ result[w] # NoScore
  /\ queued' = queued \ {job[w]}
  /\ cache' = put(cache, job[w],
                  IF Coordinated THEN result[w] ELSE [result[w] EXCEPT !.scoredAt = now])
  /\ failures' = 0
  /\ LeaveJob(w, "idle")
  /\ result' = [result EXCEPT ![w] = NoScore]
  /\ UNCHANGED <<phase, now, retryUntil, jobs, delivery>>

RecordSuccess(w) ==
  /\ doing[w] = "recording" /\ result[w] # NoScore
  /\ queued' = queued \ {job[w]}
  /\ cache' = put(cache, job[w],
                  IF Coordinated THEN result[w] ELSE [result[w] EXCEPT !.scoredAt = now])
  /\ failures' = 0
  /\ retryUntil' = 0
  /\ LeaveJob(w, "idle")
  /\ result' = [result EXCEPT ![w] = NoScore]
  /\ UNCHANGED <<phase, now, jobs, delivery>>

\* Mutants: the count is not capped; the count starts again at its cap.
RecordFailureUncapped(w) ==
  /\ doing[w] = "recording" /\ result[w] = NoScore
  /\ queued' = queued \ {job[w]}
  /\ failures' = failures + 1
  /\ retryUntil' = now + Delay(failures')
  /\ LeaveJob(w, "idle")
  /\ UNCHANGED <<phase, now, cache, jobs, delivery, result>>

RecordFailureWrapping(w) ==
  /\ doing[w] = "recording" /\ result[w] = NoScore
  /\ queued' = queued \ {job[w]}
  /\ failures' = IF failures < FailureCap THEN failures + 1 ELSE 1
  /\ retryUntil' = now + Delay(failures')
  /\ LeaveJob(w, "idle")
  /\ UNCHANGED <<phase, now, cache, jobs, delivery, result>>

RecordFailure(w) ==
  /\ doing[w] = "recording" /\ result[w] = NoScore
  /\ queued' = queued \ {job[w]}
  /\ failures' = IF failures < FailureCap THEN failures + 1 ELSE failures
  /\ retryUntil' = now + Delay(failures')
  /\ LeaveJob(w, "idle")
  /\ UNCHANGED <<phase, now, cache, jobs, delivery, result>>

Work(w) ==
  \/ TakeJob(w) \/ Exit(w) \/ Admit(w) \/ AdmissionCancelled(w)
  \/ AbandonJob(w) \/ PassCheck(w) \/ SkipCooling(w) \/ BeginScoring(w) \/ BeginInference(w)
  \/ Answer(w) \/ InferenceFails(w) \/ SharedHit(w) \/ CoordinationFails(w)
  \/ RecordSuccess(w) \/ RecordFailure(w)

-----------------------------------------------------------------------------
(* The component's life cycle, the pruner and the clock.                    *)

Start ==
  /\ phase = "new"
  /\ phase' = "running"
  /\ UNCHANGED <<now, shared, jobs, delivery, scoring>>

\* Shutdown before Start finds no goroutine to wait for.
Shutdown ==
  /\ phase \in {"new", "running"}
  /\ phase' = IF phase = "new" THEN "stopped" ELSE "stopping"
  /\ UNCHANGED <<now, shared, jobs, delivery, scoring>>

\* wg.Wait returns.
ShutdownReturns ==
  /\ phase = "stopping"
  /\ \A w \in Workers : doing[w] = "exited"
  /\ phase' = "stopped"
  /\ UNCHANGED <<now, shared, jobs, delivery, scoring>>

Prune ==
  /\ Started
  /\ cache' = prune(cache, now)
  /\ UNCHANGED <<phase, now, retryUntil, failures, queued, jobs, delivery, scoring>>

Tick ==
  /\ now < MaxNow
  /\ now' = now + 1
  /\ UNCHANGED <<phase, shared, jobs, delivery, scoring>>

Next ==
  \/ \E d \in Deliverers : Deliver(d) \/ \E b \in Batches : ConsumeMetrics(d, b)
  \/ \E w \in Workers : Work(w)
  \/ Start \/ Shutdown \/ ShutdownReturns \/ Prune \/ Tick

Spec == Init /\ [][Next]_vars

\* A goroutine that can run does run, and the next consumer returns.
DeliveryFairness == \A d \in Deliverers : WF_vars(Deliver(d))

\* The limiter, Jev and the coordinator return too: all of them have deadlines or
\* watch the context.
WorkerFairness == (\A w \in Workers : WF_vars(Work(w))) /\ WF_vars(ShutdownReturns)

\* Start and ConsumeMetrics need not happen: there are behaviours without any worker.
FairSpec == Spec /\ DeliveryFairness /\ WorkerFairness

-----------------------------------------------------------------------------
(* What must hold.                                                          *)

Stages == {"idle", "lookup", "reserve", "send", "unmark"}
Doings == {"idle", "admission", "check", "cooldown", "scoring", "inferring", "recording", "exited"}

Verdict == [metric : Metrics, score : Score \cup {NoScore}]

TypeOK ==
  /\ phase \in {"new", "running", "stopping", "stopped"}
  /\ now \in Nat
  /\ DOMAIN cache.entries \subseteq Metrics
  /\ \A m \in DOMAIN cache.entries : cache.entries[m] \in Score
  /\ retryUntil \in Nat /\ failures \in 0 .. FailureCap
  /\ queued \subseteq Metrics
  /\ jobs \in Seq(Metrics)
  /\ stage \in [Deliverers -> Stages]
  /\ todo \in [Deliverers -> Seq(Metrics)]
  /\ began \in [Deliverers -> Nat]
  /\ removed \in [Deliverers -> SUBSET Verdict]
  /\ emitted \in [Deliverers -> SUBSET Verdict]
  /\ doing \in [Workers -> Doings]
  /\ job \in [Workers -> Metrics \cup {NoJob}]
  /\ result \in [Workers -> Score \cup {NoScore}]

\* A reservation is carried by a delivery goroutine that has marked the identity
\* and not yet sent or unmarked it, by a place in the channel, or by a worker.
Carrying(d) == stage[d] \in {"send", "unmark"}
Busy(w)     == doing[w] \in {"admission", "check", "cooldown", "scoring", "inferring", "recording"}

\* No two carriers hold the same identity: the processor never assesses one
\* metric twice at the same time, whatever batches repeat it (c.queued exists
\* for this, and is written in six places under separate lock acquisitions).
OneAssessmentPerIdentity ==
  /\ \A d, e \in Deliverers : Carrying(d) /\ Carrying(e) /\ d # e => Current(d) # Current(e)
  /\ \A i, j \in DOMAIN jobs : i # j => jobs[i] # jobs[j]
  /\ \A v, w \in Workers : Busy(v) /\ Busy(w) /\ v # w => job[v] # job[w]
  /\ \A d \in Deliverers : Carrying(d) => \A i \in DOMAIN jobs : jobs[i] # Current(d)
  /\ \A d \in Deliverers, w \in Workers : Carrying(d) /\ Busy(w) => Current(d) # job[w]
  /\ \A w \in Workers : Busy(w) => \A i \in DOMAIN jobs : jobs[i] # job[w]

\* Every job, anywhere between the mark and the record, is reserved; and no reservation
\* outlives its job - a leaked one would keep its metric unassessed for the life of the
\* collector - but the one a worker holds as it exits (processor.go:299): until Shutdown
\* there is none, and after it at most one of each worker.
CarriedIsReserved ==
  /\ \A d \in Deliverers : Carrying(d) => Current(d) \in queued
  /\ \A i \in DOMAIN jobs : jobs[i] \in queued
  /\ \A w \in Workers : Busy(w) => job[w] \in queued

Carried(m) ==
  \/ \E d \in Deliverers : Carrying(d) /\ Current(d) = m
  \/ \E i \in DOMAIN jobs : jobs[i] = m
  \/ \E w \in Workers : Busy(w) /\ job[w] = m

Leaked == {m \in queued : ~Carried(m)}

ReservationsMatchJobs ==
  /\ CarriedIsReserved
  /\ phase \in {"new", "running"} => Leaked = {}
  /\ \E last \in [Workers -> Metrics \cup {NoJob}] :
       \A m \in Leaked : \E w \in Workers : doing[w] = "exited" /\ last[w] = m

\* Every decision rests on an answer Jev gives for that very metric and that was
\* fresh when the batch arrived.
Substantiated(d, v) ==
  /\ v.metric \notin Protected \cup Unidentified
  /\ v.score # NoScore
  /\ v.score.keep \in JevKeeps[v.metric]
  /\ began[d] - v.score.scoredAt < ScoreTTL

\* Fail-open: a batch loses a metric only in reduce mode, only one that is neither
\* protected nor without identity, and only on a fresh answer of Jev for that
\* metric at or below the drop threshold - whatever failed, filled up, expired or
\* was evicted meanwhile.  What annotate mode reports rests on such answers too.
DropsAreJustified ==
  \A d \in Deliverers :
    /\ \A v \in removed[d] :
         Mode = "reduce" /\ Substantiated(d, v) /\ v.score.keep <= DropThreshold
    /\ \A v \in emitted[d] : Mode = "annotate" /\ Substantiated(d, v)

\* The two halves of the backoff agree: there is a retry time exactly when there
\* are failures, and it is never further away than the delay for their number.
BackoffMatchesFailures ==
  /\ failures = 0 <=> retryUntil = 0
  /\ failures > 0 => retryUntil <= now + Delay(failures)

\* A failure, of whichever worker and however late, never brings the retry time
\* forward; only a success does, by resetting the backoff.
OnlySuccessEndsCooldown == [][retryUntil' < retryUntil => failures' = 0]_vars

\* README.md:265: after a scoring failure the processor pauses new inference
\* requests; already-running requests may complete.
NoInferenceDuringCooldown == [][\A w \in Workers : BeginInference(w) => ~Cooling]_vars

\* A batch is always handed on, though no worker ever runs, Jev never answers and
\* the queue is full: delivery waits for nothing but the lock.
DeliveryCompletes == \A d \in Deliverers : stage[d] # "idle" ~> stage[d] = "idle"

\* Shutdown returns wherever it finds the workers: waiting for admission, between their
\* checks, inferring, recording, or taking one more job.
ShutdownCompletes == phase = "stopping" ~> phase = "stopped"
=============================================================================
