------------------------ MODULE CoordinatedProcessor ------------------------
(***************************************************************************)
(* One processor with coordination (src/otelprocessor/processor.go) over   *)
(* the Redis namespace it shares with other replicas                       *)
(* (src/otelprocessor/coordination.go).  The processor is                  *)
(* MetricsProcessor in full; its workers are clients of Coordination, and  *)
(* so are the workers of the other replicas, Others, of which nothing else *)
(* is seen.  A worker's wait for scoreMetric or for the coordinator, which *)
(* MetricsProcessor leaves open, is here the walk of its client through    *)
(* coordinator.score.                                                      *)
(***************************************************************************)
EXTENDS MetricsProcessor

CONSTANTS Others,        \* workers of the other replicas
          Tokens, SettingsOf, Timeout, FailureMemory, MaxFaults, None,
          MayStop          \* bound: whether Shutdown is called

VARIABLES score, lease, inflight, admitted, cooldown, streak, settings, requests,
          calling,    \* per client: where it stands in coordinator.score
          attempt, faults, cancelled, copy,
          answers     \* history: what Jev answered to whichever client, and when

Clients    == Workers \cup Others
namespace  == <<score, lease, inflight, admitted, cooldown, streak, settings, requests,
                calling, attempt, faults, cancelled, copy>>
jointVars  == <<vars, namespace, answers>>

Keeps == UNION {JevKeeps[m] : m \in Metrics}

Shared == INSTANCE Coordination WITH Keys <- Metrics, Values <- Keeps, doing <- calling

\* What coordinator.score is configured with; the workers are of one configuration, and
\* Validate asks for at least one.
ASSUME CoordinatedAssumption ==
  /\ Coordinated /\ MayStop \in BOOLEAN /\ Workers \cap Others = {}
  /\ Workers # {} /\ IsFiniteSet(Clients)
  /\ \A v, w \in Workers : SettingsOf[v] = SettingsOf[w]
  /\ Timeout \in Nat /\ FailureMemory \in Nat /\ MaxFaults \in Nat
  /\ \A c \in Clients :
       /\ SettingsOf[c].maxInFlight \in Nat \ {0}
       /\ SettingsOf[c].requestsPerSecond \in Nat \ {0}
       /\ SettingsOf[c].leaseTTL \in Nat
       /\ SettingsOf[c].leaseTTL > 2 * Timeout

\* None is none of the things whose absence it stands for in the namespace.
ASSUME AbsenceAssumption ==
  None \notin Tokens \cup Nat \cup Shared!Slot \cup Shared!Streak \cup Shared!ReplyMsg
              \cup Shared!Attempt \cup Shared!Copy
              \cup Shared!Expiring(Keeps) \cup Shared!Expiring(Shared!Setting)

JointInit == Init /\ Shared!Init /\ answers = {}

-----------------------------------------------------------------------------
(* Steps of the processor alone.                                            *)

Deliveries ==
  \E d \in Deliverers : Deliver(d) \/ \E b \in Batches : ConsumeMetrics(d, b)

\* What a worker does between two calls of score.
WorkAlone(w) ==
  \/ TakeJob(w) \/ Exit(w) \/ AbandonJob(w) \/ PassCheck(w) \/ SkipCooling(w)
  \/ RecordSuccess(w) \/ RecordFailure(w)

Alone ==
  /\ Deliveries \/ (\E w \in Workers : WorkAlone(w)) \/ Start \/ ShutdownReturns \/ Prune
  /\ UNCHANGED <<namespace, answers>>

-----------------------------------------------------------------------------
(* A call of coordinator.score by one of the processor's workers.           *)

CallScore(w) == BeginScoring(w) /\ Shared!Begin(w, job[w]) /\ UNCHANGED answers

\* The worker was past its own check as Shutdown cancelled the context: score finds it
\* cancelled as its loop begins, and does not ask Redis.
CallRefused(w) ==
  BeginScoring(w) /\ cancelled[w] /\ UNCHANGED <<namespace, answers>>

\* Turns of the loop that the processor does not see.
Loop(w) ==
  /\ Shared!Poll(w) \/ Shared!ReceiveWait(w)
  /\ UNCHANGED <<vars, answers>>

CallInfer(w) == BeginInference(w) /\ Shared!ReceiveOwner(w) /\ UNCHANGED answers

\* infer returns, at any client: Jev's answer about the key, or an error, None.
Learn(c, keep) ==
  answers' = IF keep = None THEN answers
             ELSE answers \cup {[metric |-> attempt[c].key, keep |-> keep, at |-> now]}

InferReturns(c) ==
  /\ calling[c] = "inferring"
  /\ \E keep \in JevKeeps[attempt[c].key] \cup {None} :
       Shared!Finish(c, keep) /\ Learn(c, keep)
  /\ UNCHANGED vars

\* The assessment that score returns is the worker's result.
Taken(found) ==
  IF found = None THEN NoScore ELSE [keep |-> found.value, scoredAt |-> found.scoredAt]

ScoreReturns(w) ==
  /\ \/ Shared!ReceiveHit(w) /\ Return(w, Taken(Shared!Decode(attempt[w])))
     \/ Shared!ReceiveVerdict(w) /\ Return(w, Taken(Shared!Verdict(w)))
     \/ (Shared!ReceiveMismatch(w) \/ Shared!WaitCancelled(w) \/ Shared!CallFails(w))
        /\ Return(w, NoScore)
     \/ calling[w] = "idle" /\ CoordinationFails(w) /\ UNCHANGED namespace
  /\ UNCHANGED answers

Scoring(w) ==
  \/ CallScore(w) \/ CallRefused(w) \/ Loop(w) \/ CallInfer(w)
  \/ InferReturns(w) \/ ScoreReturns(w)

-----------------------------------------------------------------------------
(* Everybody else, and what all share.                                      *)

OtherReplica(c) ==
  \/ /\ \/ \E m \in Metrics : Shared!Begin(c, m)
        \/ Shared!Poll(c) \/ Shared!WaitCancelled(c) \/ Shared!CallFails(c)
        \/ Shared!ReceiveHit(c) \/ Shared!ReceiveMismatch(c) \/ Shared!ReceiveWait(c)
        \/ Shared!ReceiveOwner(c) \/ Shared!ReceiveVerdict(c)
        \/ Shared!Cancel(c) \/ Shared!Restart(c)
     /\ UNCHANGED <<vars, answers>>
  \/ InferReturns(c)

\* Redis executes a request, or the request is lost.
Arrives(r) == (Shared!Execute(r) \/ Shared!Lose(r)) /\ UNCHANGED <<vars, answers>>

\* Shutdown cancels the one context of all workers, also of those inside a call.
Stop ==
  /\ MayStop /\ Shutdown
  /\ cancelled' = [c \in Clients |-> c \in Workers \/ cancelled[c]]
  /\ UNCHANGED <<score, lease, inflight, admitted, cooldown, streak, settings, requests,
                 calling, attempt, faults, copy, answers>>

TimePasses == Tick /\ Shared!Tick /\ UNCHANGED answers

JointNext ==
  \/ Alone \/ Stop \/ TimePasses
  \/ \E w \in Workers : Scoring(w)
  \/ \E c \in Others : OtherReplica(c)
  \/ \E r \in requests : Arrives(r)

JointSpec == JointInit /\ [][JointNext]_jointVars

\* What makes a worker's call of score end: its own code runs when it can, infer
\* returns, since Jev's client has a timeout, and so does a call to Redis.
RunsOn(w) ==
  \/ WorkAlone(w) /\ UNCHANGED <<namespace, answers>>
  \/ CallScore(w) \/ CallRefused(w) \/ Loop(w) \/ CallInfer(w) \/ ScoreReturns(w)

IsAnswered(w) == \E r \in requests : r.client = w /\ Arrives(r)

Fairness ==
  /\ \A w \in Workers : /\ WF_jointVars(RunsOn(w))
                         /\ WF_jointVars(InferReturns(w))
                         /\ WF_jointVars(IsAnswered(w))
  /\ WF_jointVars(ShutdownReturns /\ UNCHANGED <<namespace, answers>>)

FairJointSpec == JointSpec /\ Fairness

-----------------------------------------------------------------------------
(* What must hold.                                                          *)

\* Seen from its own state, the processor behaves as MetricsProcessor says: what
\* Redis hands it, after whatever loss, delay or crash, is nothing worse than an
\* answer of Jev about the metric asked for, dated in the past, or an error.  What is
\* shown of MetricsProcessor therefore holds of a processor in a cluster.
ImplementsProcessor == Spec

Entry(m) == cache.entries[m]

\* A fresh entry of the processor's cache is the assessment the whole namespace
\* shares, and it is fresh no longer than that one lives: not only when the
\* coordinator returned it, but also after the worker has recorded it.
CacheIsShared ==
  \A m \in DOMAIN cache.entries : ~Expired(Entry(m), now) =>
    /\ score[m] # None
    /\ score[m].value = Entry(m).keep
    /\ Entry(m).scoredAt + ScoreTTL <= score[m].expiry

\* Shutdown returns also when the worker is inside a call of score: whether it polls,
\* waits for Redis, infers or publishes, whatever the other replicas and the network do.
StopsDuringCalls == phase = "stopping" ~> phase = "stopped"

\* The longest lease any replica is granted.
LongestLease == CHOOSE t \in {SettingsOf[c].leaseTTL : c \in Clients} :
                  \A c \in Clients : SettingsOf[c].leaseTTL <= t

\* End to end: a metric is dropped here only if Jev told some replica so about this
\* metric, no longer ago than a lifetime and a lease when the batch arrived: the answer
\* is published while the lease lasts, and lives for score_ttl from then on.
DropsRestOnRecentAnswers ==
  \A d \in Deliverers : \A v \in removed[d] :
    \E a \in answers :
      /\ a.metric = v.metric /\ a.keep = v.score.keep
      /\ began[d] < a.at + ScoreTTL + LongestLease
=============================================================================
