# A formal model of jevmetrics

jevmetrics asks Jev, an inference service, how much each OpenTelemetry metric is
worth, and keeps, annotates or drops metrics by the answers. This directory holds
TLA+ modules that model the collector processor, its Redis coordination and the
standalone exporter, TLC
configurations that check small instances, and theorems whose proofs TLAPS checks.
All paths below are relative to the repository.

## The system

| Part | Source | State | Operations | Talks to |
|---|---|---|---|---|
| Metrics processor | `otelprocessor/processor.go` | `scores`, `queued`, `jobs`, `retryUntil`, `failures`, the worker goroutines | `ConsumeMetrics`, `enqueue`, `worker`, `Start`, `Shutdown`, the pruner | the next consumer, the cache, the coordinator, Jev |
| Assessment cache | `otelprocessor/cache.go` | a map and a list of the same entries | `get`, `put`, `remove`, `prune`, all under the processor's lock | - |
| Retention policy | `otelprocessor/score.go` | none | `decideRetention`, identities and summaries | - |
| Redis coordination | `otelprocessor/coordination.go` | in Redis: score and lease per key; in-flight set, rate hash, cooldown, failures and settings per namespace | two atomic scripts; `coordinator.score`, `acquire`, `finish`, `decode` | Redis, Jev, the other replicas through Redis |
| Jev client | `otelprocessor/jev.go` | none | `scoreMetric` | Jev over HTTP |
| Configuration, factory | `otelprocessor/config.go`, `factory.go` | none | `Validate`, `createDefaultConfig` | - |
| Standalone exporter | `internal/exporter`, `evaluator`, `features`, `prom`, `config`, `cmd/jevmetrics` | the last assessment per signal | `collect`, `ServeHTTP` | Prometheus, Jev |
| Wrapper, scripts, examples | `cmd/otelcol-jevmetrics-wrapper`, `scripts`, `examples` | none | - | - |

How they interact. Receivers call `ConsumeMetrics` from any number of goroutines.
It copies the batch, reads the clock once, looks every metric up in the cache (under
the lock), enqueues the ones it does not find (two critical sections with a
non-blocking channel send between them), decides, and calls the next consumer.
Workers take jobs from the channel, wait for the local limiter or the Redis
coordinator, look at the cooldown, ask Jev and record the outcome under the lock.
A third goroutine prunes the cache. Replicas share nothing but Redis, where two
scripts grant leases and take results; everything between a replica and Redis can
be late or lost. The standalone exporter is a program of its own: one goroutine polls
Prometheus for each configured signal, evaluates and publishes; scrapes read under the
same lock.

What is hard about it:

- a reservation (`queued`) is written in six places under separate acquisitions of
  the lock; it must neither leak nor be given up early;
- a batch decides by a time read at its start while workers, the pruner and other
  batches change the cache;
- several workers record failures and successes in an order unlike the order they
  started in, and share one backoff;
- Shutdown has to end workers wherever they stand;
- with Redis: owners that come too late, granted leases nobody heard of, results
  accepted without the owner learning it, crashes between two scripts, assessments
  that must not live longer in one replica than in Redis, and replicas that disagree
  on the budget;
- in the exporter: four queries of which any may fail, signals that share a name, and
  values that are not numbers, which pass every comparison meant to bound them.

What makes each part correct: the cache's two halves agree and it evicts in the
order of last use; the processor drops nothing without a fresh answer for that very
metric (fail-open), assesses a metric once at a time, never blocks delivery, backs
off monotonically and shuts down; the coordination grants a key to one owner,
takes results from that owner only, keeps to the budget, and lets replicas agree; what
the exporter publishes belongs to one round of one signal, gets no better by worse
values, and stays fresh.

## The modules

| Module | Models |
|---|---|
| `ScoreCache` | `cache.go` as operators on a record of map and list |
| `ScoreCacheLRU` | those operators under every sequence of calls; `used` is a history variable, the identities by last use |
| `RetentionPolicy` | `decideRetention` |
| `MetricsProcessor` | one processor: deliveries, workers, pruner, life cycle, clock. Extends the two above |
| `LeasedAssessment` | the abstract contract of the coordination: owner, results handed in, shared value, what replicas hold |
| `Coordination` | the scripts, the state of a namespace, requests under way, and the clients in `coordinator.score` |
| `CoordinatedProcessor` | the composition: a `MetricsProcessor` whose workers are clients of a `Coordination` that other replicas use as well |
| `Instruments` | the identity a metric's assessment is filed under, the summary Jev is told, and which metrics are decided by one assessment |
| `ProcessorConfiguration` | `Validate`, the default configuration, and what a valid configuration guarantees the other modules |
| `ExporterConfiguration` | `Load`, the choice of an evaluator, and what a start guarantees `StandaloneExporter` |
| `FeatureScores` | the features and the baseline: pure operators on exact numbers and NaN |
| `StandaloneExporter` | the polling loop and what it publishes. Extends the former |
| `MC*` | instances for TLC: model values, batches, budgets, symmetry sets |
| `*Proofs` | the theorems about the module they are named for; those of `ConfigurationProofs` are about the two modules on configurations |

Definitions whose comment begins with *Mutant* are not part of any specification.
Each states a plausible bug next to the definition it would replace, to make sure
that the properties notice it; `PROJECT.json` says which property notices which.

### MetricsProcessor and the code

What happens under one acquisition of `c.mu` is one action; the places between two
acquisitions, channel operations and remote calls are where other goroutines run.

| State | Code |
|---|---|
| `cache`, `retryUntil`, `failures`, `queued`, `jobs` | the fields of `metricsProcessor` with these names (`cache` is `scores`); the zero time is 0 |
| `stage`, `todo`, `began`, `removed`, `emitted` | a goroutine in `ConsumeMetrics`: where it stands, the metrics still to decide, `now`, and the verdicts so far. The verdicts carry the score that led to them so that the properties can speak of it |
| `doing`, `job`, `result` | a worker: where it stands, its job's key, the `s, err` of scoring |
| `phase` | before `Start`, running, cancelled, `Shutdown` returned |

`ConsumeMetrics`, `Bypass`, `CacheHit`, `CacheMiss` and `Forward` are the loop of
`ConsumeMetrics`; `EnqueueRefused`, `Reserve`, `SendJob`, `QueueFull` and `Unmark` are
`enqueue`; the actions from `TakeJob` to `RecordFailure` are `worker`, where
`BeginInference` is the call of the closure `infer`, made at once or by the
coordinator. The nested loops over resources, scopes and metrics are one sequence.
A metric stands for its `scoreKey`; whether it is protected or has no identity are
sets given as constants. The worker's look at the context, `PassCheck` or `AbandonJob`, takes no
lock and is a step of its own, so that Shutdown may come between it and the look at the
cooldown. Of a score the model keeps `Keep` and `ScoredAt`, all the
code decides by. Probabilities are points of a finite scale, because the policy only
compares them. The limiter is a wait of any length: a token bucket guarantees no
property stated here. Coordination appears in this module as its outcomes: after any
time a score of any age of another replica, a permission to infer, or an error. An answer
of the processor's own is dated when it is published, which may be some time before the
worker returns from `score` (`AnswerTimes`).

### Coordination and the code

Each script is executed in one step, as Redis does, split by its outcome:
`AcquireMismatch`, `AcquireHit`, `AcquireWait`, `AcquireOwner`, `FinishFenced`,
`FinishOwned`. A call puts a request into `requests`; the request is executed, or lost,
at any later time, also after its sender gave up, and the reply is noticed only by a
client that still waits for that call. This is what the absence of retries
(`MaxRetries = -1`) leaves of the network. The clients walk through the loop of
`coordinator.score`: `Begin` and `Poll` send acquire with a fresh token, `Receive*` take
the replies, `Finish` sends the outcome, `CallFails` is any error of a call,
`WaitCancelled` the select on the context, `Cancel` a shutdown, `Restart` a crash.

Redis is modelled from the commands the scripts use. A key with an expiry exists up
to and including the instant of its expiry, so that a remaining life of zero can be
seen, as `PTTL` rounds it; `Tick` removes it after that. A second is the unit of the
clock, and all clocks run at one speed; hosts do not compare absolute times. The rate hash
is a counter that `Tick` resets. The expiries of the in-flight set and the rate hash
never show: their content is out of date by then. The replica's own cache is `copy`,
kept while it is fresh.

`Contract` maps Coordination onto `LeasedAssessment`: owners are the tokens of the
leases, results are the finish requests under way, the value is the score key, and a
replica holds its copy while it is fresh.

### CoordinatedProcessor and the code

The composition extends MetricsProcessor and instantiates Coordination with the processor's
workers and the workers of other replicas as `Clients`, and its metrics as `Keys`. A step of
it is a step of the processor alone (`Alone`), a step at the border, in which both modules
move (`CallScore`, `CallRefused`, `CallInfer`, `ScoreReturns`, `Stop`, `TimePasses`), or one of Coordination
alone. `ScoreReturns` hands the client's result to the worker: the decoded hit, the
published answer, or an error. `CallRefused` is the call of a worker that has passed its own check
as Shutdown cancels the context: `score` looks again before it asks Redis. The cache is that of
the processor; Coordination's `copy` keeps what the client was given, and so tells whether the two ever differ. `answers` is a history
variable: what Jev told whom and when. Shutdown cancels the contexts of the workers' clients; the
other replicas come and go as they do in Coordination.

### Instruments and the code

An instrument is a record of what `scoreKey` and `summarizeMetric` read of a metric, its
scope and its resource. The value of an attribute is a kind and a text, and the encoders do
to the two what `encoding/json` and `fmt.Sprint` do: JSON quotes strings and bytes and
refuses numbers that are not finite, but does not show whether a number is an integer, and
writes every byte that is not UTF-8 as `\ufffd` (`Coercion`; the collector does not refuse such
texts). A map is written in the order of its names as they were before that (`Object`). The
key is the tuple that is hashed. `Assess`, `Decide` and `Forget` are what becomes of
assessments, in one processor or in all that share them: an instrument without a fresh one is
assessed and its answer filed under the key, others with the same key are decided by it.

### The configurations and the code

Each condition of `Validate` and of `Load` is a conjunct; which error is reported is left out.
Durations are integers, a text that does not parse is `Unparsed`, and floating-point numbers
are fixed-point ones, NaN or infinite.

### StandaloneExporter and the code

`state` is `e.state`, `turn` the signal at which `collect` stands and `raw` the values it
has read for it, so a query is one action and the publication, which holds the lock,
another. Scrapes change nothing and read under the lock, so an invariant of the states is a
statement about every scrape. `heard` and `basis` are history variables: the answers of this
round for this signal, and those the published assessment is for. Jev's answers are
arbitrary numbers; with the fallback configured, either evaluator's answer may be
published, as Jev may fail at any time. The evaluator is chosen in `Init`. A
query may fail for the names in `Flaky`, and for every name once the context is cancelled.
`FeatureScores` counts errors in hundredths, latency in quarter seconds, and so on, so
that the bounds in `features.go` are integers and each score is a multiple of 1/441, the
weighted sums of 1/17640; rounding is left out.

## The runs

| Run | Question | Instance |
|---|---|---|
| `CacheOrder` | Do map and list stay in step, in the order of last use, and does the right entry leave? | 3 keys, limit 2, lifetime 2, clock up to 4, scores up to a lifetime old |
| `ProcessorSafety` | Can a reservation leak, or an identity be assessed twice at once? Is every drop justified, and the backoff consistent? | 2 deliveries of crossing batches, 2 workers, queue, cache and lifetime of 1, scores from Redis of any age, clock up to 1 |
| `ProcessorLiveness` | Does a batch always get through? Does Shutdown return? | annotate mode, 1 delivery, 2 workers, no coordination, a batch with one metric twice |
| `InferenceInCooldown` | Does a cooldown stop new inferences? (It does not, see below.) | 2 workers, with coordination |
| `SharedScores` | Does Coordination implement the contract? Do replicas agree? Do copies outlive the shared score? Is what a call returns still alive? | 2 replicas, 1 key, 3 tokens, 2 values, up to 2 faults, clock up to 4 |
| `SharedBudget` | Do leases keep to the budget if replicas disagree on it, and die with leases in force? | 2 replicas, one with the smaller budget (one lease) and one with the shorter leases, 2 keys, 3 tokens, 1 fault, clock up to 5 |
| `PromptClients` | If clients keep their deadlines, is an inference alone, only where nothing is shared, and its result in time? | 2 replicas, 2 keys, 1 fault, clock up to 4 |
| `CoordinatedReplica` | Is the processor in a cluster the one of MetricsProcessor? Is its cache the shared assessment, and a drop founded on a recent answer? | 1 delivery, 1 worker, 1 worker of another replica, 1 metric, 3 tokens, lease and lifetime of 1, 1 fault, clock up to 2 |
| `StopDuringCalls` | Does Shutdown return while the worker is inside `score`? | as above, 2 tokens, clock up to 1, Shutdown at any time |
| `IdentityKeepsTypes` | Is a metric decided by an assessment of its own identity? (Not always, see below.) | a counter of four services that differ in the value and type of one attribute, and a protected one |
| `ExporterRounds` | Does what is published belong to one round of one signal? Is the baseline monotone, Jev clamped, and does a signal stay fresh while another fails? | 3 signals, two of one name whose queries fail, baseline or Jev, 12 combinations of values |
| `ExporterNaN` | Are published probabilities probabilities? (They are not, see below.) | 2 signals, NaN, Jev with fallback |

Why these bounds. Two goroutines of each kind make every pairwise race; a queue of one
is full as soon as one job waits; a cache of one or two evicts at once; crossing batches
and a batch with a metric twice make the same identity arrive twice. A failure cap of
two has a first, a second and a capped failure (the code's is six, and the proofs hold for
any). In `ProcessorSafety` the clock passes a whole lifetime and the first delay. Its
properties are also proved, with and without coordination; the instance without it is run in
`ProcessorLiveness`. For the coordination, a lease of three units with a Redis timeout of one is
the smallest that `Validate` admits (`lease_ttl > timeout + 2 * coordination.timeout`), and
four units of time let a lease expire and be granted again while the first owner is
still at work. In `SharedBudget` one replica has leases of two and admits one of them, the other
has leases of one and admits two. A client has one lease at a time, unless it crashes or its request
is lost when it holds one: the fault is what brings a second lease, and with it the counting part
of `LeasesWithinBudget`, into play. Five units let settings that are stored for twice a lease be
refreshed by a later one, and expire; `RefreshSettingsOnce`, which does not refresh them, needs
ten steps to go wrong. Two faults allow, for instance, a lost reply followed by a crash. Three tokens suffice for two clients and
one request still under way; a token is fresh as soon as nothing mentions it.

The composition multiplies both state spaces, so each part is as small as it can be: one
metric, one worker, one other client. In `CoordinatedReplica` a call takes less than the
clock's unit (`Timeout` 0) and the lease is one unit, so that a lease can be lost and an
assessment learnt, expire and be replaced in the two units the clock passes. That Jev has one
answer does not matter there: which answers reach whom is the business of `SharedScores`, with
two values, and the composition adds ages. Shutdown is left to `StopDuringCalls` (the constant
`MayStop`). Symmetry
is used for goroutines, replicas, tokens, keys and values where they are interchangeable, and
in no run with a liveness property.

For the exporter, two signals of one name with another between them are the least in which
a name's state is written twice in a round and something else between, and two names are
what a comparison of assessments needs. Errors take two values within their range, so that
an order can be seen between them, saturation one within and latency one beyond; zero is
always possible. Traffic stays zero there: it only adds to the weighted sums as latency does.

The runs of the exporter do not check deadlock, since the loop ends when it is
cancelled. Those of Coordination do not either: when the clock stands at its bound and
every replica has a fresh copy, nothing is left to do.

### Fairness

`FairSpec` of the processor assumes weak fairness of each delivering goroutine and of each
worker, and nothing of when batches come or Shutdown is called. The
scheduler justifies it, and the next consumer's return, which the processor can only
hope for, is part of it (`Forward`). As for the workers, Jev's HTTP client has a timeout, every call to Redis has one, the limiter and the poll
watch the context. The mutants show what each is needed for: `DeliveryCompletes` fails once
a full queue makes the delivery wait, although the workers are fair.
`FairJointSpec` says the same of the composition step by step: the
worker's own code runs on when it can, an inference returns, as it has both the client's
timeout and the lease's deadline, a call to Redis is executed or lost, and all of that for the
processor's workers only - the other replicas may stop at any point. The exporter's `FairSpec` is weak
fairness of its one goroutine: the clients of Prometheus and Jev have timeouts (ten
seconds in `prom/client.go`, a positive one in `evaluator/jev.go`) and the ticker goes on.
Coordination by itself has no fairness: its
properties are safety properties.

### What the runs found

`InferenceInCooldown`: the README (line 265) says that after a scoring failure the
processor pauses new inference requests, while running ones may complete; and
`docs/CLUSTERING.md` (line 105) that Redis failures activate local backoff as well. A
worker looks at the cooldown once, at `processor.go:304`, before it calls the
coordinator. If it is told to wait there, it polls on and later calls `infer` without a
second look, so an inference can begin in the middle of a cooldown that a failure of
another worker, such as a failed call to Redis, began in the meantime. Without Redis the
window is only the few instructions between the unlock and the request.

`ExporterNaN`: the exposition calls its gauges probabilities between 0 and 1
(`internal/exporter/exporter.go:120`), and `features.go:17` its scores normalized. Prometheus
answers NaN for a ratio without traffic, and `strconv.ParseFloat` takes it. NaN is neither
at most `healthy` nor at least `bad`, and `math.Max` and `math.Min` return it, so it passes
`normalize` and `clamp` and is published. With Jev the request cannot be encoded; the
fallback, where configured, then publishes the NaN. Every query's NaN reaches the anomaly and, through
it, the investigate probability; the user impact stays finite where only saturation is NaN,
which is not in its sum.

`IdentityKeepsTypes`: the comment on `scoreKey` says that JSON preserves value types
(`otelprocessor/score.go:109`), and the README (line 269) that the cache identity includes the
complete resource attributes. A double reaches `json.Marshal` as a `float64`, and 1.0 is
encoded as `1`, as an integer is; bytes are encoded as the string of their base64. So two
metrics whose resources differ only in the type of an attribute share an assessment, and a
drop of one may rest on what Jev said of the other. Texts can collide as well, which the run leaves
out: `json.Marshal` writes every byte that is not UTF-8 as `\ufffd`, in values, in the names of
attributes and in the metric's own name, and nothing in the processor refuses such texts; two
metrics that differ only in such bytes share an assessment. The theorems `Relatives` and
`StringsKeepIdentities` bound the effect: as far as JSON shows texts, nothing but the type or form
of values can differ, and nothing at all where attributes are strings and all texts are valid
UTF-8.

Not a disagreement, but shown along the way: a worker that sees the cancelled context after it took
a job returns without deleting the reservation (`processor.go:299`). `ReservationsMatchJobs` therefore
admits, after Shutdown and only then, one reservation without a job for each worker that has
exited, and no other.

## The proofs

Every invariant, every action property and every refinement that a run finds to hold is also a
theorem, for all constants that satisfy the assumptions: any number of goroutines, replicas
(finitely many in the composition), keys and tokens, any sizes, leases, lifetimes and
thresholds. What a run checks and no theorem states is liveness.

The assumptions come in three kinds. Some are what the code checks of its configuration
(`PolicyAssumption`, `CacheAssumption`, `ProcessorAssumption`, `CoordinationAssumption`,
`ExporterAssumption`, `CoordinatedAssumption`); for sizes, thresholds, leases and timeouts,
`ConfigurationProofs` proves that it does. Some say that a value standing for absence is none of the
values it is told from (`LRUAssumption`, `NoneAssumption`, `AbsenceAssumption`,
`NumbersAssumption`). And two state what the proofs use of powers of two, which the provers do not know:
`DelayAssumption` (the delays for one to `FailureCap` failures are positive and never shrink)
and `CooldownAssumption` (a cooldown is a number). TLC evaluates each in every
run of a module that makes it.

### The cache

`ScoreCacheLRUProofs`:

| Theorem | Statement |
|---|---|
| `Typing` | `Spec => []TypeOK` |
| `HalvesAgree` | `Spec => []MapMatchesList` |
| `RecencyOrder` | `Spec => []ListIsRecencyOrder` |
| `RightEntryLeaves` | `Spec => OnlyExpiredOrLeastRecentLeaves` |

The first half of the module is about lists without repetition: what `RemoveFirst`, `Cons`,
`Last` and `InOrderOf` do to the elements, the length and the order (`Before`) of such a list. A
list is then never looked into again. `InOrderHolds` shows that `prune`'s order exists: each
remaining element at the number of remaining ones up to it.

The invariant, `IInv`, adds to the first two properties that the order of the list is that of
all uses, for any two identities (`OrderIsUse`), and that the list holds only what was used. It
is stated by identities, not by positions, because a hit moves one to the front of both
lists, and their positions have nothing in common. The last theorem
needs it in the state before the step: the entry at the back of the list is the least recent of the
map because the list holds the whole map.

### The processor

`MetricsProcessorProofs`:

| Theorem | Statement | Rests on |
|---|---|---|
| `Typing` | `Spec => []TypeOK` | `ShapedType`: `TypeOK` and `Shape` |
| `Reservations`, `OneAssessment` | `Spec => [](ReservationsMatchJobs /\ OneAssessmentPerIdentity)` | the two together, and `ShapedType` |
| `Backoff` | `Spec => []BackoffMatchesFailures` | `ShapedType`, `DelayAssumption` |
| `CooldownsOnlyGrow` | `Spec => OnlySuccessEndsCooldown` | `Backoff`, `DelayAssumption` |
| `FailOpen` | `Spec => []DropsAreJustified` | `Justified` and `ShapedType` |

`TypeOK` is not inductive: that a goroutine inside `enqueue` has a current metric, that a
busy worker has a job and that the cache and the results hold only answers Jev gives
for their metric have to be carried along. This is `Shape`; the lemmas `GetHolds`,
`PutHolds` and `PruneHolds` say what the cache operators preserve. Neither of the
reservation invariants is inductive alone: deleting the identity of one job leaves the
others reserved only because they are for other identities, and a new job is for an
identity of its own only because all others are reserved. `CooldownsOnlyGrow` is a step
property that needs `BackoffMatchesFailures` in the state before: the old retry time is at
most one delay away, and the next delay is not shorter. `FailOpen` needs that a
batch arrives without verdicts, so that the one time it read belongs to all of them;
without a score the policy never drops, and a score found was fresh at that time.

### The coordination

`LeasedAssessmentProofs` proves `ContractAgrees`: `ContractAssumption` implies
`Spec => []Agreement`, for the contract. `CoordinationProofs`, for Redis and its clients:

| Theorem | Statement | Rests on |
|---|---|---|
| `Typing` | `Spec => []TypeOK` | `IInv` |
| `CopiesAreShared` | `Spec => []FreshCopiesAreShared` | `OnlySharedIsFresh` |
| `CallsLearnOnlyFresh` | `Spec => LearnsOnlyFresh` | `IInv`: what a client publishes is dated after its call began |
| `Budget` | `Spec => []LeasesWithinBudget` | `LeasesInBudget`, `TokensApart` |
| `FulfilsContract` | `Spec => ImplementsContract` | `IInv`, before and after the step |
| `Agreement` | `Spec => []ReplicasAgree` | `IInv` |
| `PromptOwnersPublish` | `PromptSpec => []PromptOwnerIsNotFenced` | `IInv`, `Prompt` |
| `InferenceIsNeeded` | `PromptSpec => []NoInferenceWhileShared` | `IInv`, `Prompt` |
| `InferenceWithinBudget` | `PromptSpec => []SoleInference`, if `Timeout > 0` | `IInv`, `Prompt` |

None of the properties is inductive. `IInv` is the conjunction of

- `TypeOK` and `Shape`: what a client stands at determines which fields of its attempt are set;
- `TokensApart`: a token belongs to one attempt, one call and one lease, all for one key, and no
  lease carries the token of a call that still asks for one. Without it a finish could release
  the lease of another key, and a request executed late could be granted a second lease;
- `LeasesInBudget`: a leased key has no shared assessment, each lease has its place in the in-flight
  set, there are at most as many as the settings say, and the settings outlive every lease. The
  last part is what makes a budget of replicas that disagree: settings that expired under a lease
  could be replaced by others, and the leases in force would be too many. It holds because
  acquire sets the settings to expire after twice the lease time, and only one setting is in force;
- `OnlySharedIsFresh`: what a replica holds, *and what a reply is about to make it hold*
  (`Coming`), is shared at least as long as it is fresh there. The second half is what a hit on
  its way through the network needs.

`FulfilsContract` is proved action by action. Of acquire only `AcquireOwner` is a step of the contract,
`Grant`. The call of finish is `HandIn`; its execution is `Publish`, `Release` or, where it is
fenced, `Discard`, as is its loss. A client that starts to hold a hit or its own published result is
`Learn`. `Tick`, in which leases, assessments and copies may expire together, and `Restart`
are `Expire`. Everything else stutters.

`Prompt` is the invariant of clients that keep their deadlines: while a client has been granted a
lease and has not handed in, it owns it, the lease ends at least a whole `leaseTTL` after the call
began, and the settings are its own. The deadline of an inference leaves `Timeout` for
the call that publishes, so that a prompt owner is not fenced. That an inference is alone also needs
`Timeout > 0`, since otherwise it may last to the very instant of its lease's end; `Validate` asks for a millisecond.

### The composition

`CoordinatedProcessorProofs`:

| Theorem | Statement |
|---|---|
| `ImplementsTheProcessor` | `JointSpec => ImplementsProcessor`: each step is one of `MetricsProcessor` or a stutter |
| `CacheOfTheNamespace` | `JointSpec => []CacheIsShared` |
| `RecentAnswers` | `JointSpec => []DropsRestOnRecentAnswers` |
| `ClusteredFailOpen` | `JointSpec => [](DropsAreJustified /\ ReservationsMatchJobs)` |

The invariant `JInv` joins `IInv` of the coordination, `ShapedType` and `Justified` of the
processor, and what neither module can say alone:

- `Linked`: a worker inside `score` and its client are at the same place, for the same metric;
- `Grounded`: what Redis stores, what is on its way there and back, and what a client is about to
  return was said by Jev to some client, and is dated at most the longest lease after that. It is
  proved in `CoordinationProofs` for any set of answers, as part of the coordination;
- `HoldsSound`: the cache, and the results of the workers, hold only scores that Jev gave for that
  metric and that are shared for as long as they are fresh.

`HoldsSound` survives the steps of Redis because a score that is sound stays so: a shared
assessment is not replaced before it expires, as nobody is granted a lease while there is one. The
bound in `RecentAnswers` is a lifetime and a lease, not a lifetime: an owner publishes while its lease
lasts, and the lifetime counts from the publication. There is a longest lease because the clients
are finite in number (`LeaseIsBounded`). `ClusteredFailOpen` costs nothing once the refinement is proved: it is
`FailOpen` and `Reservations` of the processor alone.

### The exporter

`StandaloneExporterProofs`:

| Theorem | Statement |
|---|---|
| `Typing` | `Spec => []TypeOK` |
| `OneRound` | `Spec => []RestsOnOneRound` |
| `Monotone` | `Spec => []WorseIsNotBetter` |
| `WorstDomain` | `Spec => []DomainIsWorst` |
| `ProbabilitiesOfNumbers` | `NumbersOnly` implies `Spec => []PublishedProbabilities` |

`RoundInv` ties the values read so far to those heard in this round, and says that what rests
on values was published as a success. `Monotone` and `WorstDomain` then are facts of
arithmetic: normalisation and clamping confine and keep the order (`Normalised`,
`ClampConfines`, `ClampKeepsOrder`), so the weighted sums do (`Sums`, `BaselineKeepsOrder`). The
last theorem is the other side of what `ExporterNaN` finds: NaN is the only thing that keeps a
published value from being a probability, whatever numbers Prometheus and Jev answer.

### Identities and configurations

`InstrumentsProofs` proves `Relatives`, `Spec => []DecidedByARelative`, and
`StringsKeepIdentities`, that the property `IdentityKeepsTypes` refutes holds where all
attributes are strings (`OnlyStrings`) and all texts valid UTF-8 (`ValidUTF8`), which are hypotheses
about the instruments and not checked by the code. Both follow from an inductive invariant: every assessment is filed
under the key of its own instrument (`Filed`), and the two instruments of a decision have one key
(`DecidedByKey`). What remains is the injectivity of the encoding, part by part
(`SameKeySamePart`, `StringsAreTold`, `IdentitiesAreTold`). This is what lets a metric in MetricsProcessor, and a key
in Coordination, stand for its `scoreKey`.

`ConfigurationProofs` proves of the code's checks of
configurations what the other modules assume of their constants:

| Theorem | What it gives |
|---|---|
| `DefaultIsValid` | the default with an API key is valid, with and without Redis, so that the other theorems speak of something |
| `SizesAndThresholds` | `PolicyAssumption`, `CacheAssumption` and the sizes in `ProcessorAssumption` |
| `OneMode` | a processor either annotates or reduces, whatever the case of its mode |
| `LeasesInRedis` | leases and lifetimes after Redis's rounding to milliseconds; `SettingsOf[c].leaseTTL > 2 * Timeout` |
| `ExporterStartsBounded` | the evaluators of `ExporterAssumption`, and a positive timeout for Jev |
| `NotEveryStartTicks` | what `Load` does not give: a file with a `poll_interval` of `0s` is loaded, and `NewTicker` panics on it |

### Only model-checked

Liveness (`DeliveryCompletes`, `ShutdownCompletes`, `StopsDuringCalls`, `StaysFresh`) and with it all
that rests on fairness: ENABLED is out of the provers' reach. Of numbers, the proofs take the powers
of two from their assumptions. That the constants stand for the code's values, such as seconds
for nanoseconds, is the modelling itself.

## Not modelled

- The OTLP payload, annotation gauges, counters and logs: formatting of what was
  decided. The text of JSON, and nested maps and lists in attributes; SHA-256 is taken to be
  injective. The payload of a shared assessment, which only replicas of one version write.
- The token bucket of the local limiter, whose rate no property here depends on.
- Failover of Redis with lost writes, which the code declares out of scope
  (`coordination.go:21`).
- The text of a scrape, the time of the last success, the counters of failed queries and the HTTP servers of the standalone exporter. A signal list without entries, which the
  configuration admits and which polls nothing, is left out by `ExporterAssumption`.
- A query that is begun after the context was cancelled fails at once in the code; the
  model lets it also succeed, which adds behaviours and hides none.
- Jev's decoder: an answer of type `noul` without a number counts as 0 in the code; in the
  model it is one of the numbers Jev may answer.
- Registration with the collector, the wrapper, scripts and examples, which keep no state.
- The parsers of durations, numbers and URLs, in the configurations and elsewhere.

## Plan

Done, in this order: the cache and the policy; the processor; the contract and the
coordination; the processor's theorems; the standalone exporter; the composition of processor
and coordination, with liveness of Shutdown inside a call; identities; configurations; the
theorems about the coordination, its contract, the exporter, the composition and the cache. Still to do:

1. Liveness of assessments: a metric that keeps arriving is eventually assessed once Jev keeps
   answering; an abandoned lease does not keep its key for ever. The safety half of the latter, that a
   lease has an end, can be proved.
2. The composition of the cache's own theorems with the processor: that what a delivery finds in a
   full cache is what was used last.
