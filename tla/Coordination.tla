---------------------------- MODULE Coordination ----------------------------
(***************************************************************************)
(* Shared assessments through Redis (src/otelprocessor/coordination.go):   *)
(* the state of one namespace in Redis, changed by two atomic scripts, and *)
(* the workers that call coordinator.score, one per replica.  Requests     *)
(* travel, get lost or arrive after their sender gave up; replies get      *)
(* lost; replicas are cancelled and crash.  A key stands for assessment    *)
(* version and metric identity together, as in coordinator.keys.           *)
(*                                                                         *)
(* Redis is an external service, modelled from the commands the scripts    *)
(* use.  A key with an expiry exists up to and including the instant of    *)
(* its expiry; Tick takes it away after that.  The expiries the scripts    *)
(* give the in-flight set and the rate hash do not show: by then all their *)
(* content is out of date.                                                 *)
(***************************************************************************)
EXTENDS Integers, FiniteSets

CONSTANTS Keys, Clients,
          Tokens,         \* rand.Text: a token is fresh while nothing mentions it
          Values,         \* assessments
          SettingsOf,     \* each client's settings: the budget and its lease_ttl
          Timeout,        \* coordination.timeout, in whole units of the clock
          ScoreTTL,       \* policy.score_ttl
          FailureCap,     \* the bound on counted failures (6)
          FailureMemory,  \* the life of the failure counter (300 s)
          MaxFaults,      \* bound on lost requests, failed calls, shutdowns and crashes
          MaxNow,         \* bound on the clock; its unit is one second
          None            \* an absent key, reply or value

\* Config.Validate: lease_ttl > timeout + 2 * coordination.timeout, where
\* timeout > 0 bounds the inference; the other limits are positive.  A timeout below
\* the unit of the clock counts as 0.
ASSUME CoordinationAssumption ==
  /\ Timeout \in Nat /\ ScoreTTL \in Nat \ {0}
  /\ FailureCap \in Nat \ {0} /\ FailureMemory \in Nat
  /\ MaxFaults \in Nat /\ MaxNow \in Nat
  /\ \A c \in Clients :
       /\ SettingsOf[c].maxInFlight \in Nat \ {0}
       /\ SettingsOf[c].requestsPerSecond \in Nat \ {0}
       /\ SettingsOf[c].leaseTTL \in Nat
       /\ SettingsOf[c].leaseTTL > 2 * Timeout

\* What the proofs use of powers of two: a cooldown is a number of seconds.
ASSUME CooldownAssumption == \A n \in 1 .. FailureCap : 2 ^ (n - 1) \in Nat

VARIABLES
  now,
  score,      \* per key: the shared assessment and its expiry
  lease,      \* per key: the token of its owner and its expiry
  inflight,   \* the sorted set of admitted tokens, each with its expiry
  admitted,   \* the rate hash: the admissions in the current second
  cooldown,   \* the expiry of the cooldown key
  streak,     \* the failures key: a count and its expiry
  settings,   \* the settings key: a value and its expiry
  requests,   \* the script calls on their way to Redis
  doing,      \* per client: where it stands in coordinator.score
  attempt,    \* per client: the variables of its current loop iteration
  faults,     \* how many faults the environment has caused so far
  cancelled,  \* per client: whether its context is cancelled
  copy        \* per client and key: the assessment the call to score returned

redis   == <<score, lease, inflight, admitted, cooldown, streak, settings>>
clients == <<doing, attempt, cancelled, copy>>
vars    == <<now, redis, requests, clients, faults>>

Init ==
  /\ now = 0
  /\ score = [k \in Keys |-> None] /\ lease = [k \in Keys |-> None]
  /\ inflight = {} /\ admitted = 0
  /\ cooldown = None /\ streak = None /\ settings = None
  /\ requests = {} /\ faults = 0
  /\ doing = [c \in Clients |-> "idle"]
  /\ attempt = [c \in Clients |-> None]
  /\ cancelled = [c \in Clients |-> FALSE]
  /\ copy = [c \in Clients |-> [k \in Keys |-> None]]

-----------------------------------------------------------------------------
(* Redis executes a script.                                                 *)

\* The reply reaches the client if it still waits for this very call.
Awaits(c, r) ==
  /\ doing[c] = IF r.op = "acquire" THEN "acquiring" ELSE "finishing"
  /\ attempt[c].token = r.token
  /\ attempt[c].reply = None

Reply(r, reply) ==
  /\ requests' = requests \ {r}
  /\ attempt' = IF Awaits(r.client, r)
                THEN [attempt EXCEPT ![r.client].reply = reply] ELSE attempt
  /\ UNCHANGED <<now, doing, cancelled, copy, faults>>

Fault == faults < MaxFaults /\ faults' = faults + 1

Acquires(r) == r \in requests /\ r.op = "acquire"

Compatible(r) == settings # None => settings.value = SettingsOf[r.client]

\* Mutant: the settings are stored once, and not kept alive.
RefreshSettingsOnce(r) ==
  settings' = [value |-> SettingsOf[r.client],
               expiry |-> IF settings = None THEN now + 2 * SettingsOf[r.client].leaseTTL
                          ELSE settings.expiry]

RefreshSettings(r) ==
  settings' = [value |-> SettingsOf[r.client],
               expiry |-> now + 2 * SettingsOf[r.client].leaseTTL]

AcquireMismatch(r) ==
  /\ Acquires(r) /\ ~Compatible(r)
  /\ Reply(r, [kind |-> "mismatch"])
  /\ UNCHANGED redis

AcquireHit(r) ==
  /\ Acquires(r) /\ Compatible(r)
  /\ score[r.key] # None
  /\ RefreshSettings(r)
  /\ Reply(r, [kind |-> "hit", value |-> score[r.key].value,
               remaining |-> score[r.key].expiry - now])
  /\ UNCHANGED <<score, lease, inflight, admitted, cooldown, streak>>

Blocked(r) == lease[r.key] # None \/ cooldown # None

LiveSlots == {s \in inflight : s.expiry > now}

\* Mutant: one admission too many.
WithinBudgetAndOneMore(r) ==
  /\ Cardinality(LiveSlots) <= SettingsOf[r.client].maxInFlight
  /\ admitted < SettingsOf[r.client].requestsPerSecond

WithinBudget(r) ==
  /\ Cardinality(LiveSlots) < SettingsOf[r.client].maxInFlight
  /\ admitted < SettingsOf[r.client].requestsPerSecond

AcquireWait(r) ==
  /\ Acquires(r) /\ Compatible(r)
  /\ score[r.key] = None
  /\ Blocked(r) \/ ~WithinBudget(r)
  /\ RefreshSettings(r)
  /\ inflight' = IF Blocked(r) THEN inflight ELSE LiveSlots
  /\ Reply(r, [kind |-> "wait"])
  /\ UNCHANGED <<score, lease, admitted, cooldown, streak>>

\* Mutant: the assessment is not looked at before the lease is granted.
AcquireOwnerAnyway(r) ==
  /\ Acquires(r) /\ Compatible(r)
  /\ ~Blocked(r) /\ WithinBudget(r)
  /\ RefreshSettings(r)
  /\ LET grant == [token |-> r.token, expiry |-> now + SettingsOf[r.client].leaseTTL]
     IN  /\ lease' = [lease EXCEPT ![r.key] = grant]
         /\ inflight' = LiveSlots \cup {grant}
  /\ admitted' = admitted + 1
  /\ Reply(r, [kind |-> "owner"])
  /\ UNCHANGED <<score, cooldown, streak>>

AcquireOwner(r) ==
  /\ Acquires(r) /\ Compatible(r)
  /\ score[r.key] = None
  /\ ~Blocked(r) /\ WithinBudget(r)
  /\ RefreshSettings(r)
  /\ LET grant == [token |-> r.token, expiry |-> now + SettingsOf[r.client].leaseTTL]
     IN  /\ lease' = [lease EXCEPT ![r.key] = grant]
         /\ inflight' = LiveSlots \cup {grant}
  /\ admitted' = admitted + 1
  /\ Reply(r, [kind |-> "owner"])
  /\ UNCHANGED <<score, cooldown, streak>>

Finishes(r) == r \in requests /\ r.op = "finish"

\* Mutant: any lease will do.
HoldsSome(r) == lease[r.key] # None

Holds(r) == lease[r.key] # None /\ lease[r.key].token = r.token

\* Mutant: the whole set is deleted.
FreeEverySlot(r) == inflight' = {}

FreeSlot(r) == inflight' = {s \in inflight : s.token # r.token}

\* The lease is gone, or belongs to a later owner: nothing is published.
FinishFenced(r) ==
  /\ Finishes(r) /\ ~Holds(r)
  /\ FreeSlot(r)
  /\ Reply(r, [kind |-> "rejected"])
  /\ UNCHANGED <<score, lease, admitted, cooldown, streak, settings>>

Failures == IF streak = None THEN 0 ELSE streak.count
Smaller(m, n) == IF m < n THEN m ELSE n

Share(r) == score' = [score EXCEPT ![r.key] = [value |-> r.value, expiry |-> now + ScoreTTL]]

CoolDown ==
  LET n == Smaller(Failures + 1, FailureCap)
  IN  /\ streak' = [count |-> n, expiry |-> now + FailureMemory]
      /\ cooldown' = now + 2 ^ (n - 1)

\* Mutant: the assessment is stored before the outcome is looked at.
ConcludeSharing(r) ==
  /\ Share(r)
  /\ \/ r.outcome = "success" /\ cooldown' = None /\ streak' = None
     \/ r.outcome = "failure" /\ CoolDown
     \/ r.outcome = "cancel" /\ UNCHANGED <<cooldown, streak>>

Conclude(r) ==
  \/ r.outcome = "success" /\ Share(r) /\ cooldown' = None /\ streak' = None
  \/ r.outcome = "failure" /\ CoolDown /\ UNCHANGED score
  \/ r.outcome = "cancel" /\ UNCHANGED <<score, cooldown, streak>>

\* Mutant: the lease and its place are left to expire.
FinishOwnedKeepingLease(r) ==
  /\ Finishes(r) /\ Holds(r)
  /\ Conclude(r)
  /\ Reply(r, [kind |-> "accepted"])
  /\ UNCHANGED <<lease, inflight, admitted, settings>>

FinishOwned(r) ==
  /\ Finishes(r) /\ Holds(r)
  /\ Conclude(r)
  /\ lease' = [lease EXCEPT ![r.key] = None]
  /\ FreeSlot(r)
  /\ Reply(r, [kind |-> "accepted"])
  /\ UNCHANGED <<admitted, settings>>

Execute(r) ==
  \/ AcquireMismatch(r) \/ AcquireHit(r) \/ AcquireWait(r) \/ AcquireOwner(r)
  \/ FinishFenced(r) \/ FinishOwned(r)

\* A request that never arrives.
Lose(r) ==
  /\ Fault
  /\ requests' = requests \ {r}
  /\ UNCHANGED <<now, redis, clients>>

-----------------------------------------------------------------------------
(* The clients, in coordinator.score.                                       *)

Mentioned ==
  {lease[k].token : k \in {j \in Keys : lease[j] # None}}
  \cup {s.token : s \in inflight} \cup {r.token : r \in requests}
  \cup {attempt[c].token : c \in {d \in Clients : attempt[d] # None}}

Send(r) == requests' = requests \cup {r}

\* The head of the loop: a fresh token, the time, and the first call.
Ask(c, k) ==
  \E t \in Tokens \ Mentioned :
    /\ Send([op |-> "acquire", client |-> c, key |-> k, token |-> t,
             outcome |-> None, value |-> None])
    /\ attempt' = [attempt EXCEPT ![c] =
         [key |-> k, token |-> t, started |-> now, reply |-> None,
          answer |-> None, publishedAt |-> None]]
    /\ doing' = [doing EXCEPT ![c] = "acquiring"]
    /\ UNCHANGED <<now, redis, cancelled, copy, faults>>

FreshAt(s, at) == s # None /\ at < s.scoredAt + ScoreTTL
Fresh(c, k) == FreshAt(copy[c][k], now)

\* A worker calls score for the key of its job.  It does not look at the cache, so
\* the replica may hold a fresh assessment already.
Begin(c, k) ==
  /\ doing[c] = "idle" /\ ~cancelled[c]
  /\ Ask(c, k)

\* The jittered timer fired.
Poll(c) ==
  /\ doing[c] = "waiting" /\ ~cancelled[c]
  /\ Ask(c, attempt[c].key)

\* score returns: found is the assessment for the caller's cache, None an error.
ReturnScore(c, found) ==
  /\ doing' = [doing EXCEPT ![c] = "idle"]
  /\ attempt' = [attempt EXCEPT ![c] = None]
  /\ copy' = IF found = None THEN copy ELSE [copy EXCEPT ![c][attempt[c].key] = found]
  /\ UNCHANGED <<now, redis, requests, cancelled>>

\* Mutant: the wait does not watch the context.
WaitOn(c) == doing[c] = "waiting" /\ cancelled[c] /\ UNCHANGED vars

\* Cancelled while it waits to poll again, or as the loop begins anew.
WaitCancelled(c) ==
  doing[c] = "waiting" /\ cancelled[c] /\ ReturnScore(c, None) /\ UNCHANGED faults

\* A call to Redis ends in an error: its request got lost, or it times out or its
\* connection fails while the request, or the reply, is still on its way.
Unanswered(c) == attempt[c].reply = None /\ \A r \in requests : r.token # attempt[c].token

CallFails(c) ==
  /\ doing[c] \in {"acquiring", "finishing"}
  /\ IF Unanswered(c) THEN UNCHANGED faults ELSE Fault
  /\ ReturnScore(c, None)

Got(c, kind) == attempt[c] # None /\ attempt[c].reply # None /\ attempt[c].reply.kind = kind

\* Mutant: a new lifetime in each replica.
DecodeAnew(a) == [value |-> a.reply.value, scoredAt |-> a.started]

\* Mutant: an assessment without any life left is taken.
DecodeAtZero(a) ==
  IF a.reply.remaining < 0 \/ a.reply.remaining > ScoreTTL THEN None
  ELSE [value |-> a.reply.value, scoredAt |-> a.started + a.reply.remaining - ScoreTTL]

\* decode refuses a remaining life that is not in 1 .. ScoreTTL.
Decode(a) ==
  IF a.reply.remaining <= 0 \/ a.reply.remaining > ScoreTTL THEN None
  ELSE [value |-> a.reply.value, scoredAt |-> a.started + a.reply.remaining - ScoreTTL]

ReceiveHit(c) ==
  /\ doing[c] = "acquiring" /\ Got(c, "hit") /\ ReturnScore(c, Decode(attempt[c]))
  /\ UNCHANGED faults

ReceiveMismatch(c) ==
  /\ doing[c] = "acquiring" /\ Got(c, "mismatch") /\ ReturnScore(c, None)
  /\ UNCHANGED faults

\* The next iteration makes its own token, time and reply.
ReceiveWait(c) ==
  /\ doing[c] = "acquiring" /\ Got(c, "wait")
  /\ doing' = [doing EXCEPT ![c] = "waiting"]
  /\ attempt' = [attempt EXCEPT ![c].token = None, ![c].started = 0,
                                ![c].reply = None]
  /\ UNCHANGED <<now, redis, requests, cancelled, copy, faults>>

ReceiveOwner(c) ==
  /\ doing[c] = "acquiring" /\ Got(c, "owner")
  /\ doing' = [doing EXCEPT ![c] = "inferring"]
  /\ UNCHANGED <<now, redis, requests, attempt, cancelled, copy, faults>>

\* infer returns answer, None if it failed; finish is sent without the context's
\* cancellation.
Finish(c, answer) ==
  LET outcome == IF cancelled[c] THEN "cancel"
                 ELSE IF answer = None THEN "failure" ELSE "success"
  IN  /\ doing[c] = "inferring"
      /\ Send([op |-> "finish", client |-> c, key |-> attempt[c].key,
               token |-> attempt[c].token, outcome |-> outcome, value |-> answer])
      /\ attempt' = [attempt EXCEPT ![c].answer = IF cancelled[c] THEN None ELSE answer,
                                    ![c].publishedAt = now,
                                    ![c].reply = None]
      /\ doing' = [doing EXCEPT ![c] = "finishing"]
      /\ UNCHANGED <<now, redis, cancelled, copy, faults>>

\* Only an accepted success returns a score; it dates from before finish was sent.
Verdict(c) ==
  IF Got(c, "accepted") /\ attempt[c].answer # None
  THEN [value |-> attempt[c].answer, scoredAt |-> attempt[c].publishedAt]
  ELSE None

ReceiveVerdict(c) ==
  /\ doing[c] = "finishing"
  /\ Got(c, "accepted") \/ Got(c, "rejected")
  /\ ReturnScore(c, Verdict(c))
  /\ UNCHANGED faults

\* The replica shuts down during the call.  Without a call there is nothing to
\* cancel: the replica's end is then a Restart.
Cancel(c) ==
  /\ Fault
  /\ ~cancelled[c] /\ doing[c] # "idle"
  /\ cancelled' = [cancelled EXCEPT ![c] = TRUE]
  /\ UNCHANGED <<now, redis, requests, doing, attempt, copy>>

\* A replica crashes, or has ended its shutdown, and a new one takes its place.
Restart(c) ==
  /\ IF doing[c] = "idle" /\ cancelled[c] THEN UNCHANGED faults ELSE Fault
  /\ doing' = [doing EXCEPT ![c] = "idle"]
  /\ attempt' = [attempt EXCEPT ![c] = None]
  /\ cancelled' = [cancelled EXCEPT ![c] = FALSE]
  /\ copy' = [copy EXCEPT ![c] = [k \in Keys |-> None]]
  /\ UNCHANGED <<now, redis, requests>>

-----------------------------------------------------------------------------
Survives(x) == x # None /\ x.expiry >= now'

\* Time passes, and the keys whose time has passed are gone, as are the entries of
\* the local caches whose scores are too old to be used.  A rate hash whose window is
\* another second counts for nothing.
Tick ==
  /\ now < MaxNow
  /\ now' = now + 1
  /\ score' = [k \in Keys |-> IF Survives(score[k]) THEN score[k] ELSE None]
  /\ lease' = [k \in Keys |-> IF Survives(lease[k]) THEN lease[k] ELSE None]
  /\ streak' = IF Survives(streak) THEN streak ELSE None
  /\ settings' = IF Survives(settings) THEN settings ELSE None
  /\ cooldown' = IF cooldown # None /\ cooldown >= now' THEN cooldown ELSE None
  /\ copy' = [c \in Clients |->
                [k \in Keys |-> IF FreshAt(copy[c][k], now') THEN copy[c][k] ELSE None]]
  /\ admitted' = 0
  /\ UNCHANGED <<inflight, requests, doing, attempt, cancelled, faults>>

Call(c) ==
  \/ \E k \in Keys : Begin(c, k)
  \/ Poll(c) \/ WaitCancelled(c) \/ CallFails(c)
  \/ ReceiveHit(c) \/ ReceiveMismatch(c) \/ ReceiveWait(c) \/ ReceiveOwner(c)
  \/ \E answer \in Values \cup {None} : Finish(c, answer)
  \/ ReceiveVerdict(c) \/ Cancel(c) \/ Restart(c)

Step ==
  \/ \E r \in requests : Execute(r) \/ Lose(r)
  \/ \E c \in Clients : Call(c)

Next == Step \/ Tick

Spec == Init /\ [][Next]_vars

\* Mutant: no time is left to publish.
DeadlineOfLease(c) == attempt[c].started + SettingsOf[c].leaseTTL

\* A client meets the deadlines it sets itself: a call to Redis ends with its
\* timeout, an inference with the deadline started + leaseTTL - timeout.
Deadline(c) == attempt[c].started + SettingsOf[c].leaseTTL - Timeout
InTime(c) ==
  /\ doing[c] = "acquiring" => now < attempt[c].started + Timeout
  /\ doing[c] = "inferring" => now < Deadline(c)
  /\ doing[c] = "finishing" => now < attempt[c].publishedAt + Timeout

PromptNext == Step \/ (Tick /\ \A c \in Clients : InTime(c))
PromptSpec == Init /\ [][PromptNext]_vars

-----------------------------------------------------------------------------
(* What must hold.                                                          *)

Expiring(S) == [value : S, expiry : Nat]
Slot    == [token : Tokens, expiry : Nat]
Setting == {SettingsOf[c] : c \in Clients}
Request == [op : {"acquire", "finish"}, client : Clients, key : Keys, token : Tokens,
            outcome : {"success", "failure", "cancel", None}, value : Values \cup {None}]
ReplyMsg == [kind : {"mismatch", "wait", "owner", "accepted", "rejected"}]
            \cup [kind : {"hit"}, value : Values, remaining : Int]
Attempt == [key : Keys, token : Tokens \cup {None}, started : Nat, reply : ReplyMsg \cup {None},
            answer : Values \cup {None}, publishedAt : Nat \cup {None}]
Copy    == [value : Values, scoredAt : Int]
Doings  == {"idle", "acquiring", "waiting", "inferring", "finishing"}
Streak  == [count : 1 .. FailureCap, expiry : Nat]

\* None is none of the things whose absence it stands for.
ASSUME NoneAssumption ==
  None \notin Tokens \cup Values \cup Nat \cup Slot \cup Streak \cup ReplyMsg \cup Attempt \cup Copy
              \cup Expiring(Values) \cup Expiring(Setting)

TypeOK ==
  /\ now \in Nat
  /\ score \in [Keys -> Expiring(Values) \cup {None}]
  /\ lease \in [Keys -> Slot \cup {None}]
  /\ inflight \subseteq Slot
  /\ admitted \in Nat /\ faults \in Nat
  /\ cooldown \in Nat \cup {None}
  /\ streak \in Streak \cup {None}
  /\ settings \in Expiring(Setting) \cup {None}
  /\ requests \subseteq Request
  /\ doing \in [Clients -> Doings]
  /\ attempt \in [Clients -> Attempt \cup {None}]
  /\ \A c \in Clients : doing[c] = "idle" <=> attempt[c] = None
  /\ cancelled \in [Clients -> BOOLEAN]
  /\ copy \in [Clients -> [Keys -> Copy \cup {None}]]

\* A replica's fresh local assessment is the shared one, and its freshness ends no
\* later than the shared life, whatever was delayed on the way.
FreshCopiesAreShared ==
  \A c \in Clients, k \in Keys : Fresh(c, k) =>
    /\ score[k] # None
    /\ score[k].value = copy[c][k].value
    /\ copy[c][k].scoredAt + ScoreTTL <= score[k].expiry

\* What a call of score returns, from whichever reply and however late, had life left
\* when the call sent its last acquire: an assessment found at the very instant of its
\* expiry is an error, so that it neither takes a place in the local cache nor resets
\* the worker's failures.
LearnsOnlyFresh ==
  [][\A c \in Clients, k \in Keys :
       copy'[c][k] \notin {copy[c][k], None} => FreshAt(copy'[c][k], attempt[c].started)]_vars

\* Seen without requests and clocks, this is LeasedAssessment: owners are the tokens
\* of the leases, and a result is handed in when its finish request is sent.
Owners   == [k \in Keys |-> IF lease[k] = None THEN None ELSE lease[k].token]
HandedIn == {r.token : r \in {q \in requests : q.op = "finish"}}
SharedValues == [k \in Keys |-> IF score[k] = None THEN None ELSE score[k].value]
FreshValues  == [c \in Clients |-> [k \in Keys |-> IF Fresh(c, k) THEN copy[c][k].value ELSE None]]

Contract == INSTANCE LeasedAssessment WITH
  Replicas <- Clients, owner <- Owners, results <- HandedIn, value <- SharedValues, held <- FreshValues

\* Whatever is lost, delayed or cancelled and whoever crashes, the replicas see what
\* the contract promises; above all, an owner that was overtaken neither publishes
\* its late result nor ends its successor's lease (coordination.go:19-22).
ImplementsContract == Contract!Spec

\* In the words of the contract: no metric is being assessed and assessed at once, and
\* replicas never decide one metric by two assessments.
ReplicasAgree == Contract!Agreement

Leased == {k \in Keys : lease[k] # None /\ lease[k].expiry > now}

\* Every unexpired lease has its place in the in-flight set, and one no other key
\* has; and the settings its owner agreed on stay in force as long as it does, so that
\* no client with another budget is admitted beside it and the leases of all keys
\* together, those of owners that died included, stay within that budget.
LeasesWithinBudget ==
  /\ \A k \in Leased : lease[k] \in inflight
  /\ \A j, k \in Leased : j # k => lease[j].token # lease[k].token
  /\ Leased # {} => /\ settings # None
                    /\ Cardinality(Leased) <= settings.value.maxInFlight
                    /\ \A k \in Leased : lease[k].expiry <= now + settings.value.leaseTTL

\* Only one client assesses a key at a time, and all of them together no more keys
\* than the budget - if every client meets its deadlines.
Inferring == {c \in Clients : doing[c] = "inferring"}
SoleInference ==
  /\ \A c, d \in Inferring : c # d => attempt[c].key # attempt[d].key
  /\ \A c \in Inferring : Cardinality(Inferring) <= SettingsOf[c].maxInFlight

\* A job that a worker takes although the metric has been assessed in the meantime
\* (the batch looked it up before the result was recorded, and reserved it after)
\* costs no inference: while one runs, no replica has a fresh assessment of its key.
NoInferenceWhileShared ==
  \A c \in Inferring, d \in Clients : ~Fresh(d, attempt[c].key)

\* A client that meets its deadlines never finds its lease gone.
PromptOwnerIsNotFenced ==
  \A c \in Clients : doing[c] = "finishing" => ~Got(c, "rejected")
=============================================================================
