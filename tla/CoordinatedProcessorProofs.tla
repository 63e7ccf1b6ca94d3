--------------------- MODULE CoordinatedProcessorProofs ---------------------
(***************************************************************************)
(* Theorems about CoordinatedProcessor, for any number of workers,         *)
(* metrics and other replicas: a processor in a cluster behaves as         *)
(* MetricsProcessor says, its cache holds what the namespace shares, and   *)
(* what it drops rests on a recent answer of Jev.  They use the invariants *)
(* of the two modules that are composed.                                   *)
(***************************************************************************)
EXTENDS CoordinatedProcessor, MetricsProcessorProofs, FiniteSetTheorems, WellFoundedInduction

\* The namespace again, with what is proved about it.
S == INSTANCE CoordinationProofs WITH Keys <- Metrics, Values <- Keeps, doing <- calling

-----------------------------------------------------------------------------
(* The constants are those Coordination asks for, and there is a longest    *)
(* lease.                                                                   *)

LEMMA KeepsAreProbabilities == Keeps \subseteq Probability /\ Keeps \subseteq Nat
<1>1. Keeps \subseteq Probability
  BY ProcessorAssumption DEF Keeps
<1> QED BY <1>1, PolicyAssumption DEF Probability

LEMMA NamespaceConstants ==
  S!CoordinationAssumption /\ S!CooldownAssumption /\ S!NoneAssumption
<1>1. S!CoordinationAssumption
  BY CoordinatedAssumption, CacheAssumption, ProcessorAssumption DEF S!CoordinationAssumption
<1>2. S!CooldownAssumption
  BY DelayAssumption DEF S!CooldownAssumption, Delay
<1>3. /\ S!Slot = Shared!Slot /\ S!Streak = Shared!Streak /\ S!ReplyMsg = Shared!ReplyMsg
      /\ S!Attempt = Shared!Attempt /\ S!Copy = Shared!Copy
      /\ S!Expiring(Keeps) = Shared!Expiring(Keeps)
      /\ S!Expiring(S!Setting) = Shared!Expiring(Shared!Setting)
  BY DEF S!Slot, Shared!Slot, S!Streak, Shared!Streak, S!ReplyMsg, Shared!ReplyMsg,
         S!Attempt, Shared!Attempt, S!Copy, Shared!Copy, S!Expiring, Shared!Expiring,
         S!Setting, Shared!Setting
<1>4. S!NoneAssumption
  BY <1>3, KeepsAreProbabilities, AbsenceAssumption DEF S!NoneAssumption
<1> QED BY <1>1, <1>2, <1>4

\* Every set of numbers that is not empty has a least one.
LEMMA HasLeast ==
  ASSUME NEW T \in SUBSET Nat, T # {}
  PROVE  \E x \in T : \A y \in T : x <= y
<1>1. PICK x \in T : \A y \in T : <<y, x>> \notin OpToRel(<, Nat)
  BY NatLessThanWellFounded, WFMin
<1>2. ASSUME NEW y \in T PROVE x <= y
  <2>1. ~(y < x)
    BY <1>1 DEF OpToRel
  <2>2. x \in Nat /\ y \in Nat
    OBVIOUS
  <2> QED BY <2>1, <2>2
<1> QED BY <1>2

\* A finite one is bounded.
LEMMA HasBound ==
  ASSUME NEW T \in SUBSET Nat, IsFiniteSet(T)
  PROVE  \E b \in Nat : \A t \in T : t <= b
<1> DEFINE n == Cardinality(T)
<1>1. n \in Nat /\ ExistsBijection(1 .. n, T)
  BY FS_CardinalityType
<1>2. PICK f \in [1 .. n -> T] : \A t \in T : \E i \in 1 .. n : f[i] = t
  BY <1>1 DEF ExistsBijection, Bijection, Surjection
<1> HIDE DEF n
<1> DEFINE Bounds(b, i) == \A j \in 1 .. n : j <= i => f[j] <= b
           unbounded == {i \in Nat : ~\E b \in Nat : Bounds(b, i)}
<1>3. unbounded = {}
  <2> SUFFICES ASSUME unbounded # {} PROVE FALSE
    OBVIOUS
  <2>1. PICK i \in unbounded : \A y \in unbounded : i <= y
    BY HasLeast
  <2>2. i # 0
    <3>1. Bounds(0, 0)
      BY <1>1
    <3> QED BY <3>1
  <2>3. i - 1 \in Nat /\ i - 1 \notin unbounded
    <3>1. i \in Nat
      OBVIOUS
    <3>2. i - 1 \in Nat /\ ~(i <= i - 1)
      BY <2>2, <3>1
    <3> HIDE DEF unbounded
    <3> QED BY <2>1, <3>2
  <2>4. PICK b \in Nat : Bounds(b, i - 1)
    BY <2>3
  <2>5. PICK v \in Nat : i \in 1 .. n => v = f[i]
    <3>1. i \in 1 .. n => f[i] \in Nat
      BY <1>2
    <3> QED BY <3>1
  <2>6. PICK u \in Nat : b <= u /\ v <= u
    <3>1. b <= b + v /\ v <= b + v /\ b + v \in Nat
      OBVIOUS
    <3> QED BY <3>1
  <2>7. Bounds(u, i)
    <3>1. ASSUME NEW j \in 1 .. n, j <= i PROVE f[j] <= u
      <4>1. f[j] \in Nat
        BY <1>2
      <4>2. CASE j = i
        BY <2>5, <2>6, <4>2
      <4>3. CASE j # i
        BY <2>4, <2>6, <3>1, <4>1, <4>3
      <4> QED BY <4>2, <4>3
    <3> QED BY <3>1
  <2> QED BY <2>7
<1>4. PICK b \in Nat : Bounds(b, n)
  BY <1>1, <1>3
<1>5. \A j \in 1 .. n : f[j] <= b
  BY <1>1, <1>4
<1> HIDE DEF Bounds
<1> QED BY <1>2, <1>5

LEMMA HasLargest ==
  ASSUME NEW T \in SUBSET Nat, IsFiniteSet(T), T # {}
  PROVE  \E x \in T : \A y \in T : y <= x
<1> DEFINE bounds == {b \in Nat : \A t \in T : t <= b}
<1>1. bounds # {}
  BY HasBound
<1>2. PICK x \in bounds : \A b \in bounds : x <= b
  BY <1>1, HasLeast
<1>3. x \in T
  <2> SUFFICES ASSUME x \notin T PROVE FALSE
    OBVIOUS
  <2>1. ASSUME NEW t \in T PROVE t \in Nat /\ t < x
    <3>1. t \in Nat /\ x \in Nat /\ t <= x /\ t # x
      OBVIOUS
    <3> QED BY <3>1
  <2>2. x - 1 \in bounds
    <3>1. PICK t \in T : t \in Nat /\ t < x
      BY <2>1
    <3>2. x - 1 \in Nat
      BY <3>1
    <3>3. ASSUME NEW u \in T PROVE u <= x - 1
      BY <2>1, <3>2
    <3> QED BY <3>2, <3>3
  <2> QED BY <1>2, <2>2
<1> QED BY <1>2, <1>3

LEMMA LeaseIsBounded == S!Longest(LongestLease)
<1> DEFINE T == {SettingsOf[c].leaseTTL : c \in Clients}
           f == [c \in Clients |-> SettingsOf[c].leaseTTL]
<1>1. T \in SUBSET Nat /\ T # {}
  BY CoordinatedAssumption DEF Clients
<1>2. f \in Surjection(Clients, T)
  BY DEF Surjection
<1>3. IsFiniteSet(T)
  BY <1>2, CoordinatedAssumption, FS_Surjection
<1>4. \E t \in T : \A u \in T : u <= t
  BY <1>1, <1>3, HasLargest
<1>5. \E t \in T : \A c \in Clients : SettingsOf[c].leaseTTL <= t
  BY <1>4
<1>6. LongestLease \in T /\ \A c \in Clients : SettingsOf[c].leaseTTL <= LongestLease
  BY <1>5 DEF LongestLease
<1> QED BY <1>1, <1>6 DEF S!Longest

-----------------------------------------------------------------------------
(* A step of the composition is one of the namespace, as its own proofs     *)
(* know it.                                                                 *)

LEMMA SameClients ==
  ASSUME NEW c
  PROVE  /\ \A k : Shared!Begin(c, k) => S!Begin(c, k)
         /\ Shared!Poll(c) => S!Poll(c)
         /\ Shared!WaitCancelled(c) => S!WaitCancelled(c)
         /\ Shared!CallFails(c) => S!CallFails(c)
         /\ Shared!ReceiveHit(c) => S!ReceiveHit(c)
         /\ Shared!ReceiveMismatch(c) => S!ReceiveMismatch(c)
         /\ Shared!ReceiveWait(c) => S!ReceiveWait(c)
         /\ Shared!ReceiveOwner(c) => S!ReceiveOwner(c)
         /\ \A keep : Shared!Finish(c, keep) => S!Finish(c, keep)
         /\ Shared!ReceiveVerdict(c) => S!ReceiveVerdict(c)
         /\ Shared!Cancel(c) => S!Cancel(c)
         /\ Shared!Restart(c) => S!Restart(c)
<1>1. \A k : Shared!Ask(c, k) => S!Ask(c, k)
  BY DEF Shared!Ask, S!Ask, Shared!Send, S!Send, Shared!Mentioned, S!Mentioned, Shared!redis, S!redis
<1>2. /\ \A found : Shared!ReturnScore(c, found) => S!ReturnScore(c, found)
      /\ \A kind : Shared!Got(c, kind) <=> S!Got(c, kind)
      /\ Shared!Fault => S!Fault
      /\ Shared!Unanswered(c) <=> S!Unanswered(c)
      /\ Shared!Decode(attempt[c]) = S!Decode(attempt[c])
  BY DEF Shared!ReturnScore, S!ReturnScore, Shared!redis, S!redis, Shared!Got, S!Got,
         Shared!Fault, S!Fault, Shared!Unanswered, S!Unanswered, Shared!Decode, S!Decode
<1>3. Shared!Verdict(c) = S!Verdict(c)
  BY <1>2 DEF Shared!Verdict, S!Verdict
<1>4. (\A k : Shared!Begin(c, k) => S!Begin(c, k)) /\ (Shared!Poll(c) => S!Poll(c))
  BY <1>1 DEF Shared!Begin, S!Begin, Shared!Poll, S!Poll
<1>5. Shared!WaitCancelled(c) => S!WaitCancelled(c)
  BY <1>2 DEF Shared!WaitCancelled, S!WaitCancelled
<1>6. Shared!CallFails(c) => S!CallFails(c)
  BY <1>2 DEF Shared!CallFails, S!CallFails
<1>7. /\ Shared!ReceiveHit(c) => S!ReceiveHit(c)
      /\ Shared!ReceiveMismatch(c) => S!ReceiveMismatch(c)
      /\ Shared!ReceiveVerdict(c) => S!ReceiveVerdict(c)
  BY <1>2, <1>3 DEF Shared!ReceiveHit, S!ReceiveHit, Shared!ReceiveMismatch, S!ReceiveMismatch,
                    Shared!ReceiveVerdict, S!ReceiveVerdict
<1>8. /\ Shared!ReceiveWait(c) => S!ReceiveWait(c)
      /\ Shared!ReceiveOwner(c) => S!ReceiveOwner(c)
  BY <1>2 DEF Shared!ReceiveWait, S!ReceiveWait, Shared!ReceiveOwner, S!ReceiveOwner,
              Shared!redis, S!redis
<1>9. \A keep : Shared!Finish(c, keep) => S!Finish(c, keep)
  BY DEF Shared!Finish, S!Finish, Shared!Send, S!Send, Shared!redis, S!redis
<1>10. (Shared!Cancel(c) => S!Cancel(c)) /\ (Shared!Restart(c) => S!Restart(c))
  BY <1>2 DEF Shared!Cancel, S!Cancel, Shared!Restart, S!Restart, Shared!redis, S!redis
<1> QED BY <1>4, <1>5, <1>6, <1>7, <1>8, <1>9, <1>10

LEMMA SameScripts ==
  ASSUME NEW r
  PROVE  /\ Shared!Execute(r) => S!Execute(r)
         /\ Shared!Lose(r) => S!Lose(r)
<1>1. /\ \A reply : Shared!Reply(r, reply) => S!Reply(r, reply)
      /\ Shared!Compatible(r) <=> S!Compatible(r)
      /\ Shared!Acquires(r) <=> S!Acquires(r)
      /\ Shared!Finishes(r) <=> S!Finishes(r)
      /\ Shared!Blocked(r) <=> S!Blocked(r)
      /\ Shared!Holds(r) <=> S!Holds(r)
      /\ Shared!RefreshSettings(r) => S!RefreshSettings(r)
      /\ Shared!FreeSlot(r) => S!FreeSlot(r)
      /\ Shared!LiveSlots = S!LiveSlots
      /\ Shared!WithinBudget(r) <=> S!WithinBudget(r)
  <2>1. \A reply : Shared!Reply(r, reply) => S!Reply(r, reply)
    BY DEF Shared!Reply, S!Reply, Shared!Awaits, S!Awaits
  <2>2. /\ Shared!Acquires(r) <=> S!Acquires(r)
        /\ Shared!Finishes(r) <=> S!Finishes(r)
        /\ Shared!Compatible(r) <=> S!Compatible(r)
    BY DEF Shared!Acquires, S!Acquires, Shared!Finishes, S!Finishes, Shared!Compatible, S!Compatible
  <2>3. /\ Shared!Blocked(r) <=> S!Blocked(r)
        /\ Shared!Holds(r) <=> S!Holds(r)
    BY DEF Shared!Blocked, S!Blocked, Shared!Holds, S!Holds
  <2>4. /\ Shared!RefreshSettings(r) => S!RefreshSettings(r)
        /\ Shared!FreeSlot(r) => S!FreeSlot(r)
    BY DEF Shared!RefreshSettings, S!RefreshSettings, Shared!FreeSlot, S!FreeSlot
  <2>5. Shared!LiveSlots = S!LiveSlots
    BY DEF Shared!LiveSlots, S!LiveSlots
  <2>6. Shared!WithinBudget(r) <=> S!WithinBudget(r)
    BY <2>5 DEF Shared!WithinBudget, S!WithinBudget, Shared!Cardinality, S!Cardinality
  <2> QED BY <2>1, <2>2, <2>3, <2>4, <2>5, <2>6
<1>2. Shared!Conclude(r) => S!Conclude(r)
  BY DEF Shared!Conclude, S!Conclude, Shared!Share, S!Share, Shared!CoolDown, S!CoolDown,
         Shared!Smaller, S!Smaller, Shared!Failures, S!Failures
<1>3. Shared!AcquireMismatch(r) => S!AcquireMismatch(r)
  BY <1>1 DEF Shared!AcquireMismatch, S!AcquireMismatch, Shared!redis, S!redis
<1>4. Shared!AcquireHit(r) => S!AcquireHit(r)
  BY <1>1 DEF Shared!AcquireHit, S!AcquireHit
<1>5. Shared!AcquireWait(r) => S!AcquireWait(r)
  BY <1>1 DEF Shared!AcquireWait, S!AcquireWait
<1>6. Shared!AcquireOwner(r) => S!AcquireOwner(r)
  BY <1>1 DEF Shared!AcquireOwner, S!AcquireOwner
<1>7. Shared!FinishFenced(r) => S!FinishFenced(r)
  BY <1>1 DEF Shared!FinishFenced, S!FinishFenced
<1>8. Shared!FinishOwned(r) => S!FinishOwned(r)
  BY <1>1, <1>2 DEF Shared!FinishOwned, S!FinishOwned
<1>9. Shared!Lose(r) => S!Lose(r)
  BY DEF Shared!Lose, S!Lose, Shared!Fault, S!Fault, Shared!redis, S!redis, Shared!clients, S!clients
<1> QED BY <1>3, <1>4, <1>5, <1>6, <1>7, <1>8, <1>9 DEF Shared!Execute, S!Execute

LEMMA SameClock == Shared!Tick => S!Tick
BY DEF Shared!Tick, S!Tick, Shared!FreshAt, S!FreshAt, Shared!Survives, S!Survives

LEMMA SameStart == Shared!Init => S!Init
BY DEF Shared!Init, S!Init

LEMMA SameResults ==
  ASSUME NEW c
  PROVE  /\ Shared!Decode(attempt[c]) = S!Decode(attempt[c])
         /\ Shared!Verdict(c) = S!Verdict(c)
         /\ \A kind : Shared!Got(c, kind) <=> S!Got(c, kind)
<1>1. /\ Shared!Decode(attempt[c]) = S!Decode(attempt[c])
      /\ \A kind : Shared!Got(c, kind) <=> S!Got(c, kind)
  BY DEF Shared!Decode, S!Decode, Shared!Got, S!Got
<1> QED BY <1>1 DEF Shared!Verdict, S!Verdict

-----------------------------------------------------------------------------
(* The invariant of the composition: those of the two modules, where a      *)
(* worker and its client stand, and what the cache and the workers hold.    *)

\* A worker inside coordinator.score and its client are at the same place, for the
\* same metric.
Linked ==
  \A w \in Workers :
    /\ calling[w] \in {"acquiring", "waiting"} => doing[w] = "scoring"
    /\ calling[w] \in {"inferring", "finishing"} => doing[w] = "inferring"
    /\ calling[w] = "idle" => doing[w] # "inferring"
    /\ calling[w] # "idle" => attempt[w].key = job[w]

AnswersTyped ==
  \A a \in answers : a.metric \in Metrics /\ a.keep \in JevKeeps[a.metric] /\ a.at \in Nat

\* The namespace shares the score s of m, for as long as s is fresh.
SharedAs(m, s) ==
  /\ score[m] # None
  /\ score[m].value = s.keep
  /\ s.scoredAt + ScoreTTL <= score[m].expiry

\* The scores of m that go back to an answer of Jev and, if fresh, are shared.
Sound ==
  [m \in Metrics |->
     {s \in Score : /\ S!Said(answers, LongestLease, m, s.keep, s.scoredAt)
                    /\ Expired(s, now) \/ SharedAs(m, s)}]

\* The cache and the workers hold, for each metric, only what X has for it.
HoldsOnly(X) ==
  /\ Holding(cache, X)
  /\ \A w \in Workers : result[w] # NoScore => result[w] \in X[job[w]]

HoldsSound == HoldsOnly(Sound)

JInv ==
  /\ S!IInv /\ ShapedType /\ Justified
  /\ Linked /\ AnswersTyped
  /\ S!Grounded(answers, LongestLease)
  /\ HoldsSound /\ DropsRestOnRecentAnswers

-----------------------------------------------------------------------------
(* The steps, seen from the namespace.                                      *)

LEMMA AloneStays ==
  ASSUME Alone
  PROVE  /\ UNCHANGED <<now, namespace, answers>>
         /\ UNCHANGED S!vars
<1>1. UNCHANGED now
  <2>1. ASSUME NEW d \in Deliverers, Deliver(d) \/ \E b \in Batches : ConsumeMetrics(d, b)
        PROVE  UNCHANGED now
    BY <2>1 DEF Deliver, Bypass, CacheHit, CacheMiss, EnqueueRefused, Reserve, SendJob, QueueFull,
                Unmark, Forward, ConsumeMetrics
  <2>2. ASSUME NEW w \in Workers, WorkAlone(w) PROVE UNCHANGED now
    BY <2>2 DEF WorkAlone, TakeJob, Exit, AbandonJob, PassCheck, SkipCooling, RecordSuccess, RecordFailure
  <2>3. ASSUME Start \/ ShutdownReturns \/ Prune PROVE UNCHANGED now
    BY <2>3 DEF Start, ShutdownReturns, Prune
  <2> QED BY <2>1, <2>2, <2>3 DEF Alone, Deliveries
<1> QED BY <1>1 DEF Alone, namespace, S!vars, S!redis, S!clients

LEMMA StopStays ==
  ASSUME S!IInv, Stop
  PROVE  /\ UNCHANGED <<now, score, lease, inflight, admitted, cooldown, streak, settings, requests,
                        calling, attempt, copy, faults, answers>>
         /\ cancelled' \in [Clients -> BOOLEAN]
<1>1. UNCHANGED <<now, score, lease, inflight, admitted, cooldown, streak, settings, requests,
                  calling, attempt, copy, faults, answers>>
  BY DEF Stop, Shutdown
<1>2. cancelled \in [Clients -> BOOLEAN]
  BY DEF S!IInv, S!TypeOK
<1> QED BY <1>1, <1>2 DEF Stop

\* An inference that returns.
LEMMA InferReturnsCall ==
  ASSUME S!IInv, NEW c \in Clients, InferReturns(c)
  PROVE  /\ S!Call(c) /\ UNCHANGED vars
         /\ \E keep \in JevKeeps[attempt[c].key] \cup {None} : S!Finish(c, keep) /\ Learn(c, keep)
         /\ attempt[c].key \in Metrics
<1>1. attempt[c].key \in Metrics
  <2>1. attempt[c] \in S!Attempt
    BY DEF InferReturns, S!IInv, S!TypeOK
  <2> QED BY <2>1 DEF S!Attempt
<1>2. PICK keep \in JevKeeps[attempt[c].key] \cup {None} : S!Finish(c, keep) /\ Learn(c, keep)
  BY SameClients DEF InferReturns
<1>3. keep \in Keeps \cup {None}
  BY <1>1, <1>2 DEF Keeps
<1>4. S!Call(c)
  BY <1>2, <1>3 DEF S!Call
<1> QED BY <1>1, <1>2, <1>4 DEF InferReturns

\* The other steps of a client hand nothing in, and teach nobody anything.
NothingHandedIn == \A r \in requests' : r.op = "finish" => r \in requests

Listens(c) == S!Call(c) /\ UNCHANGED <<now, answers>> /\ NothingHandedIn

LEMMA QuietCalls ==
  ASSUME NEW c,
         \/ (\E k : S!Begin(c, k)) \/ S!Poll(c) \/ S!WaitCancelled(c) \/ S!CallFails(c)
         \/ S!ReceiveHit(c) \/ S!ReceiveMismatch(c) \/ S!ReceiveWait(c) \/ S!ReceiveOwner(c)
         \/ S!ReceiveVerdict(c) \/ S!Cancel(c) \/ S!Restart(c)
  PROVE  NothingHandedIn
<1>1. ASSUME NEW k, S!Ask(c, k) PROVE NothingHandedIn
  BY <1>1 DEF S!Ask, S!Send, NothingHandedIn
<1>2. ASSUME UNCHANGED requests PROVE NothingHandedIn
  BY <1>2 DEF NothingHandedIn
<1>3. CASE (\E k : S!Begin(c, k)) \/ S!Poll(c)
  BY <1>1, <1>3 DEF S!Begin, S!Poll
<1>4. ASSUME NEW found, S!ReturnScore(c, found) PROVE UNCHANGED requests
  BY <1>4 DEF S!ReturnScore
<1>5. CASE S!WaitCancelled(c) \/ S!CallFails(c) \/ S!ReceiveHit(c) \/ S!ReceiveMismatch(c)
           \/ S!ReceiveVerdict(c)
  BY <1>2, <1>4, <1>5
     DEF S!WaitCancelled, S!CallFails, S!ReceiveHit, S!ReceiveMismatch, S!ReceiveVerdict
<1>6. CASE S!ReceiveWait(c) \/ S!ReceiveOwner(c) \/ S!Cancel(c) \/ S!Restart(c)
  BY <1>2, <1>6 DEF S!ReceiveWait, S!ReceiveOwner, S!Cancel, S!Restart
<1> QED BY <1>3, <1>5, <1>6

LEMMA ScoringCalls ==
  ASSUME JInv, NEW w \in Workers, Scoring(w)
  PROVE  Listens(w) \/ InferReturns(w) \/ UNCHANGED <<now, namespace, answers>>
<1>1. CASE CallScore(w)
  <2>1. job[w] \in Metrics
    BY <1>1 DEF CallScore, BeginScoring, JInv, ShapedType, Shape, Busy
  <2>2. S!Begin(w, job[w]) /\ UNCHANGED <<now, answers>>
    BY <1>1, SameClients DEF CallScore, BeginScoring
  <2> QED BY <2>1, <2>2, QuietCalls DEF S!Call, Listens
<1>2. CASE Loop(w)
  <2>1. (S!Poll(w) \/ S!ReceiveWait(w)) /\ UNCHANGED <<now, answers>>
    BY <1>2, SameClients DEF Loop, vars
  <2> QED BY <2>1, QuietCalls DEF S!Call, Listens
<1>3. CASE CallInfer(w)
  <2>1. S!ReceiveOwner(w) /\ UNCHANGED <<now, answers>>
    BY <1>3, SameClients DEF CallInfer, BeginInference
  <2> QED BY <2>1, QuietCalls DEF S!Call, Listens
<1>4. CASE ScoreReturns(w)
  <2>1. UNCHANGED <<now, answers>>
    BY <1>4 DEF ScoreReturns, CoordinationFails, Return
  <2>2. CASE UNCHANGED namespace
    BY <2>1, <2>2
  <2>3. CASE S!ReceiveHit(w) \/ S!ReceiveVerdict(w) \/ S!ReceiveMismatch(w)
             \/ S!WaitCancelled(w) \/ S!CallFails(w)
    BY <2>1, <2>3, QuietCalls DEF S!Call, Listens
  <2> QED BY <1>4, <2>2, <2>3, SameClients DEF ScoreReturns
<1>5. CASE CallRefused(w)
  BY <1>5 DEF CallRefused, BeginScoring
<1> QED BY <1>1, <1>2, <1>3, <1>4, <1>5 DEF Scoring

LEMMA OtherCalls ==
  ASSUME NEW c \in Others, OtherReplica(c)
  PROVE  (Listens(c) /\ UNCHANGED vars) \/ InferReturns(c)
<1>1. ASSUME ~InferReturns(c)
      PROVE  /\ UNCHANGED <<vars, answers>>
             /\ \/ \E m \in Metrics : S!Begin(c, m)
                \/ S!Poll(c) \/ S!WaitCancelled(c) \/ S!CallFails(c)
                \/ S!ReceiveHit(c) \/ S!ReceiveMismatch(c) \/ S!ReceiveWait(c)
                \/ S!ReceiveOwner(c) \/ S!ReceiveVerdict(c) \/ S!Cancel(c) \/ S!Restart(c)
  BY <1>1, SameClients DEF OtherReplica
<1>2. ASSUME ~InferReturns(c) PROVE NothingHandedIn
  BY <1>1, <1>2, QuietCalls
<1>3. ASSUME ~InferReturns(c) PROVE S!Call(c)
  BY <1>1, <1>3 DEF S!Call
<1> QED BY <1>1, <1>2, <1>3 DEF Listens, vars

\* What a step does to the namespace, and what it learns.
LEMMA NamespaceSteps ==
  ASSUME JInv, [JointNext]_jointVars, ~Stop
  PROVE  /\ [S!Next]_(S!vars)
         /\ (UNCHANGED answers /\ NothingHandedIn) \/ \E c \in Clients : InferReturns(c)
<1>1. ASSUME UNCHANGED requests PROVE NothingHandedIn
  BY <1>1 DEF NothingHandedIn
<1>2. CASE Alone
  BY <1>1, <1>2, AloneStays DEF namespace
<1>3. CASE TimePasses
  BY <1>1, <1>3, SameClock DEF TimePasses, S!Tick, S!Next
<1>4. ASSUME NEW c \in Clients, Listens(c) PROVE S!Next /\ UNCHANGED answers /\ NothingHandedIn
  BY <1>4 DEF Listens, S!Next, S!Step, Clients
<1>5. ASSUME NEW c \in Clients, InferReturns(c) PROVE S!Next
  BY <1>5, InferReturnsCall DEF JInv, S!Next, S!Step, Clients
<1>6. ASSUME NEW w \in Workers, Scoring(w)
      PROVE  [S!Next]_(S!vars) /\ ((UNCHANGED answers /\ NothingHandedIn) \/ InferReturns(w))
  <2>1. CASE UNCHANGED <<now, namespace, answers>>
    BY <1>1, <2>1 DEF namespace, S!vars, S!redis, S!clients
  <2> QED BY <1>4, <1>5, <1>6, <2>1, ScoringCalls DEF Clients
<1>7. ASSUME NEW c \in Others, OtherReplica(c)
      PROVE  S!Next /\ ((UNCHANGED answers /\ NothingHandedIn) \/ InferReturns(c))
  BY <1>4, <1>5, <1>7, OtherCalls DEF Clients
<1>8. ASSUME NEW r \in requests, Arrives(r) PROVE S!Next /\ UNCHANGED answers /\ NothingHandedIn
  <2>1. (S!Execute(r) \/ S!Lose(r)) /\ UNCHANGED answers
    BY <1>8, SameScripts DEF Arrives
  <2>2. requests' \subseteq requests
    BY <2>1 DEF S!Execute, S!AcquireMismatch, S!AcquireHit, S!AcquireWait, S!AcquireOwner,
                S!FinishFenced, S!FinishOwned, S!Reply, S!Lose
  <2> QED BY <2>1, <2>2 DEF S!Next, S!Step, NothingHandedIn
<1>9. CASE UNCHANGED jointVars
  BY <1>1, <1>9 DEF jointVars, vars, namespace, S!vars, S!redis, S!clients
<1> QED BY <1>2, <1>3, <1>6, <1>7, <1>8, <1>9 DEF JointNext, Clients

\* What Jev says is learnt as it is handed in.
LEMMA LearningIsHeard ==
  ASSUME JInv, [JointNext]_jointVars, ~Stop
  PROVE  /\ answers \subseteq answers' /\ AnswersTyped'
         /\ S!Heard(answers')
<1>1. now \in Nat
  BY DEF JInv, ShapedType, TypeOK
<1>2. CASE UNCHANGED answers /\ NothingHandedIn
  BY <1>2 DEF JInv, AnswersTyped, NothingHandedIn, S!Heard
<1>3. ASSUME NEW c \in Clients, InferReturns(c)
      PROVE  answers \subseteq answers' /\ AnswersTyped' /\ S!Heard(answers')
  <2>1. attempt[c].key \in Metrics
    BY <1>3, InferReturnsCall DEF JInv
  <2>2. PICK keep \in JevKeeps[attempt[c].key] \cup {None} : S!Finish(c, keep) /\ Learn(c, keep)
    BY <1>3, InferReturnsCall DEF JInv
  <2> PICK a : a = [metric |-> attempt[c].key, keep |-> keep, at |-> now]
    OBVIOUS
  <2>3. answers' = IF keep = None THEN answers ELSE answers \cup {a}
    BY <2>2 DEF Learn
  <2>4. ASSUME keep # None PROVE a.metric \in Metrics /\ a.keep \in JevKeeps[a.metric] /\ a.at \in Nat
    <3>1. a.metric = attempt[c].key /\ a.keep = keep /\ a.at = now
      OBVIOUS
    <3> QED BY <1>1, <2>1, <2>2, <2>4, <3>1
  <2>5. answers \subseteq answers' /\ AnswersTyped'
    BY <2>3, <2>4 DEF JInv, AnswersTyped
  <2>6. ASSUME NEW r \in requests', r \notin requests, r.value # None
        PROVE  [metric |-> r.key, keep |-> r.value, at |-> now] \in answers'
    <3>1. r.key = attempt[c].key /\ r.value = keep
      BY <2>2, <2>6 DEF S!Finish, S!Send
    <3> QED BY <2>3, <2>6, <3>1
  <2> QED BY <2>5, <2>6 DEF S!Heard
<1> QED BY <1>2, <1>3, NamespaceSteps

\* The invariants of the namespace go on, and what is in it still goes back to Jev.
LEMMA NamespaceKeeps ==
  ASSUME JInv, [JointNext]_jointVars
  PROVE  S!IInv' /\ S!Grounded(answers, LongestLease)' /\ AnswersTyped' /\ answers \subseteq answers'
<1>1. CASE Stop
  <2>1. /\ UNCHANGED <<now, score, lease, inflight, admitted, cooldown, streak, settings, requests,
                       calling, attempt, copy, faults, answers>>
        /\ cancelled' \in [Clients -> BOOLEAN]
    BY <1>1, StopStays DEF JInv
  <2> PICK A, L : A = answers /\ L = LongestLease
    OBVIOUS
  <2>2. S!IInv' /\ (S!Grounded(A, L) => S!Grounded(A, L)')
    BY <2>1, NamespaceConstants, S!ContextsKeep DEF JInv, S!redis
  <2>3. S!Grounded(answers, LongestLease)'
    BY <2>1, <2>2 DEF JInv
  <2> QED BY <2>1, <2>2, <2>3 DEF JInv, AnswersTyped
<1>2. CASE ~Stop
  <2>1. [S!Next]_(S!vars) /\ S!IInv
    BY <1>2, NamespaceSteps DEF JInv
  <2>2. S!IInv'
    BY <2>1, NamespaceConstants, S!NextIInv
  <2>3. answers \subseteq answers' /\ AnswersTyped' /\ S!Heard(answers')
    BY <1>2, LearningIsHeard
  <2> PICK A, B, L : A = answers /\ B = answers' /\ L = LongestLease
    OBVIOUS
  <2>4. \A b \in B : b.at \in Nat
    BY <2>3 DEF AnswersTyped
  <2>5. S!Grounded(A, L) /\ A \subseteq B /\ S!Heard(B) /\ S!Longest(L)
    BY <2>3, LeaseIsBounded DEF JInv
  <2>6. S!Grounded(B, L)'
    BY <2>1, <2>4, <2>5, NamespaceConstants, S!NextGrounded
  <2>7. S!Grounded(answers, LongestLease)'
    BY <2>6
  <2> QED BY <2>2, <2>3, <2>7
<1> QED BY <1>1, <1>2


-----------------------------------------------------------------------------
(* The steps, seen from the processor.                                      *)

\* Where the call returns, and what: an error, or what the client is about to hold.
LEMMA ScoreComesBack ==
  ASSUME JInv, NEW w \in Workers, ScoreReturns(w)
  PROVE  \E r : /\ Return(w, r) /\ UNCHANGED answers
                /\ \/ calling[w] \in {"idle", "acquiring", "waiting"} /\ doing[w] = "scoring"
                   \/ calling[w] = "finishing" /\ doing[w] = "inferring"
                /\ calling'[w] = "idle"
                /\ r # NoScore => /\ S!Coming(w) # None
                                  /\ r = [keep |-> S!Coming(w).value, scoredAt |-> S!Coming(w).scoredAt]
<1>1. calling \in [Clients -> S!Doings] /\ w \in Clients
  BY DEF JInv, S!IInv, S!TypeOK, Clients
<1>2. ASSUME NEW found, S!ReturnScore(w, found) PROVE calling'[w] = "idle"
  BY <1>1, <1>2 DEF S!ReturnScore
<1>3. CASE Shared!ReceiveHit(w) /\ Return(w, Taken(Shared!Decode(attempt[w])))
  <2>1. S!ReceiveHit(w) /\ Shared!Decode(attempt[w]) = S!Decode(attempt[w])
    BY <1>3, SameClients, SameResults
  <2>2. calling[w] = "acquiring" /\ S!Coming(w) = S!Decode(attempt[w]) /\ calling'[w] = "idle"
    BY <2>1, <1>2 DEF S!ReceiveHit, S!Coming
  <2>3. doing[w] = "scoring" /\ UNCHANGED answers
    BY <2>2 DEF JInv, Linked, ScoreReturns
  <2> QED BY <1>3, <2>1, <2>2, <2>3 DEF Taken
<1>4. CASE Shared!ReceiveVerdict(w) /\ Return(w, Taken(Shared!Verdict(w)))
  <2>1. S!ReceiveVerdict(w) /\ Shared!Verdict(w) = S!Verdict(w)
    BY <1>4, SameClients, SameResults
  <2>2. calling[w] = "finishing" /\ S!Coming(w) = S!Verdict(w) /\ calling'[w] = "idle"
    BY <2>1, <1>2 DEF S!ReceiveVerdict, S!Coming
  <2>3. doing[w] = "inferring" /\ UNCHANGED answers
    BY <2>2 DEF JInv, Linked, ScoreReturns
  <2> QED BY <1>4, <2>1, <2>2, <2>3 DEF Taken
<1>5. CASE (Shared!ReceiveMismatch(w) \/ Shared!WaitCancelled(w) \/ Shared!CallFails(w))
           /\ Return(w, NoScore)
  <2>1. S!ReceiveMismatch(w) \/ S!WaitCancelled(w) \/ S!CallFails(w)
    BY <1>5, SameClients
  <2>2. calling[w] \in {"acquiring", "waiting", "finishing"} /\ calling'[w] = "idle"
    BY <2>1, <1>2 DEF S!ReceiveMismatch, S!WaitCancelled, S!CallFails
  <2>3. UNCHANGED answers /\ \/ calling[w] \in {"acquiring", "waiting"} /\ doing[w] = "scoring"
                             \/ calling[w] = "finishing" /\ doing[w] = "inferring"
    BY <2>2 DEF JInv, Linked, ScoreReturns
  <2> QED BY <1>5, <2>2, <2>3
<1>6. CASE calling[w] = "idle" /\ CoordinationFails(w) /\ UNCHANGED namespace
  BY <1>6 DEF ScoreReturns, CoordinationFails, namespace
<1> QED BY <1>3, <1>4, <1>5, <1>6 DEF ScoreReturns

\* What the client is about to hold is a sound score of the worker's metric.
LEMMA ComingIsSound ==
  ASSUME JInv, NEW w \in Workers, S!Coming(w) # None,
         NEW s, s = [keep |-> S!Coming(w).value, scoredAt |-> S!Coming(w).scoredAt]
  PROVE  /\ job[w] \in Metrics /\ s.keep \in JevKeeps[job[w]]
         /\ calling[w] = "acquiring" => s.scoredAt \in (1 - ScoreTTL) .. now
         /\ calling[w] = "finishing" => s.scoredAt \in 0 .. now
         /\ s \in Sound[job[w]]
<1>1. w \in Clients /\ calling[w] \in {"acquiring", "finishing"} /\ now \in Nat
  BY DEF Clients, S!Coming, JInv, ShapedType, TypeOK
<1>2. attempt[w].key = job[w]
  BY <1>1 DEF JInv, Linked
<1>3. /\ S!Coming(w) \in S!Copy /\ job[w] \in Metrics
      /\ calling[w] = "acquiring" => S!Coming(w).scoredAt \in (1 - ScoreTTL) .. now
      /\ calling[w] = "finishing" => S!Coming(w).scoredAt \in 0 .. now
  BY <1>1, <1>2, NamespaceConstants, S!ComingIsDated DEF JInv
<1>4. s.keep = S!Coming(w).value /\ s.scoredAt = S!Coming(w).scoredAt /\ s.scoredAt \in Int
  BY <1>3 DEF S!Copy
<1>5. S!Said(answers, LongestLease, job[w], s.keep, s.scoredAt)
  BY <1>1, <1>2, <1>4 DEF JInv, S!Grounded
<1>6. s.keep \in JevKeeps[job[w]] /\ s \in Score
  <2>1. s.keep \in JevKeeps[job[w]]
    BY <1>5 DEF S!Said, JInv, AnswersTyped
  <2> QED BY <1>3, <1>4, <2>1, ProcessorAssumption DEF Score
<1>7. Expired(s, now) \/ SharedAs(job[w], s)
  <2>1. CASE S!FreshAt(S!Coming(w), now)
    <3>1. S!IsShared(job[w], S!Coming(w))
      BY <1>1, <1>2, <2>1 DEF JInv, S!IInv, S!OnlySharedIsFresh
    <3> QED BY <1>4, <3>1 DEF S!IsShared, SharedAs
  <2>2. CASE ~S!FreshAt(S!Coming(w), now)
    BY <1>1, <1>4, <2>2, CacheAssumption DEF S!FreshAt, Expired
  <2> QED BY <2>1, <2>2
<1> QED BY <1>3, <1>4, <1>5, <1>6, <1>7 DEF Sound

LEMMA ReturnImplements ==
  ASSUME JInv, NEW w \in Workers, ScoreReturns(w)
  PROVE  Work(w)
<1>1. PICK r : /\ Return(w, r)
               /\ \/ calling[w] \in {"idle", "acquiring", "waiting"} /\ doing[w] = "scoring"
                  \/ calling[w] = "finishing" /\ doing[w] = "inferring"
               /\ r # NoScore => /\ S!Coming(w) # None
                                 /\ r = [keep |-> S!Coming(w).value,
                                         scoredAt |-> S!Coming(w).scoredAt]
  BY ScoreComesBack
<1>2. CASE r = NoScore
  BY <1>1, <1>2, CoordinatedAssumption DEF Work, CoordinationFails, InferenceFails
<1>3. CASE r # NoScore
  <2>1. /\ r = [keep |-> r.keep, scoredAt |-> r.scoredAt] /\ r.keep \in JevKeeps[job[w]]
        /\ calling[w] = "acquiring" => r.scoredAt \in (1 - ScoreTTL) .. now
        /\ calling[w] = "finishing" => r.scoredAt \in 0 .. now
    BY <1>1, <1>3, ComingIsSound
  <2>2. calling[w] \notin {"idle", "waiting"}
    BY <1>1, <1>3 DEF S!Coming
  <2>3. CASE doing[w] = "scoring"
    BY <1>1, <2>1, <2>2, <2>3, CoordinatedAssumption DEF Work, SharedHit
  <2>4. CASE doing[w] = "inferring"
    BY <1>1, <2>1, <2>2, <2>4, CoordinatedAssumption DEF Work, Answer, AnswerTimes
  <2> QED BY <1>1, <2>3, <2>4
<1> QED BY <1>2, <1>3

\* Every step of the composition is one of the processor, or one it does not see.
LEMMA JointImplements ==
  ASSUME JInv, [JointNext]_jointVars
  PROVE  [Next]_vars
<1>1. CASE Alone
  BY <1>1 DEF Alone, Deliveries, WorkAlone, Next, Work
<1>2. CASE Stop \/ TimePasses
  BY <1>2 DEF Stop, TimePasses, Next
<1>3. ASSUME NEW w \in Workers, Scoring(w) PROVE [Next]_vars
  <2>1. CASE CallScore(w) \/ CallRefused(w) \/ CallInfer(w)
    BY <2>1 DEF CallScore, CallRefused, CallInfer, Next, Work
  <2>2. CASE Loop(w) \/ InferReturns(w)
    BY <2>2 DEF Loop, InferReturns
  <2>3. CASE ScoreReturns(w)
    BY <2>3, ReturnImplements DEF Next
  <2> QED BY <1>3, <2>1, <2>2, <2>3 DEF Scoring
<1>4. ASSUME NEW c \in Others, OtherReplica(c) PROVE [Next]_vars
  BY <1>4 DEF OtherReplica, InferReturns
<1>5. ASSUME NEW r \in requests, Arrives(r) PROVE [Next]_vars
  BY <1>5 DEF Arrives
<1>6. CASE UNCHANGED jointVars
  BY <1>6 DEF jointVars
<1> QED BY <1>1, <1>2, <1>3, <1>4, <1>5, <1>6 DEF JointNext

-----------------------------------------------------------------------------
(* A worker and its client stay together.                                   *)

LEMMA AloneLinks ==
  ASSUME JInv, Alone
  PROVE  Linked'
<1>1. UNCHANGED <<calling, attempt>>
  BY AloneStays DEF namespace
<1>2. ASSUME NEW w \in Workers
      PROVE  \/ doing'[w] = doing[w] /\ job'[w] = job[w]
             \/ {doing[w], doing'[w]} \cap {"scoring", "inferring"} = {}
  <2>1. doing \in [Workers -> Doings] /\ job \in [Workers -> Metrics \cup {NoJob}]
    BY DEF JInv, ShapedType, TypeOK
  <2>2. ASSUME NEW d \in Deliverers, Deliver(d) \/ \E b \in Batches : ConsumeMetrics(d, b)
        PROVE  UNCHANGED <<doing, job>>
    BY <2>2 DEF Deliver, Bypass, CacheHit, CacheMiss, EnqueueRefused, Reserve, SendJob, QueueFull,
                Unmark, Forward, ConsumeMetrics, scoring
  <2>3. ASSUME Start \/ ShutdownReturns \/ Prune PROVE UNCHANGED <<doing, job>>
    BY <2>3 DEF Start, ShutdownReturns, Prune, scoring
  <2>4. ASSUME NEW v \in Workers, WorkAlone(v)
        PROVE  /\ v # w => doing'[w] = doing[w] /\ job'[w] = job[w]
               /\ {doing[v], doing'[v]} \cap {"scoring", "inferring"} = {}
    BY <2>1, <2>4 DEF WorkAlone, TakeJob, Exit, AbandonJob, PassCheck, SkipCooling, RecordSuccess,
                      RecordFailure, LeaveJob, Go
  <2> QED BY <2>2, <2>3, <2>4 DEF Alone, Deliveries
<1>3. calling \in [Clients -> S!Doings]
  BY DEF JInv, S!IInv, S!TypeOK
<1>4. ASSUME NEW w \in Workers, {doing[w], doing'[w]} \cap {"scoring", "inferring"} = {}
      PROVE  calling[w] = "idle"
  BY <1>3, <1>4 DEF JInv, Linked, S!Doings, Clients
<1> QED BY <1>1, <1>2, <1>4 DEF JInv, Linked

\* The step of one worker's call.
LEMMA ScoringLinks ==
  ASSUME JInv, NEW w \in Workers, Scoring(w)
  PROVE  Linked'
<1>1. /\ calling \in [Clients -> S!Doings] /\ w \in Clients
      /\ doing \in [Workers -> Doings] /\ job \in [Workers -> Metrics \cup {NoJob}]
      /\ attempt \in [Clients -> S!Attempt \cup {None}]
  BY DEF JInv, S!IInv, S!TypeOK, Clients, ShapedType, TypeOK
<1>2. ASSUME NEW v \in Workers, v # w
      PROVE  calling'[v] = calling[v] /\ attempt'[v] = attempt[v]
  <2>1. S!Call(w) \/ UNCHANGED <<calling, attempt>>
    BY ScoringCalls, InferReturnsCall, <1>1 DEF JInv, Listens, namespace
  <2> QED BY <1>1, <1>2, <2>1, NamespaceConstants, S!ClientMoves DEF JInv, S!IInv, Clients
<1>3. /\ UNCHANGED job
      /\ \A v \in Workers : v # w => doing'[v] = doing[v]
  BY <1>1 DEF Scoring, CallScore, CallRefused, BeginScoring, Loop, CallInfer, BeginInference,
              InferReturns, ScoreReturns, CoordinationFails, Return, Go, vars, scoring
<1>4. SUFFICES /\ calling'[w] \in {"acquiring", "waiting"} => doing'[w] = "scoring"
               /\ calling'[w] \in {"inferring", "finishing"} => doing'[w] = "inferring"
               /\ calling'[w] = "idle" => doing'[w] # "inferring"
               /\ calling'[w] # "idle" => attempt'[w].key = job[w]
  BY <1>2, <1>3, <1>4 DEF JInv, Linked
<1>5. ASSUME NEW k, S!Ask(w, k) PROVE calling'[w] = "acquiring" /\ attempt'[w].key = k
  BY <1>1, <1>5 DEF S!Ask
<1>6. CASE CallScore(w)
  <2>1. calling'[w] = "acquiring" /\ attempt'[w].key = job[w]
    BY <1>5, <1>6, SameClients DEF CallScore, S!Begin
  <2>2. doing'[w] = "scoring"
    BY <1>1, <1>6 DEF CallScore, BeginScoring, Go
  <2> QED BY <2>1, <2>2
<1>7. CASE CallRefused(w)
  <2>1. doing[w] = "cooldown" /\ doing'[w] = "scoring" /\ UNCHANGED <<calling, attempt>>
    BY <1>1, <1>7 DEF CallRefused, BeginScoring, Go, namespace
  <2>2. calling[w] = "idle"
    BY <1>1, <2>1 DEF JInv, Linked, S!Doings
  <2> QED BY <2>1, <2>2
<1>8. CASE Loop(w)
  <2>1. CASE Shared!Poll(w)
    <3>1. calling[w] = "waiting" /\ calling'[w] = "acquiring" /\ attempt'[w].key = attempt[w].key
      BY <1>5, <2>1, SameClients DEF S!Poll
    <3> QED BY <1>8, <3>1 DEF JInv, Linked, Loop, vars, scoring
  <2>2. CASE Shared!ReceiveWait(w)
    <3>1. S!ReceiveWait(w)
      BY <2>2, SameClients
    <3>2. attempt[w] \in S!Attempt /\ calling[w] = "acquiring" /\ calling'[w] = "waiting"
      BY <1>1, <3>1 DEF S!ReceiveWait, JInv, S!IInv, S!TypeOK
    <3>3. attempt' = [attempt EXCEPT ![w] = S!Forgotten(attempt[w])]
      BY <1>1, <3>1, <3>2, NamespaceConstants, S!WaitForgets DEF JInv, S!IInv
    <3>4. attempt'[w].key = attempt[w].key
      BY <1>1, <3>3 DEF S!Forgotten
    <3> QED BY <1>8, <3>2, <3>3, <3>4 DEF JInv, Linked, Loop, vars, scoring
  <2> QED BY <1>8, <2>1, <2>2 DEF Loop
<1>9. CASE CallInfer(w)
  <2>1. calling[w] = "acquiring" /\ calling'[w] = "inferring" /\ attempt' = attempt
    BY <1>1, <1>9, SameClients DEF CallInfer, S!ReceiveOwner
  <2>2. doing'[w] = "inferring"
    BY <1>1, <1>9 DEF CallInfer, BeginInference, Go
  <2> QED BY <2>1, <2>2 DEF JInv, Linked
<1>10. CASE InferReturns(w)
  <2>1. PICK keep \in Keeps \cup {None} : S!Finish(w, keep)
    BY <1>1, <1>10, InferReturnsCall DEF JInv, Keeps
  <2>2. /\ calling[w] = "inferring"
        /\ attempt' = [attempt EXCEPT ![w] = S!Concluded(attempt[w], S!Kept(S!Outcome(w, keep), keep))]
        /\ calling' = [calling EXCEPT ![w] = "finishing"]
    BY <1>1, <2>1, NamespaceConstants, S!FinishConcludes DEF JInv, S!IInv
  <2>3. calling'[w] = "finishing" /\ attempt'[w].key = attempt[w].key
    BY <1>1, <2>2 DEF S!Concluded
  <2>4. doing' = doing
    BY <1>10 DEF InferReturns, vars, scoring
  <2> QED BY <2>2, <2>3, <2>4 DEF JInv, Linked
<1>11. CASE ScoreReturns(w)
  <2>1. calling'[w] = "idle" /\ doing'[w] = "recording"
    BY <1>1, <1>11, ScoreComesBack DEF Return, Go
  <2> QED BY <2>1
<1> QED BY <1>6, <1>7, <1>8, <1>9, <1>10, <1>11 DEF Scoring

LEMMA NextLinks ==
  ASSUME JInv, [JointNext]_jointVars
  PROVE  Linked'
<1>1. ASSUME \A w \in Workers : /\ calling'[w] = calling[w] /\ doing'[w] = doing[w]
                                /\ job'[w] = job[w]
                                /\ calling[w] # "idle" => attempt'[w].key = attempt[w].key
      PROVE  Linked'
  BY <1>1 DEF JInv, Linked
<1>2. CASE Stop \/ TimePasses \/ UNCHANGED jointVars
  <2>1. UNCHANGED <<calling, attempt, doing, job>>
    BY <1>2, SameClock DEF Stop, Shutdown, TimePasses, Tick, S!Tick, jointVars, vars, namespace, scoring
  <2> QED BY <1>1, <2>1
<1>3. ASSUME NEW c \in Others, OtherReplica(c) PROVE Linked'
  <2>1. c \in Clients /\ c \notin Workers /\ Workers \subseteq Clients
    BY CoordinatedAssumption DEF Clients
  <2>2. S!Call(c) /\ UNCHANGED vars
    BY <1>3, <2>1, OtherCalls, InferReturnsCall DEF JInv, Listens
  <2>3. \A d \in Clients : d # c => attempt'[d] = attempt[d] /\ calling'[d] = calling[d]
    BY <2>1, <2>2, NamespaceConstants, S!ClientMoves DEF JInv, S!IInv
  <2> QED BY <1>1, <2>1, <2>2, <2>3 DEF vars, scoring
<1>4. ASSUME NEW r \in requests, Arrives(r) PROVE Linked'
  <2>1. UNCHANGED vars /\ (S!Execute(r) \/ S!Lose(r))
    BY <1>4, SameScripts DEF Arrives
  <2>2. CASE S!Lose(r)
    BY <1>1, <2>1, <2>2 DEF S!Lose, S!clients, vars, scoring
  <2>3. CASE S!Execute(r)
    <3>1. PICK m \in S!ReplyTo(r) : S!Reaches(r, m)
      BY <2>3, NamespaceConstants, S!ScriptAnswers DEF JInv, S!IInv
    <3>2. \A c \in Clients : attempt'[c] = attempt[c] \/ attempt'[c] = S!Answered(attempt[c], m)
      BY <3>1 DEF S!Reaches
    <3>3. \A c \in Clients : attempt'[c].key = attempt[c].key
      <4>1. \A x : S!Answered(x, m).key = x.key
        BY DEF S!Answered
      <4> QED BY <3>2, <4>1
    <3>4. calling' = calling
      BY <3>1 DEF S!Reaches
    <3> QED BY <1>1, <2>1, <3>3, <3>4 DEF vars, scoring, Clients
  <2> QED BY <2>1, <2>2, <2>3
<1> QED BY <1>2, <1>3, <1>4, AloneLinks, ScoringLinks DEF JointNext

-----------------------------------------------------------------------------
(* What the cache and the workers hold stays sound.                         *)

LEMMA ClockAdvances ==
  ASSUME [Next]_vars
  PROVE  now' = now \/ now' = now + 1
<1>1. ASSUME NEW d \in Deliverers, Deliver(d) \/ \E b \in Batches : ConsumeMetrics(d, b)
      PROVE  now' = now
  BY <1>1 DEF Deliver, Bypass, CacheHit, CacheMiss, EnqueueRefused, Reserve, SendJob, QueueFull,
              Unmark, Forward, ConsumeMetrics
<1>2. ASSUME NEW w \in Workers, Work(w) PROVE now' = now
  BY <1>2 DEF Work, TakeJob, Exit, Admit, AdmissionCancelled, AbandonJob, PassCheck, SkipCooling,
              BeginScoring, BeginInference, Answer, InferenceFails, SharedHit,
              CoordinationFails, RecordSuccess, RecordFailure, Return
<1>3. ASSUME Start \/ Shutdown \/ ShutdownReturns \/ Prune \/ UNCHANGED vars PROVE now' = now
  BY <1>3 DEF Start, Shutdown, ShutdownReturns, Prune, vars
<1> QED BY <1>1, <1>2, <1>3 DEF Next, Tick

\* A sound score stays sound: while it is fresh, nothing replaces the shared one.
LEMMA SoundLasts ==
  ASSUME JInv, [JointNext]_jointVars, NEW m \in Metrics
  PROVE  Sound[m] \subseteq Sound'[m]
<1> SUFFICES ASSUME NEW s \in Sound[m] PROVE s \in Sound'[m]
  OBVIOUS
<1>1. /\ s \in Score /\ S!Said(answers, LongestLease, m, s.keep, s.scoredAt)
      /\ Expired(s, now) \/ SharedAs(m, s)
  BY DEF Sound
<1>2. s.scoredAt \in Int /\ ScoreTTL \in Nat /\ now \in Nat /\ now' \in Nat /\ now <= now'
  BY <1>1, JointImplements, ClockAdvances, CacheAssumption DEF Score, JInv, ShapedType, TypeOK
<1>3. S!Said(answers, LongestLease, m, s.keep, s.scoredAt)'
  <2>1. answers \subseteq answers'
    BY NamespaceKeeps
  <2> PICK L : L = LongestLease
    OBVIOUS
  <2>2. \E a \in answers' : a.metric = m /\ a.keep = s.keep /\ s.scoredAt <= a.at + L
    BY <1>1, <2>1 DEF S!Said
  <2>3. LongestLease' = L
    BY DEF LongestLease
  <2> QED BY <2>2, <2>3 DEF S!Said
<1>4. Expired(s, now)' \/ SharedAs(m, s)'
  <2>1. CASE Expired(s, now)
    BY <1>2, <2>1 DEF Expired
  <2>2. CASE ~Expired(s, now')
    <3>1. SharedAs(m, s) /\ s.scoredAt + ScoreTTL > now'
      BY <1>1, <1>2, <2>2 DEF Expired
    <3>2. score[m] # None /\ score[m].expiry \in Nat
      <4>1. score[m] \in S!Expiring(Keeps) \cup {None}
        BY DEF JInv, S!IInv, S!TypeOK
      <4> QED BY <3>1, <4>1 DEF SharedAs, S!Expiring
    <3>3. score[m].expiry >= now'
      BY <1>2, <3>1, <3>2 DEF SharedAs
    <3>4. score'[m] = score[m]
      <4>1. CASE Stop
        BY <4>1, StopStays DEF JInv
      <4>2. CASE ~Stop
        <5>1. S!IInv /\ [S!Next]_(S!vars)
          BY <4>2, NamespaceSteps DEF JInv
        <5> QED BY <3>2, <3>3, <5>1, NamespaceConstants, S!KeepsShared
      <4> QED BY <4>1, <4>2
    <3> QED BY <3>1, <3>4 DEF SharedAs
  <2> QED BY <1>2, <2>2 DEF Expired
<1> QED BY <1>1, <1>3, <1>4 DEF Sound

LEMMA HoldingMore ==
  ASSUME NEW c, NEW X, NEW Y, Holding(c, X), \A m \in Metrics : X[m] \subseteq Y[m]
  PROVE  Holding(c, Y)
BY DEF Holding

\* No step brings in anything else.
LEMMA NothingElseIsHeld ==
  ASSUME JInv, [JointNext]_jointVars, NEW X, X = Sound
  PROVE  HoldsOnly(X)'
<1>1. /\ HoldsOnly(X)
      /\ doing \in [Workers -> Doings] /\ job \in [Workers -> Metrics \cup {NoJob}]
      /\ result \in [Workers -> Score \cup {NoScore}]
  BY DEF JInv, HoldsSound, ShapedType, TypeOK
<1>2. \A w \in Workers : result[w] # NoScore => doing[w] = "recording"
  BY DEF JInv, ShapedType, Shape
<1>3. ASSUME UNCHANGED <<cache, result, job>> PROVE HoldsOnly(X)'
  BY <1>1, <1>3 DEF HoldsOnly
<1>4. ASSUME NEW d \in Deliverers, Deliver(d) \/ \E b \in Batches : ConsumeMetrics(d, b)
      PROVE  HoldsOnly(X)'
  <2>1. CASE LookingUp(d) /\ UNCHANGED scoring
    <3>1. Current(d) \in Metrics
      BY <2>1, CurrentIsMetric DEF JInv, ShapedType, LookingUp, Inspecting
    <3>2. Holding(cache', X)
      BY <1>1, <2>1, <3>1, GetHolds DEF LookingUp, HoldsOnly
    <3> QED BY <1>1, <2>1, <3>2 DEF HoldsOnly, scoring
  <2>2. CASE CacheHit(d) \/ CacheMiss(d)
    BY <2>1, <2>2 DEF CacheHit, CacheMiss
  <2>3. CASE ~(CacheHit(d) \/ CacheMiss(d))
    <3>1. UNCHANGED <<cache, result, job>>
      BY <1>4, <2>3 DEF Deliver, Bypass, EnqueueRefused, Reserve, SendJob, QueueFull, Unmark,
                        Forward, ConsumeMetrics, shared, scoring
    <3> QED BY <1>3, <3>1
  <2> QED BY <2>2, <2>3
<1>5. ASSUME NEW w \in Workers, WorkAlone(w) PROVE HoldsOnly(X)'
  <2>1. CASE TakeJob(w) \/ Exit(w) \/ AbandonJob(w) \/ PassCheck(w) \/ SkipCooling(w)
    <3>1. /\ UNCHANGED <<cache, result>> /\ doing[w] # "recording"
          /\ \A v \in Workers : v # w => job'[v] = job[v]
      BY <1>1, <2>1 DEF TakeJob, Exit, AbandonJob, PassCheck, SkipCooling, LeaveJob, Go, shared
    <3> QED BY <1>1, <1>2, <3>1 DEF HoldsOnly
  <2>2. CASE RecordFailure(w)
    <3>1. /\ UNCHANGED <<cache, result>> /\ result[w] = NoScore
          /\ \A v \in Workers : v # w => job'[v] = job[v]
      BY <1>1, <2>2 DEF RecordFailure, LeaveJob, Go
    <3> QED BY <1>1, <3>1 DEF HoldsOnly
  <2>3. CASE RecordSuccess(w)
    <3>1. job[w] \in Metrics /\ result[w] \in X[job[w]]
      BY <1>1, <2>3 DEF RecordSuccess, HoldsOnly, JInv, ShapedType, Shape, Busy
    <3>2. cache' = put(cache, job[w], result[w])
      BY <2>3, CoordinatedAssumption DEF RecordSuccess
    <3>3. Holding(cache', X)
      BY <1>1, <3>1, <3>2, PutHolds DEF HoldsOnly
    <3>4. /\ result'[w] = NoScore
          /\ \A v \in Workers : v # w => job'[v] = job[v] /\ result'[v] = result[v]
      BY <1>1, <2>3 DEF RecordSuccess, LeaveJob, Go
    <3> QED BY <1>1, <3>3, <3>4 DEF HoldsOnly
  <2> QED BY <1>5, <2>1, <2>2, <2>3 DEF WorkAlone
<1>6. CASE Prune
  <2>1. Holding(cache', X)
    BY <1>1, <1>6, PruneHolds DEF Prune, HoldsOnly
  <2> QED BY <1>1, <1>6, <2>1 DEF Prune, HoldsOnly, scoring
<1>7. CASE Start \/ ShutdownReturns \/ Stop \/ TimePasses \/ UNCHANGED jointVars
  BY <1>3, <1>7 DEF Start, ShutdownReturns, Stop, Shutdown, TimePasses, Tick, jointVars, vars,
                    shared, scoring
<1>8. ASSUME NEW w \in Workers, Scoring(w) PROVE HoldsOnly(X)'
  <2>1. CASE ScoreReturns(w)
    <3>1. PICK r : /\ Return(w, r)
                   /\ r # NoScore => /\ S!Coming(w) # None
                                     /\ r = [keep |-> S!Coming(w).value,
                                             scoredAt |-> S!Coming(w).scoredAt]
      BY <2>1, ScoreComesBack
    <3>2. r # NoScore => r \in X[job[w]]
      BY <3>1, ComingIsSound
    <3>3. /\ result'[w] = r /\ UNCHANGED <<cache, job>>
          /\ \A v \in Workers : v # w => result'[v] = result[v]
      BY <1>1, <3>1 DEF Return, shared
    <3> QED BY <1>1, <3>2, <3>3 DEF HoldsOnly
  <2>2. CASE ~ScoreReturns(w)
    BY <1>3, <1>8, <2>2 DEF Scoring, CallScore, CallRefused, BeginScoring, Loop, CallInfer,
                            BeginInference, InferReturns, vars, shared, scoring
  <2> QED BY <2>1, <2>2
<1>9. ASSUME NEW c \in Others, OtherReplica(c) PROVE HoldsOnly(X)'
  BY <1>3, <1>9 DEF OtherReplica, InferReturns, vars, shared, scoring
<1>10. ASSUME NEW r \in requests, Arrives(r) PROVE HoldsOnly(X)'
  BY <1>3, <1>10 DEF Arrives, vars, shared, scoring
<1> QED BY <1>4, <1>5, <1>6, <1>7, <1>8, <1>9, <1>10 DEF JointNext, Alone, Deliveries

LEMMA NextHoldsSound ==
  ASSUME JInv, [JointNext]_jointVars
  PROVE  HoldsSound'
<1> PICK X, Y : X = Sound /\ Y = Sound'
  OBVIOUS
<1>1. HoldsOnly(X)'
  BY NothingElseIsHeld
<1>2. \A m \in Metrics : X[m] \subseteq Y[m]
  BY SoundLasts
<1>3. Holding(cache', Y)
  BY <1>1, <1>2, HoldingMore DEF HoldsOnly
<1>4. ASSUME NEW w \in Workers, result'[w] # NoScore PROVE result'[w] \in Y[job'[w]]
  <2>1. ShapedType'
    BY JointImplements, NextShaped DEF JInv
  <2>2. job'[w] \in Metrics
    BY <1>4, <2>1 DEF ShapedType, Shape, Busy
  <2> QED BY <1>1, <1>2, <1>4, <2>2 DEF HoldsOnly
<1>5. HoldsOnly(Y)'
  BY <1>3, <1>4 DEF HoldsOnly
<1> QED BY <1>5 DEF HoldsSound, HoldsOnly

-----------------------------------------------------------------------------
(* What is dropped rests on a recent answer.                                *)

\* Verdicts stay supported: answers are not forgotten.
LEMMA SupportedStay ==
  ASSUME JInv, answers \subseteq answers',
         \A d \in Deliverers : removed'[d] = {} \/ (removed'[d] = removed[d] /\ began'[d] = began[d])
  PROVE  DropsRestOnRecentAnswers'
<1>1. LongestLease' = LongestLease
  BY DEF LongestLease
<1> QED BY <1>1 DEF JInv, DropsRestOnRecentAnswers

LEMMA HitRests ==
  ASSUME JInv, NEW d \in Deliverers, CacheHit(d), UNCHANGED answers
  PROVE  DropsRestOnRecentAnswers'
<1> DEFINE m == Current(d)
           s == Lookup(d)
           v == [metric |-> m, score |-> s]
<1>1. m \in Metrics /\ s # NoScore /\ Settle(d, s)
  BY CurrentIsMetric DEF CacheHit, LookingUp, Inspecting, JInv, ShapedType
<1> PICK X : X = Sound
  OBVIOUS
<1>2. s \in Sound[m] /\ ~Expired(s, began[d])
  <2>1. Holding(cache, X)
    BY DEF JInv, HoldsSound, HoldsOnly
  <2> QED BY <1>1, <2>1, GetHolds DEF Lookup
<1>3. s \in Score /\ S!Said(answers, LongestLease, m, s.keep, s.scoredAt)
  BY <1>1, <1>2 DEF Sound
<1>4. PICK a \in answers : a.metric = m /\ a.keep = s.keep /\ s.scoredAt <= a.at + LongestLease
  BY <1>3 DEF S!Said
<1>5. began[d] < a.at + ScoreTTL + LongestLease
  <2>1. /\ began[d] \in Nat /\ a.at \in Nat /\ LongestLease \in Nat /\ ScoreTTL \in Nat
        /\ s.scoredAt \in Int
    BY <1>3, LeaseIsBounded, CacheAssumption
       DEF S!Longest, JInv, ShapedType, TypeOK, AnswersTyped, Score
  <2>2. began[d] - s.scoredAt < ScoreTTL
    BY <1>2, <2>1 DEF Expired
  <2> HIDE DEF s
  <2> QED BY <1>4, <2>1, <2>2
<1>6. v.metric = m /\ v.score = s
  OBVIOUS
<1>7. /\ removed' = removed \/ removed' = [removed EXCEPT ![d] = removed[d] \cup {v}]
      /\ began' = began
  BY <1>1 DEF Settle
<1>8. LongestLease' = LongestLease
  BY DEF LongestLease
<1> HIDE DEF v, s, m
<1>9. ASSUME NEW e \in Deliverers, NEW x \in removed'[e]
      PROVE  \E b \in answers : /\ b.metric = x.metric /\ b.keep = x.score.keep
                                /\ began'[e] < b.at + ScoreTTL + LongestLease
  <2>1. CASE x \in removed[e]
    BY <1>7, <2>1 DEF JInv, DropsRestOnRecentAnswers
  <2>2. CASE x \notin removed[e]
    <3>1. e = d /\ x = v
      BY <1>7, <2>2 DEF JInv, ShapedType, TypeOK
    <3> QED BY <1>4, <1>5, <1>6, <1>7, <3>1
  <2> QED BY <2>1, <2>2
<1> QED BY <1>8, <1>9 DEF DropsRestOnRecentAnswers

LEMMA NextRests ==
  ASSUME JInv, [JointNext]_jointVars
  PROVE  DropsRestOnRecentAnswers'
<1>1. answers \subseteq answers'
  BY NamespaceKeeps
<1>2. /\ stage \in [Deliverers -> Stages] /\ removed \in [Deliverers -> SUBSET Verdict]
      /\ began \in [Deliverers -> Nat]
  BY DEF JInv, ShapedType, TypeOK
<1>3. ASSUME NEW d \in Deliverers, NEW b \in Batches, ConsumeMetrics(d, b)
      PROVE  DropsRestOnRecentAnswers'
  <2>1. removed[d] = {} /\ UNCHANGED removed /\ \A e \in Deliverers : e # d => began'[e] = began[e]
    BY <1>2, <1>3 DEF ConsumeMetrics, JInv, Justified
  <2> QED BY <1>1, <2>1, SupportedStay
<1>4. ASSUME NEW d \in Deliverers, Bypass(d) \/ EnqueueRefused(d) \/ SendJob(d) \/ Unmark(d)
      PROVE  DropsRestOnRecentAnswers'
  <2>1. Settle(d, NoScore)
    BY <1>4 DEF Bypass, EnqueueRefused, SendJob, Unmark
  <2> QED BY <1>1, <2>1, NoScoreNoVerdict, SupportedStay
<1>5. ASSUME NEW d \in Deliverers, CacheMiss(d) \/ Reserve(d) \/ QueueFull(d)
      PROVE  DropsRestOnRecentAnswers'
  BY <1>1, <1>5, SupportedStay DEF CacheMiss, Reserve, QueueFull
<1>6. ASSUME NEW d \in Deliverers, Forward(d) PROVE DropsRestOnRecentAnswers'
  <2>1. \A e \in Deliverers : \/ removed'[e] = {}
                              \/ removed'[e] = removed[e] /\ began'[e] = began[e]
    BY <1>2, <1>6 DEF Forward
  <2> QED BY <1>1, <2>1, SupportedStay
<1>7. ASSUME NEW d \in Deliverers, CacheHit(d), UNCHANGED answers PROVE DropsRestOnRecentAnswers'
  BY <1>7, HitRests
<1>8. ASSUME UNCHANGED delivery PROVE DropsRestOnRecentAnswers'
  BY <1>1, <1>8, SupportedStay DEF delivery
<1>9. CASE Deliveries /\ UNCHANGED answers
  BY <1>3, <1>4, <1>5, <1>6, <1>7, <1>9 DEF Deliveries, Deliver
<1>10. ASSUME NEW w \in Workers, WorkAlone(w) PROVE UNCHANGED delivery
  BY <1>10 DEF WorkAlone, TakeJob, Exit, AbandonJob, PassCheck, SkipCooling, RecordSuccess, RecordFailure
<1>11. ASSUME Start \/ ShutdownReturns \/ Prune \/ Stop \/ TimePasses \/ UNCHANGED jointVars
       PROVE  UNCHANGED delivery
  BY <1>11 DEF Start, ShutdownReturns, Prune, Stop, Shutdown, TimePasses, Tick, jointVars, vars
<1>12. ASSUME NEW w \in Workers, Scoring(w) PROVE UNCHANGED delivery
  BY <1>12 DEF Scoring, CallScore, CallRefused, BeginScoring, Loop, CallInfer, BeginInference,
               InferReturns, ScoreReturns, CoordinationFails, Return, vars
<1>13. ASSUME NEW c \in Others, OtherReplica(c) PROVE UNCHANGED delivery
  BY <1>13 DEF OtherReplica, InferReturns, vars
<1>14. ASSUME NEW r \in requests, Arrives(r) PROVE UNCHANGED delivery
  BY <1>14 DEF Arrives, vars
<1> QED BY <1>8, <1>9, <1>10, <1>11, <1>12, <1>13, <1>14 DEF JointNext, Alone

-----------------------------------------------------------------------------
(* The invariant of the composition holds, and with it what it is for.      *)

LEMMA InitJoint == JointInit => JInv
<1> SUFFICES ASSUME JointInit PROVE JInv
  OBVIOUS
<1>1. Init /\ S!Init /\ answers = {}
  BY SameStart DEF JointInit
<1>2. S!IInv
  BY <1>1, NamespaceConstants, S!InitIInv
<1>3. S!Grounded({}, LongestLease)
  <2> PICK L : L = LongestLease
    OBVIOUS
  <2>1. S!Grounded({}, L)
    BY <1>1, NamespaceConstants, S!InitGrounded
  <2> QED BY <2>1
<1>4. ShapedType /\ Justified
  BY <1>1, InitShaped DEF Init, Justified, DropsAreJustified
<1>5. Linked
  BY <1>1 DEF Init, S!Init, Linked, Clients
<1>6. HoldsSound /\ DropsRestOnRecentAnswers
  <2> PICK X : X = Sound
    OBVIOUS
  <2>1. Holding(cache, X)
    BY <1>1 DEF Init, newScoreCache, Holding
  <2> QED BY <1>1, <2>1 DEF Init, HoldsSound, HoldsOnly, DropsRestOnRecentAnswers
<1> QED BY <1>1, <1>2, <1>3, <1>4, <1>5, <1>6 DEF JInv, AnswersTyped

LEMMA NextJoint ==
  ASSUME JInv, [JointNext]_jointVars
  PROVE  JInv'
<1>1. [Next]_vars
  BY JointImplements
<1>2. ShapedType' /\ Justified'
  BY <1>1, NextShaped, NextJustifies DEF JInv
<1> QED BY <1>2, NamespaceKeeps, NextLinks, NextHoldsSound, NextRests DEF JInv

LEMMA JointInvariance == JointSpec => []JInv
<1> QED BY InitJoint, NextJoint, PTL DEF JointSpec

\* A processor in a cluster behaves as MetricsProcessor says, step by step: whatever
\* is lost, delayed or crashes between its workers and Redis, a call of score returns
\* what Jev may have answered about that metric, dated in the past, or an error.
THEOREM ImplementsTheProcessor == JointSpec => ImplementsProcessor
<1>1. JointInit => Init
  BY DEF JointInit
<1>2. JInv /\ [JointNext]_jointVars => [Next]_vars
  BY JointImplements
<1> QED BY <1>1, <1>2, JointInvariance, PTL DEF JointSpec, ImplementsProcessor, Spec

\* A fresh entry of a replica's cache is the assessment the namespace shares, and
\* lives no longer than that, also after the worker has recorded it.
THEOREM CacheOfTheNamespace == JointSpec => []CacheIsShared
<1>1. JInv => CacheIsShared
  <2> SUFFICES ASSUME JInv, NEW m \in DOMAIN cache.entries, ~Expired(Entry(m), now)
               PROVE  SharedAs(m, Entry(m))
    BY DEF CacheIsShared, SharedAs
  <2> PICK X : X = Sound
    OBVIOUS
  <2>1. m \in Metrics /\ Entry(m) \in X[m]
    BY DEF JInv, HoldsSound, HoldsOnly, Holding, Entry
  <2> QED BY <2>1 DEF Sound
<1> QED BY <1>1, JointInvariance, PTL

\* End to end: what a replica drops was said by Jev, about that metric and to some
\* replica, no longer ago than a lifetime and a lease when the batch arrived.
THEOREM RecentAnswers == JointSpec => []DropsRestOnRecentAnswers
<1>1. JInv => DropsRestOnRecentAnswers
  BY DEF JInv
<1> QED BY <1>1, JointInvariance, PTL

\* What is proved of one processor holds of one in a cluster.
THEOREM ClusteredFailOpen == JointSpec => [](DropsAreJustified /\ ReservationsMatchJobs)
<1> QED BY ImplementsTheProcessor, FailOpen, Reservations, PTL DEF ImplementsProcessor
=============================================================================
