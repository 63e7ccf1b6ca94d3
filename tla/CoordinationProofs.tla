------------------------- MODULE CoordinationProofs -------------------------
(***************************************************************************)
(* Theorems about Coordination, for any number of replicas, keys, tokens,  *)
(* assessments and faults, and for any budgets, leases and lifetimes: its  *)
(* safety properties, that it implements the contract of LeasedAssessment, *)
(* and what holds besides if every client meets its deadlines.             *)
(***************************************************************************)
EXTENDS Coordination, FiniteSetTheorems, TLAPS

-----------------------------------------------------------------------------
(* The inductive invariant, in parts.                                       *)

Active(c) == attempt[c] # None
Held(k)   == lease[k] # None

\* Beyond the types: what a request says and where an attempt stands.
Consistent(c) ==
  /\ doing[c] # "waiting" => attempt[c].token # None
  /\ attempt[c].started <= now
  /\ doing[c] = "inferring" => attempt[c].reply # None
  /\ doing[c] = "finishing" => /\ attempt[c].publishedAt # None
                               /\ attempt[c].publishedAt \in attempt[c].started .. now

Shape ==
  /\ IsFiniteSet(inflight)
  /\ \A r \in requests : r.op = "finish" /\ r.outcome = "success" => r.value # None
  /\ \A c \in Clients : Active(c) => Consistent(c)

\* The attempt whose call r is, if its client still waits for it.
Answers(c, r) ==
  /\ c = r.client /\ attempt[c].key = r.key
  /\ attempt[c].reply = None
  /\ doing[c] = IF r.op = "acquire" THEN "acquiring" ELSE "finishing"
  /\ r.op = "finish" /\ attempt[c].answer # None =>
       r.outcome = "success" /\ r.value = attempt[c].answer

\* A token is one attempt's, one call's and one lease's, all for the same key; and no
\* lease carries the token of a call that still asks for one.
TokensApart ==
  /\ \A r, q \in requests : r.token = q.token => r = q
  /\ \A c, d \in Clients :
       Active(c) /\ Active(d) /\ attempt[c].token # None /\ attempt[c].token = attempt[d].token => c = d
  /\ \A j, k \in Keys : Held(j) /\ Held(k) /\ lease[j].token = lease[k].token => j = k
  /\ \A c \in Clients, r \in requests : Active(c) /\ attempt[c].token = r.token => Answers(c, r)
  /\ \A k \in Keys, r \in requests :
       Held(k) /\ lease[k].token = r.token => r.op = "finish" /\ r.key = k
  /\ \A k \in Keys, c \in Clients :
       Held(k) /\ Active(c) /\ lease[k].token = attempt[c].token => attempt[c].key = k

\* A leased key has no assessment, and the settings outlive its lease; the leases in
\* force have their places and are within the budget.
LeasesInBudget ==
  /\ \A k \in Keys : Held(k) =>
       /\ score[k] = None
       /\ settings # None
       /\ lease[k].expiry <= settings.expiry
       /\ lease[k].expiry <= now + settings.value.leaseTTL
  /\ \A k \in Leased : lease[k] \in inflight
  /\ Leased # {} => Cardinality(Leased) <= settings.value.maxInFlight

\* The namespace shares the assessment a of k, at least as long as a is fresh.
IsShared(k, a) ==
  /\ score[k] # None
  /\ score[k].value = a.value
  /\ a.scoredAt + ScoreTTL <= score[k].expiry

\* The assessment a reply is about to make the caller hold.
Coming(c) ==
  IF doing[c] = "acquiring" /\ Got(c, "hit") THEN Decode(attempt[c])
  ELSE IF doing[c] = "finishing" THEN Verdict(c) ELSE None

\* What a replica holds or is about to hold is shared for as long as it is fresh.
OnlySharedIsFresh ==
  /\ \A c \in Clients, k \in Keys : Fresh(c, k) => IsShared(k, copy[c][k])
  /\ \A c \in Clients : FreshAt(Coming(c), now) => IsShared(attempt[c].key, Coming(c))

IInv == TypeOK /\ Shape /\ TokensApart /\ LeasesInBudget /\ OnlySharedIsFresh

\* The client has been granted its lease, and nobody has taken it away.
Granted(c) ==
  \/ doing[c] = "acquiring" /\ Got(c, "owner")
  \/ doing[c] = "inferring"
  \/ doing[c] = "finishing" /\ attempt[c].reply = None

Owns(c) ==
  /\ Held(attempt[c].key)
  /\ lease[attempt[c].key].token = attempt[c].token
  /\ lease[attempt[c].key].expiry >= attempt[c].started + SettingsOf[c].leaseTTL
  /\ settings.value = SettingsOf[c]

Timely(c) ==
  /\ doing[c] = "acquiring" => now <= attempt[c].started + Timeout
  /\ doing[c] = "inferring" => now <= Deadline(c)
  /\ doing[c] = "finishing" => /\ attempt[c].publishedAt <= Deadline(c)
                               /\ now <= attempt[c].publishedAt + Timeout

\* Where clients meet their deadlines, what is granted is owned until it is handed in.
PromptAt(c) ==
  /\ Timely(c)
  /\ Granted(c) => Owns(c)
  /\ doing[c] = "finishing" => ~Got(c, "rejected")

Prompt == \A c \in Clients : PromptAt(c)

-----------------------------------------------------------------------------
(* What the steps do to attempts, calls and copies.                         *)

\* The attempt with a new reply; with the result infer returned; and for another poll.
Answered(x, m) ==
  [key |-> x.key, token |-> x.token, started |-> x.started, reply |-> m,
   answer |-> x.answer, publishedAt |-> x.publishedAt]

Concluded(x, a) ==
  [key |-> x.key, token |-> x.token, started |-> x.started, reply |-> None,
   answer |-> a, publishedAt |-> now]

Forgotten(x) ==
  [key |-> x.key, token |-> None, started |-> 0, reply |-> None,
   answer |-> x.answer, publishedAt |-> x.publishedAt]

LEMMA AttemptFields ==
  ASSUME NEW x \in Attempt
  PROVE  x = Answered(x, x.reply)
BY DEF Attempt, Answered

LEMMA ReplyField ==
  ASSUME NEW x, x = Answered(x, x.reply), NEW m
  PROVE  [x EXCEPT !.reply = m] = Answered(x, m)
BY DEF Answered

LEMMA RepliesAreTyped ==
  ASSUME NEW x \in Attempt, NEW m \in ReplyMsg \cup {None}
  PROVE  Answered(x, m) \in Attempt
<1> DEFINE replies == ReplyMsg \cup {None}
<1>1. m \in replies
  OBVIOUS
<1>2. Attempt = [key : Keys, token : Tokens \cup {None}, started : Nat, reply : replies,
                 answer : Values \cup {None}, publishedAt : Nat \cup {None}]
  BY DEF Attempt
<1> HIDE DEF replies
<1> QED BY <1>1, <1>2 DEF Answered

LEMMA AnsweredAttempt ==
  ASSUME NEW x \in Attempt, NEW m \in ReplyMsg
  PROVE  /\ [x EXCEPT !.reply = m] = Answered(x, m)
         /\ Answered(x, m) \in Attempt
         /\ Answered(x, m) # None
BY AttemptFields, ReplyField, RepliesAreTyped, NoneAssumption

LEMMA ConcludedAttempt ==
  ASSUME NEW x \in Attempt, NEW a \in Values \cup {None}, now \in Nat
  PROVE  /\ [x EXCEPT !.answer = a, !.publishedAt = now, !.reply = None] = Concluded(x, a)
         /\ Concluded(x, a) \in Attempt
         /\ Concluded(x, a) # None
<1> DEFINE y == [key |-> x.key, token |-> x.token, started |-> x.started, reply |-> x.reply,
                 answer |-> a, publishedAt |-> x.publishedAt]
           z == [key |-> x.key, token |-> x.token, started |-> x.started, reply |-> x.reply,
                 answer |-> a, publishedAt |-> now]
<1>1. [x EXCEPT !.answer = a] = y
  BY AttemptFields DEF Answered
<1>2. [y EXCEPT !.publishedAt = now] = z
  OBVIOUS
<1>3. [z EXCEPT !.reply = None] = Concluded(x, a)
  BY DEF Concluded
<1>4. Concluded(x, a) \in Attempt
  BY DEF Concluded, Attempt
<1> HIDE DEF y, z
<1> QED BY <1>1, <1>2, <1>3, <1>4, NoneAssumption

LEMMA ForgottenAttempt ==
  ASSUME NEW x \in Attempt
  PROVE  /\ [x EXCEPT !.token = None, !.started = 0, !.reply = None] = Forgotten(x)
         /\ Forgotten(x) \in Attempt
         /\ Forgotten(x) # None
<1> DEFINE y == [key |-> x.key, token |-> None, started |-> x.started, reply |-> x.reply,
                 answer |-> x.answer, publishedAt |-> x.publishedAt]
           z == [key |-> x.key, token |-> None, started |-> 0, reply |-> x.reply,
                 answer |-> x.answer, publishedAt |-> x.publishedAt]
<1>1. [x EXCEPT !.token = None] = y
  BY AttemptFields DEF Answered
<1>2. [y EXCEPT !.started = 0] = z
  OBVIOUS
<1>3. [z EXCEPT !.reply = None] = Forgotten(x)
  BY DEF Forgotten
<1>4. Forgotten(x) \in Attempt
  BY DEF Forgotten, Attempt
<1> HIDE DEF y, z
<1> QED BY <1>1, <1>2, <1>3, <1>4, NoneAssumption

\* An answer of Redis reaches the attempt that waits for it, and changes nothing else.
LEMMA ReplyReaches ==
  ASSUME TypeOK, NEW r \in requests, NEW m \in ReplyMsg, Reply(r, m)
  PROVE  /\ requests' = requests \ {r}
         /\ UNCHANGED <<now, doing, cancelled, copy, faults>>
         /\ attempt' \in [Clients -> Attempt \cup {None}]
         /\ \A c \in Clients :
              \/ attempt'[c] = attempt[c] /\ ~(c = r.client /\ Awaits(c, r))
              \/ /\ c = r.client /\ Awaits(c, r) /\ Active(c)
                 /\ attempt'[c] = Answered(attempt[c], m)
<1>1. r.client \in Clients
  BY DEF TypeOK, Request
<1>2. ASSUME Awaits(r.client, r)
      PROVE  attempt[r.client] \in Attempt
  BY <1>1, <1>2 DEF Awaits, TypeOK
<1>3. CASE Awaits(r.client, r)
  <2>1. /\ [attempt EXCEPT ![r.client].reply = m]
           = [attempt EXCEPT ![r.client] = Answered(attempt[r.client], m)]
        /\ Answered(attempt[r.client], m) \in Attempt
    BY <1>2, <1>3, AnsweredAttempt
  <2> QED BY <1>1, <1>2, <1>3, <2>1, NoneAssumption DEF Reply, TypeOK, Active
<1>4. CASE ~Awaits(r.client, r)
  BY <1>1, <1>4 DEF Reply, TypeOK
<1> QED BY <1>3, <1>4

\* A call to score ends.
LEMMA ReturnEnds ==
  ASSUME TypeOK, NEW c \in Clients, Active(c), NEW found \in Copy \cup {None}, ReturnScore(c, found)
  PROVE  /\ UNCHANGED <<now, redis, requests, cancelled>>
         /\ doing' \in [Clients -> Doings] /\ doing'[c] = "idle"
         /\ attempt' \in [Clients -> Attempt \cup {None}] /\ attempt'[c] = None
         /\ copy' \in [Clients -> [Keys -> Copy \cup {None}]]
         /\ \A d \in Clients : d # c => doing'[d] = doing[d] /\ attempt'[d] = attempt[d]
         /\ \A d \in Clients, k \in Keys :
              copy'[d][k] = IF found # None /\ d = c /\ k = attempt[c].key THEN found ELSE copy[d][k]
<1>1. attempt[c] \in Attempt /\ attempt[c].key \in Keys
  BY DEF TypeOK, Active, Attempt
<1> QED BY <1>1 DEF ReturnScore, TypeOK, Doings

\* A call to score goes on.
LEMMA AttemptMoves ==
  ASSUME TypeOK, NEW c \in Clients, NEW x \in Attempt, NEW where \in Doings \ {"idle"},
         attempt' = [attempt EXCEPT ![c] = x], doing' = [doing EXCEPT ![c] = where]
  PROVE  /\ attempt' \in [Clients -> Attempt \cup {None}]
         /\ doing' \in [Clients -> Doings]
         /\ \A d \in Clients : doing'[d] = "idle" <=> attempt'[d] = None
         /\ attempt'[c] = x /\ doing'[c] = where
         /\ \A d \in Clients : d # c => attempt'[d] = attempt[d] /\ doing'[d] = doing[d]
<1>1. x # None
  BY NoneAssumption
<1> QED BY <1>1 DEF TypeOK

\* What a reply can make the caller hold is an assessment.
LEMMA HitIsCopy ==
  ASSUME TypeOK, NEW c \in Clients, Got(c, "hit")
  PROVE  Decode(attempt[c]) \in Copy \cup {None}
<1>1. attempt[c] \in Attempt /\ attempt[c].reply \in ReplyMsg /\ attempt[c].reply.kind = "hit"
  BY DEF Got, TypeOK, Attempt
<1>2. attempt[c].reply.value \in Values /\ attempt[c].reply.remaining \in Int
  BY <1>1 DEF ReplyMsg
<1> QED BY <1>1, <1>2, CoordinationAssumption DEF Decode, Copy, Attempt

LEMMA VerdictIsCopy ==
  ASSUME TypeOK, Shape, NEW c \in Clients, doing[c] = "finishing"
  PROVE  Verdict(c) \in Copy \cup {None}
<1>1. Active(c) /\ attempt[c] \in Attempt
  BY DEF TypeOK, Active
<1>2. attempt[c].publishedAt # None
  BY <1>1 DEF Shape, Consistent
<1> QED BY <1>1, <1>2 DEF Verdict, Copy, Attempt

LEMMA WaitForgets ==
  ASSUME TypeOK, NEW c \in Clients, ReceiveWait(c)
  PROVE  /\ attempt[c] \in Attempt
         /\ attempt' = [attempt EXCEPT ![c] = Forgotten(attempt[c])]
         /\ doing' = [doing EXCEPT ![c] = "waiting"]
         /\ UNCHANGED <<now, redis, requests, cancelled, copy, faults>>
<1>1. attempt[c] \in Attempt
  BY DEF ReceiveWait, TypeOK
<1>2. attempt' = [attempt EXCEPT ![c] = [attempt[c] EXCEPT !.token = None, !.started = 0,
                                                          !.reply = None]]
  BY DEF ReceiveWait
<1>3. attempt' = [attempt EXCEPT ![c] = Forgotten(attempt[c])]
  BY <1>1, <1>2, ForgottenAttempt
<1> QED BY <1>1, <1>3 DEF ReceiveWait

FinishCall(c, outcome, answer) ==
  [op |-> "finish", client |-> c, key |-> attempt[c].key, token |-> attempt[c].token,
   outcome |-> outcome, value |-> answer]

Outcome(c, answer) ==
  IF cancelled[c] THEN "cancel" ELSE IF answer = None THEN "failure" ELSE "success"

Kept(outcome, answer) == IF outcome = "success" THEN answer ELSE None

LEMMA FinishConcludes ==
  ASSUME TypeOK, Shape, NEW c \in Clients, NEW answer \in Values \cup {None}, Finish(c, answer)
  PROVE  LET outcome == Outcome(c, answer)
         IN  /\ doing[c] = "inferring" /\ Active(c) /\ attempt[c] \in Attempt
             /\ outcome \in {"success", "failure", "cancel"}
             /\ outcome = "success" => answer # None
             /\ FinishCall(c, outcome, answer) \in Request
             /\ requests' = requests \cup {FinishCall(c, outcome, answer)}
             /\ attempt' = [attempt EXCEPT ![c] = Concluded(attempt[c], Kept(outcome, answer))]
             /\ doing' = [doing EXCEPT ![c] = "finishing"]
             /\ UNCHANGED <<now, redis, cancelled, copy, faults>>
<1>1. /\ doing[c] = "inferring" /\ Active(c) /\ attempt[c] \in Attempt
      /\ attempt[c].key \in Keys /\ attempt[c].token \in Tokens
  BY DEF Finish, TypeOK, Attempt, Shape, Consistent, Active
<1> DEFINE outcome == Outcome(c, answer)
           a == IF cancelled[c] THEN None ELSE answer
<1>2. outcome \in {"success", "failure", "cancel"} /\ (outcome = "success" => answer # None)
  BY DEF Outcome
<1>3. FinishCall(c, outcome, answer) \in Request
  BY <1>1, <1>2 DEF FinishCall, Request
<1>4. requests' = requests \cup {FinishCall(c, outcome, answer)}
  BY DEF Finish, Send, FinishCall, Outcome
<1>5. attempt' = [attempt EXCEPT ![c] = [attempt[c] EXCEPT !.answer = a, !.publishedAt = now,
                                                          !.reply = None]]
  BY DEF Finish
<1>6. a \in Values \cup {None} /\ a = Kept(outcome, answer) /\ now \in Nat
  BY DEF TypeOK, Kept, Outcome
<1> HIDE DEF a
<1>7. attempt' = [attempt EXCEPT ![c] = Concluded(attempt[c], a)]
  BY <1>1, <1>5, <1>6, ConcludedAttempt
<1>8. doing' = [doing EXCEPT ![c] = "finishing"] /\ UNCHANGED <<now, redis, cancelled, copy, faults>>
  BY DEF Finish
<1> HIDE DEF outcome
<1> QED BY <1>1, <1>2, <1>3, <1>4, <1>6, <1>7, <1>8 DEF outcome

\* What AcquireOwner grants.
Grant(r) == [token |-> r.token, expiry |-> now + SettingsOf[r.client].leaseTTL]

LEMMA OwnerIsGranted ==
  ASSUME NEW r \in requests, AcquireOwner(r)
  PROVE  /\ lease' = [lease EXCEPT ![r.key] = Grant(r)]
         /\ inflight' = LiveSlots \cup {Grant(r)}
         /\ admitted' = admitted + 1
         /\ RefreshSettings(r) /\ Reply(r, [kind |-> "owner"])
         /\ UNCHANGED <<score, cooldown, streak>>
BY DEF AcquireOwner, Grant

-----------------------------------------------------------------------------
(* Typing.                                                                  *)

LEMMA InitTyped == Init => TypeOK
BY CoordinationAssumption DEF Init, TypeOK, Doings

\* What a script writes has its type.
LEMMA ExecuteTyped ==
  ASSUME TypeOK, Shape, NEW r \in requests, Execute(r)
  PROVE  TypeOK'
<1> USE CoordinationAssumption, NoneAssumption
<1>1. r \in Request /\ r.client \in Clients /\ r.key \in Keys /\ r.token \in Tokens
      /\ r.value \in Values \cup {None} /\ SettingsOf[r.client].leaseTTL \in Nat
  BY DEF TypeOK, Request
<1>2. ASSUME NEW m \in ReplyMsg, Reply(r, m)
      PROVE  /\ now' \in Nat /\ faults' \in Nat /\ requests' \subseteq Request
             /\ doing' \in [Clients -> Doings] /\ attempt' \in [Clients -> Attempt \cup {None}]
             /\ \A c \in Clients : doing'[c] = "idle" <=> attempt'[c] = None
             /\ cancelled' \in [Clients -> BOOLEAN]
             /\ copy' \in [Clients -> [Keys -> Copy \cup {None}]]
  <2>1. \A c \in Clients : attempt'[c] = None <=> attempt[c] = None
    BY <1>2, ReplyReaches, AnsweredAttempt DEF TypeOK, Active
  <2> QED BY <1>2, <2>1, ReplyReaches DEF TypeOK
<1>3. RefreshSettings(r) => settings' \in Expiring(Setting) \cup {None}
  BY <1>1 DEF RefreshSettings, Expiring, Setting, TypeOK
<1>4. CASE AcquireMismatch(r)
  <2>1. [kind |-> "mismatch"] \in ReplyMsg
    BY DEF ReplyMsg
  <2> QED BY <1>4, <1>2, <2>1 DEF AcquireMismatch, redis, TypeOK
<1>5. CASE AcquireHit(r)
  <2> DEFINE m == [kind |-> "hit", value |-> score[r.key].value,
                   remaining |-> score[r.key].expiry - now]
  <2>1. score[r.key].value \in Values /\ score[r.key].expiry \in Nat
    BY <1>1, <1>5 DEF AcquireHit, TypeOK, Expiring
  <2>2. m \in ReplyMsg
    BY <2>1 DEF ReplyMsg, TypeOK
  <2>3. Reply(r, m) /\ RefreshSettings(r) /\ UNCHANGED <<score, lease, inflight, admitted, cooldown, streak>>
    BY <1>5 DEF AcquireHit
  <2> HIDE DEF m
  <2> QED BY <1>2, <1>3, <2>2, <2>3 DEF TypeOK
<1>6. CASE AcquireWait(r)
  <2>1. [kind |-> "wait"] \in ReplyMsg
    BY DEF ReplyMsg
  <2> QED BY <1>6, <1>2, <1>3, <2>1 DEF AcquireWait, LiveSlots, TypeOK
<1>7. CASE AcquireOwner(r)
  <2>1. [kind |-> "owner"] \in ReplyMsg
    BY DEF ReplyMsg
  <2>2. Grant(r) \in Slot
    BY <1>1 DEF Grant, Slot, TypeOK
  <2>3. lease' \in [Keys -> Slot \cup {None}] /\ inflight' \subseteq Slot /\ admitted' \in Nat
    BY <1>7, <2>2, OwnerIsGranted DEF LiveSlots, TypeOK
  <2> QED BY <1>7, <1>2, <1>3, <2>1, <2>3 DEF AcquireOwner, TypeOK
<1>8. CASE FinishFenced(r)
  <2>1. [kind |-> "rejected"] \in ReplyMsg
    BY DEF ReplyMsg
  <2> QED BY <1>8, <1>2, <2>1 DEF FinishFenced, FreeSlot, TypeOK
<1>9. CASE FinishOwned(r)
  <2>1. [kind |-> "accepted"] \in ReplyMsg
    BY DEF ReplyMsg
  <2>2. /\ lease' \in [Keys -> Slot \cup {None}] /\ inflight' \subseteq Slot
        /\ UNCHANGED <<admitted, settings>>
    BY <1>9 DEF FinishOwned, FreeSlot, TypeOK
  <2>3. r.op = "finish" /\ Conclude(r)
    BY <1>9 DEF FinishOwned, Finishes
  <2>4. CASE r.outcome = "success" /\ Share(r) /\ cooldown' = None /\ streak' = None
    <3>1. [value |-> r.value, expiry |-> now + ScoreTTL] \in Expiring(Values)
      BY <1>1, <2>3, <2>4 DEF Shape, Expiring, TypeOK
    <3>2. score' \in [Keys -> Expiring(Values) \cup {None}]
      BY <2>4, <3>1 DEF Share, TypeOK
    <3> QED BY <1>9, <1>2, <2>1, <2>2, <2>4, <3>2 DEF FinishOwned, TypeOK
  <2>5. CASE CoolDown /\ UNCHANGED score
    <3>1. Smaller(Failures + 1, FailureCap) \in 1 .. FailureCap
      BY DEF Smaller, Failures, TypeOK, Streak
    <3>2. streak' \in Streak /\ cooldown' \in Nat
      BY <2>5, <3>1, CooldownAssumption DEF CoolDown, Streak, TypeOK
    <3> QED BY <1>9, <1>2, <2>1, <2>2, <2>5, <3>2 DEF FinishOwned, TypeOK
  <2>6. CASE UNCHANGED <<score, cooldown, streak>>
    BY <1>9, <1>2, <2>1, <2>2, <2>6 DEF FinishOwned, TypeOK
  <2> QED BY <2>3, <2>4, <2>5, <2>6 DEF Conclude
<1> QED BY <1>4, <1>5, <1>6, <1>7, <1>8, <1>9 DEF Execute

\* So has what a client does.
LEMMA CallTyped ==
  ASSUME TypeOK, Shape, NEW c \in Clients, Call(c)
  PROVE  TypeOK'
<1> USE CoordinationAssumption, NoneAssumption
<1>1. ASSUME NEW k \in Keys, Ask(c, k) PROVE TypeOK'
  <2>1. PICK t \in Tokens \ Mentioned :
          /\ Send([op |-> "acquire", client |-> c, key |-> k, token |-> t,
                   outcome |-> None, value |-> None])
          /\ attempt' = [attempt EXCEPT ![c] =
               [key |-> k, token |-> t, started |-> now, reply |-> None,
                answer |-> None, publishedAt |-> None]]
          /\ doing' = [doing EXCEPT ![c] = "acquiring"]
          /\ UNCHANGED <<now, redis, cancelled, copy, faults>>
    BY <1>1 DEF Ask
  <2>2. [op |-> "acquire", client |-> c, key |-> k, token |-> t,
         outcome |-> None, value |-> None] \in Request
    BY DEF Request
  <2>3. [key |-> k, token |-> t, started |-> now, reply |-> None,
         answer |-> None, publishedAt |-> None] \in Attempt
    BY DEF Attempt, TypeOK
  <2> HIDE DEF Attempt, Request
  <2> QED BY <2>1, <2>2, <2>3 DEF Send, TypeOK, redis, Doings
<1>2. ASSUME NEW found \in Copy \cup {None}, Active(c), ReturnScore(c, found), faults' \in Nat
      PROVE  TypeOK'
  <2>1. /\ UNCHANGED <<now, redis, requests, cancelled>>
        /\ doing' \in [Clients -> Doings]
        /\ attempt' \in [Clients -> Attempt \cup {None}]
        /\ copy' \in [Clients -> [Keys -> Copy \cup {None}]]
    BY <1>2, ReturnEnds
  <2>2. \A d \in Clients : doing'[d] = "idle" <=> attempt'[d] = None
    BY <1>2, ReturnEnds DEF TypeOK
  <2> QED BY <1>2, <2>1, <2>2 DEF TypeOK, redis
<1>3. Fault => faults' \in Nat
  BY DEF Fault, TypeOK
<1>4. CASE \E k \in Keys : Begin(c, k)
  BY <1>1, <1>4 DEF Begin
<1>5. CASE Poll(c)
  <2>1. attempt[c].key \in Keys
    BY <1>5 DEF Poll, TypeOK, Attempt
  <2> QED BY <1>1, <1>5, <2>1 DEF Poll
<1>6. CASE WaitCancelled(c) \/ CallFails(c) \/ ReceiveMismatch(c)
  <2>1. Active(c) /\ ReturnScore(c, None) /\ faults' \in Nat
    BY <1>3, <1>6 DEF WaitCancelled, CallFails, ReceiveMismatch, TypeOK, Active
  <2> QED BY <1>2, <2>1
<1>7. CASE ReceiveHit(c)
  BY <1>2, <1>7, HitIsCopy DEF ReceiveHit, Got, Active, TypeOK
<1>8. CASE ReceiveVerdict(c)
  BY <1>2, <1>8, VerdictIsCopy DEF ReceiveVerdict, Active, TypeOK
<1>9. CASE ReceiveWait(c)
  <2>1. "waiting" \in Doings \ {"idle"}
    BY DEF Doings
  <2>2. /\ attempt' \in [Clients -> Attempt \cup {None}]
        /\ doing' \in [Clients -> Doings]
        /\ \A d \in Clients : doing'[d] = "idle" <=> attempt'[d] = None
    BY <1>9, <2>1, WaitForgets, ForgottenAttempt, AttemptMoves
  <2>3. UNCHANGED <<now, redis, requests, cancelled, copy, faults>>
    BY <1>9, WaitForgets
  <2> QED BY <2>2, <2>3 DEF TypeOK, redis
<1>10. CASE ReceiveOwner(c)
  BY <1>10 DEF ReceiveOwner, TypeOK, redis, Doings, Got
<1>11. ASSUME NEW answer \in Values \cup {None}, Finish(c, answer) PROVE TypeOK'
  <2> DEFINE outcome == Outcome(c, answer)
             x == Concluded(attempt[c], Kept(outcome, answer))
  <2>1. "finishing" \in Doings \ {"idle"}
    BY DEF Doings
  <2>2. x \in Attempt
    BY <1>11, FinishConcludes, ConcludedAttempt DEF Kept, TypeOK
  <2>3. attempt' = [attempt EXCEPT ![c] = x] /\ doing' = [doing EXCEPT ![c] = "finishing"]
    BY <1>11, FinishConcludes
  <2> HIDE DEF x
  <2>4. /\ attempt' \in [Clients -> Attempt \cup {None}]
        /\ doing' \in [Clients -> Doings]
        /\ \A d \in Clients : doing'[d] = "idle" <=> attempt'[d] = None
    BY <2>1, <2>2, <2>3, AttemptMoves
  <2>5. requests' \subseteq Request /\ UNCHANGED <<now, redis, cancelled, copy, faults>>
    BY <1>11, FinishConcludes DEF TypeOK
  <2> QED BY <2>4, <2>5 DEF TypeOK, redis
<1>12. CASE Cancel(c)
  BY <1>3, <1>12 DEF Cancel, TypeOK, redis
<1>13. CASE Restart(c)
  BY <1>3, <1>13 DEF Restart, TypeOK, redis, Doings
<1> QED BY <1>4, <1>5, <1>6, <1>7, <1>8, <1>9, <1>10, <1>11, <1>12, <1>13 DEF Call

\* Time takes things away.
LEMMA TickTyped ==
  ASSUME TypeOK, Tick
  PROVE  TypeOK'
BY DEF Tick, TypeOK

LEMMA NextTyped ==
  ASSUME TypeOK, Shape, [Next]_vars
  PROVE  TypeOK'
<1>1. ASSUME NEW r \in requests, Lose(r) PROVE TypeOK'
  BY <1>1 DEF Lose, Fault, TypeOK, redis, clients
<1>2. CASE UNCHANGED vars
  BY <1>2 DEF vars, redis, clients, TypeOK
<1> QED BY <1>1, <1>2, ExecuteTyped, CallTyped, TickTyped DEF Next, Step

-----------------------------------------------------------------------------
(* The steps of a client, by what they do to its attempt.                   *)

AcquireCall(c, k, t) ==
  [op |-> "acquire", client |-> c, key |-> k, token |-> t, outcome |-> None, value |-> None]

Opened(k, t) ==
  [key |-> k, token |-> t, started |-> now, reply |-> None, answer |-> None, publishedAt |-> None]

Opens(c, k, t) ==
  /\ requests' = requests \cup {AcquireCall(c, k, t)}
  /\ attempt'[c] = Opened(k, t) /\ doing'[c] = "acquiring"
  /\ UNCHANGED copy

Waits(c) ==
  /\ Active(c) /\ attempt'[c] = Forgotten(attempt[c]) /\ doing'[c] = "waiting"
  /\ UNCHANGED <<requests, copy>>

Infers(c) ==
  /\ doing[c] = "acquiring" /\ Got(c, "owner") /\ doing'[c] = "inferring"
  /\ UNCHANGED <<requests, attempt, copy>>

HandsIn(c, outcome, answer) ==
  /\ doing[c] = "inferring" /\ Active(c)
  /\ outcome = "success" => answer # None
  /\ requests' = requests \cup {FinishCall(c, outcome, answer)}
  /\ attempt'[c] = Concluded(attempt[c], Kept(outcome, answer))
  /\ doing'[c] = "finishing"
  /\ UNCHANGED copy

\* The call is over, and may have told the caller an assessment.
Learns(c, k) ==
  /\ Active(c) /\ k = attempt[c].key /\ copy'[c][k] # None
  /\ copy'[c][k] = Coming(c)

Ends(c) ==
  /\ attempt'[c] = None /\ doing'[c] = "idle"
  /\ UNCHANGED requests
  /\ \/ \A k \in Keys : copy'[c][k] \in {copy[c][k], None}
     \/ \E k \in Keys : Learns(c, k) /\ \A j \in Keys \ {k} : copy'[c][j] = copy[c][j]

Moves(c) ==
  \/ \E k \in Keys, t \in Tokens \ Mentioned : Opens(c, k, t)
  \/ Waits(c) \/ Infers(c) \/ Ends(c)
  \/ \E outcome \in {"success", "failure", "cancel"}, answer \in Values \cup {None} :
       HandsIn(c, outcome, answer)
  \/ UNCHANGED <<requests, attempt, doing, copy>>

LEMMA ClientMoves ==
  ASSUME TypeOK, Shape, NEW c \in Clients, Call(c)
  PROVE  /\ Moves(c)
         /\ UNCHANGED <<now, redis>>
         /\ \A d \in Clients : d # c => attempt'[d] = attempt[d] /\ doing'[d] = doing[d]
                                        /\ copy'[d] = copy[d]
<1> DEFINE others == \A d \in Clients : d # c => attempt'[d] = attempt[d] /\ doing'[d] = doing[d]
                                                 /\ copy'[d] = copy[d]
           goal == Moves(c) /\ UNCHANGED <<now, redis>> /\ others
<1> SUFFICES goal
  OBVIOUS
<1>1. ASSUME NEW k \in Keys, Ask(c, k) PROVE goal
  <2>1. PICK t \in Tokens \ Mentioned :
          /\ Send(AcquireCall(c, k, t))
          /\ attempt' = [attempt EXCEPT ![c] = Opened(k, t)]
          /\ doing' = [doing EXCEPT ![c] = "acquiring"]
          /\ UNCHANGED <<now, redis, cancelled, copy, faults>>
    BY <1>1 DEF Ask, AcquireCall, Opened
  <2>2. Opens(c, k, t)
    BY <2>1 DEF Opens, Send, TypeOK
  <2>3. others
    BY <2>1 DEF TypeOK
  <2> QED BY <2>1, <2>2, <2>3 DEF Moves
<1>2. ASSUME NEW found \in Copy \cup {None}, Active(c), ReturnScore(c, found),
             found \in {None, Coming(c)}
      PROVE  goal
  <2>1. attempt'[c] = None /\ doing'[c] = "idle" /\ UNCHANGED <<now, redis, requests>>
    BY <1>2, ReturnEnds
  <2>2. ASSUME found = None PROVE Ends(c)
    BY <1>2, <2>1, <2>2, ReturnEnds DEF Ends
  <2>3. others
    <3>1. \A d \in Clients : d # c => attempt'[d] = attempt[d] /\ doing'[d] = doing[d]
      BY <1>2, ReturnEnds
    <3>2. \A d \in Clients : d # c => copy'[d] = copy[d]
      BY <1>2 DEF ReturnScore, TypeOK
    <3> QED BY <3>1, <3>2
  <2>4. ASSUME found # None PROVE Ends(c)
    <3>1. attempt[c].key \in Keys
      BY <1>2 DEF Active, TypeOK, Attempt
    <3>2. Learns(c, attempt[c].key)
          /\ \A j \in Keys \ {attempt[c].key} : copy'[c][j] = copy[c][j]
      BY <1>2, <2>4, <3>1, ReturnEnds DEF Learns
    <3> QED BY <2>1, <3>1, <3>2 DEF Ends
  <2> QED BY <2>1, <2>2, <2>3, <2>4 DEF Moves
<1>4. CASE \E k \in Keys : Begin(c, k)
  BY <1>1, <1>4 DEF Begin
<1>5. CASE Poll(c)
  <2>1. attempt[c].key \in Keys
    BY <1>5 DEF Poll, TypeOK, Attempt
  <2> QED BY <1>1, <1>5, <2>1 DEF Poll
<1>6. CASE WaitCancelled(c) \/ CallFails(c) \/ ReceiveMismatch(c)
  <2>1. Active(c) /\ ReturnScore(c, None)
    BY <1>6 DEF WaitCancelled, CallFails, ReceiveMismatch, TypeOK, Active
  <2>2. None \in Copy \cup {None} /\ None \in {None, Coming(c)}
    OBVIOUS
  <2> HIDE DEF goal
  <2> QED BY <1>2, <2>1, <2>2
<1>7. CASE ReceiveHit(c)
  <2>1. doing[c] = "acquiring" /\ Got(c, "hit") /\ ReturnScore(c, Decode(attempt[c]))
    BY <1>7 DEF ReceiveHit
  <2>2. Active(c) /\ Decode(attempt[c]) \in Copy \cup {None}
    BY <2>1, HitIsCopy DEF Got, Active
  <2>3. Decode(attempt[c]) = Coming(c)
    BY <2>1 DEF Coming
  <2> QED BY <1>2, <2>1, <2>2, <2>3
<1>8. CASE ReceiveVerdict(c)
  <2>1. doing[c] = "finishing" /\ ReturnScore(c, Verdict(c))
    BY <1>8 DEF ReceiveVerdict
  <2>2. Active(c) /\ Verdict(c) \in Copy \cup {None}
    BY <2>1, VerdictIsCopy DEF TypeOK, Active
  <2>3. Verdict(c) = Coming(c)
    BY <2>1 DEF Coming
  <2> HIDE DEF goal
  <2> QED BY <1>2, <2>1, <2>2, <2>3
<1>9. CASE ReceiveWait(c)
  <2>1. attempt[c] \in Attempt /\ Active(c)
    BY <1>9 DEF ReceiveWait, TypeOK, Active
  <2>2. attempt' = [attempt EXCEPT ![c] = Forgotten(attempt[c])]
        /\ doing' = [doing EXCEPT ![c] = "waiting"] /\ UNCHANGED <<now, redis, requests, copy>>
    BY <1>9, <2>1, WaitForgets
  <2>3. Waits(c) /\ others
    BY <2>1, <2>2 DEF Waits, TypeOK
  <2> QED BY <2>2, <2>3 DEF Moves
<1>10. CASE ReceiveOwner(c)
  <2>1. Infers(c) /\ others
    BY <1>10 DEF ReceiveOwner, Infers, TypeOK
  <2> QED BY <1>10, <2>1 DEF ReceiveOwner, Moves
<1>11. ASSUME NEW answer \in Values \cup {None}, Finish(c, answer) PROVE goal
  <2> DEFINE outcome == Outcome(c, answer)
  <2>1. /\ doing[c] = "inferring" /\ Active(c)
        /\ outcome \in {"success", "failure", "cancel"} /\ (outcome = "success" => answer # None)
        /\ requests' = requests \cup {FinishCall(c, outcome, answer)}
        /\ attempt' = [attempt EXCEPT ![c] = Concluded(attempt[c], Kept(outcome, answer))]
        /\ doing' = [doing EXCEPT ![c] = "finishing"]
        /\ UNCHANGED <<now, redis, copy>>
    BY <1>11, FinishConcludes
  <2> HIDE DEF outcome
  <2>2. HandsIn(c, outcome, answer)
    BY <2>1 DEF HandsIn, TypeOK
  <2>3. others
    BY <2>1 DEF TypeOK
  <2> QED BY <2>1, <2>2, <2>3 DEF Moves
<1>12. CASE Cancel(c)
  BY <1>12 DEF Cancel, Moves
<1>13. CASE Restart(c)
  <2>1. Ends(c) /\ others
    BY <1>13 DEF Restart, Ends, TypeOK
  <2> QED BY <1>13, <2>1 DEF Restart, Moves
<1> QED BY <1>4, <1>5, <1>6, <1>7, <1>8, <1>9, <1>10, <1>11, <1>12, <1>13 DEF Call

-----------------------------------------------------------------------------
(* The steps of Redis, by what they do to requests and attempts.            *)

ReplyTo(r) ==
  {m \in ReplyMsg :
     IF r.op = "acquire" THEN m.kind \in {"mismatch", "hit", "wait", "owner"}
                         ELSE m.kind \in {"accepted", "rejected"}}

\* Redis answers r with m.
Reaches(r, m) ==
  /\ requests' = requests \ {r}
  /\ UNCHANGED <<now, doing, cancelled, copy, faults>>
  /\ \A c \in Clients :
       \/ attempt'[c] = attempt[c] /\ ~(c = r.client /\ Awaits(c, r))
       \/ /\ c = r.client /\ Awaits(c, r) /\ Active(c)
          /\ attempt'[c] = Answered(attempt[c], m)

LEMMA ScriptAnswers ==
  ASSUME TypeOK, NEW r \in requests, Execute(r)
  PROVE  \E m \in ReplyTo(r) : Reply(r, m) /\ Reaches(r, m)
<1>1. ASSUME NEW m \in ReplyMsg, Reply(r, m) PROVE Reaches(r, m)
  BY <1>1, ReplyReaches DEF Reaches
<1>2. CASE AcquireHit(r)
  <2> DEFINE m == [kind |-> "hit", value |-> score[r.key].value,
                   remaining |-> score[r.key].expiry - now]
  <2>1. score[r.key].value \in Values /\ score[r.key].expiry \in Nat
    BY <1>2 DEF AcquireHit, TypeOK, Expiring, Request
  <2>2. m \in ReplyMsg
    BY <2>1 DEF ReplyMsg, TypeOK
  <2>3. m \in ReplyTo(r)
    BY <1>2, <2>2 DEF ReplyTo, AcquireHit, Acquires
  <2> QED BY <1>1, <1>2, <2>2, <2>3 DEF AcquireHit
<1>3. CASE AcquireMismatch(r) \/ AcquireWait(r) \/ AcquireOwner(r)
  <2>1. PICK m \in {[kind |-> "mismatch"], [kind |-> "wait"], [kind |-> "owner"]} :
          r.op = "acquire" /\ Reply(r, m)
    BY <1>3 DEF AcquireMismatch, AcquireWait, AcquireOwner, Acquires
  <2>2. m \in ReplyMsg /\ m \in ReplyTo(r)
    BY <2>1 DEF ReplyMsg, ReplyTo
  <2> QED BY <1>1, <2>1, <2>2
<1>4. CASE FinishFenced(r) \/ FinishOwned(r)
  <2>1. PICK m \in {[kind |-> "accepted"], [kind |-> "rejected"]} :
          r.op = "finish" /\ Reply(r, m)
    BY <1>4 DEF FinishFenced, FinishOwned, Finishes
  <2>2. m \in ReplyMsg /\ m \in ReplyTo(r)
    BY <2>1 DEF ReplyMsg, ReplyTo
  <2> QED BY <1>1, <2>1, <2>2
<1> QED BY <1>2, <1>3, <1>4 DEF Execute

-----------------------------------------------------------------------------
(* The parts of the invariant, one after the other.                         *)

LEMMA ExecuteShape ==
  ASSUME TypeOK, Shape, NEW r \in requests, Execute(r)
  PROVE  Shape'
<1>1. IsFiniteSet(inflight')
  <2>1. inflight' \subseteq inflight \cup {Grant(r)}
    BY OwnerIsGranted DEF Execute, AcquireMismatch, AcquireHit, AcquireWait, FinishFenced, FinishOwned,
                          LiveSlots, FreeSlot, redis
  <2>2. IsFiniteSet(inflight \cup {Grant(r)})
    BY FS_AddElement DEF Shape
  <2> QED BY <2>1, <2>2, FS_Subset
<1>2. PICK m \in ReplyTo(r) : Reaches(r, m)
  BY ScriptAnswers
<1>3. m # None
  BY NoneAssumption DEF ReplyTo
<1>4. ASSUME NEW c \in Clients, Active(c)' PROVE Consistent(c)'
  <2>1. CASE attempt'[c] = attempt[c]
    BY <1>2, <1>4, <2>1 DEF Reaches, Shape, Active, Consistent
  <2>2. CASE attempt'[c] = Answered(attempt[c], m) /\ Active(c)
    BY <1>2, <1>3, <2>2 DEF Reaches, Answered, Shape, Consistent
  <2> QED BY <1>2, <2>1, <2>2 DEF Reaches
<1> QED BY <1>1, <1>2, <1>4 DEF Shape, Reaches

LEMMA CallShape ==
  ASSUME TypeOK, Shape, NEW c \in Clients, Call(c)
  PROVE  Shape'
<1>1. /\ Moves(c) /\ UNCHANGED <<now, inflight>>
      /\ \A d \in Clients : d # c => attempt'[d] = attempt[d] /\ doing'[d] = doing[d]
  BY ClientMoves DEF redis
<1>2. ASSUME NEW k \in Keys, NEW t \in Tokens, Opens(c, k, t) PROVE Shape'
  <2>1. Consistent(c)'
    BY <1>1, <1>2, NoneAssumption DEF Opens, Opened, Consistent, TypeOK
  <2>2. AcquireCall(c, k, t).op = "acquire"
    BY DEF AcquireCall
  <2> QED BY <1>1, <1>2, <2>1, <2>2 DEF Opens, Shape, Active, Consistent
<1>3. ASSUME NEW outcome, NEW answer, HandsIn(c, outcome, answer),
             outcome \in {"success", "failure", "cancel"}
      PROVE  Shape'
  <2>1. Consistent(c)'
    BY <1>1, <1>3, NoneAssumption DEF HandsIn, Concluded, Consistent, Shape, TypeOK
  <2>2. FinishCall(c, outcome, answer).outcome = outcome /\ FinishCall(c, outcome, answer).value = answer
    BY DEF FinishCall
  <2> QED BY <1>1, <1>3, <2>1, <2>2 DEF HandsIn, Shape, Active, Consistent
<1>4. CASE Waits(c)
  <2>1. Consistent(c)'
    BY <1>1, <1>4 DEF Waits, Forgotten, Consistent, TypeOK
  <2> QED BY <1>1, <1>4, <2>1 DEF Waits, Shape, Active, Consistent
<1>5. CASE Infers(c)
  <2>1. Active(c) /\ Consistent(c)'
    BY <1>1, <1>5 DEF Infers, Got, Consistent, Shape, Active
  <2> QED BY <1>1, <1>5, <2>1 DEF Infers, Shape, Active, Consistent
<1>6. CASE Ends(c)
  BY <1>1, <1>6 DEF Ends, Shape, Active, Consistent
<1>7. CASE UNCHANGED <<requests, attempt, doing, copy>>
  BY <1>1, <1>7 DEF Shape, Active, Consistent
<1> QED BY <1>1, <1>2, <1>3, <1>4, <1>5, <1>6, <1>7 DEF Moves

LEMMA NextShape ==
  ASSUME TypeOK, Shape, [Next]_vars
  PROVE  Shape'
<1>1. ASSUME NEW r \in requests, Lose(r) PROVE Shape'
  BY <1>1 DEF Lose, Shape, Active, Consistent, redis, clients
<1>2. CASE Tick
  BY <1>2 DEF Tick, Shape, Active, Consistent, TypeOK, Attempt
<1>3. CASE UNCHANGED vars
  BY <1>3 DEF vars, redis, clients, Shape, Active, Consistent
<1> QED BY <1>1, <1>2, <1>3, ExecuteShape, CallShape DEF Next, Step

\* A script takes the lease of its key away, or grants it to its own token.
LEMMA ScriptLeases ==
  ASSUME TypeOK, NEW r \in requests, Execute(r)
  PROVE  \/ \A k \in Keys : lease'[k] \in {lease[k], None}
         \/ /\ r.op = "acquire" /\ ~Held(r.key)
            /\ lease'[r.key] = Grant(r)
            /\ \A k \in Keys : k # r.key => lease'[k] = lease[k]
<1>1. CASE AcquireOwner(r)
  BY <1>1, OwnerIsGranted DEF AcquireOwner, Acquires, Blocked, Held, TypeOK, Request
<1>2. CASE ~AcquireOwner(r)
  BY <1>2 DEF Execute, AcquireMismatch, AcquireHit, AcquireWait, FinishFenced, FinishOwned,
              redis, TypeOK
<1> QED BY <1>1, <1>2

LEMMA ExecuteTokens ==
  ASSUME TypeOK, TokensApart, NEW r \in requests, Execute(r)
  PROVE  TokensApart'
<1>1. PICK m \in ReplyTo(r) : Reaches(r, m)
  BY ScriptAnswers
<1>2. ASSUME NEW c \in Clients, Active(c)'
      PROVE  /\ Active(c) /\ attempt'[c].token = attempt[c].token /\ attempt'[c].key = attempt[c].key
             /\ attempt'[c] = attempt[c] \/ attempt[c].token = r.token
  <2>1. CASE attempt'[c] = attempt[c]
    BY <1>2, <2>1 DEF Active
  <2>2. CASE c = r.client /\ Awaits(c, r) /\ Active(c) /\ attempt'[c] = Answered(attempt[c], m)
    BY <2>2 DEF Answered, Awaits
  <2> QED BY <1>1, <2>1, <2>2 DEF Reaches
<1>3. Grant(r).token = r.token
  BY DEF Grant
<1>4. ASSUME NEW k \in Keys, Held(k)'
      PROVE  \/ lease'[k] = lease[k] /\ Held(k)
             \/ k = r.key /\ r.op = "acquire" /\ lease'[k].token = r.token
  BY <1>3, <1>4, ScriptLeases DEF Held
<1>5. \A q, p \in requests' : q.token = p.token => q = p
  BY <1>1 DEF Reaches, TokensApart
<1>6. \A c, d \in Clients :
        (Active(c) /\ Active(d) /\ attempt[c].token # None /\ attempt[c].token = attempt[d].token)'
        => c = d
  BY <1>2 DEF TokensApart
<1>7. \A j, k \in Keys : (Held(j) /\ Held(k) /\ lease[j].token = lease[k].token)' => j = k
  BY <1>4 DEF TokensApart
<1>8. ASSUME NEW c \in Clients, NEW q \in requests', (Active(c) /\ attempt[c].token = q.token)'
      PROVE  Answers(c, q)'
  <2>1. q \in requests /\ q.token # r.token
    BY <1>1, <1>8 DEF Reaches, TokensApart
  <2>2. attempt'[c] = attempt[c] /\ Active(c)
    BY <1>2, <1>8, <2>1
  <2> QED BY <1>1, <1>8, <2>1, <2>2 DEF TokensApart, Answers, Reaches
<1>9. ASSUME NEW k \in Keys, NEW q \in requests', (Held(k) /\ lease[k].token = q.token)'
      PROVE  q.op = "finish" /\ q.key = k
  <2>1. q \in requests /\ q.token # r.token
    BY <1>1, <1>9 DEF Reaches, TokensApart
  <2> QED BY <1>4, <1>9, <2>1 DEF TokensApart
<1>10. ASSUME NEW k \in Keys, NEW c \in Clients,
              (Held(k) /\ Active(c) /\ lease[k].token = attempt[c].token)'
       PROVE  attempt'[c].key = k
  BY <1>2, <1>4, <1>10 DEF TokensApart, Answers
<1> QED BY <1>5, <1>6, <1>7, <1>8, <1>9, <1>10 DEF TokensApart

\* A token nothing mentions.
LEMMA FreshToken ==
  ASSUME TypeOK, NEW t \in Tokens \ Mentioned
  PROVE  /\ \A k \in Keys : Held(k) => lease[k].token # t
         /\ \A r \in requests : r.token # t
         /\ \A c \in Clients : Active(c) => attempt[c].token # t
BY DEF Mentioned, Held, Active

LEMMA CallTokens ==
  ASSUME TypeOK, Shape, TokensApart, NEW c \in Clients, Call(c)
  PROVE  TokensApart'
<1>1. /\ Moves(c) /\ UNCHANGED lease
      /\ \A d \in Clients : d # c => attempt'[d] = attempt[d] /\ doing'[d] = doing[d]
  BY ClientMoves DEF redis
<1>2. ASSUME NEW d \in Clients, d # c
      PROVE  /\ Active(d)' <=> Active(d)
             /\ \A r : Answers(d, r)' <=> Answers(d, r)
  BY <1>1, <1>2 DEF Active, Answers
<1>3. \A k \in Keys : Held(k)' <=> Held(k)
  BY <1>1 DEF Held
<1>4. /\ \A r \in requests : r.token # None
      /\ \A k \in Keys : Held(k) => lease[k].token # None
  BY NoneAssumption DEF TypeOK, Held, Request, Slot
<1>5. ASSUME NEW k \in Keys, NEW t \in Tokens \ Mentioned, Opens(c, k, t) PROVE TokensApart'
  <2> DEFINE r == AcquireCall(c, k, t)
  <2>1. r.token = t /\ r.op = "acquire" /\ r.client = c /\ r.key = k
    BY DEF AcquireCall
  <2>2. /\ attempt'[c].token = t /\ attempt'[c].key = k /\ attempt'[c].reply = None
        /\ requests' = requests \cup {r} /\ doing'[c] = "acquiring"
    BY <1>5 DEF Opens, Opened
  <2>3. Answers(c, r)'
    BY <2>1, <2>2 DEF Answers
  <2> HIDE DEF r
  <2> QED BY <1>1, <1>2, <1>3, <2>1, <2>2, <2>3, FreshToken DEF TokensApart
<1>6. ASSUME NEW outcome, NEW answer, HandsIn(c, outcome, answer) PROVE TokensApart'
  <2> PICK r : r = FinishCall(c, outcome, answer)
    OBVIOUS
  <2>1. /\ r.token = attempt[c].token /\ r.op = "finish" /\ r.client = c /\ r.key = attempt[c].key
        /\ r.outcome = outcome /\ r.value = answer
    BY DEF FinishCall
  <2>2. /\ Active(c) /\ attempt[c].token # None /\ attempt[c].reply # None
        /\ attempt'[c].token = attempt[c].token /\ attempt'[c].key = attempt[c].key
        /\ attempt'[c].reply = None /\ attempt'[c].answer = Kept(outcome, answer)
        /\ requests' = requests \cup {r} /\ doing'[c] = "finishing"
    BY <1>6 DEF HandsIn, Concluded, Shape, Consistent
  <2>3. Answers(c, r)'
    BY <2>1, <2>2 DEF Answers, Kept
  <2>4. \A q \in requests : q.token # attempt[c].token
    BY <2>2 DEF TokensApart, Answers
  <2> QED BY <1>1, <1>2, <1>3, <2>1, <2>2, <2>3, <2>4 DEF TokensApart
<1>7. CASE Waits(c)
  <2>1. attempt'[c].token = None /\ UNCHANGED requests
    BY <1>7 DEF Waits, Forgotten
  <2> QED BY <1>1, <1>2, <1>3, <1>4, <2>1 DEF TokensApart
<1>8. CASE Infers(c)
  <2>1. Active(c) /\ attempt[c].reply # None /\ UNCHANGED <<requests, attempt>>
    BY <1>8 DEF Infers, Got, Active
  <2>2. \A q \in requests : q.token # attempt[c].token
    BY <2>1 DEF TokensApart, Answers
  <2> QED BY <1>1, <1>2, <1>3, <2>1, <2>2 DEF TokensApart, Active
<1>9. CASE Ends(c)
  BY <1>1, <1>2, <1>3, <1>9 DEF Ends, TokensApart, Active
<1>10. CASE UNCHANGED <<requests, attempt, doing, copy>>
  BY <1>1, <1>10 DEF TokensApart, Active, Held, Answers
<1> QED BY <1>1, <1>5, <1>6, <1>7, <1>8, <1>9, <1>10 DEF Moves

LEMMA NextTokens ==
  ASSUME TypeOK, Shape, TokensApart, [Next]_vars
  PROVE  TokensApart'
<1>1. ASSUME NEW r \in requests, Lose(r) PROVE TokensApart'
  BY <1>1 DEF Lose, TokensApart, Active, Held, Answers, redis, clients
<1>2. CASE Tick
  <2>1. /\ UNCHANGED <<requests, doing, attempt>>
        /\ \A k \in Keys : lease'[k] \in {lease[k], None}
    BY <1>2 DEF Tick
  <2> QED BY <2>1 DEF TokensApart, Active, Held, Answers
<1>3. CASE UNCHANGED vars
  BY <1>3 DEF vars, redis, clients, TokensApart, Active, Held, Answers
<1> QED BY <1>1, <1>2, <1>3, ExecuteTokens, CallTokens DEF Next, Step

\* The leases in force have places of their own, so there are no more of them.
LEMMA LeasesFit ==
  ASSUME TypeOK, Shape, TokensApart, LeasesInBudget
  PROVE  /\ IsFiniteSet(Leased) /\ IsFiniteSet(LiveSlots)
         /\ Cardinality(Leased) \in Nat /\ Cardinality(LiveSlots) \in Nat
         /\ Cardinality(Leased) <= Cardinality(LiveSlots)
<1> DEFINE f == [k \in Leased |-> lease[k]]
<1>1. IsFiniteSet(LiveSlots)
  BY FS_Subset DEF LiveSlots, Shape
<1>2. f \in [Leased -> LiveSlots]
  BY DEF Leased, LiveSlots, LeasesInBudget
<1>3. \A j, k \in Leased : f[j] = f[k] => j = k
  BY DEF Leased, TokensApart, Held
<1>4. f \in Injection(Leased, LiveSlots)
  BY <1>2, <1>3 DEF Injection, IsInjective
<1>5. IsFiniteSet(Leased) /\ Cardinality(Leased) <= Cardinality(LiveSlots)
  BY <1>1, <1>4, FS_Injection
<1> QED BY <1>1, <1>5, FS_CardinalityType

\* Settings that agree, refreshed, still outlive the leases.
LEMMA SettingsOutlive ==
  ASSUME TypeOK, LeasesInBudget, NEW r \in requests, Compatible(r), RefreshSettings(r)
  PROVE  /\ settings' # None /\ settings'.value = SettingsOf[r.client]
         /\ settings'.expiry = now + 2 * SettingsOf[r.client].leaseTTL
         /\ \A k \in Keys : Held(k) =>
              /\ settings # None /\ settings'.value = settings.value
              /\ lease[k].expiry <= settings'.expiry
              /\ lease[k].expiry <= now + settings'.value.leaseTTL
<1>1. r.client \in Clients /\ SettingsOf[r.client].leaseTTL \in Nat
  BY CoordinationAssumption DEF TypeOK, Request
<1>2. settings' \in Expiring(Setting)
  BY <1>1 DEF RefreshSettings, Expiring, Setting, TypeOK
<1>3. settings' # None /\ settings'.value = SettingsOf[r.client]
      /\ settings'.expiry = now + 2 * SettingsOf[r.client].leaseTTL
  BY <1>2, NoneAssumption DEF RefreshSettings
<1>4. ASSUME NEW k \in Keys, Held(k)
      PROVE  /\ settings # None /\ settings'.value = settings.value
             /\ lease[k].expiry <= now + settings'.value.leaseTTL
             /\ lease[k].expiry \in Nat
  BY <1>3, <1>4 DEF Compatible, LeasesInBudget, TypeOK, Held, Slot
<1> QED BY <1>1, <1>3, <1>4 DEF TypeOK

\* What becomes of the leases without a new one.
LEMMA FewerLeases ==
  ASSUME TypeOK, Shape, TokensApart, LeasesInBudget,
         now' \in Nat, now' >= now,
         \A k \in Keys : Held(k)' => /\ lease'[k] = lease[k]
                                     /\ score'[k] = None
                                     /\ settings' # None /\ settings'.value = settings.value
                                     /\ lease[k].expiry <= settings'.expiry
                                     /\ lease[k].expiry <= now' + settings'.value.leaseTTL
                                     /\ lease[k] \in inflight /\ lease[k].expiry > now' => lease[k] \in inflight'
  PROVE  LeasesInBudget'
<1>1. Leased' \subseteq Leased
  BY DEF Leased, Held, TypeOK, Slot
<1>2. Leased' # {} => Cardinality(Leased') <= settings'.value.maxInFlight
  <2> SUFFICES ASSUME Leased' # {} PROVE Cardinality(Leased') <= settings'.value.maxInFlight
    OBVIOUS
  <2>1. Cardinality(Leased') \in Nat /\ Cardinality(Leased') <= Cardinality(Leased)
    BY <1>1, LeasesFit, FS_Subset, FS_CardinalityType
  <2>2. PICK k \in Keys : k \in Leased' /\ Held(k)' /\ Held(k)
    BY <1>1 DEF Leased, Held
  <2>3. settings # None /\ settings'.value = settings.value
        /\ Cardinality(Leased) <= settings.value.maxInFlight
    BY <1>1, <2>2 DEF LeasesInBudget
  <2>4. settings.value.maxInFlight \in Nat
    BY <2>3, CoordinationAssumption DEF TypeOK, Expiring, Setting
  <2> QED BY <2>1, <2>3, <2>4, LeasesFit
<1>3. \A k \in Leased' : lease'[k] \in inflight'
  BY <1>1 DEF Leased, Held, LeasesInBudget
<1>4. \A k \in Keys : Held(k)' => /\ score'[k] = None
                                  /\ settings' # None
                                  /\ lease'[k].expiry <= settings'.expiry
                                  /\ lease'[k].expiry <= now' + settings'.value.leaseTTL
  OBVIOUS
<1> QED BY <1>2, <1>3, <1>4 DEF LeasesInBudget

\* A lease is granted within the budget.
LEMMA OwnerLeases ==
  ASSUME TypeOK, Shape, TokensApart, LeasesInBudget, NEW r \in requests, AcquireOwner(r)
  PROVE  LeasesInBudget'
<1> USE CoordinationAssumption
<1>1. /\ r \in Request /\ r.client \in Clients /\ r.key \in Keys
      /\ SettingsOf[r.client].leaseTTL \in Nat /\ SettingsOf[r.client].maxInFlight \in Nat
  BY DEF TypeOK, Request
<1>2. /\ lease[r.key] = None /\ score[r.key] = None /\ Compatible(r)
      /\ Cardinality(LiveSlots) < SettingsOf[r.client].maxInFlight
      /\ now' = now /\ score' = score
  BY DEF AcquireOwner, Blocked, WithinBudget, Reply
<1>3. Grant(r) \in Slot /\ Grant(r).expiry = now + SettingsOf[r.client].leaseTTL /\ Grant(r) # None
  BY <1>1, NoneAssumption DEF Grant, Slot, TypeOK, Request
<1>4. /\ lease'[r.key] = Grant(r)
      /\ \A k \in Keys : k # r.key => lease'[k] = lease[k]
      /\ inflight' = LiveSlots \cup {Grant(r)}
      /\ RefreshSettings(r)
  BY <1>1, OwnerIsGranted DEF TypeOK
<1>5. ASSUME NEW k \in Keys, Held(k)'
      PROVE  /\ score'[k] = None /\ settings' # None
             /\ lease'[k].expiry <= settings'.expiry
             /\ lease'[k].expiry <= now' + settings'.value.leaseTTL
  <2>1. CASE k = r.key
    BY <1>1, <1>2, <1>3, <1>4, <2>1, SettingsOutlive DEF TypeOK
  <2>2. CASE k # r.key
    BY <1>2, <1>4, <1>5, <2>2, SettingsOutlive DEF Held, LeasesInBudget
  <2> QED BY <2>1, <2>2
<1>6. Leased' \subseteq Leased \cup {r.key}
  BY <1>2, <1>4 DEF Leased
<1>7. \A k \in Leased' : lease'[k] \in inflight'
  <2>1. \A k \in Leased : k # r.key => lease[k] \in LiveSlots
    BY DEF Leased, LiveSlots, LeasesInBudget
  <2>2. Leased' \subseteq Keys
    BY DEF Leased
  <2> QED BY <1>4, <1>6, <2>1, <2>2
<1>8. Cardinality(Leased') <= settings'.value.maxInFlight
  <2>1. IsFiniteSet(Leased \cup {r.key}) /\ Cardinality(Leased \cup {r.key}) <= Cardinality(Leased) + 1
    BY LeasesFit, FS_AddElement
  <2>2. Cardinality(Leased') <= Cardinality(Leased \cup {r.key})
        /\ Cardinality(Leased') \in Nat /\ Cardinality(Leased \cup {r.key}) \in Nat
    BY <1>6, <2>1, FS_Subset, FS_CardinalityType
  <2>3. settings'.value = SettingsOf[r.client]
    BY <1>2, <1>4, SettingsOutlive
  <2> QED BY <1>1, <1>2, <2>1, <2>2, <2>3, LeasesFit
<1> QED BY <1>5, <1>7, <1>8 DEF LeasesInBudget

LEMMA ExecuteLeases ==
  ASSUME TypeOK, Shape, TokensApart, LeasesInBudget, NEW r \in requests, Execute(r)
  PROVE  LeasesInBudget'
<1> USE DEF Held
<1>1. now' = now /\ now \in Nat /\ r.key \in Keys
  BY ScriptAnswers DEF Reaches, TypeOK, Request
<1>2. CASE AcquireMismatch(r)
  BY <1>1, <1>2, FewerLeases DEF AcquireMismatch, redis, LeasesInBudget
<1>3. CASE AcquireHit(r)
  <2>1. UNCHANGED <<score, lease, inflight>> /\ Compatible(r) /\ RefreshSettings(r)
    BY <1>3 DEF AcquireHit
  <2> QED BY <1>1, <2>1, SettingsOutlive, FewerLeases DEF LeasesInBudget
<1>4. CASE AcquireWait(r)
  <2>1. /\ UNCHANGED <<score, lease>> /\ Compatible(r) /\ RefreshSettings(r)
        /\ \A s \in inflight : s.expiry > now => s \in inflight'
    BY <1>4 DEF AcquireWait, LiveSlots
  <2> QED BY <1>1, <2>1, SettingsOutlive, FewerLeases DEF LeasesInBudget
<1>5. CASE FinishFenced(r)
  <2>1. /\ UNCHANGED <<score, lease, settings>>
        /\ r.op = "finish" /\ ~Holds(r) /\ FreeSlot(r)
    BY <1>5 DEF FinishFenced, Finishes
  <2>2. \A k \in Keys : Held(k) => lease[k].token # r.token
    BY <2>1 DEF Holds, TokensApart
  <2> QED BY <1>1, <2>1, <2>2, FewerLeases DEF LeasesInBudget, FreeSlot
<1>6. CASE FinishOwned(r)
  <2>1. /\ Holds(r) /\ FreeSlot(r) /\ UNCHANGED settings
        /\ lease' = [lease EXCEPT ![r.key] = None]
        /\ \A k \in Keys : k # r.key => score'[k] = score[k]
    BY <1>6 DEF FinishOwned, Conclude, Share, TypeOK
  <2>2. \A k \in Keys : k # r.key /\ Held(k) => lease[k].token # r.token
    BY <1>1, <2>1 DEF Holds, TokensApart
  <2>3. \A k \in Keys : Held(k)' => k # r.key /\ lease'[k] = lease[k]
    BY <1>1, <2>1 DEF TypeOK
  <2> QED BY <1>1, <2>1, <2>2, <2>3, FewerLeases DEF LeasesInBudget, FreeSlot
<1> QED BY <1>2, <1>3, <1>4, <1>5, <1>6, OwnerLeases DEF Execute

LEMMA NextLeases ==
  ASSUME TypeOK, Shape, TokensApart, LeasesInBudget, [Next]_vars
  PROVE  LeasesInBudget'
<1>1. ASSUME UNCHANGED <<now, redis>> PROVE LeasesInBudget'
  BY <1>1 DEF redis, LeasesInBudget, Leased, Held
<1>2. CASE Tick
  <2>1. now' = now + 1 /\ now \in Nat /\ UNCHANGED inflight
    BY <1>2 DEF Tick, TypeOK
  <2>2. ASSUME NEW k \in Keys, Held(k)'
        PROVE  /\ lease'[k] = lease[k] /\ Held(k) /\ lease[k].expiry \in Nat /\ lease[k].expiry >= now'
               /\ score[k] = None => score'[k] = None
    BY <1>2, <2>1, <2>2 DEF Tick, Survives, Held, TypeOK, Slot
  <2>3. ASSUME NEW k \in Keys, Held(k)'
        PROVE  /\ settings' = settings /\ settings # None
               /\ lease[k].expiry <= now' + settings.value.leaseTTL
    <3>1. /\ settings # None /\ lease[k].expiry <= settings.expiry
          /\ lease[k].expiry <= now + settings.value.leaseTTL
          /\ settings.expiry \in Nat /\ settings.value.leaseTTL \in Nat
      BY <2>2, <2>3, CoordinationAssumption DEF LeasesInBudget, TypeOK, Expiring, Setting
    <3>2. settings.expiry >= now'
      BY <2>1, <2>2, <2>3, <3>1
    <3> QED BY <1>2, <2>1, <2>2, <2>3, <3>1, <3>2 DEF Tick, Survives
  <2>4. \A k \in Keys : Held(k)' => score'[k] = None /\ lease[k].expiry <= settings.expiry
    BY <2>2 DEF LeasesInBudget
  <2> QED BY <2>1, <2>2, <2>3, <2>4, FewerLeases
<1>3. ASSUME NEW r \in requests, Lose(r) PROVE LeasesInBudget'
  BY <1>1, <1>3 DEF Lose
<1>4. ASSUME NEW c \in Clients, Call(c) PROVE LeasesInBudget'
  BY <1>1, <1>4, ClientMoves
<1>5. CASE UNCHANGED vars
  BY <1>1, <1>5 DEF vars
<1> QED BY <1>2, <1>3, <1>4, <1>5, ExecuteLeases DEF Next, Step

LEMMA ComingIsCopy ==
  ASSUME TypeOK, Shape, NEW c \in Clients
  PROVE  Coming(c) \in Copy \cup {None} /\ (Coming(c) # None => Active(c))
BY HitIsCopy, VerdictIsCopy DEF Coming, Got, Active, TypeOK

LEMMA InitShared == Init => OnlySharedIsFresh
BY DEF Init, OnlySharedIsFresh, Fresh, FreshAt, Coming

\* Redis only shares an assessment where there is none.
LEMMA SharesOnce ==
  ASSUME TypeOK, LeasesInBudget, NEW r \in requests, Execute(r), NEW k \in Keys
  PROVE  score'[k] = score[k] \/ (score[k] = None /\ k = r.key /\ FinishOwned(r) /\ Share(r))
<1>1. CASE FinishOwned(r)
  <2>1. score[r.key] = None /\ r.key \in Keys
    BY <1>1 DEF FinishOwned, Holds, Held, LeasesInBudget, TypeOK, Request
  <2> QED BY <1>1, <2>1 DEF FinishOwned, Conclude, Share, TypeOK
<1>2. CASE ~FinishOwned(r)
  BY <1>2 DEF Execute, AcquireMismatch, AcquireHit, AcquireWait, AcquireOwner, FinishFenced, redis
<1> QED BY <1>1, <1>2

\* The attempt that is told m.
LEMMA Told ==
  ASSUME TypeOK, Shape, TokensApart, NEW r \in requests, NEW m \in ReplyMsg, Reply(r, m),
         NEW c \in Clients, attempt'[c] # attempt[c]
  PROVE  /\ c = r.client /\ Awaits(c, r) /\ Active(c) /\ Answers(c, r)
         /\ attempt[c] \in Attempt /\ attempt[c].key = r.key /\ r.key \in Keys
         /\ attempt[c].started <= now /\ now \in Nat
         /\ UNCHANGED <<now, doing>>
         /\ attempt'[c] = Answered(attempt[c], m) /\ attempt'[c] # None
<1>1. /\ c = r.client /\ Awaits(c, r) /\ Active(c) /\ UNCHANGED <<now, doing>>
      /\ attempt'[c] = Answered(attempt[c], m)
  BY ReplyReaches
<1>2. attempt[c] \in Attempt /\ Answers(c, r) /\ Consistent(c)
  BY <1>1 DEF TypeOK, Active, TokensApart, Awaits, Shape
<1>3. attempt'[c] # None
  BY <1>1, <1>2, AnsweredAttempt
<1> QED BY <1>1, <1>2, <1>3 DEF TypeOK, Request, Answers, Consistent

\* What a hit tells is shared: the remaining life was read after the attempt began.
LEMMA HitIsShared ==
  ASSUME TypeOK, Shape, TokensApart, NEW r \in requests, AcquireHit(r),
         NEW c \in Clients, attempt'[c] # attempt[c], FreshAt(Coming(c), now)'
  PROVE  IsShared(r.key, Coming(c))'
<1> USE CoordinationAssumption
<1> PICK m : m = [kind |-> "hit", value |-> score[r.key].value,
                  remaining |-> score[r.key].expiry - now]
  OBVIOUS
<1>1. score[r.key] # None /\ score[r.key].value \in Values /\ score[r.key].expiry \in Nat
      /\ score' = score /\ Reply(r, m)
  BY DEF AcquireHit, TypeOK, Expiring, Request
<1>2. m \in ReplyMsg /\ m.kind = "hit" /\ m.value = score[r.key].value
      /\ m.remaining = score[r.key].expiry - now
  BY <1>1 DEF ReplyMsg, TypeOK
<1>3. /\ Awaits(c, r) /\ attempt[c].started \in Nat /\ attempt[c].started <= now /\ now \in Nat
      /\ doing' = doing /\ attempt'[c] = Answered(attempt[c], m) /\ attempt'[c] # None
  BY <1>1, <1>2, Told DEF Attempt
<1>4. doing'[c] = "acquiring" /\ r.op = "acquire"
  BY <1>3 DEF AcquireHit, Acquires, Awaits
<1>5. attempt'[c].reply = m /\ attempt'[c].started = attempt[c].started
  BY <1>3 DEF Answered
<1>6. m # None
  BY <1>2, NoneAssumption
<1>7. Coming(c)' = Decode(attempt[c])'
  BY <1>2, <1>3, <1>4, <1>5, <1>6 DEF Coming, Got
<1>8. Decode(attempt[c])' # None
  BY <1>7 DEF FreshAt
<1>9. Decode(attempt[c])' = [value |-> m.value, scoredAt |-> attempt[c].started + m.remaining - ScoreTTL]
  BY <1>5, <1>8 DEF Decode
<1> QED BY <1>1, <1>2, <1>3, <1>7, <1>9 DEF IsShared

\* So is what is told to have been accepted, which dates from before it was.
LEMMA AcceptedIsShared ==
  ASSUME TypeOK, Shape, TokensApart, NEW r \in requests, FinishOwned(r),
         NEW c \in Clients, attempt'[c] # attempt[c], FreshAt(Coming(c), now)'
  PROVE  IsShared(r.key, Coming(c))'
<1> USE CoordinationAssumption
<1> PICK m : m = [kind |-> "accepted"]
  OBVIOUS
<1>1. Reply(r, m) /\ m \in ReplyMsg /\ m.kind = "accepted" /\ r.op = "finish" /\ Conclude(r)
  BY DEF FinishOwned, Finishes, ReplyMsg
<1>2. /\ Awaits(c, r) /\ Answers(c, r) /\ attempt[c] \in Attempt /\ r.key \in Keys /\ Active(c)
      /\ now' = now /\ now \in Nat
      /\ doing' = doing /\ attempt'[c] = Answered(attempt[c], m) /\ attempt'[c] # None
  BY <1>1, Told
<1>3. doing'[c] = "finishing" /\ doing[c] = "finishing"
  BY <1>1, <1>2 DEF Awaits
<1>4. attempt'[c].answer = attempt[c].answer /\ attempt'[c].publishedAt = attempt[c].publishedAt
  BY <1>2 DEF Answered
<1>5. Coming(c)' = Verdict(c)'
  BY <1>3 DEF Coming
<1>6. Verdict(c)' # None
  BY <1>5 DEF FreshAt
<1>7. attempt[c].answer # None
      /\ Verdict(c)' = [value |-> attempt[c].answer, scoredAt |-> attempt[c].publishedAt]
  BY <1>4, <1>6 DEF Verdict
<1>8. attempt[c].publishedAt \in Nat /\ attempt[c].publishedAt <= now
  BY <1>2, <1>3 DEF Shape, Consistent, Attempt
<1>9. r.outcome = "success" /\ r.value = attempt[c].answer
  BY <1>1, <1>2, <1>7 DEF Answers
<1>10. Share(r)
  BY <1>1, <1>9 DEF Conclude
<1>11. score'[r.key] = [value |-> r.value, expiry |-> now + ScoreTTL]
  BY <1>2, <1>10 DEF Share, TypeOK
<1>12. score'[r.key] # None
  <2>1. r.value \in Values
    BY <1>1, <1>9 DEF Shape, TypeOK, Request
  <2>2. [value |-> r.value, expiry |-> now + ScoreTTL] \in Expiring(Values)
    BY <1>2, <2>1 DEF Expiring
  <2> QED BY <1>11, <2>2, NoneAssumption
<1> QED BY <1>2, <1>5, <1>7, <1>8, <1>9, <1>11, <1>12 DEF IsShared

\* The other scripts tell nothing to hold.
LEMMA NothingElseIsTold ==
  ASSUME TypeOK, Shape, TokensApart, NEW r \in requests, Execute(r), ~AcquireHit(r), ~FinishOwned(r),
         NEW c \in Clients, attempt'[c] # attempt[c]
  PROVE  Coming(c)' = None
<1>1. PICK m \in {[kind |-> "mismatch"], [kind |-> "wait"], [kind |-> "owner"], [kind |-> "rejected"]} :
        Reply(r, m)
  BY DEF Execute, AcquireMismatch, AcquireWait, AcquireOwner, FinishFenced
<1>2. m \in ReplyMsg /\ m.kind # "hit" /\ m.kind # "accepted"
  BY DEF ReplyMsg
<1>3. attempt'[c] = Answered(attempt[c], m)
  BY <1>1, <1>2, Told
<1>4. attempt'[c].reply = m
  BY <1>3 DEF Answered
<1> QED BY <1>2, <1>4 DEF Coming, Verdict, Got

LEMMA ExecuteShared ==
  ASSUME TypeOK, Shape, TokensApart, LeasesInBudget, OnlySharedIsFresh,
         NEW r \in requests, Execute(r)
  PROVE  OnlySharedIsFresh'
<1>1. PICK m \in ReplyTo(r) : Reply(r, m) /\ Reaches(r, m)
  BY ScriptAnswers
<1>2. UNCHANGED <<now, doing, copy>>
  BY <1>1 DEF Reaches
<1>3. ASSUME NEW k \in Keys, NEW a, IsShared(k, a)
      PROVE  score'[k] = score[k]
  BY <1>3, SharesOnce DEF IsShared
<1>4. ASSUME NEW c \in Clients, NEW k \in Keys, Fresh(c, k)'
      PROVE  IsShared(k, copy[c][k])'
  <2>1. Fresh(c, k) /\ copy'[c][k] = copy[c][k]
    BY <1>2, <1>4 DEF Fresh, FreshAt
  <2>2. IsShared(k, copy[c][k])
    BY <2>1 DEF OnlySharedIsFresh
  <2> QED BY <1>3, <2>1, <2>2 DEF IsShared
<1>5. ASSUME NEW c \in Clients, FreshAt(Coming(c), now)'
      PROVE  IsShared(attempt[c].key, Coming(c))'
  <2>1. CASE attempt'[c] = attempt[c]
    <3>1. Coming(c)' = Coming(c)
      BY <1>2, <2>1 DEF Coming, Decode, Verdict, Got
    <3>2. FreshAt(Coming(c), now)
      BY <1>2, <1>5, <3>1 DEF FreshAt
    <3>3. IsShared(attempt[c].key, Coming(c)) /\ attempt[c].key \in Keys
      BY <3>2, ComingIsCopy DEF OnlySharedIsFresh, FreshAt, Active, TypeOK, Attempt
    <3> QED BY <1>3, <2>1, <3>1, <3>3 DEF IsShared
  <2>2. CASE attempt'[c] # attempt[c]
    <3>1. attempt'[c].key = r.key
      <4>1. m \in ReplyMsg
        BY <1>1 DEF ReplyTo
      <4>2. attempt'[c] = Answered(attempt[c], m) /\ attempt[c].key = r.key
        BY <1>1, <2>2, <4>1, Told
      <4> QED BY <4>2 DEF Answered
    <3>2. Coming(c)' # None
      BY <1>5 DEF FreshAt
    <3>3. IsShared(r.key, Coming(c))'
      BY <1>5, <2>2, <3>2, HitIsShared, AcceptedIsShared, NothingElseIsTold
    <3>4. r.key' = r.key
      OBVIOUS
    <3> QED BY <3>1, <3>3, <3>4 DEF IsShared
  <2> QED BY <2>1, <2>2
<1> QED BY <1>4, <1>5 DEF OnlySharedIsFresh

LEMMA CallShared ==
  ASSUME TypeOK, Shape, OnlySharedIsFresh, NEW c \in Clients, Call(c)
  PROVE  OnlySharedIsFresh'
<1>1. /\ Moves(c) /\ UNCHANGED <<now, score>>
      /\ \A d \in Clients : d # c => attempt'[d] = attempt[d] /\ doing'[d] = doing[d]
                                     /\ copy'[d] = copy[d]
  BY ClientMoves DEF redis
<1>2. \A k, a : IsShared(k, a)' <=> IsShared(k, a)
  BY <1>1 DEF IsShared
<1>3. ASSUME NEW d \in Clients, attempt'[d] = attempt[d], doing'[d] = doing[d],
             FreshAt(Coming(d), now)'
      PROVE  IsShared(attempt[d].key, Coming(d))'
  <2>1. Coming(d)' = Coming(d)
    BY <1>3 DEF Coming, Decode, Verdict, Got
  <2> QED BY <1>1, <1>2, <1>3, <2>1 DEF OnlySharedIsFresh, FreshAt
<1>4. (attempt'[c] = attempt[c] /\ doing'[c] = doing[c]) \/ Coming(c)' = None
  <2>1. ASSUME NEW k \in Keys, NEW t \in Tokens, Opens(c, k, t) PROVE Coming(c)' = None
    BY <2>1 DEF Opens, Opened, Coming, Got
  <2>2. ASSUME NEW outcome, NEW answer, HandsIn(c, outcome, answer) PROVE Coming(c)' = None
    BY <2>2 DEF HandsIn, Concluded, Coming, Verdict, Got
  <2>3. Waits(c) \/ Infers(c) \/ Ends(c) => Coming(c)' = None
    BY DEF Waits, Infers, Ends, Coming
  <2> QED BY <1>1, <2>1, <2>2, <2>3 DEF Moves
<1>5. ASSUME NEW k \in Keys, Fresh(c, k)'
      PROVE  IsShared(k, copy[c][k])'
  <2>1. copy'[c][k] # None /\ FreshAt(copy'[c][k], now)
    BY <1>1, <1>5 DEF Fresh, FreshAt
  <2>2. copy'[c][k] = copy[c][k] \/ Learns(c, k)
    BY <1>1, <2>1 DEF Moves, Opens, Waits, Infers, Ends, HandsIn
  <2>3. IsShared(k, copy'[c][k])
    BY <2>1, <2>2 DEF OnlySharedIsFresh, Fresh, Learns
  <2> QED BY <1>2, <2>3
<1>6. ASSUME NEW d \in Clients, d # c, NEW k \in Keys, Fresh(d, k)'
      PROVE  IsShared(k, copy[d][k])'
  BY <1>1, <1>2, <1>6 DEF OnlySharedIsFresh, Fresh, FreshAt
<1> QED BY <1>1, <1>3, <1>4, <1>5, <1>6 DEF OnlySharedIsFresh, FreshAt

LEMMA TickShared ==
  ASSUME TypeOK, Shape, OnlySharedIsFresh, Tick
  PROVE  OnlySharedIsFresh'
<1>1. now' = now + 1 /\ now \in Nat /\ UNCHANGED <<doing, attempt>>
  BY DEF Tick, TypeOK
<1>2. ASSUME NEW k \in Keys, NEW a \in Copy, FreshAt(a, now'),
             FreshAt(a, now) => IsShared(k, a)
      PROVE  IsShared(k, a)'
  <2>1. a.scoredAt \in Int /\ now' < a.scoredAt + ScoreTTL /\ a # None
    BY <1>2 DEF FreshAt, Copy
  <2>2. IsShared(k, a)
    BY <1>1, <1>2, <2>1, CoordinationAssumption DEF FreshAt
  <2>3. score[k].expiry \in Nat /\ score[k].expiry >= now'
    BY <1>1, <2>1, <2>2, CoordinationAssumption DEF IsShared, TypeOK, Expiring
  <2>4. score'[k] = score[k]
    BY <2>2, <2>3 DEF Tick, Survives, IsShared
  <2> QED BY <2>2, <2>4 DEF IsShared
<1>3. ASSUME NEW c \in Clients, NEW k \in Keys, Fresh(c, k)'
      PROVE  IsShared(k, copy[c][k])'
  <2>1. copy'[c][k] = copy[c][k] /\ copy[c][k] # None
    BY <1>3 DEF Tick, Fresh, FreshAt
  <2>2. copy[c][k] \in Copy /\ FreshAt(copy[c][k], now')
    BY <1>3, <2>1 DEF TypeOK, Fresh
  <2>3. \A a \in Copy : a = copy[c][k] => IsShared(k, a)'
    BY <1>2, <2>2 DEF OnlySharedIsFresh, Fresh
  <2> QED BY <2>1, <2>2, <2>3 DEF IsShared
<1>4. ASSUME NEW c \in Clients, FreshAt(Coming(c), now)'
      PROVE  IsShared(attempt[c].key, Coming(c))'
  <2>1. Coming(c)' = Coming(c) /\ attempt'[c].key = attempt[c].key
    BY <1>1 DEF Coming, Decode, Verdict, Got
  <2>2. Coming(c) \in Copy /\ attempt[c].key \in Keys /\ FreshAt(Coming(c), now')
    BY <1>4, <2>1, ComingIsCopy DEF FreshAt, Active, TypeOK, Attempt
  <2>3. \A a \in Copy : a = Coming(c) => IsShared(attempt[c].key, a)'
    BY <1>1, <1>2, <2>2 DEF OnlySharedIsFresh, IsShared
  <2> QED BY <2>1, <2>2, <2>3 DEF IsShared
<1> QED BY <1>3, <1>4 DEF OnlySharedIsFresh

LEMMA NextShared ==
  ASSUME TypeOK, Shape, TokensApart, LeasesInBudget, OnlySharedIsFresh, [Next]_vars
  PROVE  OnlySharedIsFresh'
<1>1. ASSUME UNCHANGED <<now, score, clients>> PROVE OnlySharedIsFresh'
  BY <1>1 DEF clients, OnlySharedIsFresh, Fresh, FreshAt, Coming, Decode, Verdict, Got, IsShared
<1>2. ASSUME NEW r \in requests, Lose(r) PROVE OnlySharedIsFresh'
  BY <1>1, <1>2 DEF Lose, redis
<1>3. CASE UNCHANGED vars
  BY <1>1, <1>3 DEF vars, redis
<1> QED BY <1>2, <1>3, ExecuteShared, CallShared, TickShared DEF Next, Step

-----------------------------------------------------------------------------
(* The invariant, and what it gives.                                        *)

LEMMA InitIInv == Init => IInv
<1> SUFFICES ASSUME Init PROVE IInv
  OBVIOUS
<1>1. Shape
  BY FS_EmptySet DEF Init, Shape, Active
<1>2. TokensApart
  BY DEF Init, TokensApart, Active, Held
<1>3. LeasesInBudget
  BY DEF Init, LeasesInBudget, Leased, Held
<1> QED BY <1>1, <1>2, <1>3, InitTyped, InitShared DEF IInv

LEMMA NextIInv ==
  ASSUME IInv, [Next]_vars
  PROVE  IInv'
BY NextTyped, NextShape, NextTokens, NextLeases, NextShared DEF IInv

LEMMA Invariance == Spec => []IInv
BY InitIInv, NextIInv, PTL DEF Spec

\* Every variable keeps its type: above all, what Redis stores and what replicas take
\* from it are assessments with a time.
THEOREM Typing == Spec => []TypeOK
<1>1. IInv => TypeOK
  BY DEF IInv
<1> QED BY <1>1, Invariance, PTL

\* No replica decides by an assessment the others do not share, or for longer than they
\* do, however late replies come and whatever is lost.
THEOREM CopiesAreShared == Spec => []FreshCopiesAreShared
<1>1. IInv => FreshCopiesAreShared
  BY DEF IInv, OnlySharedIsFresh, IsShared, FreshCopiesAreShared
<1> QED BY <1>1, Invariance, PTL

\* The leases in force have their places and stay within the agreed budget, also if
\* replicas disagree about it and after any of them crashed.
THEOREM Budget == Spec => []LeasesWithinBudget
<1>1. IInv => LeasesWithinBudget
  <2> SUFFICES ASSUME IInv PROVE LeasesWithinBudget
    OBVIOUS
  <2>1. \A k \in Leased : k \in Keys /\ Held(k)
    BY DEF Leased, Held
  <2> QED BY <2>1 DEF IInv, LeasesInBudget, TokensApart, LeasesWithinBudget
<1> QED BY <1>1, Invariance, PTL

-----------------------------------------------------------------------------
(* Coordination implements the contract, step by step.                      *)

LEMMA ContractTyped == TypeOK => Contract!TypeOK
<1> SUFFICES ASSUME TypeOK PROVE Contract!TypeOK
  OBVIOUS
<1>1. Owners \in [Keys -> Tokens \cup {None}]
  BY DEF Owners, TypeOK, Slot
<1>2. HandedIn \subseteq Tokens
  BY DEF HandedIn, TypeOK, Request
<1>3. SharedValues \in [Keys -> Values \cup {None}]
  BY DEF SharedValues, TypeOK, Expiring
<1>4. FreshValues \in [Clients -> [Keys -> Values \cup {None}]]
  <2>1. \A c \in Clients, k \in Keys : Fresh(c, k) => copy[c][k].value \in Values
    BY DEF Fresh, FreshAt, TypeOK, Copy
  <2> QED BY <2>1 DEF FreshValues
<1> QED BY <1>1, <1>2, <1>3, <1>4 DEF Contract!TypeOK

LEMMA ContractStaysTyped == TypeOK' => Contract!TypeOK'
BY ContractTyped, PTL

LEMMA InitContract == Init => Contract!Init
<1> SUFFICES ASSUME Init PROVE Contract!Init
  OBVIOUS
<1>1. Owners = [k \in Keys |-> None] /\ SharedValues = [k \in Keys |-> None] /\ HandedIn = {}
  BY DEF Init, Owners, SharedValues, HandedIn
<1>2. FreshValues = [c \in Clients |-> [k \in Keys |-> None]]
  BY DEF Init, FreshValues, Fresh, FreshAt
<1> QED BY <1>1, <1>2 DEF Contract!Init

\* What is the same for the contract.
LEMMA SameOwners == UNCHANGED lease => UNCHANGED Owners
BY DEF Owners

LEMMA SameValues == UNCHANGED score => UNCHANGED SharedValues
BY DEF SharedValues

LEMMA SameFresh == UNCHANGED <<now, copy>> => UNCHANGED FreshValues
BY DEF FreshValues, Fresh

\* A request leaves.
LEMMA FewerHandedIn ==
  ASSUME TokensApart, NEW r \in requests, requests' = requests \ {r}
  PROVE  /\ r.op # "finish" => UNCHANGED HandedIn
         /\ r.op = "finish" => r.token \in HandedIn /\ HandedIn' = HandedIn \ {r.token}
BY DEF HandedIn, TokensApart

LEMMA ExecuteContract ==
  ASSUME IInv, NEW r \in requests, Execute(r)
  PROVE  Contract!Next \/ UNCHANGED Contract!vars
<1> USE DEF IInv
<1>1. /\ r.key \in Keys /\ r.token \in Tokens
      /\ UNCHANGED <<now, copy>> /\ requests' = requests \ {r}
  BY ScriptAnswers DEF Reaches, TypeOK, Request
<1>2. CASE AcquireMismatch(r) \/ AcquireHit(r) \/ AcquireWait(r)
  <2>1. UNCHANGED <<lease, score>> /\ r.op # "finish"
    BY <1>2 DEF AcquireMismatch, AcquireHit, AcquireWait, Acquires, redis
  <2> QED BY <1>1, <2>1, SameOwners, SameValues, SameFresh, FewerHandedIn DEF Contract!vars
<1>3. CASE AcquireOwner(r)
  <2>1. r.op # "finish" /\ lease[r.key] = None /\ score[r.key] = None /\ UNCHANGED score
        /\ lease' = [lease EXCEPT ![r.key] = Grant(r)]
    BY <1>3, OwnerIsGranted DEF AcquireOwner, Acquires, Blocked
  <2>2. Grant(r).token = r.token /\ Grant(r) # None
    <3>1. Grant(r) \in Slot
      BY <1>1, CoordinationAssumption DEF Grant, Slot, TypeOK, Request
    <3> QED BY <3>1, NoneAssumption DEF Grant
  <2>3. Owners' = [Owners EXCEPT ![r.key] = r.token]
    BY <1>1, <2>1, <2>2 DEF Owners, TypeOK
  <2>4. r.token \notin HandedIn
    BY <2>1 DEF HandedIn, TokensApart
  <2>5. \A k \in Keys : Owners[k] # r.token
    BY <1>1, <2>1, NoneAssumption DEF Owners, TokensApart, Held
  <2>6. Owners[r.key] = None /\ SharedValues[r.key] = None
    BY <1>1, <2>1 DEF Owners, SharedValues
  <2>7. Contract!Grant(r.key, r.token)
    BY <1>1, <2>1, <2>3, <2>4, <2>5, <2>6, SameValues, SameFresh, FewerHandedIn DEF Contract!Grant
  <2> QED BY <1>1, <2>7 DEF Contract!Next
<1>4. CASE FinishFenced(r)
  <2>1. r.op = "finish" /\ UNCHANGED <<score, lease>>
    BY <1>4 DEF FinishFenced, Finishes
  <2>2. Contract!Discard(r.token)
    BY <1>1, <2>1, SameOwners, SameValues, SameFresh, FewerHandedIn DEF Contract!Discard
  <2> QED BY <1>1, <2>2 DEF Contract!Next
<1>5. CASE FinishOwned(r)
  <2>1. /\ r.op = "finish" /\ lease[r.key] # None /\ lease[r.key].token = r.token
        /\ lease' = [lease EXCEPT ![r.key] = None]
        /\ Conclude(r)
    BY <1>5 DEF FinishOwned, Finishes, Holds
  <2>2. Owners[r.key] = r.token /\ Owners' = [Owners EXCEPT ![r.key] = None]
    BY <1>1, <2>1 DEF Owners, TypeOK
  <2>3. /\ Owners[r.key] \in HandedIn /\ HandedIn' = HandedIn \ {Owners[r.key]}
        /\ UNCHANGED FreshValues
    BY <1>1, <2>1, <2>2, SameFresh, FewerHandedIn
  <2>4. CASE r.outcome = "success" /\ Share(r)
    <3>1. r.value \in Values
      BY <2>1, <2>4 DEF Shape, TypeOK, Request
    <3>2. [value |-> r.value, expiry |-> now + ScoreTTL] \in Expiring(Values)
      BY <3>1, CoordinationAssumption DEF Expiring, TypeOK
    <3>3. SharedValues' = [SharedValues EXCEPT ![r.key] = r.value]
      BY <1>1, <2>4, <3>2, NoneAssumption DEF Share, SharedValues, TypeOK
    <3>4. Contract!Publish(r.key, r.value)
      BY <2>2, <2>3, <3>3 DEF Contract!Publish
    <3> QED BY <1>1, <3>1, <3>4 DEF Contract!Next
  <2>5. CASE UNCHANGED score
    <3>1. Contract!Release(r.key)
      BY <2>2, <2>3, <2>5, SameValues DEF Contract!Release
    <3> QED BY <1>1, <3>1 DEF Contract!Next
  <2> QED BY <2>1, <2>4, <2>5 DEF Conclude
<1> QED BY <1>2, <1>3, <1>4, <1>5 DEF Execute

\* The contract lets replicas forget.
LEMMA ForgettingExpires ==
  ASSUME TypeOK', UNCHANGED HandedIn,
         \A k \in Keys : Owners'[k] \in {Owners[k], None} /\ SharedValues'[k] \in {SharedValues[k], None},
         \A c \in Clients, k \in Keys : FreshValues'[c][k] # None =>
           FreshValues'[c][k] = FreshValues[c][k] /\ SharedValues'[k] = SharedValues[k]
  PROVE  Contract!Next
<1>1. Contract!TypeOK'
  BY ContractStaysTyped
<1>2. Contract!Expire
  BY <1>1 DEF Contract!TypeOK, Contract!Expire
<1> QED BY <1>2 DEF Contract!Next

LEMMA CallContract ==
  ASSUME IInv, TypeOK', NEW c \in Clients, Call(c)
  PROVE  Contract!Next \/ UNCHANGED Contract!vars
<1> USE DEF IInv
<1>1. /\ Moves(c) /\ UNCHANGED <<now, lease, score>>
      /\ \A d \in Clients : d # c => copy'[d] = copy[d]
  BY ClientMoves DEF redis
<1>2. UNCHANGED <<Owners, SharedValues>>
  BY <1>1, SameOwners, SameValues
<1>3. CASE UNCHANGED <<requests, copy>>
  <2>1. UNCHANGED <<HandedIn, FreshValues>>
    BY <1>1, <1>3, SameFresh DEF HandedIn
  <2> QED BY <1>2, <2>1 DEF Contract!vars
<1>4. ASSUME NEW k \in Keys, NEW t \in Tokens, Opens(c, k, t)
      PROVE  UNCHANGED Contract!vars
  <2>1. AcquireCall(c, k, t).op # "finish"
    BY DEF AcquireCall
  <2>2. UNCHANGED <<HandedIn, FreshValues>>
    BY <1>1, <1>4, <2>1, SameFresh DEF Opens, HandedIn
  <2> QED BY <1>2, <2>2 DEF Contract!vars
<1>5. ASSUME NEW outcome, NEW answer, HandsIn(c, outcome, answer)
      PROVE  Contract!Next
  <2> DEFINE t == attempt[c].token
  <2>1. t \in Tokens
    BY <1>5 DEF HandsIn, Shape, Consistent, Active, TypeOK, Attempt
  <2>2. FinishCall(c, outcome, answer).op = "finish" /\ FinishCall(c, outcome, answer).token = t
    BY DEF FinishCall
  <2>3. HandedIn' = HandedIn \cup {t}
    BY <1>5, <2>2 DEF HandsIn, HandedIn
  <2>4. UNCHANGED FreshValues
    BY <1>1, <1>5, SameFresh DEF HandsIn
  <2>5. Contract!HandIn(t)
    BY <1>2, <2>3, <2>4 DEF Contract!HandIn
  <2> QED BY <2>1, <2>5 DEF Contract!Next
<1>6. CASE Ends(c)
  <2>1. UNCHANGED HandedIn
    BY <1>6 DEF Ends, HandedIn
  <2>2. ASSUME NEW d \in Clients, NEW k \in Keys, d # c \/ copy'[d][k] = copy[d][k]
        PROVE  FreshValues'[d][k] = FreshValues[d][k]
    BY <1>1, <2>2 DEF FreshValues, Fresh
  <2>3. ASSUME NEW k \in Keys, copy'[c][k] = None
        PROVE  FreshValues'[c][k] = None
    BY <2>3 DEF FreshValues, Fresh, FreshAt
  <2>4. CASE \A k \in Keys : copy'[c][k] \in {copy[c][k], None}
    <3>1. \A d \in Clients, k \in Keys : FreshValues'[d][k] # None => FreshValues'[d][k] = FreshValues[d][k]
      BY <2>2, <2>3, <2>4
    <3> QED BY <1>2, <2>1, <3>1, ForgettingExpires
  <2>5. ASSUME NEW k \in Keys, Learns(c, k), \A j \in Keys \ {k} : copy'[c][j] = copy[c][j]
        PROVE  Contract!Next
    <3>1. CASE FreshAt(Coming(c), now)
      <4>1. /\ score[k] # None /\ score[k].value = copy'[c][k].value
            /\ Fresh(c, k)'
        BY <1>1, <2>5, <3>1 DEF Learns, OnlySharedIsFresh, IsShared, Fresh
      <4>2. SharedValues[k] = score[k].value /\ score[k].value \in Values
        BY <4>1 DEF SharedValues, TypeOK, Expiring
      <4>3. FreshValues'[c][k] = SharedValues[k]
        BY <4>1, <4>2 DEF FreshValues
      <4>4. FreshValues' = [FreshValues EXCEPT ![c][k] = SharedValues[k]]
        <5>1. /\ FreshValues \in [Clients -> [Keys -> Values \cup {None}]]
              /\ FreshValues' \in [Clients -> [Keys -> Values \cup {None}]]
          BY ContractTyped, ContractStaysTyped DEF Contract!TypeOK
        <5>2. \A d \in Clients, j \in Keys : ~(d = c /\ j = k) => FreshValues'[d][j] = FreshValues[d][j]
          BY <2>2, <2>5
        <5> HIDE DEF FreshValues
        <5> QED BY <4>3, <5>1, <5>2
      <4>5. Contract!Learn(c, k)
        BY <1>2, <2>1, <4>2, <4>4, NoneAssumption DEF Contract!Learn
      <4> QED BY <4>5 DEF Contract!Next
    <3>2. CASE ~FreshAt(Coming(c), now)
      <4>1. FreshValues'[c][k] = None
        BY <1>1, <2>5, <3>2 DEF Learns, FreshValues, Fresh
      <4>2. \A d \in Clients, j \in Keys : FreshValues'[d][j] # None => FreshValues'[d][j] = FreshValues[d][j]
        BY <2>2, <2>5, <4>1
      <4> QED BY <1>2, <2>1, <4>2, ForgettingExpires
    <3> QED BY <3>1, <3>2
  <2> QED BY <1>6, <2>4, <2>5 DEF Ends
<1> QED BY <1>1, <1>3, <1>4, <1>5, <1>6 DEF Moves, Waits, Infers

LEMMA TickContract ==
  ASSUME IInv, IInv', Tick
  PROVE  Contract!Next
<1>1. UNCHANGED HandedIn
  BY DEF Tick, HandedIn
<1>2. \A k \in Keys : Owners'[k] \in {Owners[k], None} /\ SharedValues'[k] \in {SharedValues[k], None}
  BY DEF Tick, Owners, SharedValues
<1>3. ASSUME NEW c \in Clients, NEW k \in Keys, FreshValues'[c][k] # None
      PROVE  FreshValues'[c][k] = FreshValues[c][k] /\ SharedValues'[k] = SharedValues[k]
  <2>1. Fresh(c, k)' /\ FreshValues'[c][k] = copy'[c][k].value
    BY <1>3 DEF FreshValues
  <2>2. copy'[c][k] = copy[c][k] /\ score'[k] # None
    BY <2>1 DEF Tick, Fresh, FreshAt, IInv, OnlySharedIsFresh, IsShared
  <2>3. Fresh(c, k)
    <3>1. copy[c][k] \in Copy
      BY <2>1, <2>2 DEF IInv, TypeOK, Fresh, FreshAt
    <3>2. now' = now + 1 /\ now \in Nat
      BY DEF Tick, IInv, TypeOK
    <3> QED BY <2>1, <2>2, <3>1, <3>2, CoordinationAssumption DEF Fresh, FreshAt, Copy
  <2> QED BY <2>1, <2>2, <2>3 DEF FreshValues, SharedValues, Tick
<1> QED BY <1>1, <1>2, <1>3, ForgettingExpires DEF IInv

LEMMA NextContract ==
  ASSUME IInv, IInv', [Next]_vars
  PROVE  [Contract!Next]_(Contract!vars)
<1>1. ASSUME UNCHANGED <<now, redis, clients, requests>> PROVE UNCHANGED Contract!vars
  BY <1>1, SameOwners, SameValues, SameFresh DEF redis, clients, HandedIn, Contract!vars
<1>2. ASSUME NEW r \in requests, Lose(r) PROVE Contract!Next \/ UNCHANGED Contract!vars
  <2>1. requests' = requests \ {r} /\ UNCHANGED <<Owners, SharedValues, FreshValues>>
    BY <1>2, SameOwners, SameValues, SameFresh DEF Lose, redis, clients
  <2>2. CASE r.op = "finish"
    <3>1. Contract!Discard(r.token) /\ r.token \in Tokens
      BY <2>1, <2>2, FewerHandedIn DEF IInv, Contract!Discard, TypeOK, Request
    <3> QED BY <3>1 DEF Contract!Next
  <2>3. CASE r.op # "finish"
    BY <2>1, <2>3, FewerHandedIn DEF IInv, Contract!vars
  <2> QED BY <2>2, <2>3
<1>3. CASE UNCHANGED vars
  BY <1>1, <1>3 DEF vars
<1> QED BY <1>2, <1>3, ExecuteContract, CallContract, TickContract DEF Next, Step, IInv

\* What the scripts and the clients do together, with any loss, delay, crash and expiry,
\* is what LeasedAssessment promises.
THEOREM FulfilsContract == Spec => ImplementsContract
<1>1. IInv /\ IInv' /\ [Next]_vars => [Contract!Next]_(Contract!vars)
  BY NextContract
<1> QED BY <1>1, InitContract, Invariance, PTL DEF Spec, ImplementsContract, Contract!Spec

\* Replicas never decide one metric by two assessments, and nothing that is shared is
\* being assessed.
THEOREM Agreement == Spec => []ReplicasAgree
<1>1. IInv => ReplicasAgree
  <2> SUFFICES ASSUME IInv PROVE Contract!Agreement
    BY DEF ReplicasAgree
  <2>1. \A k \in Keys : Owners[k] = None \/ SharedValues[k] = None
    BY DEF Owners, SharedValues, IInv, LeasesInBudget, Held
  <2>2. \A j, k \in Keys : j # k /\ Owners[j] # None => Owners[j] # Owners[k]
    BY NoneAssumption DEF Owners, IInv, TokensApart, Held
  <2>3. \A c \in Clients, k \in Keys : FreshValues[c][k] # None => FreshValues[c][k] = SharedValues[k]
    BY DEF FreshValues, SharedValues, IInv, OnlySharedIsFresh, IsShared
  <2> QED BY <2>1, <2>2, <2>3 DEF Contract!Agreement
<1> QED BY <1>1, Invariance, PTL

-----------------------------------------------------------------------------
(* If every client meets its deadlines.                                     *)

LEMMA GrantedIsActive ==
  ASSUME TypeOK, NEW c \in Clients, Granted(c)
  PROVE  Active(c) /\ attempt[c] \in Attempt
BY DEF TypeOK, Granted, Active

\* What the answers "owner" and "rejected" say about the script.
LEMMA AnswersTell ==
  ASSUME TypeOK, Shape, TokensApart, NEW r \in requests, Execute(r),
         NEW c \in Clients, attempt'[c] # attempt[c]
  PROVE  /\ Got(c, "owner")' => AcquireOwner(r)
         /\ Got(c, "rejected")' => FinishFenced(r)
<1>1. ASSUME NEW m \in ReplyMsg, Reply(r, m), m.kind # "owner", m.kind # "rejected"
      PROVE  ~Got(c, "owner")' /\ ~Got(c, "rejected")'
  <2>1. attempt'[c] = Answered(attempt[c], m)
    BY <1>1, Told
  <2>2. attempt'[c].reply = m
    BY <2>1 DEF Answered
  <2> QED BY <1>1, <2>2 DEF Got
<1>2. CASE AcquireHit(r)
  <2> PICK m : m = [kind |-> "hit", value |-> score[r.key].value,
                    remaining |-> score[r.key].expiry - now]
    OBVIOUS
  <2>1. score[r.key].value \in Values /\ score[r.key].expiry \in Nat
    BY <1>2 DEF AcquireHit, TypeOK, Expiring, Request
  <2>2. m \in ReplyMsg /\ m.kind = "hit" /\ Reply(r, m)
    BY <1>2, <2>1 DEF ReplyMsg, TypeOK, AcquireHit
  <2> QED BY <1>1, <2>2
<1>3. CASE AcquireMismatch(r) \/ AcquireWait(r) \/ FinishOwned(r)
  <2>1. PICK m \in {[kind |-> "mismatch"], [kind |-> "wait"], [kind |-> "accepted"]} : Reply(r, m)
    BY <1>3 DEF AcquireMismatch, AcquireWait, FinishOwned
  <2>2. m \in ReplyMsg /\ m.kind # "owner" /\ m.kind # "rejected"
    BY <2>1 DEF ReplyMsg
  <2> QED BY <1>1, <2>1, <2>2
<1>4. CASE AcquireOwner(r)
  <2>1. PICK m \in ReplyMsg : m.kind = "owner" /\ Reply(r, m)
    BY <1>4 DEF AcquireOwner, ReplyMsg
  <2>2. attempt'[c] = Answered(attempt[c], m)
    BY <2>1, Told
  <2>3. attempt'[c].reply = m
    BY <2>2 DEF Answered
  <2> QED BY <1>4, <2>1, <2>3 DEF Got
<1>5. CASE FinishFenced(r)
  <2>1. PICK m \in ReplyMsg : m.kind = "rejected" /\ Reply(r, m)
    BY <1>5 DEF FinishFenced, ReplyMsg
  <2>2. attempt'[c] = Answered(attempt[c], m)
    BY <2>1, Told
  <2>3. attempt'[c].reply = m
    BY <2>2 DEF Answered
  <2> QED BY <1>5, <2>1, <2>3 DEF Got
<1> QED BY <1>2, <1>3, <1>4, <1>5 DEF Execute

\* Nobody else's call takes a lease away.
LEMMA OwnershipLasts ==
  ASSUME IInv, NEW r \in requests, Execute(r),
         NEW c \in Clients, Granted(c), Owns(c), attempt'[c] = attempt[c],
         ~(c = r.client /\ Awaits(c, r))
  PROVE  Owns(c)'
<1> USE DEF IInv
<1>1. /\ Active(c) /\ attempt[c] \in Attempt /\ attempt[c].key \in Keys
      /\ r.key \in Keys
  BY GrantedIsActive DEF Attempt, TypeOK, Request
<1>2. lease'[attempt[c].key] = lease[attempt[c].key]
  <2>1. CASE AcquireOwner(r)
    <3>1. attempt[c].key # r.key
      BY <2>1 DEF AcquireOwner, Blocked, Owns, Held
    <3> QED BY <1>1, <2>1, <3>1, OwnerIsGranted DEF TypeOK
  <2>2. CASE FinishOwned(r)
    <3>1. attempt[c].key # r.key
      <4>1. SUFFICES ASSUME attempt[c].key = r.key PROVE FALSE
        OBVIOUS
      <4>2. attempt[c].token = r.token /\ r.op = "finish"
        BY <2>2, <4>1 DEF FinishOwned, Finishes, Holds, Owns
      <4>3. Answers(c, r)
        BY <1>1, <4>2 DEF TokensApart
      <4> QED BY <4>2, <4>3 DEF Answers, Awaits
    <3> QED BY <1>1, <2>2, <3>1 DEF FinishOwned, TypeOK
  <2>3. CASE ~AcquireOwner(r) /\ ~FinishOwned(r)
    BY <2>3 DEF Execute, AcquireMismatch, AcquireHit, AcquireWait, FinishFenced, redis
  <2> QED BY <2>1, <2>2, <2>3
<1>3. settings'.value = settings.value
  <2>1. CASE RefreshSettings(r) /\ Compatible(r)
    BY <1>1, <2>1, SettingsOutlive DEF Owns
  <2>2. CASE UNCHANGED settings
    BY <2>2
  <2> QED BY <2>1, <2>2 DEF Execute, AcquireMismatch, AcquireHit, AcquireWait, AcquireOwner,
                        FinishFenced, FinishOwned, redis
<1> QED BY <1>2, <1>3 DEF Owns, Held

LEMMA ExecutePrompt ==
  ASSUME IInv, Prompt, NEW r \in requests, Execute(r)
  PROVE  Prompt'
<1> USE DEF IInv
<1>1. PICK m \in ReplyTo(r) : Reply(r, m) /\ Reaches(r, m)
  BY ScriptAnswers
<1>2. UNCHANGED <<now, doing>> /\ m \in ReplyMsg
  BY <1>1 DEF Reaches, ReplyTo
<1>3. ASSUME NEW c \in Clients, attempt'[c] = attempt[c]
      PROVE  PromptAt(c)'
  <2>1. Timely(c)' /\ (doing'[c] = "finishing" => ~Got(c, "rejected")')
    BY <1>2, <1>3 DEF Prompt, PromptAt, Timely, Deadline, Got
  <2>2. ASSUME Granted(c)' PROVE Owns(c)'
    <3>1. Granted(c) /\ Owns(c)
      BY <1>2, <1>3, <2>2 DEF Granted, Got, Prompt, PromptAt
    <3>2. CASE c = r.client /\ Awaits(c, r)
      <4>1. attempt[c] \in Attempt /\ attempt'[c] = Answered(attempt[c], m) /\ m # None
        BY <1>1, <1>2, <3>1, <3>2, GrantedIsActive, NoneAssumption DEF Reaches
      <4>2. attempt'[c].reply = m
        BY <4>1 DEF Answered
      <4> QED BY <1>3, <3>2, <4>1, <4>2 DEF Awaits
    <3> QED BY <1>3, <3>1, <3>2, OwnershipLasts
  <2> QED BY <2>1, <2>2 DEF PromptAt
<1>4. ASSUME NEW c \in Clients, attempt'[c] # attempt[c]
      PROVE  PromptAt(c)'
  <2>1. /\ c = r.client /\ Awaits(c, r) /\ Active(c) /\ Answers(c, r)
        /\ attempt[c] \in Attempt /\ attempt[c].key = r.key /\ r.key \in Keys
        /\ attempt[c].started <= now /\ now \in Nat
        /\ attempt'[c] = Answered(attempt[c], m)
    BY <1>1, <1>2, <1>4, Told
  <2>2. /\ attempt'[c].key = r.key /\ attempt'[c].token = r.token /\ attempt'[c].reply = m
        /\ attempt'[c].started = attempt[c].started
        /\ attempt'[c].publishedAt = attempt[c].publishedAt
    BY <2>1 DEF Answered, Awaits
  <2>3. Timely(c)'
    BY <1>2, <2>2 DEF Prompt, PromptAt, Timely, Deadline
  <2>4. ASSUME Granted(c)' PROVE Owns(c)'
    <3>1. m # None
      BY <1>2, NoneAssumption
    <3>2. doing[c] # "inferring"
      BY <2>1 DEF Awaits
    <3>3. Got(c, "owner")'
      BY <1>2, <2>2, <2>4, <3>1, <3>2 DEF Granted
    <3>4. AcquireOwner(r)
      BY <1>4, <3>3, AnswersTell
    <3>5. Grant(r).token = r.token /\ Grant(r).expiry = now + SettingsOf[c].leaseTTL /\ Grant(r) # None
      <4>1. Grant(r) \in Slot
        BY <2>1, CoordinationAssumption DEF Grant, Slot, TypeOK, Request
      <4> QED BY <2>1, <4>1, NoneAssumption DEF Grant
    <3>6. lease'[r.key] = Grant(r)
      BY <2>1, <3>4, OwnerIsGranted DEF TypeOK
    <3>7. settings'.value = SettingsOf[c]
      BY <2>1, <3>4, SettingsOutlive DEF AcquireOwner
    <3>8. SettingsOf[c].leaseTTL \in Nat /\ attempt[c].started \in Nat
      BY <2>1, CoordinationAssumption DEF Attempt
    <3> QED BY <2>1, <2>2, <3>5, <3>6, <3>7, <3>8 DEF Owns, Held
  <2>5. ASSUME doing'[c] = "finishing", Got(c, "rejected")' PROVE FALSE
    <3>1. FinishFenced(r)
      BY <1>4, <2>5, AnswersTell
    <3>2. Granted(c)
      BY <1>2, <2>1, <2>5 DEF Granted, Answers
    <3>3. Holds(r)
      BY <2>1, <3>2 DEF Prompt, PromptAt, Owns, Held, Holds, Awaits
    <3> QED BY <3>1, <3>3 DEF FinishFenced
  <2> QED BY <2>3, <2>4, <2>5 DEF PromptAt
<1> QED BY <1>3, <1>4 DEF Prompt

\* A client has its lease when it begins to infer, and time to publish when it ends.
LEMMA CallPrompt ==
  ASSUME IInv, Prompt, NEW c \in Clients, Call(c)
  PROVE  Prompt'
<1> USE DEF IInv
<1> USE CoordinationAssumption
<1>1. /\ Moves(c) /\ UNCHANGED <<now, lease, settings>>
      /\ \A d \in Clients : d # c => attempt'[d] = attempt[d] /\ doing'[d] = doing[d]
  BY ClientMoves DEF redis
<1>2. ASSUME NEW d \in Clients, attempt'[d] = attempt[d], doing'[d] = doing[d]
      PROVE  PromptAt(d)'
  BY <1>1, <1>2 DEF Prompt, PromptAt, Timely, Deadline, Granted, Got, Owns, Held
<1>3. now \in Nat /\ SettingsOf[c].leaseTTL \in Nat /\ SettingsOf[c].leaseTTL > 2 * Timeout /\ Timeout \in Nat
  BY DEF TypeOK
<1>4. ASSUME NEW k \in Keys, NEW t \in Tokens, Opens(c, k, t) PROVE PromptAt(c)'
  <2>1. doing'[c] = "acquiring" /\ attempt'[c].started = now /\ attempt'[c].reply = None
    BY <1>4 DEF Opens, Opened
  <2> QED BY <1>1, <1>3, <2>1 DEF PromptAt, Timely, Granted, Got
<1>5. ASSUME Waits(c) \/ Ends(c) PROVE PromptAt(c)'
  <2>1. doing'[c] \in {"waiting", "idle"}
    BY <1>5 DEF Waits, Ends
  <2>2. Timely(c)' /\ ~Granted(c)'
    BY <2>1 DEF Timely, Granted
  <2> QED BY <2>1, <2>2 DEF PromptAt
<1>6. ASSUME Infers(c) PROVE PromptAt(c)'
  <2>1. /\ Granted(c) /\ attempt'[c] = attempt[c] /\ doing[c] = "acquiring" /\ doing'[c] = "inferring"
        /\ Timely(c) /\ Owns(c)
    BY <1>6 DEF Infers, Granted, Prompt, PromptAt
  <2>2. attempt[c].started \in Nat
    BY <2>1, GrantedIsActive DEF Attempt
  <2>3. now <= Deadline(c)
    BY <1>3, <2>1, <2>2 DEF Timely, Deadline
  <2>4. Timely(c)' /\ Owns(c)'
    BY <1>1, <2>1, <2>3 DEF Timely, Deadline, Owns, Held
  <2> QED BY <2>1, <2>4 DEF PromptAt
<1>7. ASSUME NEW outcome, NEW answer, HandsIn(c, outcome, answer) PROVE PromptAt(c)'
  <2>1. /\ Timely(c) /\ Owns(c) /\ doing[c] = "inferring" /\ doing'[c] = "finishing"
    BY <1>7 DEF HandsIn, Granted, Prompt, PromptAt
  <2>2. /\ attempt'[c].key = attempt[c].key /\ attempt'[c].token = attempt[c].token
        /\ attempt'[c].started = attempt[c].started /\ attempt'[c].publishedAt = now
        /\ attempt'[c].reply = None
    BY <1>7 DEF HandsIn, Concluded
  <2>3. Timely(c)'
    BY <1>1, <1>3, <2>1, <2>2 DEF Timely, Deadline
  <2>4. Owns(c)' /\ ~Got(c, "rejected")'
    BY <1>1, <2>1, <2>2 DEF Owns, Held, Got
  <2> QED BY <2>1, <2>3, <2>4 DEF PromptAt
<1>8. PromptAt(c)'
  <2>1. CASE UNCHANGED <<requests, attempt, doing, copy>>
    BY <1>2, <2>1
  <2>2. ASSUME NEW outcome \in {"success", "failure", "cancel"}, NEW answer \in Values \cup {None},
               HandsIn(c, outcome, answer)
        PROVE  PromptAt(c)'
    BY <1>7, <2>2
  <2> QED BY <1>1, <1>4, <1>5, <1>6, <2>1, <2>2 DEF Moves
<1> QED BY <1>1, <1>2, <1>8 DEF Prompt

\* Time does not take a lease away that its owner still needs.
LEMMA TickPrompt ==
  ASSUME IInv, IInv', Prompt, Tick, \A c \in Clients : InTime(c)
  PROVE  Prompt'
<1> USE DEF IInv
<1> USE CoordinationAssumption
<1> SUFFICES ASSUME NEW c \in Clients PROVE PromptAt(c)'
  BY DEF Prompt
<1>1. UNCHANGED <<attempt, doing>> /\ now' = now + 1 /\ now \in Nat
      /\ SettingsOf[c].leaseTTL \in Nat /\ SettingsOf[c].leaseTTL > 2 * Timeout /\ Timeout \in Nat
  BY DEF Tick, TypeOK
<1>2. ASSUME doing[c] # "idle"
      PROVE  /\ attempt[c] \in Attempt /\ attempt[c].started \in Nat
             /\ doing[c] = "finishing" => attempt[c].publishedAt \in Nat
  <2>1. Active(c) /\ attempt[c] \in Attempt
    BY <1>2 DEF TypeOK, Active
  <2> QED BY <2>1 DEF Attempt, Shape, Consistent
<1>3. Timely(c)'
  BY <1>1, <1>2 DEF Prompt, PromptAt, Timely, InTime, Deadline
<1>4. doing'[c] = "finishing" => ~Got(c, "rejected")'
  BY <1>1 DEF Prompt, PromptAt, Got
<1>5. ASSUME Granted(c)' PROVE Owns(c)'
  <2> DEFINE k == attempt[c].key
  <2>1. Granted(c) /\ Owns(c)
    BY <1>1, <1>5 DEF Granted, Got, Prompt, PromptAt
  <2>2. doing[c] \in {"acquiring", "inferring", "finishing"}
    BY <2>1 DEF Granted
  <2>3. k \in Keys /\ lease[k] \in Slot /\ lease[k].expiry \in Nat
    BY <1>2, <2>1, <2>2 DEF Attempt, Owns, Held, TypeOK, Slot
  <2>4. now' <= lease[k].expiry
    BY <1>1, <1>2, <1>3, <2>1, <2>2, <2>3 DEF Timely, Deadline, Owns
  <2>5. lease'[k] = lease[k]
    BY <2>1, <2>3, <2>4 DEF Tick, Survives, Owns, Held
  <2>6. settings' # None
    BY <2>1, <2>3, <2>5 DEF LeasesInBudget, Owns, Held
  <2>7. settings' = settings
    BY <2>6 DEF Tick
  <2> QED BY <1>1, <2>1, <2>5, <2>7 DEF Owns, Held
<1> QED BY <1>3, <1>4, <1>5 DEF PromptAt

LEMMA NextPrompt ==
  ASSUME IInv, IInv', Prompt, [PromptNext]_vars
  PROVE  Prompt'
<1>1. ASSUME UNCHANGED <<now, redis, clients>> PROVE Prompt'
  BY <1>1 DEF redis, clients, Prompt, PromptAt, Timely, Deadline, Granted, Got, Owns, Held
<1>2. ASSUME NEW r \in requests, Lose(r) PROVE Prompt'
  BY <1>1, <1>2 DEF Lose
<1>3. CASE UNCHANGED vars
  BY <1>1, <1>3 DEF vars
<1> QED BY <1>2, <1>3, ExecutePrompt, CallPrompt, TickPrompt DEF PromptNext, Step

LEMMA PromptInvariance == PromptSpec => [](IInv /\ Prompt)
<1>1. Init => Prompt
  BY DEF Init, Prompt, PromptAt, Timely, Granted
<1>2. [PromptNext]_vars => [Next]_vars
  BY DEF PromptNext, Next
<1>3. IInv /\ [PromptNext]_vars => IInv'
  BY <1>2, NextIInv
<1>4. IInv /\ IInv' /\ Prompt /\ [PromptNext]_vars => Prompt'
  BY NextPrompt
<1> QED BY <1>1, <1>3, <1>4, InitIInv, PTL DEF PromptSpec

\* A client that meets its deadlines never works in vain for a lease it has lost.
THEOREM PromptOwnersPublish == PromptSpec => []PromptOwnerIsNotFenced
<1>1. Prompt => PromptOwnerIsNotFenced
  BY DEF Prompt, PromptAt, PromptOwnerIsNotFenced
<1> QED BY <1>1, PromptInvariance, PTL

\* While a client infers, no replica has a fresh assessment of the key.
THEOREM InferenceIsNeeded == PromptSpec => []NoInferenceWhileShared
<1>1. IInv /\ Prompt => NoInferenceWhileShared
  <2> SUFFICES ASSUME IInv, Prompt, NEW c \in Inferring, NEW d \in Clients, Fresh(d, attempt[c].key)
               PROVE  FALSE
    BY DEF NoInferenceWhileShared
  <2>1. c \in Clients /\ Granted(c)
    BY DEF Inferring, Granted
  <2>2. attempt[c].key \in Keys /\ Held(attempt[c].key)
    BY <2>1, GrantedIsActive DEF IInv, Attempt, Prompt, PromptAt, Owns
  <2>3. score[attempt[c].key] = None
    BY <2>2 DEF IInv, LeasesInBudget
  <2> QED BY <2>2, <2>3 DEF IInv, OnlySharedIsFresh, IsShared
<1> QED BY <1>1, PromptInvariance, PTL

\* Each key is assessed by one client at a time, and by all clients together no more
\* keys than the budget.  A client may infer until its lease ends less coordination.timeout, so
\* that is positive (Config.Validate), or the lease could end within the inference.
THEOREM InferenceWithinBudget ==
  ASSUME Timeout > 0
  PROVE  PromptSpec => []SoleInference
<1>1. IInv /\ Prompt => SoleInference
  <2> SUFFICES ASSUME IInv, Prompt PROVE SoleInference
    OBVIOUS
  <2> USE DEF IInv
  <2>1. ASSUME NEW c \in Inferring
        PROVE  /\ c \in Clients /\ Active(c) /\ attempt[c].key \in Leased
               /\ attempt[c].token # None /\ lease[attempt[c].key].token = attempt[c].token
               /\ settings.value = SettingsOf[c]
    <3>1. c \in Clients /\ Granted(c) /\ doing[c] = "inferring"
      BY <2>1 DEF Inferring, Granted
    <3>2. Owns(c) /\ now <= Deadline(c) /\ Active(c) /\ attempt[c] \in Attempt
      BY <3>1, GrantedIsActive DEF Prompt, PromptAt, Timely
    <3>3. attempt[c].key \in Keys /\ attempt[c].started \in Nat /\ attempt[c].token # None
      BY <3>1, <3>2 DEF Attempt, Shape, Consistent
    <3>4. lease[attempt[c].key].expiry \in Nat /\ lease[attempt[c].key] # None
      BY <3>2, <3>3 DEF Owns, Held, TypeOK, Slot
    <3>5. lease[attempt[c].key].expiry > now
      BY <3>1, <3>2, <3>3, <3>4, CoordinationAssumption DEF Owns, Deadline, TypeOK
    <3> QED BY <3>1, <3>2, <3>3, <3>4, <3>5 DEF Owns, Leased
  <2>2. \A c, d \in Inferring : c # d => attempt[c].key # attempt[d].key
    BY <2>1 DEF TokensApart
  <2>3. ASSUME NEW c \in Inferring
        PROVE  Cardinality(Inferring) <= SettingsOf[c].maxInFlight
    <3> DEFINE f == [d \in Inferring |-> attempt[d].key]
    <3>1. f \in [Inferring -> Leased] /\ \A d, e \in Inferring : f[d] = f[e] => d = e
      BY <2>1, <2>2
    <3>2. f \in Injection(Inferring, Leased)
      BY <3>1 DEF Injection, IsInjective
    <3>3. IsFiniteSet(Inferring) /\ Cardinality(Inferring) <= Cardinality(Leased)
      BY <3>2, LeasesFit, FS_Injection
    <3>4. Cardinality(Leased) <= SettingsOf[c].maxInFlight
      BY <2>1 DEF LeasesInBudget
    <3>5. /\ Cardinality(Inferring) \in Nat /\ Cardinality(Leased) \in Nat
          /\ SettingsOf[c].maxInFlight \in Nat
      BY <2>1, <3>3, LeasesFit, FS_CardinalityType, CoordinationAssumption
    <3> QED BY <3>3, <3>4, <3>5
  <2> QED BY <2>2, <2>3 DEF SoleInference
<1> QED BY <1>1, PromptInvariance, PTL
-----------------------------------------------------------------------------
(* Where assessments come from, for those who use the coordination: if A is *)
(* what Jev has said so far, to whichever client, then everything Redis     *)
(* stores and hands out goes back to it, and is dated at most the longest   *)
(* lease, L, after it was said.                                             *)

Said(A, L, k, v, at) == \E a \in A : a.metric = k /\ a.keep = v /\ at <= a.at + L

\* A result on its way is published, if at all, before its lease ends.
Presented(A, L, r) ==
  \E a \in A : /\ a.metric = r.key /\ a.keep = r.value
               /\ Held(r.key) /\ lease[r.key].token = r.token => lease[r.key].expiry <= a.at + L

Grounded(A, L) ==
  /\ \A a \in A : a.at \in Nat
  /\ \A k \in Keys : score[k] # None => Said(A, L, k, score[k].value, score[k].expiry - ScoreTTL)
  /\ \A k \in Keys : Held(k) => lease[k].expiry >= now
  /\ \A r \in requests : r.op = "finish" /\ r.value # None => Presented(A, L, r)
  /\ \A c \in Clients : Coming(c) # None =>
       Said(A, L, attempt[c].key, Coming(c).value, Coming(c).scoredAt)
  /\ \A c \in Clients : doing[c] = "finishing" /\ attempt[c].answer # None =>
       Said(A, L, attempt[c].key, attempt[c].answer, attempt[c].publishedAt)

\* L bounds every lease.
Longest(L) == L \in Nat /\ \A c \in Clients : SettingsOf[c].leaseTTL <= L

\* What is handed in anew has been said.
Heard(B) ==
  \A r \in requests' : r \notin requests /\ r.op = "finish" /\ r.value # None =>
    [metric |-> r.key, keep |-> r.value, at |-> now] \in B

LEMMA InitGrounded ==
  ASSUME Init, NEW L
  PROVE  Grounded({}, L)
BY DEF Init, Grounded, Held, Coming

LEMMA SaidLasts ==
  ASSUME NEW A, NEW B, A \subseteq B, NEW L, NEW k, NEW v, NEW at, Said(A, L, k, v, at)
  PROVE  Said(B, L, k, v, at)
BY DEF Said

\* While it lives, a shared assessment stays what it is.
LEMMA KeepsShared ==
  ASSUME IInv, [Next]_vars, NEW k \in Keys, score[k] # None, score[k].expiry >= now'
  PROVE  score'[k] = score[k]
<1> USE DEF IInv
<1>1. ASSUME NEW r \in requests, Execute(r) PROVE score'[k] = score[k]
  BY <1>1, SharesOnce
<1>2. ASSUME NEW r \in requests, Lose(r) PROVE score'[k] = score[k]
  BY <1>2 DEF Lose, redis
<1>3. ASSUME NEW c \in Clients, Call(c) PROVE score'[k] = score[k]
  BY <1>3, ClientMoves DEF redis
<1>4. CASE Tick
  BY <1>4 DEF Tick, Survives, TypeOK
<1>5. CASE UNCHANGED vars
  BY <1>5 DEF vars, redis
<1> QED BY <1>1, <1>2, <1>3, <1>4, <1>5 DEF Next, Step

\* What a hit tells is no younger than what Redis stores.
LEMMA HitIsSaid ==
  ASSUME TypeOK, Shape, TokensApart, NEW A, NEW L \in Nat, Grounded(A, L),
         NEW r \in requests, AcquireHit(r),
         NEW c \in Clients, attempt'[c] # attempt[c], Coming(c)' # None
  PROVE  Said(A, L, attempt'[c].key, Coming(c)'.value, Coming(c)'.scoredAt)
<1> USE CoordinationAssumption
<1> PICK m : m = [kind |-> "hit", value |-> score[r.key].value,
                  remaining |-> score[r.key].expiry - now]
  OBVIOUS
<1>1. score[r.key] # None /\ score[r.key].value \in Values /\ score[r.key].expiry \in Nat
      /\ r.key \in Keys /\ Reply(r, m)
  BY DEF AcquireHit, TypeOK, Expiring, Request
<1>2. m \in ReplyMsg /\ m.kind = "hit" /\ m.value = score[r.key].value
      /\ m.remaining = score[r.key].expiry - now
  BY <1>1 DEF ReplyMsg, TypeOK
<1>3. /\ Awaits(c, r) /\ attempt[c].started \in Nat /\ attempt[c].started <= now /\ now \in Nat
      /\ attempt[c].key = r.key
      /\ doing' = doing /\ attempt'[c] = Answered(attempt[c], m) /\ attempt'[c] # None
  BY <1>1, <1>2, Told DEF Attempt
<1>4. doing'[c] = "acquiring" /\ r.op = "acquire"
  BY <1>3 DEF AcquireHit, Acquires, Awaits
<1>5. attempt'[c].reply = m /\ attempt'[c].started = attempt[c].started /\ attempt'[c].key = r.key
  BY <1>3 DEF Answered
<1>6. m # None
  BY <1>2, NoneAssumption
<1>7. Coming(c)' = Decode(attempt[c])'
  BY <1>2, <1>3, <1>4, <1>5, <1>6 DEF Coming, Got
<1>8. Decode(attempt[c])' = [value |-> m.value, scoredAt |-> attempt[c].started + m.remaining - ScoreTTL]
  BY <1>5, <1>7 DEF Decode
<1>9. /\ Coming(c)'.value = score[r.key].value
      /\ Coming(c)'.scoredAt = attempt[c].started + (score[r.key].expiry - now) - ScoreTTL
  BY <1>2, <1>7, <1>8
<1>10. PICK a \in A : /\ a.metric = r.key /\ a.keep = score[r.key].value
                      /\ score[r.key].expiry - ScoreTTL <= a.at + L
  BY <1>1 DEF Grounded, Said
<1>11. a.at \in Nat
  BY DEF Grounded
<1>12. Coming(c)'.scoredAt <= a.at + L
  BY <1>1, <1>3, <1>9, <1>10, <1>11
<1> QED BY <1>5, <1>9, <1>10, <1>12 DEF Said

LEMMA AcceptedIsSaid ==
  ASSUME TypeOK, Shape, TokensApart, NEW A, NEW L, Grounded(A, L),
         NEW r \in requests, FinishOwned(r),
         NEW c \in Clients, attempt'[c] # attempt[c], Coming(c)' # None
  PROVE  Said(A, L, attempt'[c].key, Coming(c)'.value, Coming(c)'.scoredAt)
<1> PICK m : m = [kind |-> "accepted"]
  OBVIOUS
<1>1. Reply(r, m) /\ m \in ReplyMsg /\ r.op = "finish"
  BY DEF FinishOwned, Finishes, ReplyMsg
<1>2. /\ Awaits(c, r) /\ doing' = doing /\ attempt'[c] = Answered(attempt[c], m)
  BY <1>1, Told
<1>3. doing'[c] = "finishing" /\ doing[c] = "finishing"
  BY <1>1, <1>2 DEF Awaits
<1>4. /\ attempt'[c].answer = attempt[c].answer /\ attempt'[c].publishedAt = attempt[c].publishedAt
      /\ attempt'[c].key = attempt[c].key
  BY <1>2 DEF Answered
<1>5. Coming(c)' = Verdict(c)'
  BY <1>3 DEF Coming
<1>6. attempt[c].answer # None
      /\ Coming(c)' = [value |-> attempt[c].answer, scoredAt |-> attempt[c].publishedAt]
  BY <1>4, <1>5 DEF Verdict
<1>7. Coming(c)'.value = attempt[c].answer /\ Coming(c)'.scoredAt = attempt[c].publishedAt
  BY <1>6
<1> QED BY <1>3, <1>4, <1>6, <1>7 DEF Grounded

LEMMA ExecuteGrounded ==
  ASSUME IInv, NEW A, NEW L \in Nat, Grounded(A, L), NEW r \in requests, Execute(r)
  PROVE  Grounded(A, L)'
<1> USE CoordinationAssumption DEF IInv
<1>1. PICK m \in ReplyTo(r) : Reply(r, m) /\ Reaches(r, m)
  BY ScriptAnswers
<1>2. UNCHANGED <<now, doing>> /\ requests' = requests \ {r} /\ now \in Nat
      /\ r \in Request /\ r.key \in Keys
  BY <1>1 DEF Reaches, TypeOK, Request
<1>3. ASSUME NEW k \in Keys, score'[k] # None
      PROVE  Said(A, L, k, score'[k].value, score'[k].expiry - ScoreTTL)
  <2>1. CASE score'[k] = score[k]
    BY <1>3, <2>1 DEF Grounded
  <2>2. CASE score'[k] # score[k]
    <3>1. k = r.key /\ FinishOwned(r) /\ Share(r)
      BY <2>2, SharesOnce
    <3>2. r.op = "finish" /\ Held(k) /\ lease[k].token = r.token
      BY <3>1 DEF FinishOwned, Finishes, Holds, Held
    <3>3. r.outcome = "success"
      BY <2>2, <3>1 DEF FinishOwned, Conclude
    <3>4. r.value # None
      BY <3>2, <3>3 DEF Shape
    <3>5. PICK a \in A : a.metric = k /\ a.keep = r.value /\ lease[k].expiry <= a.at + L
      BY <3>1, <3>2, <3>4 DEF Grounded, Presented
    <3>6. a.at \in Nat /\ lease[k].expiry >= now
      BY <3>2 DEF Grounded
    <3>7. lease[k].expiry \in Nat
      BY <3>2 DEF TypeOK, Slot, Held
    <3>8. score'[k] = [value |-> r.value, expiry |-> now + ScoreTTL]
      BY <3>1 DEF Share, TypeOK
    <3>9. score'[k].value = r.value /\ score'[k].expiry - ScoreTTL = now
      BY <1>2, <3>8
    <3> QED BY <1>2, <3>5, <3>6, <3>7, <3>9 DEF Said
  <2> QED BY <2>1, <2>2
<1>4. ASSUME NEW k \in Keys, Held(k)' PROVE lease'[k].expiry >= now
  <2>1. CASE lease'[k] = lease[k]
    BY <1>4, <2>1 DEF Grounded, Held
  <2>2. CASE lease'[k] = Grant(r) /\ k = r.key
    BY <1>2, <2>2 DEF Grant, Request
  <2> QED BY <1>4, <2>1, <2>2, ScriptLeases DEF Held
<1>5. ASSUME NEW q \in requests', q.op = "finish", q.value # None
      PROVE  Presented(A, L, q)'
  <2>1. q \in requests /\ q.token # r.token /\ q.key \in Keys
    BY <1>2 DEF TokensApart, TypeOK, Request
  <2>2. PICK a \in A : /\ a.metric = q.key /\ a.keep = q.value
                       /\ Held(q.key) /\ lease[q.key].token = q.token => lease[q.key].expiry <= a.at + L
    BY <1>5, <2>1 DEF Grounded, Presented
  <2>3. lease'[q.key] \in {lease[q.key], None} \/ lease'[q.key] = Grant(r)
    BY <2>1, ScriptLeases
  <2>4. Grant(r).token = r.token
    BY DEF Grant
  <2>5. Held(q.key)' /\ lease'[q.key].token = q.token => lease'[q.key] = lease[q.key] /\ Held(q.key)
    BY <2>1, <2>3, <2>4 DEF Held
  <2> QED BY <2>2, <2>5 DEF Presented
<1>6. ASSUME NEW c \in Clients, Coming(c)' # None
      PROVE  Said(A, L, attempt'[c].key, Coming(c)'.value, Coming(c)'.scoredAt)
  <2>1. CASE attempt'[c] = attempt[c]
    <3>1. Coming(c)' = Coming(c)
      BY <1>2, <2>1 DEF Coming, Decode, Verdict, Got
    <3> QED BY <1>6, <2>1, <3>1 DEF Grounded
  <2>2. CASE attempt'[c] # attempt[c]
    BY <1>6, <2>2, HitIsSaid, AcceptedIsSaid, NothingElseIsTold
  <2> QED BY <2>1, <2>2
<1>7. ASSUME NEW c \in Clients, doing'[c] = "finishing", attempt'[c].answer # None
      PROVE  Said(A, L, attempt'[c].key, attempt'[c].answer, attempt'[c].publishedAt)
  <2>1. /\ attempt'[c].key = attempt[c].key /\ attempt'[c].answer = attempt[c].answer
        /\ attempt'[c].publishedAt = attempt[c].publishedAt
    <3>1. attempt'[c] = attempt[c] \/ attempt'[c] = Answered(attempt[c], m)
      BY <1>1 DEF Reaches
    <3> QED BY <3>1 DEF Answered
  <2> QED BY <1>2, <1>7, <2>1 DEF Grounded
<1> QED BY <1>2, <1>3, <1>4, <1>5, <1>6, <1>7 DEF Grounded

LEMMA CallGrounded ==
  ASSUME IInv, NEW A, NEW B, NEW L, Longest(L), Grounded(A, L), A \subseteq B,
         \A b \in B : b.at \in Nat, NEW c \in Clients, Call(c), Heard(B)
  PROVE  Grounded(B, L)'
<1> USE DEF IInv
<1>1. /\ Moves(c) /\ UNCHANGED <<now, score, lease>>
      /\ \A d \in Clients : d # c => attempt'[d] = attempt[d] /\ doing'[d] = doing[d]
  BY ClientMoves DEF redis
<1>2. now \in Nat /\ L \in Nat
  BY DEF TypeOK, Longest
<1>3. ASSUME NEW q \in requests, q.op = "finish", q.value # None PROVE Presented(B, L, q)'
  <2>1. Presented(A, L, q)
    BY <1>3 DEF Grounded
  <2> QED BY <1>1, <2>1 DEF Presented, Held
<1>4. ASSUME NEW q \in requests', q \notin requests, q.op = "finish", q.value # None
      PROVE  Presented(B, L, q)'
  <2>1. PICK b \in B : b = [metric |-> q.key, keep |-> q.value, at |-> now]
    BY <1>4 DEF Heard
  <2>2. b.metric = q.key /\ b.keep = q.value /\ b.at = now
    BY <2>1
  <2>3. q.key \in Keys
    <3>1. TypeOK'
      BY NextTyped DEF Next, Step
    <3> QED BY <1>4, <3>1 DEF TypeOK, Request
  <2>4. ASSUME Held(q.key) PROVE lease[q.key].expiry <= now + L
    <3>1. PICK d \in Clients : settings.value = SettingsOf[d]
      BY <2>3, <2>4 DEF LeasesInBudget, TypeOK, Expiring, Setting
    <3>2. lease[q.key].expiry <= now + SettingsOf[d].leaseTTL /\ lease[q.key].expiry \in Nat
      BY <2>3, <2>4, <3>1 DEF LeasesInBudget, TypeOK, Slot, Held
    <3>3. SettingsOf[d].leaseTTL \in Nat /\ SettingsOf[d].leaseTTL <= L
      BY CoordinationAssumption DEF Longest
    <3> QED BY <1>2, <3>2, <3>3
  <2> QED BY <1>1, <2>2, <2>4 DEF Presented, Held
<1>5. ASSUME NEW d \in Clients, Coming(d)' # None
      PROVE  Said(B, L, attempt'[d].key, Coming(d)'.value, Coming(d)'.scoredAt)
  <2>1. CASE attempt'[d] = attempt[d] /\ doing'[d] = doing[d]
    <3>1. Coming(d)' = Coming(d)
      BY <2>1 DEF Coming, Decode, Verdict, Got
    <3> QED BY <1>5, <2>1, <3>1, SaidLasts DEF Grounded
  <2>2. CASE d = c
    <3>1. Coming(c)' = None \/ (attempt'[c] = attempt[c] /\ doing'[c] = doing[c])
      <4>1. ASSUME NEW k \in Keys, NEW t \in Tokens, Opens(c, k, t) PROVE Coming(c)' = None
        BY <4>1 DEF Opens, Opened, Coming, Got
      <4>2. ASSUME NEW outcome, NEW answer, HandsIn(c, outcome, answer) PROVE Coming(c)' = None
        BY <4>2 DEF HandsIn, Concluded, Coming, Verdict, Got
      <4>3. ASSUME Waits(c) \/ Infers(c) \/ Ends(c) PROVE Coming(c)' = None
        BY <4>3 DEF Waits, Infers, Ends, Coming
      <4> QED BY <1>1, <4>1, <4>2, <4>3 DEF Moves
    <3> QED BY <1>5, <2>1, <2>2, <3>1
  <2> QED BY <1>1, <2>1, <2>2
<1>6. ASSUME NEW d \in Clients, doing'[d] = "finishing", attempt'[d].answer # None
      PROVE  Said(B, L, attempt'[d].key, attempt'[d].answer, attempt'[d].publishedAt)
  <2>1. CASE attempt'[d] = attempt[d] /\ doing'[d] = doing[d]
    BY <1>6, <2>1, SaidLasts DEF Grounded
  <2>2. ASSUME d = c, NEW outcome \in {"success", "failure", "cancel"}, NEW answer \in Values \cup {None},
               HandsIn(c, outcome, answer)
        PROVE  Said(B, L, attempt'[d].key, attempt'[d].answer, attempt'[d].publishedAt)
    <3> PICK q : q = FinishCall(c, outcome, answer)
      OBVIOUS
    <3>1. attempt'[c] = Concluded(attempt[c], Kept(outcome, answer)) /\ q \in requests'
          /\ doing[c] = "inferring" /\ Active(c)
      BY <2>2 DEF HandsIn
    <3>2. /\ attempt'[c].key = attempt[c].key /\ attempt'[c].answer = Kept(outcome, answer)
          /\ attempt'[c].publishedAt = now
      BY <3>1 DEF Concluded
    <3>3. outcome = "success" /\ attempt'[c].answer = answer /\ answer # None
      BY <1>6, <2>2, <3>2 DEF Kept
    <3>4. q.op = "finish" /\ q.key = attempt[c].key /\ q.token = attempt[c].token /\ q.value = answer
      BY DEF FinishCall
    <3>5. q \notin requests
      BY <3>1, <3>4 DEF TokensApart, Answers
    <3>6. PICK b \in B : b = [metric |-> attempt[c].key, keep |-> answer, at |-> now]
      BY <3>1, <3>3, <3>4, <3>5 DEF Heard
    <3> QED BY <1>2, <2>2, <3>2, <3>3, <3>6 DEF Said
  <2>3. CASE d = c /\ ~(attempt'[d] = attempt[d] /\ doing'[d] = doing[d])
    <3>1. \E outcome \in {"success", "failure", "cancel"}, answer \in Values \cup {None} :
            HandsIn(c, outcome, answer)
      BY <1>1, <1>6, <2>3 DEF Moves, Opens, Waits, Infers, Ends
    <3> QED BY <2>2, <2>3, <3>1
  <2> QED BY <1>1, <2>1, <2>3
<1>7. \A k \in Keys : score[k] # None => Said(B, L, k, score[k].value, score[k].expiry - ScoreTTL)
  BY SaidLasts DEF Grounded
<1>8. \A k \in Keys : Held(k)' => lease'[k].expiry >= now'
  BY <1>1 DEF Grounded, Held
<1> QED BY <1>1, <1>3, <1>4, <1>5, <1>6, <1>7, <1>8 DEF Grounded

LEMMA TickGrounded ==
  ASSUME IInv, NEW A, NEW L, Grounded(A, L), Tick
  PROVE  Grounded(A, L)'
<1>1. /\ UNCHANGED <<requests, doing, attempt>>
      /\ \A k \in Keys : score'[k] = IF Survives(score[k]) THEN score[k] ELSE None
      /\ \A k \in Keys : lease'[k] = IF Survives(lease[k]) THEN lease[k] ELSE None
  BY DEF Tick
<1>2. \A c \in Clients : Coming(c)' = Coming(c)
  BY <1>1 DEF Coming, Decode, Verdict, Got
<1>3. \A k \in Keys : Held(k)' => lease'[k] = lease[k] /\ Held(k) /\ lease[k].expiry >= now'
  BY <1>1 DEF Held, Survives
<1>4. ASSUME NEW r \in requests, Presented(A, L, r) PROVE Presented(A, L, r)'
  <2>1. r.key \in Keys
    BY DEF IInv, TypeOK, Request
  <2> QED BY <1>3, <1>4, <2>1 DEF Presented
<1> QED BY <1>1, <1>2, <1>3, <1>4 DEF Grounded

\* Whatever happens, as long as what is handed in has been said.
LEMMA NextGrounded ==
  ASSUME IInv, [Next]_vars, NEW A, NEW B, NEW L, Longest(L), Grounded(A, L), A \subseteq B,
         \A b \in B : b.at \in Nat, Heard(B)
  PROVE  Grounded(B, L)'
<1>1. L \in Nat
  BY DEF Longest
<1>2. ASSUME Grounded(A, L)' PROVE Grounded(B, L)'
  <2>1. \A r : Presented(A, L, r)' => Presented(B, L, r)'
    BY DEF Presented
  <2> QED BY <1>2, <2>1, SaidLasts DEF Grounded
<1>3. ASSUME NEW r \in requests, Execute(r) PROVE Grounded(B, L)'
  BY <1>1, <1>2, <1>3, ExecuteGrounded
<1>4. ASSUME NEW r \in requests, Lose(r) PROVE Grounded(B, L)'
  <2>1. UNCHANGED <<now, score, lease, doing, attempt>> /\ requests' \subseteq requests
    BY <1>4 DEF Lose, redis, clients
  <2>2. \A c \in Clients : Coming(c)' = Coming(c)
    BY <2>1 DEF Coming, Decode, Verdict, Got
  <2>3. \A q : Presented(A, L, q)' <=> Presented(A, L, q)
    BY <2>1 DEF Presented, Held
  <2>4. Grounded(A, L)'
    BY <2>1, <2>2, <2>3 DEF Grounded, Held
  <2> QED BY <1>2, <2>4
<1>5. ASSUME NEW c \in Clients, Call(c) PROVE Grounded(B, L)'
  BY <1>5, CallGrounded
<1>6. CASE Tick
  BY <1>2, <1>6, TickGrounded
<1>7. CASE UNCHANGED vars
  <2>1. UNCHANGED <<now, score, lease, doing, attempt, requests>>
    BY <1>7 DEF vars, redis, clients
  <2>2. \A c \in Clients : Coming(c)' = Coming(c)
    BY <2>1 DEF Coming, Decode, Verdict, Got
  <2>3. \A q : Presented(A, L, q)' <=> Presented(A, L, q)
    BY <2>1 DEF Presented, Held
  <2>4. Grounded(A, L)'
    BY <2>1, <2>2, <2>3 DEF Grounded, Held
  <2> QED BY <1>2, <2>4
<1> QED BY <1>3, <1>4, <1>5, <1>6, <1>7 DEF Next, Step

\* A replica that ends cancels the contexts of several clients at once.
LEMMA ContextsKeep ==
  ASSUME IInv, UNCHANGED <<now, redis, requests, doing, attempt, copy, faults>>,
         cancelled' \in [Clients -> BOOLEAN]
  PROVE  /\ IInv'
         /\ \A A : \A L : Grounded(A, L) => Grounded(A, L)'
<1> USE DEF IInv
<1>1. UNCHANGED <<now, score, lease, inflight, admitted, cooldown, streak, settings, requests,
                  doing, attempt, copy, faults>>
  BY DEF redis
<1>2. \A c \in Clients : Coming(c)' = Coming(c)
  BY <1>1 DEF Coming, Decode, Verdict, Got
<1>3. TypeOK' /\ Shape' /\ TokensApart'
  BY <1>1 DEF TypeOK, Shape, Active, Consistent, TokensApart, Answers, Held
<1>4. LeasesInBudget'
  BY <1>1 DEF LeasesInBudget, Held, Leased
<1>5. OnlySharedIsFresh'
  BY <1>1, <1>2 DEF OnlySharedIsFresh, Fresh, FreshAt, IsShared
<1>6. ASSUME NEW A, NEW L, Grounded(A, L) PROVE Grounded(A, L)'
  <2>1. \A q : Presented(A, L, q)' <=> Presented(A, L, q)
    BY <1>1 DEF Presented, Held
  <2> QED BY <1>1, <1>2, <1>6, <2>1 DEF Grounded, Held
<1> QED BY <1>3, <1>4, <1>5, <1>6

\* When what a call returns dates from.
LEMMA ComingIsDated ==
  ASSUME IInv, NEW c \in Clients, Coming(c) # None
  PROVE  /\ Coming(c) \in Copy /\ attempt[c].key \in Keys
         /\ doing[c] = "acquiring" => Coming(c).scoredAt \in (1 - ScoreTTL) .. now
         /\ doing[c] = "finishing" => Coming(c).scoredAt \in 0 .. now
<1> USE CoordinationAssumption DEF IInv
<1>1. Coming(c) \in Copy /\ Active(c)
  BY ComingIsCopy
<1>2. attempt[c] \in Attempt /\ attempt[c].key \in Keys /\ attempt[c].started \in Nat
      /\ Consistent(c) /\ now \in Nat
  BY <1>1 DEF TypeOK, Active, Shape, Attempt
<1>3. ASSUME doing[c] = "acquiring" PROVE Coming(c).scoredAt \in (1 - ScoreTTL) .. now
  <2>1. Got(c, "hit") /\ Coming(c) = Decode(attempt[c])
    BY <1>3 DEF Coming
  <2>2. attempt[c].reply \in ReplyMsg /\ attempt[c].reply.kind = "hit"
    BY <1>2, <2>1 DEF Got, Attempt
  <2>3. attempt[c].reply.remaining \in Int
    BY <2>2 DEF ReplyMsg
  <2>4. /\ attempt[c].reply.remaining > 0 /\ attempt[c].reply.remaining <= ScoreTTL
        /\ Coming(c) = [value |-> attempt[c].reply.value,
                        scoredAt |-> attempt[c].started + attempt[c].reply.remaining - ScoreTTL]
    BY <2>1, <2>3 DEF Decode
  <2>5. Coming(c).scoredAt = attempt[c].started + attempt[c].reply.remaining - ScoreTTL
    BY <2>4
  <2> QED BY <1>2, <2>3, <2>4, <2>5 DEF Consistent
<1>4. ASSUME doing[c] = "finishing" PROVE Coming(c).scoredAt \in 0 .. now
  <2>1. Coming(c) = [value |-> attempt[c].answer, scoredAt |-> attempt[c].publishedAt]
    BY <1>4 DEF Coming, Verdict
  <2>2. attempt[c].publishedAt \in Nat /\ attempt[c].publishedAt <= now
    BY <1>2, <1>4 DEF Consistent, Attempt
  <2>3. Coming(c).scoredAt = attempt[c].publishedAt
    BY <2>1
  <2> QED BY <1>2, <2>2, <2>3
<1> QED BY <1>1, <1>2, <1>3, <1>4
-----------------------------------------------------------------------------
(* What a call returns had life left when it sent its last acquire: a hit    *)
(* because decode refuses it otherwise, a published score because it is      *)
(* dated after that.                                                         *)

LEMMA ComingHadLife ==
  ASSUME IInv, NEW c \in Clients, Coming(c) # None
  PROVE  FreshAt(Coming(c), attempt[c].started)
<1> USE CoordinationAssumption DEF IInv
<1>1. attempt[c] \in Attempt /\ attempt[c].started \in Nat /\ Consistent(c)
  BY ComingIsCopy DEF TypeOK, Active, Shape, Attempt
<1>2. CASE doing[c] = "acquiring"
  <2>1. Got(c, "hit") /\ Coming(c) = Decode(attempt[c])
    BY <1>2 DEF Coming
  <2>2. attempt[c].reply.remaining \in Int
    BY <1>1, <2>1 DEF Got, Attempt, ReplyMsg
  <2>3. /\ attempt[c].reply.remaining > 0
        /\ Coming(c).scoredAt = attempt[c].started + attempt[c].reply.remaining - ScoreTTL
    BY <2>1, <2>2 DEF Decode
  <2> QED BY <1>1, <2>2, <2>3 DEF FreshAt
<1>3. CASE doing[c] = "finishing"
  <2>1. Coming(c).scoredAt = attempt[c].publishedAt
    BY <1>3 DEF Coming, Verdict
  <2>2. attempt[c].publishedAt \in Nat /\ attempt[c].started <= attempt[c].publishedAt
    BY <1>1, <1>3 DEF Consistent, Attempt, TypeOK
  <2> QED BY <1>1, <2>1, <2>2 DEF FreshAt
<1> QED BY <1>2, <1>3 DEF Coming

\* A call of score never returns an assessment that was out of date when the call asked
\* for it, not even one that Redis found at the instant of its expiry.
THEOREM CallsLearnOnlyFresh == Spec => LearnsOnlyFresh
<1>1. IInv /\ [Next]_vars =>
        [\A c \in Clients, k \in Keys :
           copy'[c][k] \notin {copy[c][k], None} => FreshAt(copy'[c][k], attempt[c].started)]_vars
  <2> SUFFICES ASSUME IInv, Next, NEW c \in Clients, NEW k \in Keys,
                      copy'[c][k] \notin {copy[c][k], None}
               PROVE  FreshAt(copy'[c][k], attempt[c].started)
    OBVIOUS
  <2>1. ASSUME NEW r \in requests, Execute(r) \/ Lose(r) PROVE FALSE
    <3>1. copy' = copy
      BY <2>1, ScriptAnswers DEF Lose, clients, Reaches, IInv
    <3> QED BY <3>1
  <2>2. ~Tick
    BY DEF Tick, IInv, TypeOK
  <2>3. ASSUME NEW d \in Clients, Call(d)
        PROVE  d = c /\ Learns(c, k)
    <3>1. Moves(d) /\ \A e \in Clients : e # d => copy'[e] = copy[e]
      BY <2>3, ClientMoves DEF IInv
    <3>2. d = c
      BY <3>1
    <3> QED BY <3>1, <3>2 DEF Moves, Opens, Waits, Infers, Ends, HandsIn
  <2>4. Learns(c, k)
    BY <2>1, <2>2, <2>3 DEF Next, Step
  <2> QED BY <2>4, ComingHadLife DEF Learns
<1> QED BY <1>1, Invariance, PTL DEF Spec, LearnsOnlyFresh
=============================================================================
