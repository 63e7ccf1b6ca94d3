----------------------------- MODULE ScoreCache -----------------------------
(***************************************************************************)
(* The local assessment cache of src/otelprocessor/cache.go: a map from a  *)
(* metric identity to its assessment, and a list of the same identities    *)
(* with the most recently used one in front.  Every operation runs under   *)
(* metricsProcessor.mu, so an operation is an operator on the whole cache. *)
(* MetricsProcessor uses these operators; ScoreCacheLRU drives them alone. *)
(***************************************************************************)
EXTENDS Integers, Sequences, SequencesExt

CONSTANTS CacheSize,  \* cache_size: the limit given to newScoreCache
          ScoreTTL,   \* policy.score_ttl, in clock units
          NoScore     \* what a lookup returns when it returns ok = false

\* Config.Validate: cache_size and policy.score_ttl are positive.
ASSUME CacheAssumption == CacheSize \in Nat \ {0} /\ ScoreTTL \in Nat \ {0}

\* entries: identity -> score (a record with a field scoredAt); order: front first.
newScoreCache == [entries |-> << >>, order |-> << >>]

\* Mutant: fresh for one unit too long.
ExpiredLate(s, at) == at - s.scoredAt > ScoreTTL

Expired(s, at) == at - s.scoredAt >= ScoreTTL

\* Mutant: the map keeps an empty entry.
removeLeavingEntry(c, k) == [c EXCEPT !.entries[k] = NoScore, !.order = RemoveFirst(@, k)]

\* Mutant: the list keeps the element.
removeFromMap(c, k) ==
  [c EXCEPT !.entries = [j \in DOMAIN @ \ {k} |-> @[j]]]

remove(c, k) ==
  [entries |-> [j \in DOMAIN c.entries \ {k} |-> c.entries[j]],
   order   |-> RemoveFirst(c.order, k)]

\* Mutant: first in, first out.
MoveNowhere(c, k) == c

MoveToFront(c, k) == [c EXCEPT !.order = Cons(k, RemoveFirst(@, k))]

\* get has two results: what it returns, and the cache it leaves behind.
getResult(c, k, at) ==
  IF k \in DOMAIN c.entries /\ ~Expired(c.entries[k], at)
  THEN c.entries[k]
  ELSE NoScore

getCache(c, k, at) ==
  IF k \notin DOMAIN c.entries THEN c
  ELSE IF Expired(c.entries[k], at) THEN remove(c, k)
  ELSE MoveToFront(c, k)

Insert(c, k, s) ==
  [entries |-> [j \in DOMAIN c.entries \cup {k} |-> IF j = k THEN s ELSE c.entries[j]],
   order   |-> Cons(k, c.order)]

\* Mutant: the front gives way.
putEvictingFront(c, k, s) ==
  IF k \in DOMAIN c.entries
  THEN MoveToFront([c EXCEPT !.entries[k] = s], k)
  ELSE Insert(IF Len(c.order) >= CacheSize THEN remove(c, Head(c.order)) ELSE c, k, s)

put(c, k, s) ==
  IF k \in DOMAIN c.entries
  THEN MoveToFront([c EXCEPT !.entries[k] = s], k)
  ELSE Insert(IF Len(c.order) >= CacheSize THEN remove(c, Last(c.order)) ELSE c, k, s)

\* j stands somewhere in front of k.
Before(s, j, k) == \E m, n \in DOMAIN s : m < n /\ s[m] = j /\ s[n] = k

\* The elements of S as s orders them.
InOrderOf(s, S) ==
  CHOOSE o \in SetToSeqs(S) : \A m, n \in DOMAIN o : m < n => Before(s, o[m], o[n])

\* The order in which the map is ranged over does not show in the result: elements
\* leave the list one by one, and those that stay keep their order.
prune(c, at) ==
  LET fresh == {k \in DOMAIN c.entries : ~Expired(c.entries[k], at)}
  IN  [entries |-> [k \in fresh |-> c.entries[k]],
       order   |-> InOrderOf(c.order, fresh)]
=============================================================================
