--------------------------- MODULE ScoreCacheLRU ---------------------------
(***************************************************************************)
(* The cache of ScoreCache under every sequence of calls its owner makes:  *)
(* cachedScore (get with the time a batch began, which may lie behind the  *)
(* clock), a worker's put (whose score may already have aged), and the     *)
(* pruner.  The history variable used lists the identities by their last   *)
(* use, whether or not they are still cached: it says which entry a full   *)
(* cache is expected to give up.                                           *)
(***************************************************************************)
EXTENDS ScoreCache, FiniteSets

CONSTANTS Keys,    \* metric identities
          MaxNow   \* bound on the clock

\* What stands for ok = false is no score.
ASSUME LRUAssumption == MaxNow \in Nat /\ NoScore \notin [scoredAt : Int]

VARIABLES now, cache, used
vars == <<now, cache, used>>

Score == [scoredAt : (0 - ScoreTTL) .. MaxNow]

TypeOK ==
  /\ now \in 0 .. MaxNow
  /\ DOMAIN cache.entries \subseteq Keys
  /\ \A k \in DOMAIN cache.entries : cache.entries[k] \in Score
  /\ cache.order \in Seq(Keys)
  /\ used \in Seq(Keys) /\ IsInjective(used)

Init ==
  /\ now = 0
  /\ cache = newScoreCache
  /\ used = << >>

Touch(k) == used' = Cons(k, RemoveFirst(used, k))

\* cachedScore: a batch that began at time at looks k up.
Get(k, at) ==
  /\ cache' = getCache(cache, k, at)
  /\ IF getResult(cache, k, at) = NoScore THEN UNCHANGED used ELSE Touch(k)
  /\ UNCHANGED now

\* A worker records a score; one shared through Redis may have aged already.
Put(k, scoredAt) ==
  /\ cache' = put(cache, k, [scoredAt |-> scoredAt])
  /\ Touch(k)
  /\ UNCHANGED now

Prune ==
  /\ cache' = prune(cache, now)
  /\ UNCHANGED <<now, used>>

Tick ==
  /\ now < MaxNow
  /\ now' = now + 1
  /\ UNCHANGED <<cache, used>>

Next ==
  \/ \E k \in Keys, at \in 0 .. now : Get(k, at)
  \/ \E k \in Keys, at \in (now - ScoreTTL) .. now : Put(k, at)
  \/ Prune
  \/ Tick

Spec == Init /\ [][Next]_vars

-----------------------------------------------------------------------------
\* The two halves of the cache agree: the list holds exactly the identities of
\* the map, each once, and never more than the limit.  cache.go keeps them in
\* step by hand in remove, put and prune.
MapMatchesList ==
  /\ ToSet(cache.order) = DOMAIN cache.entries
  /\ IsInjective(cache.order)
  /\ Len(cache.order) <= CacheSize

\* The list is in the order of last use: an identity in front of another was used
\* after it, through any mix of hits, misses, replacements, expiry and pruning.
ListIsRecencyOrder ==
  \A i, j \in DOMAIN cache.order : i < j => Before(used, cache.order[i], cache.order[j])

\* What a step takes out of the cache is expired at a time some batch or the
\* pruner may stand at, or it is the one least recently used entry of a full cache.
Victims == DOMAIN cache.entries \ DOMAIN cache'.entries
OnlyExpiredOrLeastRecentLeaves ==
  [][\A v \in Victims :
       \/ Expired(cache.entries[v], now)
       \/ /\ Victims = {v}
          /\ Cardinality(DOMAIN cache.entries) = CacheSize
          /\ \A k \in DOMAIN cache.entries \ {v} : Before(used, k, v)]_vars
=============================================================================
