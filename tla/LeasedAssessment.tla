-------------------------- MODULE LeasedAssessment --------------------------
(***************************************************************************)
(* What Redis coordination promises the replicas, without requests, time,  *)
(* budgets or failures: each key has at most one owner and at most one     *)
(* shared assessment, and never both; only a result of the present owner   *)
(* becomes the shared assessment or ends the ownership early; and what a   *)
(* replica holds is the shared assessment.  Leases, assessments and local  *)
(* copies may end at any moment, in any combination in which no replica    *)
(* keeps what the others no longer share.  Coordination is shown to        *)
(* implement this specification.                                           *)
(***************************************************************************)
CONSTANTS Keys, Replicas, Tokens, Values, None

\* What a proof needs of the constants; Coordination assumes it of its own.
ContractAssumption == None \notin Tokens \cup Values

VARIABLES owner,    \* per key: the token of its owner
          results,  \* the tokens whose owners have handed in a result
          value,    \* per key: the shared assessment
          held      \* per replica and key: the assessment it decides by
vars == <<owner, results, value, held>>

TypeOK ==
  /\ owner \in [Keys -> Tokens \cup {None}]
  /\ results \subseteq Tokens
  /\ value \in [Keys -> Values \cup {None}]
  /\ held \in [Replicas -> [Keys -> Values \cup {None}]]

Init ==
  /\ owner = [k \in Keys |-> None]
  /\ results = {}
  /\ value = [k \in Keys |-> None]
  /\ held = [r \in Replicas |-> [k \in Keys |-> None]]

Grant(k, t) ==
  /\ owner[k] = None /\ value[k] = None
  /\ t \notin results /\ \A j \in Keys : owner[j] # t
  /\ owner' = [owner EXCEPT ![k] = t]
  /\ UNCHANGED <<results, value, held>>

\* An owner hands in its result, in time or long after it lost the key.
HandIn(t) ==
  /\ results' = results \cup {t}
  /\ UNCHANGED <<owner, value, held>>

\* The result of the present owner is taken: an assessment, or none.
Publish(k, v) ==
  /\ owner[k] \in results
  /\ results' = results \ {owner[k]}
  /\ owner' = [owner EXCEPT ![k] = None]
  /\ value' = [value EXCEPT ![k] = v]
  /\ UNCHANGED held

Release(k) ==
  /\ owner[k] \in results
  /\ results' = results \ {owner[k]}
  /\ owner' = [owner EXCEPT ![k] = None]
  /\ UNCHANGED <<value, held>>

\* Any other result, and one that gets lost, changes nothing.
Discard(t) ==
  /\ results' = results \ {t}
  /\ UNCHANGED <<owner, value, held>>

Learn(r, k) ==
  /\ value[k] # None
  /\ held' = [held EXCEPT ![r][k] = value[k]]
  /\ UNCHANGED <<owner, results, value>>

\* Mutant: a replica keeps what the others no longer share.
ExpireApart ==
  /\ owner' \in [Keys -> Tokens \cup {None}]
  /\ value' \in [Keys -> Values \cup {None}]
  /\ \A k \in Keys : owner'[k] \in {owner[k], None} /\ value'[k] \in {value[k], None}
  /\ UNCHANGED <<results, held>>

Expire ==
  /\ owner' \in [Keys -> Tokens \cup {None}]
  /\ value' \in [Keys -> Values \cup {None}]
  /\ held' \in [Replicas -> [Keys -> Values \cup {None}]]
  /\ \A k \in Keys : owner'[k] \in {owner[k], None} /\ value'[k] \in {value[k], None}
  /\ \A r \in Replicas, k \in Keys :
       held'[r][k] # None => held'[r][k] = held[r][k] /\ value'[k] = value[k]
  /\ UNCHANGED results

Next ==
  \/ \E k \in Keys, t \in Tokens : Grant(k, t)
  \/ \E t \in Tokens : HandIn(t) \/ Discard(t)
  \/ \E k \in Keys, v \in Values : Publish(k, v)
  \/ \E k \in Keys : Release(k)
  \/ \E r \in Replicas, k \in Keys : Learn(r, k)
  \/ Expire

Spec == Init /\ [][Next]_vars

\* A key that is being assessed has no assessment yet, no token owns two keys, and
\* replicas that hold an assessment of a metric hold the same one.
Agreement ==
  /\ \A k \in Keys : owner[k] = None \/ value[k] = None
  /\ \A j, k \in Keys : j # k /\ owner[j] # None => owner[j] # owner[k]
  /\ \A r \in Replicas, k \in Keys : held[r][k] # None => held[r][k] = value[k]
=============================================================================
