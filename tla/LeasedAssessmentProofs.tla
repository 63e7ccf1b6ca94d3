----------------------- MODULE LeasedAssessmentProofs -----------------------
(***************************************************************************)
(* The contract of LeasedAssessment gives agreement, for any number of     *)
(* replicas, keys, tokens and assessments.                                 *)
(***************************************************************************)
EXTENDS LeasedAssessment, TLAPS

\* Types and agreement are inductive together.
Inv == TypeOK /\ Agreement

LEMMA InitAgrees == Init => Inv
BY DEF Init, Inv, TypeOK, Agreement

LEMMA NextAgrees ==
  ASSUME ContractAssumption, Inv, [Next]_vars
  PROVE  Inv'
<1> USE DEF ContractAssumption, Inv, TypeOK, Agreement
<1>1. ASSUME NEW k \in Keys, NEW t \in Tokens, Grant(k, t) PROVE Inv'
  BY <1>1 DEF Grant
<1>2. ASSUME NEW t \in Tokens, HandIn(t) \/ Discard(t) PROVE Inv'
  BY <1>2 DEF HandIn, Discard
<1>3. ASSUME NEW k \in Keys, NEW v \in Values, Publish(k, v) PROVE Inv'
  <2>1. TypeOK'
    BY <1>3 DEF Publish
  <2>2. owner[k] # None /\ value[k] = None
    BY <1>3 DEF Publish
  <2>3. \A r \in Replicas : held[r][k] = None
    BY <2>2
  <2> QED BY <1>3, <2>1, <2>2, <2>3 DEF Publish
<1>4. ASSUME NEW k \in Keys, Release(k) PROVE Inv'
  BY <1>4 DEF Release
<1>5. ASSUME NEW r \in Replicas, NEW k \in Keys, Learn(r, k) PROVE Inv'
  BY <1>5 DEF Learn
<1>6. CASE Expire
  <2>1. TypeOK'
    BY <1>6 DEF Expire
  <2>2. \A k \in Keys : owner'[k] = None \/ value'[k] = None
    BY <1>6 DEF Expire
  <2>3. \A j, k \in Keys : j # k /\ owner'[j] # None => owner'[j] # owner'[k]
    BY <1>6 DEF Expire
  <2>4. \A r \in Replicas, k \in Keys : held'[r][k] # None => held'[r][k] = value'[k]
    BY <1>6 DEF Expire
  <2> QED BY <2>1, <2>2, <2>3, <2>4
<1>7. CASE UNCHANGED vars
  BY <1>7 DEF vars
<1> QED BY <1>1, <1>2, <1>3, <1>4, <1>5, <1>6, <1>7 DEF Next

\* Whatever implements the contract has replicas that agree: they never decide one
\* metric by two assessments at the same time.
THEOREM ContractAgrees ==
  ASSUME ContractAssumption
  PROVE  Spec => []Agreement
<1>1. Inv => Agreement
  BY DEF Inv
<1> QED BY <1>1, InitAgrees, NextAgrees, PTL DEF Spec
=============================================================================
