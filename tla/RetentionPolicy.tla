-------------------------- MODULE RetentionPolicy --------------------------
(***************************************************************************)
(* The retention policy of src/otelprocessor/score.go: whether one metric  *)
(* is kept, and for which of five reasons.  Probabilities are points of a  *)
(* scale 0 .. Scale: the policy only compares them with two thresholds.    *)
(***************************************************************************)
EXTENDS Integers

CONSTANTS Scale,          \* the probability one
          KeepThreshold,  \* policy.keep_threshold
          DropThreshold   \* policy.drop_threshold

Probability == 0 .. Scale

\* Config.Validate: both thresholds are probabilities, and drop_threshold does
\* not exceed keep_threshold.
ASSUME PolicyAssumption ==
  /\ Scale \in Nat
  /\ KeepThreshold \in Probability
  /\ DropThreshold \in Probability
  /\ DropThreshold <= KeepThreshold

\* scored is FALSE for the nil score pointer, and keep is then not looked at.
decideRetention(protected, validIdentity, scored, keep) ==
  IF      protected             THEN [keep |-> TRUE,  reason |-> "protected"]
  ELSE IF ~validIdentity        THEN [keep |-> TRUE,  reason |-> "invalid_identity"]
  ELSE IF ~scored               THEN [keep |-> TRUE,  reason |-> "awaiting_assessment"]
  ELSE IF keep >= KeepThreshold THEN [keep |-> TRUE,  reason |-> "cached_score"]
  ELSE IF keep <= DropThreshold THEN [keep |-> FALSE, reason |-> "cached_score"]
  ELSE                               [keep |-> TRUE,  reason |-> "uncertain"]
=============================================================================
