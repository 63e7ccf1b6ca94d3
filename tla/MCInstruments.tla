---------------------------- MODULE MCInstruments ----------------------------
EXTENDS Instruments, TLC

\* One counter of four services that differ in the value of a single attribute,
\* and one that is protected.

MCValues ==
  {[kind |-> "string", text |-> "1"], [kind |-> "int", text |-> "1"],
   [kind |-> "double", text |-> "1"], [kind |-> "double", text |-> "NaN"]}

Counter(name, v) ==
  [name |-> name, description |-> "", unit |-> "1", type |-> "Sum",
   temporality |-> "Cumulative", monotonic |-> TRUE, points |-> <<("pod" :> v)>>,
   scope    |-> [name |-> "lib", version |-> "1", url |-> "", attributes |-> << >>],
   resource |-> [url |-> "", attributes |-> ("service.shard" :> v)]]

MCInstruments == {Counter("requests", v) : v \in MCValues}
                 \cup {Counter("up", v) : v \in MCValues}
MCStartsWith == {<<"up", "up">>}

\* Two texts that are not valid UTF-8; no instrument here has one.
MCCoercion == [t \in {"byte fe", "byte ff"} |-> "escaped fffd"]
MCBefore == {}
=============================================================================
