------------------------ MODULE ExporterConfiguration ------------------------
(***************************************************************************)
(* What the standalone exporter starts with: Load in                       *)
(* src/internal/config/config.go, the choice of an evaluator in            *)
(* src/cmd/jevmetrics/main.go and NewJev in                                *)
(* src/internal/evaluator/jev.go.  Durations are in seconds; of a text the *)
(* model keeps whether it is there.                                        *)
(***************************************************************************)
EXTENDS Integers, Sequences

CONSTANTS Unset,     \* a text that is missing or empty
          Unparsed,  \* a text that is no duration
          Names      \* the names signals may have, without the empty one

Durations == Int \cup {Unset, Unparsed}

\* What a file may say.
File == [url : BOOLEAN, poll : Durations,
         type : {Unset, "jev", "baseline", "other"}, timeout : Durations, fallback : BOOLEAN,
         signals : Seq(Names \cup {Unset})]

OrDefault(v, default) == IF v = Unset THEN default ELSE v

\* The configuration Load returns, unless it returns an error.
Loaded(f) ==
  [f EXCEPT !.poll = OrDefault(f.poll, 30), !.type = OrDefault(f.type, "jev"),
            !.timeout = OrDefault(f.timeout, 3)]

Loads(f) ==
  /\ f.url
  /\ Loaded(f).poll # Unparsed /\ Loaded(f).timeout # Unparsed
  /\ \A i \in DOMAIN f.signals : f.signals[i] # Unset
  /\ Loaded(f).type \in {"jev", "baseline"}

\* Jev needs a key from the environment; a timeout that is no timeout is replaced.
JevTimeout(c) == IF c.timeout <= 0 THEN 3 ELSE c.timeout

Starts(f, keyGiven) == Loads(f) /\ (Loaded(f).type = "jev" => keyGiven)

Evaluator(c) ==
  IF c.type = "baseline" THEN "baseline" ELSE IF c.fallback THEN "fallback" ELSE "jev"

\* Run's ticker panics unless the interval is positive.
Ticks(c) == c.poll > 0
=============================================================================
