------------------------ MODULE MCStandaloneExporter ------------------------
(* Small instances of StandaloneExporter.                                   *)
EXTENDS StandaloneExporter

MCTwoSignals == <<"a", "b">>

\* Two signals of one name, with another between them.
MCRepeatedName == <<"a", "b", "a">>

MCUnqueried == {<<"a", "traffic">>}

\* Two middling values of errors, bad latency and middling saturation; 0 is always there.
MCGraded == [errors |-> {4, 8}, latency |-> {9}, traffic |-> {}, saturation |-> {8}]

\* An error ratio without traffic is NaN.
MCWithNaN == [errors |-> {10, NaN}, latency |-> {8}, traffic |-> {}, saturation |-> {NaN}]

\* Jev's numbers are not confined to probabilities.
MCJevAnswers == {[anomaly |-> One + 1, impact |-> 0 - 1, investigate |-> Unit, domain |-> "unknown"]}
=============================================================================
