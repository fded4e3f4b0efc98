-------------------------- MODULE MCIndicatorStore --------------------------
(* IndicatorStore with two writers and three indicators, two of which share *)
(* a value: an enricher has rewritten one of them after its id was derived. *)
EXTENDS IndicatorStore, TLC

CONSTANTS w1, w2, i1, i2, i3, a, b

TwoWriters == {w1, w2}
ThreeIds == {i1, i2, i3}
SharedValue == (i1 :> a) @@ (i2 :> b) @@ (i3 :> a)
November == {[year |-> 2024, month |-> 11]}
February == [year |-> 2025, month |-> 2]
=============================================================================
