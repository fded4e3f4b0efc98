----------------------------- MODULE MCFeedRuns -----------------------------
(* FeedRuns with named processes, sources and runs.                        *)
EXTENDS FeedRuns, TLC

CONSTANTS w1, w2, s1, s2, r1, r2, r3

OneProc == {w1}
TwoProcs == {w1, w2}
OneSource == {s1}
TwoSources == {s1, s2}
TwoRuns == {r1, r2}
ThreeRuns == {r1, r2, r3}

\* Runs, and processes, are interchangeable (not used with liveness).
Symmetry == Permutations(ThreeRuns) \cup Permutations(TwoProcs)
=============================================================================
