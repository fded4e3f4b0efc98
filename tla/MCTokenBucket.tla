---------------------------- MODULE MCTokenBucket ----------------------------
(* BucketWindow with named callers that ask for different amounts, up to   *)
(* the burst size and beyond.                                              *)
EXTENDS BucketWindow, TLC

CONSTANTS c1, c2, c3, c4

MCCallers == {c1, c2, c3, c4}
MCCost == c1 :> 1 @@ c2 :> 2 @@ c3 :> 5 @@ c4 :> 6
=============================================================================
