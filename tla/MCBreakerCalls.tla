--------------------------- MODULE MCBreakerCalls ---------------------------
(* BreakerCalls with named callers.                                        *)
EXTENDS BreakerCalls

CONSTANTS c1, c2, c3

MCCallers == {c1, c2, c3}
=============================================================================
