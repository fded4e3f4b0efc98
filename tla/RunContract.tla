---------------------------- MODULE RunContract ----------------------------
(***************************************************************************)
(* What one attempt to ingest a feed promises to the code that calls it    *)
(* (manager/runner.py): the wanted records become durable in feed order,   *)
(* prefix by prefix, and the outcome SUCCESS is reported only when all of  *)
(* them are.  Any other outcome may leave any prefix behind.               *)
(***************************************************************************)
EXTENDS Naturals

CONSTANT Wanted      \* the positions of the records that are to be persisted

VARIABLES stored,    \* the positions that are durable
          outcome    \* "none" while the attempt is under way

Outcomes == {"SUCCESS", "PARTIAL", "FAILED", "raised"}

ContractInit == stored = {} /\ outcome = "none"

\* A transaction makes a further stretch of the feed durable.
Commit ==
    /\ outcome = "none"
    /\ \E upto \in Wanted :
          /\ stored' = {r \in Wanted : r <= upto}
          /\ stored \subseteq stored'
    /\ UNCHANGED outcome

\* The attempt ends and tells its caller how.
End ==
    /\ outcome = "none"
    /\ outcome' \in Outcomes
    /\ outcome' = "SUCCESS" => stored = Wanted
    /\ UNCHANGED stored

Contract == ContractInit /\ [][Commit \/ End]_<<stored, outcome>>
=============================================================================
