----------------------------- MODULE MCPipeline -----------------------------
(* Values of the constants of Pipeline for model checking.                 *)
EXTENDS Pipeline, TLC

CONSTANTS kafka, webhook

\* Four records in two payloads: one that an enricher drops sits between
\* wanted ones, one is above the webhook's max_tlp, and the last of two
\* batches is not full.
FourLastOf == 0 :> 0 @@ 1 :> 2 @@ 2 :> 4
FourKinds == <<"good", "rejected", "good", "good">>
FourTlp == <<2, 0, 0, 0>>
FourInd == <<1, 2, 3, 4>>

\* One payload of three records.
ThreeLastOf == 0 :> 0 @@ 1 :> 3
ThreeKinds == <<"good", "rejected", "good">>
ThreeTlp == <<2, 0, 0>>
ThreeInd == <<1, 2, 3>>

\* A record without a value, an indicator that occurs twice in a batch, and a
\* malformed record.
BadLastOf == 0 :> 0 @@ 1 :> 4
BadKinds == <<"good", "empty", "good", "permanent">>
BadTlp == <<2, 0, 0, 0>>
BadInd == <<1, 2, 1, 4>>

TwoPublishers == <<kafka, webhook>>
OnePublisher == <<webhook>>
TwoMaxTlp == kafka :> 2 @@ webhook :> 1
OneMaxTlp == webhook :> 1

\* What the plugins shipped with the repository raise: a rate-limited or
\* unreachable upstream, a parser's PermanentError, database and HTTP client
\* errors that are not CTIErrors.
PluginFaults == [s \in Stages |->
    CASE s = "fetch" -> {"cti"}
      [] s = "parse" -> {"permanent"}
      [] s \in {"enrich", "persist", "publish"} -> {"other"}
      [] OTHER -> {}]
=============================================================================
