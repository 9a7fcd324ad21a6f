-------------------------- MODULE MCIngestPipeline --------------------------
(* Instances of IngestPipeline for TLC. *)
EXTENDS IngestPipeline, TLC

CONSTANTS f1, f2, a, b

\* f1 has a malformed row and, in its second version, two rows of one key and a row
\* in a second batch; f2 loses its only row.
MCContent ==
    (f1 :> << <<a, Malformed>>, <<b, b, a>> >>) @@
    (f2 :> << <<a>>, << >> >>)

MCPlan == <<f1, f2>>
=============================================================================
