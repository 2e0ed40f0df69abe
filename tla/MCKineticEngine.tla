--------------------------- MODULE MCKineticEngine ---------------------------
(* Instances of KineticEngine for TLC.                                     *)
EXTENDS KineticEngine, TLC

CONSTANTS m1, m2, g1, g2, a1, a2, zero, c1, c2

\* The feeds fall back to the conditionId when Gamma's id is unknown
\* (market-collector lines 126 and 195): ticks and fills share the id.
FallbackIds == (m1 :> m1) @@ (m2 :> m2)
OneFallback == (m1 :> m1)

\* the ids the pipeline writes
PipelineIds == (m1 :> g1)

=============================================================================
