-------------------------- MODULE MCChainCollector --------------------------
(* Instances of ChainCollector for TLC.                                    *)
EXTENDS ChainCollector

CONSTANTS t1, t2, t3, t4

\* A fork moves t2 from height 4 to height 5 or drops it; t4 is not listed
\* where a run has no malformed log.
ForkingLogs(b, v) == Transfers \intersect
  CASE b = 3           -> {t1, t4}
    [] b = 4 /\ v = 0 -> {t2}
    [] b = 5 /\ v = 1 -> {t2}
    [] b = 5 /\ v = 0 -> {t3}
    [] OTHER           -> {}

=============================================================================
