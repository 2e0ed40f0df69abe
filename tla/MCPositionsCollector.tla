------------------------ MODULE MCPositionsCollector ------------------------
(* Instances of PositionsCollector for TLC.                                *)
EXTENDS PositionsCollector, TLC

CONSTANTS t1, t2, t4, bad, h1, k4, w1

\* t1 and t2 are fills of one transaction, bad is an unreadable entry of the
\* same one; t4 has neither a hash, nor a time that can be read, nor a taker.
Keying == [t \in Trades |-> IF t \in {t1, t2, bad} THEN h1 ELSE k4]
Taking == [t \in Trades |-> IF t = t4 THEN NoWallet ELSE w1]

=============================================================================
