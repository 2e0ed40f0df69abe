-------------------------- MODULE MCOntologyLoader --------------------------
(* Instances of OntologyLoader for TLC.                                    *)
EXTENDS OntologyLoader

CONSTANTS a1, a2, e1, m1

Trades == {[market |-> m1, taker |-> a1, maker |-> a2]}
Transfer(block, log) == [block |-> block, log |-> log, from |-> a1, to |-> a2]
\* the table begins with an old and a newer block; a transfer may come late, in a
\* block between them, in the newer block, or in the newest one
Old   == {Transfer(1, 1), Transfer(3, 1)}
Moved == Old \union {Transfer(2, 1), Transfer(3, 2), Transfer(4, 1)}
Raised == {[market |-> m1, cluster |-> 1, entity |-> e] : e \in {e1, NoEntity}}
=============================================================================
