------------------------- MODULE MCEntityResolution -------------------------
(* Instances of EntityResolution for TLC.                                  *)
EXTENDS EntityResolution

CONSTANTS u1, u2

\* 1 and 2 send to 4, later 3 and 2 to 1: who is similar to whom moves with
\* the window.  5 mints.
Log == << <<1, 4>>, <<2, 4>>, <<5, 1>>, <<3, 1>>, <<2, 1>> >>

\* one uid with two addresses, another uid with one
Listings == { << [uid |-> u1, address |-> 1], [uid |-> u1, address |-> 3], [uid |-> u2, address |-> 4] >> }

Tried == <<30, 60>>
=============================================================================
