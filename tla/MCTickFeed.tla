----------------------------- MODULE MCTickFeed -----------------------------
(* Instances of TickFeed for TLC.                                          *)
EXTENDS TickFeed
=============================================================================
