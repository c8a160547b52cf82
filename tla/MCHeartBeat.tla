---------------------------- MODULE MCHeartBeat ----------------------------
(* A small instance of HeartBeat for TLC, with times short against the       *)
(* code's fifteen seconds but in the same proportions.                       *)
EXTENDS HeartBeat

ASSUME TimelyInstance == Timely

=============================================================================
