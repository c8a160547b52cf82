---------------------------- MODULE MCMembership ----------------------------
(* A small instance of Membership for TLC: main's three nodes.              *)
EXTENDS Membership

CONSTANTS p1, p2, p3

ThreeNodes == <<p1, p2, p3>>

=============================================================================
