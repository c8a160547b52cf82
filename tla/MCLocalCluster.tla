--------------------------- MODULE MCLocalCluster ---------------------------
(* Small instances of LocalCluster for TLC.  main.cpp registers three nodes, *)
(* lowest id first, and names the first of them as the leader.               *)
EXTENDS LocalCluster

ThreeNodes == <<1, 2, 3>>

=============================================================================
