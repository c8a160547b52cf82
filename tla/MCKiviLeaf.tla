----------------------------- MODULE MCKiviLeaf -----------------------------
(* Small instance of KiviLeaf for TLC: the three nodes of main.cpp. *)
EXTENDS KiviLeaf

ThreeNodes == <<1, 2, 3>>

=============================================================================
