------------------------------- MODULE MCGossip -------------------------------
(***************************************************************************)
(* Gossip on three nodes: A and C know B, and learn of each other.         *)
(***************************************************************************)
EXTENDS Gossip, TLC

CONSTANTS A, B, C

MCNode == {A, B, C}
Line == (A :> {B}) @@ (B :> {A, C}) @@ (C :> {B})
JustC == {C}
OneOfA == (A :> 1) @@ (B :> 0) @@ (C :> 0)
TwoOfAOneOfC == (A :> 2) @@ (B :> 0) @@ (C :> 1)
===============================================================================
