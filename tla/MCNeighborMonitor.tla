-------------------------- MODULE MCNeighborMonitor --------------------------
(***************************************************************************)
(* A node that was started with -peers=a; b is a neighbour that joins.     *)
(***************************************************************************)
EXTENDS NeighborMonitor

CONSTANTS a, b

MCNeighbor == {a, b}
JustA == {a}
JustB == {b}
==============================================================================
