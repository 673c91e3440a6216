------------------------------ MODULE MCJoining ------------------------------
(***************************************************************************)
(* Joining on three nodes: A mined the genesis block, B and C join.        *)
(***************************************************************************)
EXTENDS Joining

CONSTANTS A, B, C

MCNode == {A, B, C}
MCGenesis == {A}
MCPair == {A, B}
Pair == (A :> <<B>>) @@ (B :> <<A>>)

\* Both joiners know the genesis node: they race for the same proposer.
Star == (A :> <<B>>) @@ (B :> <<A>>) @@ (C :> <<A>>)

\* test_cases/simpleCase cut to three nodes: A only knows B, B and C know
\* each other, and C joins through B.
Chained == (A :> <<B>>) @@ (B :> <<C>>) @@ (C :> <<B>>)
==============================================================================
