---------------------------- MODULE MCFileSearch ----------------------------
(***************************************************************************)
(* A knows B and C, and C knows B, which learns of them from their packets *)
(* and cannot forward a search while it knows its sender only.  B and C    *)
(* have a file of the same name and different content.                     *)
(***************************************************************************)
EXTENDS FileSearch, TLC

CONSTANTS A, B, C, f, v1, v2, k

MCNode == {A, B, C}
OneWay == (A :> <<B, C>>) @@ (B :> <<>>) @@ (C :> <<B>>)
ToA == [n \in MCNode |-> {A} \ {n}]
Old == [meta |-> v1, chunks |-> {0}]
New == [meta |-> v2, chunks |-> {0, 1}]
SameName ==
    (A :> <<>>) @@ (B :> (f :> Old)) @@ (C :> (f :> New))

Ask(n, keywords, matching, budget0, web) ==
    [node |-> n, keywords |-> keywords, matching |-> matching, budget |-> budget0, web |-> web]

\* Two pages of A, one of which asks for more than the maximum and gets nothing,
\* and a client of C on the command line, to which no replies find the way.
PagesAndClient ==
    << Ask(A, k, {f}, 3, TRUE), Ask(A, k, {f}, 4, TRUE), Ask(C, k, {f}, 2, FALSE) >>
==============================================================================
