--------------------------- MODULE MCFileTransfer ---------------------------
(***************************************************************************)
(* A shares one or two files, B's client asks A for them, and C's for what *)
(* a search has found.                                                     *)
(***************************************************************************)
EXTENDS FileTransfer, TLC

CONSTANTS A, B, C, x, y, z, f, g

MCNode == {A, B, C}
MCChunk == {x, y, z}
File == <<x, y>>
Other == <<z>>
Similar == <<x>>
OneByA == (A :> (f :> File)) @@ (B :> <<>>) @@ (C :> <<>>)
TwoByA == [OneByA EXCEPT ![A] = (f :> File) @@ (g :> Other)]
AlikeByA == [OneByA EXCEPT ![A] = (f :> File) @@ (g :> Similar)]

Get(n, name, meta, from) == [node |-> n, name |-> name, meta |-> meta, from |-> from]
FromA(meta) == [i \in 0 .. Len(meta) |-> A]

\* B asks A; C has found the metafile and the second chunk at A and the first at
\* B, and another file with no chunk at all.
BThenC ==
    << Get(B, f, File, FromA(File)),
       Get(C, f, File, [FromA(File) EXCEPT ![1] = B]),
       Get(C, g, Other, [i \in {} |-> A]) >>
\* B asks A for two files at once, which have no chunk in common, or one.
TwoOfB == << Get(B, f, File, FromA(File)), Get(B, g, Other, FromA(Other)) >>
TwoAlike == << Get(B, f, File, FromA(File)), Get(B, g, Similar, FromA(Similar)) >>

Both == {<<B, A>>, <<A, B>>, <<C, A>>, <<A, C>>, <<C, B>>, <<B, C>>}
\* The owner's to B, without which it cannot answer B, and C's to B, without which C
\* cannot ask for its first chunk.
ToB == {<<A, B>>, <<C, B>>}
KnownAtFirst == Both \ ToB
==============================================================================
