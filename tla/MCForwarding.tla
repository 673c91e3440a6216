---------------------------- MODULE MCForwarding ----------------------------
(***************************************************************************)
(* Rumors of B go round A, B and C, where C does not forward messages: A   *)
(* writes to B and requests data of it, or C writes to B.                  *)
(***************************************************************************)
EXTENDS Forwarding, TLC

CONSTANTS A, B, C

MCNode == {A, B, C}
Ring == (A :> {B}) @@ (B :> {C}) @@ (C :> {A})
JustC == {C}
OneOfB == (A :> 0) @@ (B :> 1) @@ (C :> 0)
AskAndTell ==
    << [origin |-> A, dest |-> B, private |-> FALSE],
       [origin |-> A, dest |-> B, private |-> TRUE],
       [origin |-> C, dest |-> B, private |-> TRUE] >>
===============================================================================
