-------------------------- MODULE MCControlService --------------------------
(***************************************************************************)
(* ControlService on small instances: which hub each node is bound to, and *)
(* which identities are interchangeable.                                   *)
(***************************************************************************)
EXTENDS ControlService, TLC

CONSTANTS n1, n2, h1, h2

OneNode    == {n1}
TwoNodes   == {n1, n2}
SameHub    == (n1 :> h1) @@ (n2 :> h1)
OnlyHub    == n1 :> h1

Identities == Permutations(CmdId) \cup Permutations(Key) \cup Permutations(Worker)
=============================================================================
