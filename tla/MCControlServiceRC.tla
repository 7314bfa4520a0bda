------------------------- MODULE MCControlServiceRC -------------------------
(***************************************************************************)
(* ControlServiceRC with one node on one hub, and what is interchangeable. *)
(***************************************************************************)
EXTENDS ControlServiceRC, TLC

CONSTANTS n1, h1

OnlyHub == n1 :> h1

Identities == Permutations(CmdId) \cup Permutations(Key) \cup Permutations(Worker)
=============================================================================
