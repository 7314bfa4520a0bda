------------------------------ MODULE MCGarden ------------------------------
EXTENDS Garden, TLC

CONSTANTS u1, u2, d1, d2, d3, w1, w2, n1, n2, k1, k2

NamesDiffer == d1 :> 2 @@ d2 :> 1
TwoAlike    == d1 :> 2 @@ d2 :> 2 @@ d3 :> 1

NodeIds == n1 :> 1 @@ n2 :> 2
OneId   == n1 :> 1

Alike == Permutations(User) \cup Permutations(Key) \cup Permutations({d1, d2})
=============================================================================
