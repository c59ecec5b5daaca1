---------------------------- MODULE MCSessions ------------------------------
(* A small instance of Sessions: a member, scoped to one of two cameras,     *)
(* whom commands can make an admin, scope anew, throw out or delete.         *)
EXTENDS Sessions, TLC

MCFirstRole == [u \in Users |-> "member"]
MCFirstScope == [u \in Users |-> {"front"}]
MCScopes == {{}, {"front"}, {"yard"}}
Symmetry == Permutations(Reqs)
=============================================================================
