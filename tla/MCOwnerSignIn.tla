--------------------------- MODULE MCOwnerSignIn ----------------------------
(* A small instance of OwnerSignIn: two requests at a time of an admin and a  *)
(* member, with tokens signed with the old key or the new one, and of a token *)
(* without a subject.                                                         *)
EXTENDS OwnerSignIn, TLC

Of(kid, sub) == [kid |-> kid, iss |-> "google", aud |-> {"app"}, sub |-> sub, fresh |-> TRUE]
MCIdTokens == {Of("old", "ann"), Of("new", "ann"), Of("new", "bob"), Of("old", None)}
Symmetry == Permutations(Reqs) \cup Permutations(Instances)
=============================================================================
