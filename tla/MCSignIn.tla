----------------------------- MODULE MCSignIn -----------------------------
(* Small instances of SignIn: one person with an Apple and a Google identity *)
(* under one verified email, a second person with another, one invite code,  *)
(* and an account the CLI makes for the first person's email.                *)
EXTENDS SignIn, TLC

MCEmailOf == [i \in Identities |-> IF i \in {"apple1", "google1", "dev"} THEN "e1" ELSE "e2"]
Symmetry == Permutations(Reqs)

MCScopes == {{}, {"front"}}
===========================================================================
