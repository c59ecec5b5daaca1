--------------------------- MODULE MCSignInLoads ----------------------------
(* The small instance of MCSignIn, under the three loads.                    *)
EXTENDS SignInLoads, MCSignIn
=============================================================================
