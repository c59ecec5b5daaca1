---------------------------- MODULE SignInLoads ----------------------------
(***************************************************************************)
(* SignIn under the three loads its promises tell apart.  On a quiet       *)
(* gateway one sign-in runs at a time and no statement fails: this is what *)
(* the documents describe.  On a serial one it is still one at a time, but *)
(* statements fail and the gateway restarts in the middle of a sign-in.  A *)
(* busy one is module SignIn as it stands, where sign-ins overlap as well. *)
(* Admin commands come between any two statements under every load.        *)
(***************************************************************************)
EXTENDS SignIn

CONSTANT
    MaxBusyInputs   \* bound: the inputs of a gateway that is not quiet

VARIABLE
    load            \* chosen once

Quiet == INSTANCE SignIn WITH Faults <- FALSE

OneAtATime == \A q, r \in Reqs : pc[q] # "idle" /\ pc[r] # "idle" => q = r

LoadInit == Init /\ load \in {"quiet", "serial", "busy"}

QuietNext ==
    /\ load = "quiet"
    /\ Quiet!Next
    /\ OneAtATime'

SerialNext ==
    /\ load = "serial"
    /\ Next
    /\ OneAtATime'
    /\ inputs' <= MaxBusyInputs

BusyNext ==
    /\ load = "busy"
    /\ Next
    /\ inputs' <= MaxBusyInputs

LoadNext == (QuietNext \/ SerialNext \/ BusyNext) /\ UNCHANGED load

LoadSpec == LoadInit /\ [][LoadNext]_<<vars, load>>

-----------------------------------------------------------------------------
(* The promises that rest on no statement failing.                         *)

\* README: "Invites are single-use": no two accounts came in on one invite,
\* whatever the admin does between the statements of their sign-ins.
QuietInviteSingleUse == load = "quiet" => InviteSingleUse

\* 0007_invites.sql: the sign-in "creates their account with that role/scope":
\* nobody holds tokens before the scope decided for the account is its scope.
QuietScopedBeforeTokens == load = "quiet" => ScopedBeforeTokens

-----------------------------------------------------------------------------
(* The promises that failures and restarts cannot break, only overlapping  *)
(* sign-ins.                                                               *)

\* 0009_identities.sql: "the same person (matched on verified email) is one
\* account across both" providers, accounts made by create-user aside.
SerialOneAccountPerPerson == load # "busy" => OneAccountPerPerson

\* README: "The first person to sign in becomes the admin", and nobody else
\* does for being the first, accounts deleted meanwhile included.
SerialOneOwner == load # "busy" => OneOwner

\* completeProviderSignIn: "an existing linked (provider, sub) -> that user":
\* a sign-in is answered for the account its identity belongs to.
SerialAnsweredForItsIdentity == [][load # "busy" => AnswersItsIdentity]_vars
=============================================================================
