------------------------------- MODULE MCPush -------------------------------
(* Small instances of Push: an admin with an iPhone and a member with an     *)
(* iPhone or an Android phone, two cameras, two events; a day of four        *)
(* minutes, of which the last is ending.                                     *)
EXTENDS Push, TLC

MCPlatformOf == [t \in Tokens |-> IF t = "t2" THEN "android" ELSE "ios"]
MCFirstOwner == [t \in Tokens |-> IF t = "t1" THEN "ann" ELSE "bob"]
MCScopes == {{}, {"yard"}}
MCCamOf == [d \in Dispatches |-> "front"]
MCEventOf == [d \in Dispatches |-> [label |-> "car", zones |-> {"drive"}, score |-> 1]]
MCTrim == [s \in Typed |-> IF s = " " THEN "" ELSE IF s = " car" THEN "car" ELSE s]
Symmetry == Permutations(Dispatches)

\* A cooldown; cars in the drive, named carelessly, and not before midnight;
\* other zones, scores beyond certainty, and quiet hours half switched off.
Careful == [DefaultRule EXCEPT !.cooldown = 60]
Nightly == [labels |-> {" car", " "}, zones |-> {"drive", "door"}, minScore |-> -1,
            cooldown |-> -1, start |-> 2, end |-> 0]
Certain == [labels |-> {"person", "car"}, zones |-> {" "}, minScore |-> 3,
            cooldown |-> 0, start |-> 1, end |-> -5]
MCRulesSent == {DefaultRule, Careful, Nightly, Certain}
MCFirstRules ==
    {r \in [Users -> {None, Careful, normalized(Nightly)}] :
       r["ann"] # normalized(Nightly) /\ r["bob"] # None}
=============================================================================
