----------------------------- MODULE ClipCache -----------------------------
(***************************************************************************)
(* What the clip cache promises its readers: a clip is absent or complete, *)
(* it appears in one step, and while it is there it is never replaced by   *)
(* another version of itself; a player can fetch it range by range.        *)
(***************************************************************************)
CONSTANT Clips

VARIABLES
    recording,  \* Frigate's recording: "growing", "ready" or "gone"
    cached      \* the cached clip: "none", "early" (made from a recording that
                \* still grew) or "whole"

vars == <<recording, cached>>

Init ==
    /\ recording = [c \in Clips |-> "growing"]
    /\ cached = [c \in Clips |-> "none"]

Progress(c) ==
    /\ recording' \in {[recording EXCEPT ![c] = "ready"], [recording EXCEPT ![c] = "gone"]}
    /\ recording[c] # "gone"
    /\ recording'[c] # recording[c]
    /\ UNCHANGED cached

Fill(c) ==
    /\ cached[c] = "none"
    /\ \E version \in {"early", "whole"} :
        /\ version = "whole" => recording[c] # "growing"
        /\ cached' = [cached EXCEPT ![c] = version]
    /\ UNCHANGED recording

Drop(c) ==
    /\ cached[c] # "none"
    /\ cached' = [cached EXCEPT ![c] = "none"]
    /\ UNCHANGED recording

Next == \E c \in Clips : Progress(c) \/ Fill(c) \/ Drop(c)

Spec == Init /\ [][Next]_vars
=============================================================================
