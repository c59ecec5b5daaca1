------------------------------ MODULE Requests ------------------------------
(* What the modules of an owner's sign-in share.                             *)
EXTENDS Naturals, FiniteSets

CONSTANTS
    Reqs,           \* sign-in requests at a time, each with the job it may leave behind
    Faults,         \* do statements fail and does the gateway restart?
    None

ASSUME RequestsAssumption == Faults \in BOOLEAN
=============================================================================
