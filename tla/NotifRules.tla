----------------------------- MODULE NotifRules -----------------------------
(***************************************************************************)
(* The notification rules of internal/notifrules: what the app sends is    *)
(* cleaned up by normalized (store.go) and stored; staticAllows (rule.go)  *)
(* decides whether an event passes the stored rule at a minute of the day. *)
(*                                                                         *)
(* Label and zone lists are sets: their order tells nothing apart.  Scores *)
(* are whole steps of 1 / Full, minutes count from local midnight.         *)
(***************************************************************************)
EXTENDS Integers

CONSTANTS
    Day,        \* minutes in a day: 1440
    Full,       \* the score 1.0
    Names,      \* labels and zones
    Typed,      \* what an app may send for one, blanks around it and all
    Trim,       \* strings.TrimSpace
    Blank       \* what is left of blanks alone

ASSUME NotifRulesAssumption ==
    /\ Day \in Nat \ {0}
    /\ Full \in Nat \ {0}
    /\ Blank \notin Names
    /\ Names \subseteq Typed
    /\ Trim \in [Typed -> Names \cup {Blank}]
    /\ \A n \in Names : Trim[n] = n

Minutes == 0 .. Day - 1

Events == [label : Names, zones : SUBSET Names, score : 0 .. Full]

\* What an app may send, and what is stored of it.
Requested == [labels : SUBSET Typed, zones : SUBSET Typed, minScore : Int,
              cooldown : Int, start : Int, end : Int]
Stored == {r \in [labels : SUBSET Names, zones : SUBSET Names, minScore : 0 .. Full,
                  cooldown : Nat, start : -1 .. Day - 1, end : -1 .. Day - 1] :
             r.start = -1 <=> r.end = -1}

\* A user without a row is told of everything.
DefaultRule == [labels |-> {}, zones |-> {}, minScore |-> 0, cooldown |-> 0,
                start |-> -1, end |-> -1]

-----------------------------------------------------------------------------
(* Storing a rule.                                                         *)

cleanSet(in) == {Trim[s] : s \in in} \ {Blank}

clampMinute(m) == IF m < 0 THEN -1 ELSE IF m > Day - 1 THEN Day - 1 ELSE m

clampScore(s) == IF s < 0 THEN 0 ELSE IF s > Full THEN Full ELSE s

\* Quiet hours are all or nothing.
normalized(r) ==
    LET off == r.start < 0 \/ r.end < 0 IN
    [labels   |-> cleanSet(r.labels),
     zones    |-> cleanSet(r.zones),
     minScore |-> clampScore(r.minScore),
     cooldown |-> IF r.cooldown < 0 THEN 0 ELSE r.cooldown,
     start    |-> IF off THEN -1 ELSE clampMinute(r.start),
     end      |-> IF off THEN -1 ELSE clampMinute(r.end)]

-----------------------------------------------------------------------------
(* Asking a rule.                                                          *)

\* Mutant: no window wraps past midnight.
M_inQuietHours(r, m) ==
    /\ r.start >= 0 /\ r.end >= 0 /\ r.start # r.end
    /\ m >= r.start /\ m < r.end

\* A window whose start is after its end wraps past midnight; one whose bounds
\* are equal is empty.
inQuietHours(r, m) ==
    /\ r.start >= 0 /\ r.end >= 0 /\ r.start # r.end
    /\ IF r.start < r.end THEN m >= r.start /\ m < r.end
       ELSE m >= r.start \/ m < r.end

staticAllows(r, ev, m) ==
    /\ r.labels # {} => ev.label \in r.labels
    /\ r.zones # {} => r.zones \cap ev.zones # {}
    /\ ~ (r.minScore > 0 /\ ev.score < r.minScore)
    /\ ~ inQuietHours(r, m)

-----------------------------------------------------------------------------
(* The same, as the settings screen puts it: the window runs forward from  *)
(* its start, past midnight if need be, and stops short of its end.        *)

\* Minutes from a to the next b on the clock.
Elapsed(a, b) == IF a <= b THEN b - a ELSE b - a + Day

Quiet(r, m) == r.start # -1 /\ Elapsed(r.start, m) < Elapsed(r.start, r.end)

Chosen(r, ev, m) ==
    /\ r.labels = {} \/ ev.label \in r.labels
    /\ r.zones = {} \/ \E z \in ev.zones : z \in r.zones
    /\ ev.score >= r.minScore
    /\ ~ Quiet(r, m)
=============================================================================
