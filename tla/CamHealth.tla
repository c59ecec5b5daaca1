----------------------------- MODULE CamHealth -----------------------------
(***************************************************************************)
(* The camera liveness monitor (internal/camhealth/monitor.go): Run polls  *)
(* Frigate's frame rates, poll turns them into the offline tags that the   *)
(* camera API shows.                                                       *)
(*                                                                         *)
(* A poll asks for the frame rates and reads the clock when the answer is  *)
(* there; cameras come and go in between.  Time passes in ticks.  The      *)
(* monitor compares ages with OfflineAfter only, so lastSeenUp is kept as  *)
(* an age that stops growing there.                                        *)
(***************************************************************************)
EXTENDS Naturals

CONSTANTS
    Cameras,        \* the configured cameras
    OfflineAfter,   \* CAMERA_OFFLINE_AFTER
    Gap,            \* the longest time from one poll's result to the next's:
                    \* CAMERA_HEALTH_POLL_INTERVAL and the time Frigate takes
    MaxRestarts,    \* bound: restarts of the gateway
    None

ASSUME CamHealthAssumption ==
    /\ OfflineAfter \in Nat \ {0}
    /\ Gap \in Nat \ {0}
    /\ MaxRestarts \in Nat
    /\ None \notin Nat

Upto(n, limit) == IF n < limit THEN n ELSE limit

VARIABLES
    live,       \* cameras that deliver frames
    step,       \* "idle", or "fetched": the answer is there, not yet recorded
    sample,     \* cameras with frames in the answer; none if the fetch failed
    age,        \* since lastSeenUp; None before the first poll
    offline,    \* the cameras tagged offline
    wait,       \* since the last poll's result
    restarts,
    \* History variables, which no guard reads:
    missed,     \* polls in a row without frames of a camera, counted to 2
    uptime      \* since the first poll, counted to OfflineAfter

vars == <<live, step, sample, age, offline, wait, restarts, missed, uptime>>

TypeOK ==
    /\ live \subseteq Cameras
    /\ step \in {"idle", "fetched"}
    /\ sample \subseteq Cameras
    /\ age \in [Cameras -> (0 .. OfflineAfter) \cup {None}]
    /\ offline \subseteq Cameras
    /\ wait \in 0 .. Gap
    /\ restarts \in 0 .. MaxRestarts
    /\ missed \in [Cameras -> 0 .. 2]
    /\ uptime \in (0 .. OfflineAfter) \cup {None}

\* New: the maps are empty.
Init ==
    /\ live \in SUBSET Cameras
    /\ step = "idle" /\ sample = {} /\ wait = 0
    /\ age = [c \in Cameras |-> None]
    /\ offline = {}
    /\ missed = [c \in Cameras |-> 0]
    /\ uptime = None
    /\ restarts = 0

-----------------------------------------------------------------------------
Older(a, n) == IF a = None THEN None ELSE Upto(a + n, OfflineAfter)

\* Time passes; the next poll is due before Gap is over.
Tick ==
    /\ wait < Gap
    /\ wait' = wait + 1
    /\ age' = [c \in Cameras |-> Older(age[c], 1)]
    /\ uptime' = Older(uptime, 1)
    /\ UNCHANGED <<live, step, sample, offline, restarts, missed>>

Flip(c) ==
    /\ live' = IF c \in live THEN live \ {c} ELSE live \cup {c}
    /\ UNCHANGED <<step, sample, age, offline, wait, restarts, missed, uptime>>

\* Frigate's stats, or an error: then no camera has frames.
Fetch ==
    /\ step = "idle"
    /\ step' = "fetched"
    /\ sample' \in {live, {}}
    /\ UNCHANGED <<live, age, offline, wait, restarts, missed, uptime>>

\* Mutant: no baseline at the first observation (the zero time).
M_NewAge_Baseline(c) ==
    IF c \in sample THEN 0 ELSE IF age[c] = None THEN OfflineAfter + 1 ELSE age[c]

\* Mutant: a failed fetch counts as no news.
M_NewAge_NoNews(c) ==
    IF c \in sample \/ sample = {} \/ age[c] = None THEN 0 ELSE age[c]

\* The first observation counts as one of a live camera.
NewAge(c) == IF c \in sample \/ age[c] = None THEN 0 ELSE age[c]

\* Mutant: tagged by what this poll saw, without the window.
M_Down(c) == c \notin sample

Down(c) == NewAge(c) >= OfflineAfter

\* The rest of poll, under the lock.
Record ==
    /\ step = "fetched"
    /\ step' = "idle"
    /\ sample' = {}
    /\ age' = [c \in Cameras |-> NewAge(c)]
    /\ offline' = {c \in Cameras : Down(c)}
    /\ wait' = 0
    /\ missed' = [c \in Cameras |-> IF c \in sample THEN 0 ELSE Upto(missed[c] + 1, 2)]
    /\ uptime' = IF uptime = None THEN 0 ELSE uptime
    /\ UNCHANGED <<live, restarts>>

Restart ==
    /\ restarts < MaxRestarts
    /\ restarts' = restarts + 1
    /\ step' = "idle" /\ sample' = {} /\ wait' = 0
    /\ age' = [c \in Cameras |-> None]
    /\ offline' = {}
    /\ missed' = [c \in Cameras |-> 0]
    /\ uptime' = None
    /\ UNCHANGED live

Next ==
    \/ Tick \/ Fetch \/ Record \/ Restart
    \/ \E c \in Cameras : Flip(c)

Spec == Init /\ [][Next]_vars

\* Time passes and the ticker fires; the fetch has ten seconds.
FairSpec == Spec /\ WF_vars(Tick) /\ WF_vars(Fetch) /\ WF_vars(Record)

-----------------------------------------------------------------------------
(* Properties.                                                             *)

\* monitor.go, poll: "a single failed poll won't flag them": it takes two polls in
\* a row without frames, provided that polls come closer together than the
\* debounce window.
NotByOnePoll == Gap < OfflineAfter => \A c \in offline : missed[c] = 2

\* "A camera that's down at startup gets the full grace period": no camera is
\* tagged before the monitor has run for OfflineAfter.
GraceAtStartup == offline # {} => uptime = OfflineAfter

\* A camera that stays down is tagged in the end, and stays so.
DownIsTagged == \A c \in Cameras : <>[](c \notin live) => <>[](c \in offline)
=============================================================================
