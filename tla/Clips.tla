------------------------------- MODULE Clips -------------------------------
(***************************************************************************)
(* The clips on disk: Client.EnsureCachedClip (internal/frigate/client.go) *)
(* and the three that call it (EventClip, SetEventKeep and the prewarm at  *)
(* the end of an event), and the pruner (internal/clips/pruner.go).        *)
(*                                                                         *)
(* A caller looks for the file, then starts or joins the fill of the clip  *)
(* (golang.org/x/sync/singleflight) and waits for its result or gives up.  *)
(* A fill downloads to <id>.mp4.raw, remuxes to <id>.mp4.tmp and renames.  *)
(* The pruner goes through a listing of the directory and looks every      *)
(* event up on its own.  Fills, callers and pruner interleave at every     *)
(* file operation and statement.                                           *)
(*                                                                         *)
(* Content is abstract: a file is absent, torn (being written, or left so  *)
(* by a crash), or complete, made from a recording that still grew         *)
(* ("early") or from all of it ("whole").  Time and the retention window   *)
(* are abstract: an event, or a file without one, is or is not older than  *)
(* the window.                                                             *)
(***************************************************************************)
EXTENDS Naturals, FiniteSets

CONSTANTS
    Clips,          \* events, by id
    Callers,        \* calls of EnsureCachedClip, each made once (bound)
    Jobs,           \* bound: fills at work at a time
    MaxRestarts,    \* bound: restarts of the gateway
    Early,          \* do people ask for the clip of an event that goes on?
    None

ASSUME ClipsAssumption ==
    /\ MaxRestarts \in Nat /\ Early \in BOOLEAN
    /\ None \notin Clips \cup Jobs

VARIABLES
    recording,  \* Frigate's recording of an event: "growing", "ready", "gone"
    hasClip,    \* events.has_clip
    keep,       \* events.keep_clip
    old,        \* events.start_time, or for want of a row the file's time, is more
                \* than clip_retention_days ago
    mp4, raw, tmp,  \* the files <id>.mp4, <id>.mp4.raw and <id>.mp4.tmp
    restarts

VARIABLES
    flight,     \* singleflight: the job at work for a clip
    job         \* [step, clip, got]: got is what Frigate answered with

VARIABLES
    caller,     \* [step, clip, why, on, late]: on is the job it waits for; late
                \* (history) says that the event was over when the call was made
    out         \* what it came away with

VARIABLES
    pass,       \* the pruner: [step, todo, expired, clip]
    late        \* history: clips pinned since the pass has looked them up

rows == <<recording, hasClip, keep, old>>
files == <<mp4, raw, tmp>>
fills == <<flight, job>>
calls == <<caller, out>>
pruner == <<pass, late>>
vars == <<rows, files, restarts, fills, calls, pruner>>

Files == {"none", "torn", "early", "whole"}
JobSteps == {"idle", "recheck", "request", "copy", "remux", "encode", "rename"}
NoJob == [step |-> "idle", clip |-> None, got |-> "none"]
CallSteps == {"new", "stat", "join", "wait", "open", "done"}
NoCall == [step |-> "new", clip |-> None, why |-> "fetch", on |-> None, late |-> FALSE]
NoPass == [step |-> "idle", todo |-> {}, expired |-> {}, clip |-> None]

TypeOK ==
    /\ recording \in [Clips -> {"growing", "ready", "gone"}]
    /\ hasClip \cup keep \cup old \subseteq Clips
    /\ {mp4, raw, tmp} \subseteq [Clips -> Files]
    /\ restarts \in 0 .. MaxRestarts
    /\ flight \in [Clips -> Jobs \cup {None}]
    /\ job \in [Jobs -> [step : JobSteps, clip : Clips \cup {None},
                         got : {"none", "early", "whole"}]]
    /\ caller \in [Callers -> [step : CallSteps, clip : Clips \cup {None},
                               why : {"request", "fetch"},
                               on : Jobs \cup {None}, late : BOOLEAN]]
    /\ out \in [Callers -> Files \cup {"nothing", "error"}]
    /\ pass.step \in {"idle", "list", "next", "remove"}
    /\ pass.todo \cup pass.expired \cup late \subseteq Clips
    /\ pass.clip \in Clips \cup {None}
    \* A job is in flight for its clip exactly as long as it is at work.
    /\ \A j \in Jobs : job[j].step # "idle" <=> \E c \in Clips : flight[c] = j
    /\ \A k \in Callers : caller[k].step = "wait" <=> caller[k].on # None

Init ==
    /\ recording = [c \in Clips |-> "growing"]
    /\ hasClip = {} /\ keep = {} /\ old = {}
    /\ mp4 = [c \in Clips |-> "none"]
    /\ raw = [c \in Clips |-> "none"]
    /\ tmp = [c \in Clips |-> "none"]
    /\ restarts = 0
    /\ flight = [c \in Clips |-> None]
    /\ job = [j \in Jobs |-> NoJob]
    /\ caller = [k \in Callers |-> NoCall]
    /\ out = [k \in Callers |-> "nothing"]
    /\ pass = NoPass /\ late = {}

-----------------------------------------------------------------------------
(* The callers.                                                            *)

Call(k, c, why) ==
    /\ caller[k].step = "new"
    /\ Early \/ recording[c] # "growing"
    /\ caller' = [caller EXCEPT ![k] = [step |-> "stat", clip |-> c, why |-> why,
                                        on |-> None,
                                        late |-> recording[c] # "growing"]]
    /\ UNCHANGED <<recording, old, files, restarts, fills, out>>

\* EventClip: 404 unless the row says that there is a clip.
Request(k, c) ==
    /\ c \in hasClip
    /\ Call(k, c, "request")
    /\ UNCHANGED <<hasClip, keep, pruner>>

\* SetEventKeep: the write, then a fetch of its own, has_clip or not.
SetEventKeep(k, c, on) ==
    \/ /\ on /\ keep' = keep \cup {c}
       /\ Call(k, c, "fetch")
       /\ late' = IF pass.clip = c THEN late \cup {c} ELSE late
       /\ UNCHANGED <<hasClip, pass>>
    \/ /\ ~ on /\ c \in keep /\ keep' = keep \ {c}
       /\ late' = late \ {c}
       /\ UNCHANGED <<recording, hasClip, old, files, restarts, fills, calls, pass>>

\* An update of the event; the end of an event with a clip prewarms it.
Report(c) ==
    /\ recording[c] = "growing"
    /\ hasClip' = hasClip \cup {c} /\ hasClip' # hasClip
    /\ UNCHANGED <<recording, keep, old, files, restarts, fills, calls, pruner>>

Prewarm(k, c) ==
    /\ recording[c] # "growing"
    /\ hasClip' = hasClip \cup {c}
    /\ Call(k, c, "fetch")
    /\ UNCHANGED <<keep, pruner>>

Come(k, step, on) == caller' = [caller EXCEPT ![k].step = step, ![k].on = on]

Over(call) == [NoCall EXCEPT !.step = "done", !.late = call.late]

\* A request opens the file it was promised, a fetch is done.
Found(call) ==
    IF call.why = "request" THEN [call EXCEPT !.step = "open", !.on = None] ELSE Over(call)

\* EnsureCachedClip: the fast path.
Stat(k) ==
    /\ caller[k].step = "stat"
    /\ caller' = [caller EXCEPT ![k] = IF mp4[@.clip] # "none" THEN Found(@)
                                       ELSE [@ EXCEPT !.step = "join"]]
    /\ UNCHANGED <<rows, files, restarts, fills, out, pruner>>

\* A goroutine for the next job: which one is all the same.
Idle == LET idle == {j \in Jobs : job[j].step = "idle"} IN
        IF idle = {} THEN {} ELSE {CHOOSE j \in idle : TRUE}

\* Mutant: no deduplication.
M_Join(k) ==
    LET c == caller[k].clip IN
    /\ caller[k].step = "join"
    /\ \E j \in Idle :
        /\ job' = [job EXCEPT ![j] = [NoJob EXCEPT !.step = "recheck", !.clip = c]]
        /\ flight' = [flight EXCEPT ![c] = j]
        /\ Come(k, "wait", j)
    /\ UNCHANGED <<rows, files, restarts, out, pruner>>

\* DoChan: join the job in flight for the clip, or start one.
Join(k) ==
    LET c == caller[k].clip IN
    /\ caller[k].step = "join"
    /\ \/ /\ flight[c] # None
          /\ Come(k, "wait", flight[c])
          /\ UNCHANGED fills
       \/ /\ flight[c] = None
          /\ \E j \in Idle :
              /\ job' = [job EXCEPT ![j] = [NoJob EXCEPT !.step = "recheck", !.clip = c]]
              /\ flight' = [flight EXCEPT ![c] = j]
              /\ Come(k, "wait", j)
    /\ UNCHANGED <<rows, files, restarts, out, pruner>>

\* Mutant: the caller that leaves forgets the key (singleflight.Forget), so that
\* the next one starts afresh.
M_Leave(k) ==
    /\ caller[k].step = "wait"
    /\ out' = [out EXCEPT ![k] = "error"]
    /\ caller' = [caller EXCEPT ![k] = Over(@)]
    /\ flight' = [flight EXCEPT ![caller[k].clip] = None]
    /\ UNCHANGED <<rows, files, restarts, job, pruner>>

\* The client has gone, or the two or five minutes of the fetch are over.
Leave(k) ==
    /\ caller[k].step = "wait"
    /\ out' = [out EXCEPT ![k] = "error"]
    /\ caller' = [caller EXCEPT ![k] = Over(@)]
    /\ UNCHANGED <<rows, files, restarts, fills, pruner>>

\* http.ServeFile; the file may have been pruned by now.
Serve(k) ==
    /\ caller[k].step = "open"
    /\ out' = [out EXCEPT ![k] = mp4[caller[k].clip]]
    /\ caller' = [caller EXCEPT ![k] = Over(@)]
    /\ UNCHANGED <<rows, files, restarts, fills, pruner>>

-----------------------------------------------------------------------------
(* The fills.                                                              *)

At(j, step) == job[j].step = step
Go(j, step) == job' = [job EXCEPT ![j].step = step]

\* Mutant: the result reaches one of the callers only.
M_Settle(j, ok) ==
    LET waiting == {k \in Callers : caller[k].on = j} IN
    /\ job' = [job EXCEPT ![j] = NoJob]
    /\ flight' = [c \in Clips |-> IF flight[c] = j THEN None ELSE flight[c]]
    /\ \/ waiting = {} /\ UNCHANGED calls
       \/ \E k \in waiting :
            /\ caller' = [caller EXCEPT ![k] = IF ok THEN Found(@) ELSE Over(@)]
            /\ out' = [out EXCEPT ![k] = IF ok THEN @ ELSE "error"]

\* The job is over, the key is free, and every caller that still waits is told.
Settle(j, ok) ==
    LET waiting == {k \in Callers : caller[k].on = j} IN
    /\ job' = [job EXCEPT ![j] = NoJob]
    /\ flight' = [c \in Clips |-> IF flight[c] = j THEN None ELSE flight[c]]
    /\ caller' = [k \in Callers |->
                    IF k \notin waiting THEN caller[k]
                    ELSE IF ok THEN Found(caller[k]) ELSE Over(caller[k])]
    /\ out' = [k \in Callers |-> IF k \in waiting /\ ~ ok THEN "error" ELSE out[k]]

\* Look again: the file may be there by now.
Recheck(j) ==
    /\ At(j, "recheck")
    /\ \/ mp4[job[j].clip] # "none" /\ Settle(j, TRUE)
       \/ mp4[job[j].clip] = "none" /\ Go(j, "request") /\ UNCHANGED <<flight, calls>>
    /\ UNCHANGED <<rows, files, restarts, pruner>>

\* cacheClip: Frigate answers with what it has recorded, and os.Create truncates
\* what an earlier run of the gateway left.
Download(j) ==
    LET c == job[j].clip IN
    /\ At(j, "request")
    /\ recording[c] # "gone"
    /\ job' = [job EXCEPT ![j].step = "copy",
                          ![j].got = IF recording[c] = "ready" THEN "whole" ELSE "early"]
    /\ raw' = [raw EXCEPT ![c] = "torn"]
    /\ UNCHANGED <<rows, mp4, tmp, restarts, flight, calls, pruner>>

\* Unreachable, any status but 200, no disk space, or no time left.
DownloadFails(j) ==
    LET c == job[j].clip IN
    /\ At(j, "request") \/ At(j, "copy")
    /\ raw' = IF At(j, "copy") THEN [raw EXCEPT ![c] = "none"] ELSE raw
    /\ Settle(j, FALSE)
    /\ UNCHANGED <<rows, mp4, tmp, restarts, pruner>>

Copied(j) ==
    /\ At(j, "copy")
    /\ raw' = [raw EXCEPT ![job[j].clip] = job[j].got]
    /\ Go(j, "remux")
    /\ UNCHANGED <<rows, mp4, tmp, restarts, flight, calls, pruner>>

\* Mutant: ffmpeg writes to the file that is served.
M_Remux(j) ==
    /\ At(j, "remux")
    /\ mp4' = [mp4 EXCEPT ![job[j].clip] = "torn"]
    /\ tmp' = [tmp EXCEPT ![job[j].clip] = "torn"]
    /\ Go(j, "encode")
    /\ UNCHANGED <<rows, raw, restarts, flight, calls, pruner>>

\* ffmpeg -y starts over on the temporary file.
Remux(j) ==
    /\ At(j, "remux")
    /\ tmp' = [tmp EXCEPT ![job[j].clip] = "torn"]
    /\ Go(j, "encode")
    /\ UNCHANGED <<rows, mp4, raw, restarts, flight, calls, pruner>>

\* ffmpeg has written all of what it read.
Encoded(j) ==
    /\ At(j, "encode")
    /\ tmp' = [tmp EXCEPT ![job[j].clip] = raw[job[j].clip]]
    /\ Go(j, "rename")
    /\ UNCHANGED <<rows, mp4, raw, restarts, flight, calls, pruner>>

\* ffmpeg fails, or is killed when the time is up.
RemuxFails(j) ==
    /\ At(j, "encode")
    /\ tmp' = [tmp EXCEPT ![job[j].clip] = "none"]
    /\ raw' = [raw EXCEPT ![job[j].clip] = "none"]
    /\ Settle(j, FALSE)
    /\ UNCHANGED <<rows, mp4, restarts, pruner>>

Rename(j) ==
    LET c == job[j].clip IN
    /\ At(j, "rename")
    /\ mp4' = [mp4 EXCEPT ![c] = tmp[c]]
    /\ tmp' = [tmp EXCEPT ![c] = "none"]
    /\ raw' = [raw EXCEPT ![c] = "none"]
    /\ Settle(j, TRUE)
    /\ UNCHANGED <<rows, restarts, pruner>>

\* Then the temporary file stays.
RenameFails(j) ==
    /\ At(j, "rename")
    /\ raw' = [raw EXCEPT ![job[j].clip] = "none"]
    /\ Settle(j, FALSE)
    /\ UNCHANGED <<rows, mp4, tmp, restarts, pruner>>

JobStep(j) ==
    \/ Recheck(j) \/ Download(j) \/ DownloadFails(j) \/ Copied(j) \/ Remux(j)
    \/ Encoded(j) \/ RemuxFails(j) \/ Rename(j) \/ RenameFails(j)

-----------------------------------------------------------------------------
(* The pruner.                                                             *)

pruning == <<rows, files, restarts, fills, calls>>

\* PruneOnce reads the retention window ...
PassStart ==
    /\ pass.step = "idle"
    /\ pass' = [NoPass EXCEPT !.step = "list", !.expired = old]
    /\ UNCHANGED <<pruning, late>>

\* ... lists the directory and looks at the clock, which fixes what is too old, ...
ReadDir ==
    LET there == {c \in Clips : mp4[c] # "none"} IN
    /\ pass.step = "list"
    /\ pass' = IF there = {} THEN NoPass
               ELSE [pass EXCEPT !.step = "next", !.todo = there]
    /\ UNCHANGED <<pruning, late>>

Skip(c) ==
    IF pass.todo = {c} THEN NoPass
    ELSE [pass EXCEPT !.step = "next", !.todo = @ \ {c}, !.clip = None]

\* Mutant: a lookup that failed counts as "not pinned".
M_Lookup ==
    /\ pass.step = "next"
    /\ \E c \in pass.todo, ok \in BOOLEAN :
        pass' = IF (ok => c \notin keep) /\ c \in pass.expired
                THEN [pass EXCEPT !.step = "remove", !.clip = c]
                ELSE Skip(c)
    /\ UNCHANGED <<pruning, late>>

\* ... looks the event of each file up, which may fail ...
Lookup ==
    /\ pass.step = "next"
    /\ \E c \in pass.todo, ok \in BOOLEAN :
        pass' = IF ok /\ c \notin keep /\ c \in pass.expired
                THEN [pass EXCEPT !.step = "remove", !.clip = c]
                ELSE Skip(c)
    /\ UNCHANGED <<pruning, late>>

\* ... and removes the file, which may fail: only <id>.mp4, never the temporary ones.
Remove ==
    /\ pass.step = "remove"
    /\ mp4' = [mp4 EXCEPT ![pass.clip] = "none"] \/ UNCHANGED mp4
    /\ pass' = Skip(pass.clip)
    /\ late' = late \ {pass.clip}
    /\ UNCHANGED <<rows, raw, tmp, restarts, fills, calls>>

Prune == PassStart \/ ReadDir \/ Lookup \/ Remove

-----------------------------------------------------------------------------
(* Frigate, time, the admin and restarts.                                  *)

Record(c) ==
    /\ recording' \in {[recording EXCEPT ![c] = "ready"], [recording EXCEPT ![c] = "gone"]}
    /\ recording[c] # "gone"
    /\ recording'[c] # recording[c]
    /\ UNCHANGED <<hasClip, keep, old, files, restarts, fills, calls, pruner>>

\* An event comes of age, for a pass that has not looked at the clock too.
Age(c) ==
    /\ c \notin old /\ old' = old \cup {c}
    /\ pass' = IF pass.step = "list" THEN [pass EXCEPT !.expired = @ \cup {c}] ELSE pass
    /\ UNCHANGED <<recording, hasClip, keep, files, restarts, fills, calls, late>>

\* A longer or a shorter window; the value is clamped to at least a day, so that
\* pruning is never off.
PutClipSettings ==
    /\ \E o \in SUBSET Clips : o # old /\ (o \subseteq old \/ old \subseteq o) /\ old' = o
    /\ UNCHANGED <<recording, hasClip, keep, files, restarts, fills, calls, pruner>>

\* The gateway stops at any point and starts again: the jobs are detached from
\* the requests, so that srv.Shutdown does not wait for them either.
Restart ==
    /\ restarts < MaxRestarts
    /\ restarts' = restarts + 1
    /\ flight' = [c \in Clips |-> None]
    /\ job' = [j \in Jobs |-> NoJob]
    /\ caller' = [k \in Callers |-> IF caller[k].step = "new" THEN caller[k]
                                    ELSE Over(caller[k])]
    /\ pass' = NoPass /\ late' = {}
    /\ UNCHANGED <<rows, files, out>>

-----------------------------------------------------------------------------
CallerStep(k) == Stat(k) \/ Join(k) \/ Serve(k)

Next ==
    \/ \E k \in Callers, c \in Clips :
        Request(k, c) \/ Prewarm(k, c) \/ SetEventKeep(k, c, TRUE)
    \/ \E k \in Callers : CallerStep(k) \/ Leave(k)
    \/ \E k \in Callers, c \in Clips : SetEventKeep(k, c, FALSE)
    \/ \E j \in Jobs : JobStep(j)
    \/ Prune
    \/ \E c \in Clips : Report(c) \/ Record(c) \/ Age(c)
    \/ PutClipSettings
    \/ Restart

Spec == Init /\ [][Next]_vars

\* Goroutines run, and ffmpeg and the download end: the job has five minutes.
FairSpec ==
    /\ Spec
    /\ \A k \in Callers : WF_vars(CallerStep(k))
    /\ \A j \in Jobs : WF_vars(JobStep(j))

-----------------------------------------------------------------------------
(* Properties.                                                             *)

\* The cache implements ClipCache: rename publishes a complete file, and one
\* fill at a time per clip means that no second one replaces it under a player.
Cache == INSTANCE ClipCache WITH cached <- mp4
CacheSpec == Cache!Spec

\* Nobody is served a torn file, whatever a crash or a failed fill left behind.
ServedComplete == \A k \in Callers : out[k] # "torn"

\* pruner.go: "deletes cached clips for events older than the configured
\* retention window, unless the event has been pinned": a clip that goes is not one
\* that is pinned, failed lookups or not, and pinned before the pass or during it.  One
\* pin comes too late: between the lookup of the clip and its removal.
PinnedIsKept ==
    [][\A c \in Clips : mp4[c] # "none" /\ mp4'[c] = "none" => c \notin keep \ late]_vars

\* EnsureCachedClip: a caller that does not give up gets the result of the job it
\* joined, however many have joined or left it.
EveryoneIsAnswered ==
    \A k \in Callers : caller[k].step = "wait" ~> caller[k].step # "wait"

\* client.go, ServeCachedClip: "on the first request we download the whole clip":
\* who asks for the clip of a finished event gets all of it.
ServedWhole ==
    \A k \in Callers :
        out[k] = "early" => ~ caller[k].late
=============================================================================
