---------------------------- MODULE ClipsProofs ----------------------------
(***************************************************************************)
(* Proofs about module Clips, for any clips, callers, jobs and restarts:   *)
(* the cache implements ClipCache, and its safety properties hold.         *)
(*                                                                         *)
(* IInv says what the files of a clip are at each step of its job          *)
(* (Filling), for which there must be one job at most per clip (InFlight). *)
(***************************************************************************)
EXTENDS Clips, TLAPS

Complete == {"none", "early", "whole"}

RowsOK ==
    /\ recording \in [Clips -> {"growing", "ready", "gone"}]
    /\ hasClip \subseteq Clips /\ keep \subseteq Clips /\ old \subseteq Clips
    /\ restarts \in 0 .. MaxRestarts

\* What is served is complete.
FilesOK ==
    /\ mp4 \in [Clips -> Complete]
    /\ raw \in [Clips -> Files]
    /\ tmp \in [Clips -> Files]

JobsOK ==
    /\ flight \in [Clips -> Jobs \cup {None}]
    /\ job \in [Jobs -> [step : JobSteps, clip : Clips \cup {None}, got : Complete]]

CallsOK ==
    /\ caller \in [Callers -> [step : CallSteps, clip : Clips \cup {None},
                               why : {"request", "fetch"},
                               on : Jobs \cup {None}, late : BOOLEAN]]
    /\ out \in [Callers -> Complete \cup {"nothing", "error"}]
    /\ \A k \in Callers : /\ caller[k].step \notin {"new", "done"} => caller[k].clip \in Clips
                          /\ caller[k].step = "wait" <=> caller[k].on # None

\* A file about to be removed is not pinned, unless the pin came too late.
PassOK ==
    /\ pass \in [step : {"idle", "list", "next", "remove"}, todo : SUBSET Clips,
                 expired : SUBSET Clips, clip : Clips \cup {None}]
    /\ late \subseteq Clips
    /\ pass.step = "remove" => pass.clip \in Clips \ (keep \ late)

Types == RowsOK /\ FilesOK /\ JobsOK /\ CallsOK /\ PassOK

\* A job at work is the one in flight for its clip, and the other way round.
InFlight ==
    /\ \A j \in Jobs : job[j].step # "idle" =>
          job[j].clip \in Clips /\ flight[job[j].clip] = j
    /\ \A c \in Clips : flight[c] # None =>
          job[flight[c]].step # "idle" /\ job[flight[c]].clip = c

\* The files of a job that is past looking for the clip.
FillOK(s, got, rec, m, r, t) ==
    /\ s \in {"request", "copy", "remux", "encode", "rename"} => m = "none"
    /\ s \in {"copy", "remux", "encode", "rename"} =>
          got # "none" /\ (got = "whole" => rec # "growing")
    /\ s \in {"remux", "encode", "rename"} => r = got
    /\ s = "rename" => t = got

Filling ==
    \A j \in Jobs : job[j].step # "idle" =>
        LET c == job[j].clip IN
        FillOK(job[j].step, job[j].got, recording[c], mp4[c], raw[c], tmp[c])

IInv == Types /\ InFlight /\ Filling

LEMMA NoneIsApart == None \notin Clips /\ None \notin Jobs
BY ClipsAssumption

LEMMA InitIInv == Init => IInv
<1> SUFFICES ASSUME Init PROVE IInv
    OBVIOUS
<1>1. RowsOK /\ FilesOK /\ JobsOK /\ PassOK
    BY ClipsAssumption DEF Init, RowsOK, FilesOK, JobsOK, PassOK, Complete, Files,
                           JobSteps, NoJob, NoPass
<1>2. CallsOK
    BY DEF Init, CallsOK, CallSteps, NoCall, Complete
<1>3. InFlight /\ Filling
    BY DEF Init, InFlight, Filling, NoJob
<1> QED BY <1>1, <1>2, <1>3 DEF IInv, Types

\* The invariant is at least as strong as the properties.
LEMMA IInvIsTypeOK == IInv => TypeOK /\ ServedComplete
<1> SUFFICES ASSUME IInv PROVE TypeOK /\ ServedComplete
    OBVIOUS
<1> USE DEF IInv, Types
<1>1. \A j \in Jobs : job[j].step # "idle" <=> \E c \in Clips : flight[c] = j
    BY NoneIsApart DEF InFlight, JobsOK
<1>2. Complete \subseteq Files
    BY DEF Complete, Files
<1>3. mp4 \in [Clips -> Files] /\ raw \in [Clips -> Files] /\ tmp \in [Clips -> Files]
    BY <1>2 DEF FilesOK
<1>4. out \in [Callers -> Files \cup {"nothing", "error"}]
    BY <1>2 DEF CallsOK
<1>5. ServedComplete
    BY DEF CallsOK, ServedComplete, Complete
<1> QED BY <1>1, <1>3, <1>4, <1>5 DEF TypeOK, RowsOK, JobsOK, CallsOK, PassOK, Complete

-----------------------------------------------------------------------------
(* The jobs.                                                               *)

\* The clips of two jobs at work are two.
LEMMA JobsApart ==
    ASSUME JobsOK, InFlight, NEW i \in Jobs, NEW j \in Jobs, i # j,
           job[i].step # "idle", job[j].step # "idle"
    PROVE  job[i].clip # job[j].clip
BY DEF InFlight

\* The job moves on.
LEMMA JobGoesOn ==
    ASSUME JobsOK, InFlight, NEW j \in Jobs, NEW s \in JobSteps \ {"idle"}, NEW g \in Complete,
           job[j].step # "idle", UNCHANGED flight,
           job' = [job EXCEPT ![j].step = s, ![j].got = g]
    PROVE  /\ JobsOK' /\ InFlight'
           /\ job'[j].step = s /\ job'[j].got = g /\ job'[j].clip = job[j].clip
           /\ \A i \in Jobs \ {j} : job'[i] = job[i]
<1>1. /\ job'[j] = [job[j] EXCEPT !.step = s, !.got = g]
      /\ \A i \in Jobs \ {j} : job'[i] = job[i]
    BY DEF JobsOK
<1>2. job[j] \in [step : JobSteps, clip : Clips \cup {None}, got : Complete]
    BY DEF JobsOK
<1>3. /\ job'[j].step = s /\ job'[j].got = g /\ job'[j].clip = job[j].clip
      /\ job'[j] \in [step : JobSteps, clip : Clips \cup {None}, got : Complete]
    <2>1. job[j] = [step |-> job[j].step, clip |-> job[j].clip, got |-> job[j].got]
        BY <1>2
    <2>2. job'[j] = [step |-> s, clip |-> job[j].clip, got |-> g]
        BY <1>1, <2>1
    <2>3. s \in JobSteps /\ g \in Complete /\ job[j].clip \in Clips \cup {None}
        BY <1>2
    <2>4. [step |-> s, clip |-> job[j].clip, got |-> g]
             \in [step : JobSteps, clip : Clips \cup {None}, got : Complete]
        BY <2>3
    <2>5. job'[j].step = s /\ job'[j].got = g /\ job'[j].clip = job[j].clip
        BY <2>2
    <2> QED BY <2>2, <2>4, <2>5
<1>4. JobsOK'
    BY <1>1, <1>3 DEF JobsOK
<1>5. InFlight'
    BY <1>1, <1>3 DEF InFlight, JobsOK
<1> QED BY <1>1, <1>3, <1>4, <1>5

\* The job is over: its clip is free, and whoever waited goes on or gives up.
LEMMA SettleDoes ==
    ASSUME JobsOK, CallsOK, InFlight, NEW j \in Jobs, NEW ok \in BOOLEAN, Settle(j, ok)
    PROVE  /\ JobsOK' /\ InFlight' /\ CallsOK'
           /\ job'[j].step = "idle"
           /\ \A i \in Jobs \ {j} : job'[i] = job[i]
<1>1. /\ job'[j] = NoJob /\ \A i \in Jobs \ {j} : job'[i] = job[i]
      /\ job' \in [Jobs -> [step : JobSteps, clip : Clips \cup {None}, got : Complete]]
    BY DEF Settle, JobsOK, NoJob, JobSteps, Complete
<1>2. flight' = [c \in Clips |-> IF flight[c] = j THEN None ELSE flight[c]]
    BY DEF Settle
<1>3. JobsOK'
    BY <1>1, <1>2 DEF JobsOK
<1>4. InFlight'
    BY <1>1, <1>2, NoneIsApart DEF InFlight, NoJob, JobsOK
<1>5. CallsOK'
    <2>1. ASSUME NEW k \in Callers
          PROVE  /\ caller'[k] \in [step : CallSteps, clip : Clips \cup {None},
                                    why : {"request", "fetch"},
                                    on : Jobs \cup {None}, late : BOOLEAN]
                 /\ caller'[k].step \notin {"new", "done"} => caller'[k].clip \in Clips
                 /\ caller'[k].step = "wait" <=> caller'[k].on # None
        <3>1. caller[k] \in [step : CallSteps, clip : Clips \cup {None},
                             why : {"request", "fetch"},
                             on : Jobs \cup {None}, late : BOOLEAN]
            BY DEF CallsOK
        <3>2. CASE caller[k].on # j
            <4>1. caller'[k] = caller[k]
                BY <3>2 DEF Settle
            <4> QED BY <3>1, <4>1 DEF CallsOK
        <3>3. CASE caller[k].on = j
            <4>1. caller'[k] = IF ok THEN Found(caller[k]) ELSE Over(caller[k])
                BY <3>3 DEF Settle
            <4>2. caller[k].clip \in Clips
                BY <3>3, NoneIsApart DEF CallsOK
            <4> QED BY <3>1, <4>1, <4>2 DEF Found, Over, NoCall, CallSteps
        <3> QED BY <3>2, <3>3
    <2>2. out' \in [Callers -> Complete \cup {"nothing", "error"}]
        BY DEF Settle, CallsOK
    <2>3. caller' = [k \in Callers |-> caller'[k]]
        BY DEF Settle
    <2> QED BY <2>1, <2>2, <2>3 DEF CallsOK
<1> QED BY <1>1, <1>3, <1>4, <1>5 DEF NoJob

\* A job touches the files of its own clip only.
OnlyItsFiles(j) ==
    \A c \in Clips \ {job[j].clip} :
        mp4'[c] = mp4[c] /\ raw'[c] = raw[c] /\ tmp'[c] = tmp[c]

LEMMA OthersFill ==
    ASSUME JobsOK, InFlight, Filling, UNCHANGED recording, NEW j \in Jobs,
           job[j].step # "idle", \A i \in Jobs \ {j} : job'[i] = job[i], OnlyItsFiles(j),
           \/ job'[j].step = "idle"
           \/ LET c == job[j].clip IN
              /\ job'[j].clip = c
              /\ FillOK(job'[j].step, job'[j].got, recording[c], mp4'[c], raw'[c], tmp'[c])
    PROVE  Filling'
<1> SUFFICES ASSUME NEW i \in Jobs, job'[i].step # "idle"
             PROVE  FillOK(job'[i].step, job'[i].got, recording'[job'[i].clip],
                           mp4'[job'[i].clip], raw'[job'[i].clip], tmp'[job'[i].clip])
    BY DEF Filling
<1>1. CASE i = j
    BY <1>1
<1>2. CASE i # j
    <2>1. job'[i] = job[i] /\ job[i].step # "idle"
        BY <1>2
    <2>2. job[i].clip \in Clips /\ job[i].clip # job[j].clip
        BY <1>2, <2>1, JobsApart DEF InFlight
    <2>3. FillOK(job[i].step, job[i].got, recording[job[i].clip],
                 mp4[job[i].clip], raw[job[i].clip], tmp[job[i].clip])
        BY <2>1 DEF Filling
    <2> QED BY <2>1, <2>2, <2>3 DEF OnlyItsFiles
<1> QED BY <1>1, <1>2

\* What a job does to the cache: nothing, or it puts a complete clip where there
\* was none.
Fills(c) ==
    \/ UNCHANGED mp4
    \/ /\ mp4[c] = "none"
       /\ \E version \in {"early", "whole"} :
            /\ version = "whole" => recording[c] # "growing"
            /\ mp4' = [mp4 EXCEPT ![c] = version]

LEMMA JobStepDoes ==
    ASSUME IInv, NEW j \in Jobs, JobStep(j)
    PROVE  /\ IInv' /\ UNCHANGED <<rows, late>>
           /\ job[j].clip \in Clips /\ Fills(job[j].clip)
<1> USE DEF IInv, Types
<1> DEFINE c == job[j].clip
<1>1. UNCHANGED <<rows, restarts, pruner>>
    BY DEF JobStep, Recheck, Download, DownloadFails, Copied, Remux, Encoded,
           RemuxFails, Rename, RenameFails
<1>2. job[j].step # "idle"
    BY DEF JobStep, Recheck, Download, DownloadFails, Copied, Remux, Encoded,
           RemuxFails, Rename, RenameFails, At
<1>3. c \in Clips /\ flight[c] = j
    BY <1>2 DEF InFlight
<1>4. RowsOK' /\ PassOK' /\ UNCHANGED <<recording, late>>
    BY <1>1 DEF RowsOK, PassOK, rows, pruner
<1>5. FillOK(job[j].step, job[j].got, recording[c], mp4[c], raw[c], tmp[c])
    BY <1>2 DEF Filling
<1>6. job[j] \in [step : JobSteps, clip : Clips \cup {None}, got : Complete]
    BY DEF JobsOK
<1> SUFFICES FilesOK' /\ JobsOK' /\ CallsOK' /\ InFlight' /\ Filling' /\ Fills(c)
    BY <1>1, <1>3, <1>4
<1>a. UNCHANGED calls => CallsOK'
    BY DEF calls, CallsOK
<1>b. UNCHANGED files => FilesOK' /\ OnlyItsFiles(j) /\ Fills(c)
    BY DEF files, FilesOK, OnlyItsFiles, Fills
<1>c. ASSUME NEW s \in JobSteps \ {"idle"}, Go(j, s)
      PROVE  job' = [job EXCEPT ![j].step = s, ![j].got = job[j].got]
    BY <1>6, <1>c DEF Go, JobsOK
\* Steps that end the job without touching the cache.
<1>d. ASSUME NEW ok \in BOOLEAN, Settle(j, ok), FilesOK', OnlyItsFiles(j), Fills(c)
      PROVE  FilesOK' /\ JobsOK' /\ CallsOK' /\ InFlight' /\ Filling' /\ Fills(c)
    <2>1. /\ JobsOK' /\ InFlight' /\ CallsOK' /\ job'[j].step = "idle"
          /\ \A i \in Jobs \ {j} : job'[i] = job[i]
        BY <1>d, SettleDoes
    <2> QED BY <1>2, <1>4, <1>d, <2>1, OthersFill
\* Steps after which it goes on.
<1>e. ASSUME NEW s \in JobSteps \ {"idle"}, NEW g \in Complete,
             job' = [job EXCEPT ![j].step = s, ![j].got = g],
             UNCHANGED <<flight, calls>>, FilesOK', OnlyItsFiles(j), Fills(c),
             FillOK(s, g, recording[c], mp4'[c], raw'[c], tmp'[c])
      PROVE  FilesOK' /\ JobsOK' /\ CallsOK' /\ InFlight' /\ Filling' /\ Fills(c)
    <2>1. /\ JobsOK' /\ InFlight'
          /\ job'[j].step = s /\ job'[j].got = g /\ job'[j].clip = job[j].clip
          /\ \A i \in Jobs \ {j} : job'[i] = job[i]
        BY <1>2, <1>e, JobGoesOn
    <2> QED BY <1>2, <1>4, <1>a, <1>e, <2>1, OthersFill
<1> HIDE DEF c
<1>f. job[j].got \in Complete
    BY <1>6
<1>7. CASE Recheck(j)
    <2>1. UNCHANGED files
        BY <1>7 DEF Recheck
    <2>2. CASE Settle(j, TRUE)
        BY <1>b, <1>d, <2>1, <2>2
    <2>3. CASE mp4[c] = "none" /\ Go(j, "request") /\ UNCHANGED <<flight, calls>>
        <3>1. "request" \in JobSteps \ {"idle"}
            BY DEF JobSteps
        <3>2. FillOK("request", job[j].got, recording[c], mp4'[c], raw'[c], tmp'[c])
            BY <2>1, <2>3 DEF FillOK, files
        <3> QED BY <1>b, <1>c, <1>e, <1>f, <2>1, <2>3, <3>1, <3>2
    <2> QED BY <1>7, <2>2, <2>3 DEF Recheck, c
<1>8. CASE Download(j)
    <2> DEFINE g == IF recording[c] = "ready" THEN "whole" ELSE "early"
    <2>1. /\ job[j].step = "request" /\ raw' = [raw EXCEPT ![c] = "torn"]
          /\ job' = [job EXCEPT ![j].step = "copy", ![j].got = g]
          /\ UNCHANGED <<mp4, tmp, flight, calls>>
        BY <1>8 DEF Download, At, c
    <2>2. g \in Complete /\ "copy" \in JobSteps \ {"idle"}
        BY DEF Complete, JobSteps
    <2>3. g # "none" /\ (g = "whole" => recording[c] # "growing")
        OBVIOUS
    <2> HIDE DEF g
    <2>4. FilesOK' /\ OnlyItsFiles(j) /\ Fills(c)
        BY <1>3, <2>1 DEF FilesOK, OnlyItsFiles, Fills, Files, c
    <2>5. FillOK("copy", g, recording[c], mp4'[c], raw'[c], tmp'[c])
        BY <1>5, <2>1, <2>3 DEF FillOK
    <2> QED BY <1>e, <2>1, <2>2, <2>4, <2>5
<1>9. CASE DownloadFails(j)
    <2>1. /\ raw' = raw \/ raw' = [raw EXCEPT ![c] = "none"]
          /\ Settle(j, FALSE) /\ UNCHANGED <<mp4, tmp>>
        BY <1>9 DEF DownloadFails, c
    <2>2. FilesOK' /\ OnlyItsFiles(j) /\ Fills(c)
        BY <1>3, <2>1 DEF FilesOK, OnlyItsFiles, Fills, Files, c
    <2> QED BY <1>d, <2>1, <2>2
<1>10. CASE Copied(j)
    <2>1. /\ job[j].step = "copy" /\ raw' = [raw EXCEPT ![c] = job[j].got]
          /\ Go(j, "remux") /\ UNCHANGED <<mp4, tmp, flight, calls>>
        BY <1>10 DEF Copied, At, c
    <2>2. "remux" \in JobSteps \ {"idle"}
        BY DEF JobSteps
    <2>3. FilesOK' /\ OnlyItsFiles(j) /\ Fills(c) /\ raw'[c] = job[j].got
        BY <1>3, <1>f, <2>1 DEF FilesOK, OnlyItsFiles, Fills, Files, Complete, c
    <2>4. FillOK("remux", job[j].got, recording[c], mp4'[c], raw'[c], tmp'[c])
        BY <1>5, <2>1, <2>3 DEF FillOK
    <2> QED BY <1>c, <1>e, <1>f, <2>1, <2>2, <2>3, <2>4
<1>11. CASE Remux(j)
    <2>1. /\ job[j].step = "remux" /\ tmp' = [tmp EXCEPT ![c] = "torn"]
          /\ Go(j, "encode") /\ UNCHANGED <<mp4, raw, flight, calls>>
        BY <1>11 DEF Remux, At, c
    <2>2. "encode" \in JobSteps \ {"idle"}
        BY DEF JobSteps
    <2>3. FilesOK' /\ OnlyItsFiles(j) /\ Fills(c)
        BY <1>3, <2>1 DEF FilesOK, OnlyItsFiles, Fills, Files, c
    <2>4. FillOK("encode", job[j].got, recording[c], mp4'[c], raw'[c], tmp'[c])
        BY <1>5, <2>1 DEF FillOK
    <2> QED BY <1>c, <1>e, <1>f, <2>1, <2>2, <2>3, <2>4
<1>12. CASE Encoded(j)
    <2>1. /\ job[j].step = "encode" /\ tmp' = [tmp EXCEPT ![c] = raw[c]]
          /\ Go(j, "rename") /\ UNCHANGED <<mp4, raw, flight, calls>>
        BY <1>12 DEF Encoded, At, c
    <2>2. "rename" \in JobSteps \ {"idle"}
        BY DEF JobSteps
    <2>3. FilesOK' /\ OnlyItsFiles(j) /\ Fills(c) /\ tmp'[c] = raw[c]
        BY <1>3, <2>1 DEF FilesOK, OnlyItsFiles, Fills, c
    <2>4. FillOK("rename", job[j].got, recording[c], mp4'[c], raw'[c], tmp'[c])
        BY <1>5, <2>1, <2>3 DEF FillOK
    <2> QED BY <1>c, <1>e, <1>f, <2>1, <2>2, <2>3, <2>4
<1>13. CASE RemuxFails(j)
    <2>1. /\ tmp' = [tmp EXCEPT ![c] = "none"] /\ raw' = [raw EXCEPT ![c] = "none"]
          /\ Settle(j, FALSE) /\ UNCHANGED mp4
        BY <1>13 DEF RemuxFails, c
    <2>2. FilesOK' /\ OnlyItsFiles(j) /\ Fills(c)
        BY <1>3, <2>1 DEF FilesOK, OnlyItsFiles, Fills, Files, c
    <2> QED BY <1>d, <2>1, <2>2
<1>14. CASE Rename(j)
    <2>1. /\ job[j].step = "rename" /\ mp4' = [mp4 EXCEPT ![c] = tmp[c]]
          /\ tmp' = [tmp EXCEPT ![c] = "none"] /\ raw' = [raw EXCEPT ![c] = "none"]
          /\ Settle(j, TRUE)
        BY <1>14 DEF Rename, At, c
    <2>2. /\ mp4[c] = "none" /\ tmp[c] \in {"early", "whole"}
          /\ tmp[c] = "whole" => recording[c] # "growing"
        BY <1>5, <1>f, <2>1 DEF FillOK, Complete
    <2>3. FilesOK'
        BY <1>3, <2>1, <2>2 DEF FilesOK, Files, Complete, c
    <2>4. OnlyItsFiles(j)
        BY <1>3, <2>1 DEF FilesOK, OnlyItsFiles, c
    <2>5. Fills(c)
        BY <2>1, <2>2 DEF Fills
    <2> QED BY <1>d, <2>1, <2>3, <2>4, <2>5
<1>15. CASE RenameFails(j)
    <2>1. /\ raw' = [raw EXCEPT ![c] = "none"] /\ UNCHANGED <<mp4, tmp>>
          /\ Settle(j, FALSE)
        BY <1>15 DEF RenameFails, c
    <2>2. FilesOK' /\ OnlyItsFiles(j) /\ Fills(c)
        BY <1>3, <2>1 DEF FilesOK, OnlyItsFiles, Fills, Files, c
    <2> QED BY <1>d, <2>1, <2>2
<1> QED BY <1>7, <1>8, <1>9, <1>10, <1>11, <1>12, <1>13, <1>14, <1>15 DEF JobStep

-----------------------------------------------------------------------------
(* The callers.                                                            *)

CallRecords == [step : CallSteps, clip : Clips \cup {None}, why : {"request", "fetch"},
                on : Jobs \cup {None}, late : BOOLEAN]

CallOK(r) ==
    /\ r \in CallRecords
    /\ r.step \notin {"new", "done"} => r.clip \in Clips
    /\ r.step = "wait" <=> r.on # None

LEMMA CallerGoesOn ==
    ASSUME CallsOK, NEW k \in Callers, NEW r, CallOK(r), caller' = [caller EXCEPT ![k] = r],
           \/ UNCHANGED out
           \/ \E o \in Complete \cup {"error"} : out' = [out EXCEPT ![k] = o]
    PROVE  CallsOK'
<1>1. caller' \in [Callers -> CallRecords]
    BY DEF CallsOK, CallOK, CallRecords
<1>2. out' \in [Callers -> Complete \cup {"nothing", "error"}]
    BY DEF CallsOK
<1>3. caller'[k] = r /\ \A l \in Callers \ {k} : caller'[l] = caller[l]
    BY DEF CallsOK
<1>4. \A l \in Callers : /\ caller'[l].step \notin {"new", "done"} => caller'[l].clip \in Clips
                         /\ caller'[l].step = "wait" <=> caller'[l].on # None
    BY <1>3 DEF CallsOK, CallOK
<1> QED BY <1>1, <1>2, <1>4 DEF CallsOK, CallRecords

\* The states a call passes through.
LEMMA FoundIsOK ==
    ASSUME NEW call \in CallRecords, call.clip \in Clips
    PROVE  CallOK(Found(call))
<1>1. CASE call.why = "request"
    <2>1. Found(call) = [step |-> "open", clip |-> call.clip, why |-> call.why,
                         on |-> None, late |-> call.late]
        BY <1>1 DEF Found, CallRecords
    <2> QED BY <2>1 DEF CallOK, CallRecords, CallSteps
<1>2. CASE call.why # "request"
    BY <1>2 DEF Found, Over, NoCall, CallOK, CallRecords, CallSteps
<1> QED BY <1>1, <1>2

LEMMA OverIsOK ==
    ASSUME NEW call \in CallRecords
    PROVE  CallOK(Over(call))
BY DEF Over, NoCall, CallOK, CallRecords, CallSteps

\* Steps that leave the fills and files alone keep what is said of them.
LEMMA FillsStay ==
    ASSUME IInv, UNCHANGED <<recording, files, fills>>
    PROVE  FilesOK' /\ JobsOK' /\ InFlight' /\ Filling'
<1>1. UNCHANGED <<recording, mp4, raw, tmp, flight, job>>
    BY DEF files, fills
<1> QED BY <1>1 DEF IInv, Types, FilesOK, JobsOK, InFlight, Filling

LEMMA CallDoes ==
    ASSUME IInv, NEW k \in Callers, NEW c \in Clips, NEW why \in {"request", "fetch"},
           Call(k, c, why)
    PROVE  /\ CallsOK' /\ FilesOK' /\ JobsOK' /\ InFlight' /\ Filling'
           /\ UNCHANGED <<recording, old, restarts, mp4>>
<1> DEFINE r == [step |-> "stat", clip |-> c, why |-> why, on |-> None,
                 late |-> recording[c] # "growing"]
<1>1. caller' = [caller EXCEPT ![k] = r] /\ UNCHANGED out
    BY DEF Call
<1>2. CallOK(r)
    BY DEF CallOK, CallRecords, CallSteps
<1>3. CallsOK'
    BY <1>1, <1>2, CallerGoesOn DEF IInv, Types
<1>4. UNCHANGED <<recording, old, files, restarts, fills>>
    BY DEF Call
<1> QED BY <1>3, <1>4, FillsStay DEF files

LEMMA StatDoes ==
    ASSUME IInv, NEW k \in Callers, Stat(k)
    PROVE  IInv' /\ UNCHANGED <<recording, mp4, late>>
<1> USE DEF IInv, Types
<1>1. /\ UNCHANGED <<rows, files, restarts, fills, out, pruner>>
      /\ caller[k].step = "stat"
    BY DEF Stat
<1>2. caller[k] \in CallRecords /\ caller[k].clip \in Clips
    BY <1>1 DEF CallsOK, CallRecords
<1> DEFINE call == caller[k]
           r == IF mp4[call.clip] # "none" THEN Found(call) ELSE [call EXCEPT !.step = "join"]
<1>3. caller' = [caller EXCEPT ![k] = r]
    BY DEF Stat
<1>4. CallOK(r)
    <2>1. CallOK(Found(call))
        BY <1>2, FoundIsOK
    <2>2. CallOK([call EXCEPT !.step = "join"])
        <3>1. [call EXCEPT !.step = "join"] = [step |-> "join", clip |-> call.clip,
                why |-> call.why, on |-> call.on, late |-> call.late]
            BY <1>2 DEF CallRecords
        <3>2. call.on = None
            BY <1>1 DEF CallsOK
        <3> QED BY <1>2, <3>1, <3>2 DEF CallOK, CallRecords, CallSteps
    <2> QED BY <2>1, <2>2
<1> HIDE DEF r
<1>5. CallsOK'
    BY <1>1, <1>3, <1>4, CallerGoesOn
<1>6. RowsOK' /\ PassOK' /\ UNCHANGED <<recording, mp4, late>>
    BY <1>1 DEF RowsOK, PassOK, rows, files, pruner
<1> QED BY <1>1, <1>5, <1>6, FillsStay

\* Settling for what there is: a caller leaves, or is served what the file holds.
LEMMA LeaveDoes ==
    ASSUME IInv, NEW k \in Callers, Leave(k) \/ Serve(k)
    PROVE  IInv' /\ UNCHANGED <<recording, mp4, late>>
<1> USE DEF IInv, Types
<1>1. /\ UNCHANGED <<rows, files, restarts, fills, pruner>>
      /\ caller[k].step \in {"wait", "open"}
      /\ caller' = [caller EXCEPT ![k] = Over(caller[k])]
      /\ out' = [out EXCEPT ![k] = "error"] \/ out' = [out EXCEPT ![k] = mp4[caller[k].clip]]
    BY DEF Leave, Serve
<1>2. caller[k] \in CallRecords /\ caller[k].clip \in Clips
    BY <1>1 DEF CallsOK, CallRecords
<1>3. mp4[caller[k].clip] \in Complete
    BY <1>2 DEF FilesOK
<1>4. CallsOK'
    <2>1. CallOK(Over(caller[k]))
        BY <1>2, OverIsOK
    <2>2. \E o \in Complete \cup {"error"} : out' = [out EXCEPT ![k] = o]
        BY <1>1, <1>3
    <2> QED BY <1>1, <2>1, <2>2, CallerGoesOn
<1>5. RowsOK' /\ PassOK' /\ UNCHANGED <<recording, mp4, late>>
    BY <1>1 DEF RowsOK, PassOK, rows, files, pruner
<1> QED BY <1>1, <1>4, <1>5, FillsStay

\* A call joins the job in flight, or starts one where there is none.
LEMMA JoinDoes ==
    ASSUME IInv, NEW k \in Callers, Join(k)
    PROVE  IInv' /\ UNCHANGED <<recording, mp4, late>>
<1> USE DEF IInv, Types
<1> DEFINE c == caller[k].clip
<1>1. /\ UNCHANGED <<rows, files, restarts, out, pruner>>
      /\ caller[k].step = "join"
    BY DEF Join
<1>2. caller[k] \in CallRecords /\ c \in Clips
    BY <1>1 DEF CallsOK, CallRecords
<1>3. RowsOK' /\ PassOK' /\ FilesOK' /\ UNCHANGED <<recording, mp4, raw, tmp, late, out>>
    BY <1>1 DEF RowsOK, PassOK, FilesOK, rows, files, pruner
<1>4. ASSUME NEW j \in Jobs, Come(k, "wait", j)
      PROVE  CallsOK'
    <2> DEFINE r == [caller[k] EXCEPT !.step = "wait", !.on = j]
    <2>1. /\ caller'[k] = r /\ \A l \in Callers \ {k} : caller'[l] = caller[l]
          /\ caller' = [l \in Callers |-> caller'[l]]
        BY <1>4 DEF Come, CallsOK
    <2>2. CallOK(r)
        <3>1. r.step = "wait" /\ r.clip = c /\ r.on = j
            BY <1>2 DEF CallRecords
        <3>2. r \in CallRecords
            BY <1>2 DEF CallRecords, CallSteps
        <3> QED BY <1>2, <3>1, <3>2, NoneIsApart DEF CallOK
    <2> HIDE DEF r
    <2>3. caller' = [caller EXCEPT ![k] = r]
        <3>1. [caller EXCEPT ![k] = r] = [l \in Callers |-> IF l = k THEN r ELSE caller[l]]
            BY DEF CallsOK
        <3> QED BY <2>1, <3>1
    <2> QED BY <1>3, <2>2, <2>3, CallerGoesOn
<1> HIDE DEF c
<1>5. CASE flight[c] # None /\ Come(k, "wait", flight[c]) /\ UNCHANGED fills
    <2>1. flight[c] \in Jobs
        BY <1>2, <1>5 DEF JobsOK
    <2>2. CallsOK'
        BY <1>4, <1>5, <2>1
    <2> QED BY <1>1, <1>3, <1>5, <2>2, FillsStay
<1>6. CASE /\ flight[c] = None
           /\ \E j \in Idle :
                /\ job' = [job EXCEPT ![j] = [NoJob EXCEPT !.step = "recheck", !.clip = c]]
                /\ flight' = [flight EXCEPT ![c] = j]
                /\ Come(k, "wait", j)
    <2>1. PICK j \in Idle :
            /\ job' = [job EXCEPT ![j] = [NoJob EXCEPT !.step = "recheck", !.clip = c]]
            /\ flight' = [flight EXCEPT ![c] = j]
            /\ Come(k, "wait", j)
        BY <1>6
    <2>2. j \in Jobs /\ job[j].step = "idle"
        <3> DEFINE idle == {i \in Jobs : job[i].step = "idle"}
        <3>1. idle # {} /\ j = CHOOSE i \in idle : TRUE
            BY DEF Idle
        <3>2. j \in idle
            BY <3>1, Zenon
        <3> QED BY <3>2
    <2> DEFINE n == [NoJob EXCEPT !.step = "recheck", !.clip = c]
    <2>4. n \in [step : JobSteps, clip : Clips \cup {None}, got : Complete]
        BY <1>2 DEF NoJob, JobSteps, Complete
    <2>5. n.step = "recheck" /\ n.clip = c
        BY DEF NoJob
    <2> HIDE DEF n
    <2>6. job' = [job EXCEPT ![j] = n]
        BY <2>1 DEF n
    <2>7. job'[j] = n /\ \A i \in Jobs \ {j} : job'[i] = job[i]
        BY <2>2, <2>6 DEF JobsOK
    <2>8. flight'[c] = j /\ \A b \in Clips \ {c} : flight'[b] = flight[b]
        BY <1>2, <2>1 DEF JobsOK
    <2>9. JobsOK'
        BY <1>2, <2>1, <2>2, <2>4, <2>6 DEF JobsOK
    <2>10. InFlight'
        <3>1. ASSUME NEW i \in Jobs, job'[i].step # "idle"
              PROVE  job'[i].clip \in Clips /\ flight'[job'[i].clip] = i
            <4>1. CASE i = j
                BY <1>2, <2>5, <2>7, <2>8, <4>1
            <4>2. CASE i # j
                <5>1. job'[i] = job[i] /\ job[i].clip \in Clips /\ flight[job[i].clip] = i
                    BY <2>7, <3>1, <4>2 DEF InFlight
                <5>2. job[i].clip # c
                    BY <1>6, <5>1, NoneIsApart
                <5> QED BY <2>8, <5>1, <5>2
            <4> QED BY <4>1, <4>2
        <3>2. ASSUME NEW b \in Clips, flight'[b] # None
              PROVE  job'[flight'[b]].step # "idle" /\ job'[flight'[b]].clip = b
            <4>1. CASE b = c
                BY <2>5, <2>7, <2>8, <4>1
            <4>2. CASE b # c
                <5>1. flight'[b] = flight[b] /\ flight[b] \in Jobs
                    BY <2>8, <3>2, <4>2 DEF JobsOK
                <5>2. job[flight[b]].step # "idle" /\ job[flight[b]].clip = b
                    BY <3>2, <5>1 DEF InFlight
                <5>3. flight[b] # j
                    BY <2>2, <5>2
                <5> QED BY <2>7, <5>1, <5>2, <5>3
            <4> QED BY <4>1, <4>2
        <3> QED BY <3>1, <3>2 DEF InFlight
    <2>11. Filling'
        <3>1. FillOK("recheck", n.got, recording[c], mp4[c], raw[c], tmp[c])
            BY DEF FillOK
        <3> QED BY <1>3, <2>5, <2>7, <3>1 DEF Filling
    <2>12. CallsOK'
        BY <1>4, <2>1, <2>2
    <2> QED BY <1>3, <2>9, <2>10, <2>11, <2>12
<1> QED BY <1>5, <1>6 DEF Join, c

\* People ask, keep and stop keeping; the end of an event prewarms its clip.
LEMMA AskDoes ==
    ASSUME IInv, NEW k \in Callers, NEW c \in Clips,
           \/ Request(k, c) \/ Prewarm(k, c)
           \/ SetEventKeep(k, c, TRUE) \/ SetEventKeep(k, c, FALSE)
    PROVE  IInv' /\ UNCHANGED <<recording, mp4>>
<1> USE DEF IInv, Types
<1>1. ASSUME NEW why \in {"request", "fetch"}, Call(k, c, why),
             hasClip' \subseteq Clips, UNCHANGED pass,
             \/ UNCHANGED <<keep, late>>
             \/ /\ keep' = keep \cup {c}
                /\ late' = IF pass.clip = c THEN late \cup {c} ELSE late
      PROVE  IInv' /\ UNCHANGED <<recording, mp4>>
    <2>1. /\ CallsOK' /\ FilesOK' /\ JobsOK' /\ InFlight' /\ Filling'
          /\ UNCHANGED <<recording, old, restarts, mp4>>
        BY <1>1, CallDoes
    <2>2. RowsOK'
        BY <1>1, <2>1 DEF RowsOK
    <2>3. PassOK'
        BY <1>1 DEF PassOK
    <2> QED BY <2>1, <2>2, <2>3
<1>2. CASE Request(k, c)
    BY <1>1, <1>2 DEF Request, RowsOK, pruner
<1>3. CASE Prewarm(k, c)
    BY <1>1, <1>3 DEF Prewarm, RowsOK, pruner
<1>4. CASE SetEventKeep(k, c, TRUE)
    BY <1>1, <1>4 DEF SetEventKeep, RowsOK
<1>5. CASE SetEventKeep(k, c, FALSE)
    <2>1. /\ keep' = keep \ {c} /\ late' = late \ {c}
          /\ UNCHANGED <<recording, hasClip, old, files, restarts, fills, calls, pass>>
        BY <1>5 DEF SetEventKeep
    <2>2. RowsOK' /\ PassOK' /\ CallsOK' /\ UNCHANGED mp4
        BY <2>1 DEF RowsOK, PassOK, CallsOK, calls, files
    <2> QED BY <2>1, <2>2, FillsStay
<1> QED BY <1>2, <1>3, <1>4, <1>5

-----------------------------------------------------------------------------
(* The pruner, Frigate, the admin and restarts.                            *)

Passes == [step : {"idle", "list", "next", "remove"}, todo : SUBSET Clips,
           expired : SUBSET Clips, clip : Clips \cup {None}]

LEMMA SkipDoes ==
    ASSUME pass \in Passes, NEW c
    PROVE  Skip(c) \in Passes /\ Skip(c).step # "remove"
<1>1. CASE pass.todo = {c}
    BY <1>1 DEF Skip, NoPass, Passes
<1>2. CASE pass.todo # {c}
    BY <1>2 DEF Skip, Passes
<1> QED BY <1>1, <1>2

\* What the pruner takes from the cache: a clip not pinned, or pinned too late.
Takes(c) ==
    /\ UNCHANGED recording
    /\ c \notin keep \ late
    /\ mp4' = [mp4 EXCEPT ![c] = "none"]

LEMMA PruneDoes ==
    ASSUME IInv, Prune
    PROVE  IInv' /\ (UNCHANGED <<recording, mp4>> \/ \E c \in Clips : Takes(c))
<1> USE DEF IInv, Types
<1>0. pass \in Passes
    BY DEF PassOK, Passes
<1>1. ASSUME UNCHANGED <<pruning, late>>, pass' \in Passes,
             pass'.step = "remove" => pass'.clip \in Clips \ (keep \ late)
      PROVE  IInv' /\ UNCHANGED <<recording, mp4>>
    <2>1. UNCHANGED <<rows, files, restarts, fills, calls, recording, mp4, keep>>
        BY <1>1 DEF pruning, rows, files
    <2>2. RowsOK' /\ CallsOK' /\ PassOK'
        BY <1>1, <2>1 DEF RowsOK, CallsOK, PassOK, Passes, rows, calls
    <2> QED BY <2>1, <2>2, FillsStay
<1>2. CASE PassStart
    <2>1. pass' = [NoPass EXCEPT !.step = "list", !.expired = old]
          /\ UNCHANGED <<pruning, late>>
        BY <1>2 DEF PassStart
    <2>2. pass' \in Passes /\ pass'.step = "list"
        BY <2>1 DEF NoPass, Passes, RowsOK
    <2> QED BY <1>1, <2>1, <2>2
<1>3. CASE ReadDir
    <2> DEFINE there == {c \in Clips : mp4[c] # "none"}
    <2>1. pass' = NoPass \/ pass' = [pass EXCEPT !.step = "next", !.todo = there]
        BY <1>3 DEF ReadDir
    <2> HIDE DEF there
    <2>2. there \in SUBSET Clips
        BY DEF there
    <2>3. NoPass \in Passes /\ NoPass.step # "remove"
        BY DEF NoPass, Passes
    <2>4. /\ [pass EXCEPT !.step = "next", !.todo = there] \in Passes
          /\ [pass EXCEPT !.step = "next", !.todo = there].step # "remove"
        BY <1>0, <2>2 DEF Passes
    <2>5. pass' \in Passes /\ pass'.step # "remove"
        BY <2>1, <2>3, <2>4
    <2>6. UNCHANGED <<pruning, late>>
        BY <1>3 DEF ReadDir
    <2> QED BY <1>1, <2>5, <2>6 DEF PassOK
<1>4. CASE Lookup
    <2>1. PICK c \in pass.todo, ok \in BOOLEAN :
            pass' = IF ok /\ c \notin keep /\ c \in pass.expired
                    THEN [pass EXCEPT !.step = "remove", !.clip = c]
                    ELSE Skip(c)
        BY <1>4 DEF Lookup
    <2>2. UNCHANGED <<pruning, late>>
        BY <1>4 DEF Lookup
    <2>3. c \in Clips
        BY <1>0 DEF Passes
    <2>4. CASE c \notin keep /\ pass' = [pass EXCEPT !.step = "remove", !.clip = c]
        <3>1. pass' \in Passes /\ pass'.clip = c
            BY <1>0, <2>3, <2>4 DEF Passes
        <3> QED BY <1>1, <2>2, <2>3, <2>4, <3>1 DEF PassOK
    <2>5. CASE pass' = Skip(c)
        <3>1. pass' \in Passes /\ pass'.step # "remove"
            BY <1>0, <2>5, SkipDoes
        <3> QED BY <1>1, <2>2, <3>1 DEF PassOK
    <2> QED BY <2>1, <2>4, <2>5
<1>5. CASE Remove
    <2> DEFINE c == pass.clip
    <2>1. /\ pass.step = "remove" /\ (mp4' = [mp4 EXCEPT ![c] = "none"] \/ UNCHANGED mp4)
          /\ pass' = Skip(c) /\ late' \subseteq late
          /\ UNCHANGED <<rows, raw, tmp, restarts, fills, calls>>
        BY <1>5 DEF Remove
    <2>2. c \in Clips \ (keep \ late)
        BY <2>1 DEF PassOK
    <2> HIDE DEF c
    <2>3. UNCHANGED <<recording, hasClip, keep, old, flight, job, caller, out>>
        BY <2>1 DEF rows, fills, calls
    <2>4. /\ mp4' \in [Clips -> Complete]
          /\ \A b \in Clips : mp4'[b] = mp4[b] \/ mp4'[b] = "none"
        BY <2>1, <2>2 DEF FilesOK, Complete
    <2>5. RowsOK' /\ FilesOK' /\ JobsOK' /\ CallsOK' /\ InFlight'
        BY <2>1, <2>3, <2>4 DEF RowsOK, FilesOK, JobsOK, CallsOK, InFlight
    <2>6. PassOK'
        <3>1. pass' \in Passes /\ pass'.step # "remove"
            BY <1>0, <2>1, SkipDoes
        <3> QED BY <2>1, <2>3, <3>1 DEF PassOK, Passes
    <2>7. Filling'
        <3>1. ASSUME NEW j \in Jobs, job[j].step # "idle"
              PROVE  FillOK(job[j].step, job[j].got, recording[job[j].clip],
                            mp4'[job[j].clip], raw[job[j].clip], tmp[job[j].clip])
            <4>1. job[j].clip \in Clips
                BY <3>1 DEF InFlight
            <4>2. FillOK(job[j].step, job[j].got, recording[job[j].clip],
                         mp4[job[j].clip], raw[job[j].clip], tmp[job[j].clip])
                BY <3>1 DEF Filling
            <4> QED BY <2>4, <4>1, <4>2 DEF FillOK
        <3> QED BY <2>1, <2>3, <3>1 DEF Filling
    <2>8. Takes(c) \/ UNCHANGED <<recording, mp4>>
        BY <2>1, <2>2, <2>3 DEF Takes
    <2> QED BY <2>2, <2>5, <2>6, <2>7, <2>8
<1> QED BY <1>2, <1>3, <1>4, <1>5 DEF Prune

\* A recording only goes forward, so that a whole one stays whole.
LEMMA RecordDoes ==
    ASSUME IInv, NEW c \in Clips, Record(c)
    PROVE  IInv' /\ UNCHANGED mp4
<1> USE DEF IInv, Types
<1>1. /\ UNCHANGED <<hasClip, keep, old, mp4, raw, tmp, restarts, flight, job, caller, out,
                     pass, late>>
      /\ recording' \in {[recording EXCEPT ![c] = "ready"], [recording EXCEPT ![c] = "gone"]}
    BY DEF Record, files, fills, calls, pruner
<1>2. /\ recording' \in [Clips -> {"growing", "ready", "gone"}]
      /\ \A b \in Clips : recording[b] # "growing" => recording'[b] # "growing"
    BY <1>1 DEF RowsOK
<1>3. RowsOK' /\ FilesOK' /\ JobsOK' /\ CallsOK' /\ PassOK' /\ InFlight'
    BY <1>1, <1>2 DEF RowsOK, FilesOK, JobsOK, CallsOK, PassOK, InFlight
<1>4. Filling'
    <2>1. ASSUME NEW j \in Jobs, job[j].step # "idle"
          PROVE  FillOK(job[j].step, job[j].got, recording'[job[j].clip],
                        mp4[job[j].clip], raw[job[j].clip], tmp[job[j].clip])
        <3>1. job[j].clip \in Clips
            BY <2>1 DEF InFlight
        <3>2. FillOK(job[j].step, job[j].got, recording[job[j].clip],
                     mp4[job[j].clip], raw[job[j].clip], tmp[job[j].clip])
            BY <2>1 DEF Filling
        <3> QED BY <1>2, <3>1, <3>2 DEF FillOK
    <2> QED BY <1>1, <2>1 DEF Filling
<1> QED BY <1>1, <1>3, <1>4

LEMMA TimeDoes ==
    ASSUME IInv, PutClipSettings \/ \E c \in Clips : Report(c) \/ Age(c)
    PROVE  IInv' /\ UNCHANGED <<recording, mp4>>
<1> USE DEF IInv, Types
<1>1. /\ UNCHANGED <<recording, keep, files, restarts, fills, calls, late>>
      /\ hasClip' \subseteq Clips /\ old' \subseteq Clips
    BY DEF PutClipSettings, Report, Age, RowsOK, pruner
<1>2. PassOK'
    <2>1. CASE UNCHANGED pass
        BY <1>1, <2>1 DEF PassOK
    <2>2. ASSUME NEW c \in Clips, pass.step = "list",
                 pass' = [pass EXCEPT !.expired = @ \cup {c}]
          PROVE  PassOK'
        BY <1>1, <2>2 DEF PassOK
    <2> QED BY <2>1, <2>2 DEF PutClipSettings, Report, Age, pruner
<1>3. RowsOK' /\ CallsOK' /\ UNCHANGED mp4
    BY <1>1 DEF RowsOK, CallsOK, calls, files
<1> QED BY <1>1, <1>2, <1>3, FillsStay

\* After a restart the files are what they were, and nothing is under way.
LEMMA RestartDoes ==
    ASSUME IInv, Restart
    PROVE  IInv' /\ UNCHANGED <<recording, mp4>>
<1> USE DEF IInv, Types
<1>1. UNCHANGED <<recording, hasClip, keep, old, mp4, raw, tmp, out>>
    BY DEF Restart, rows, files
<1>2. RowsOK' /\ FilesOK'
    BY <1>1, ClipsAssumption DEF Restart, RowsOK, FilesOK
<1>3. JobsOK' /\ InFlight' /\ Filling'
    BY DEF Restart, JobsOK, InFlight, Filling, NoJob, JobSteps, Complete
<1>4. PassOK'
    BY <1>1 DEF Restart, PassOK, NoPass
<1>5. CallsOK'
    <2>1. ASSUME NEW k \in Callers
          PROVE  CallOK(caller'[k])
        <3>1. caller[k] \in CallRecords /\ CallOK(caller[k])
            BY DEF CallsOK, CallOK, CallRecords
        <3>2. CallOK(Over(caller[k]))
            BY <3>1, OverIsOK
        <3> QED BY <3>1, <3>2 DEF Restart
    <2>2. caller' = [k \in Callers |-> caller'[k]]
        BY DEF Restart
    <2> QED BY <1>1, <2>1, <2>2 DEF CallsOK, CallOK, CallRecords
<1> QED BY <1>1, <1>2, <1>3, <1>4, <1>5

\* What any step does to the recordings and the cache.
CacheStep ==
    \/ UNCHANGED <<recording, mp4>>
    \/ \E c \in Clips : UNCHANGED <<recording, late>> /\ Fills(c)
    \/ \E c \in Clips : Takes(c)
    \/ \E c \in Clips : Record(c) /\ UNCHANGED mp4

LEMMA NextDoes ==
    ASSUME IInv, Next
    PROVE  IInv' /\ CacheStep
<1>1. ASSUME NEW k \in Callers, NEW c \in Clips,
             \/ Request(k, c) \/ Prewarm(k, c)
             \/ SetEventKeep(k, c, TRUE) \/ SetEventKeep(k, c, FALSE)
      PROVE  IInv' /\ CacheStep
    BY <1>1, AskDoes DEF CacheStep
<1>2. ASSUME NEW k \in Callers, CallerStep(k) \/ Leave(k)
      PROVE  IInv' /\ CacheStep
    BY <1>2, StatDoes, JoinDoes, LeaveDoes DEF CallerStep, CacheStep
<1>3. ASSUME NEW j \in Jobs, JobStep(j)
      PROVE  IInv' /\ CacheStep
    BY <1>3, JobStepDoes DEF CacheStep, rows
<1>4. CASE Prune
    BY <1>4, PruneDoes DEF CacheStep
<1>5. ASSUME NEW c \in Clips, Record(c)
      PROVE  IInv' /\ CacheStep
    BY <1>5, RecordDoes DEF CacheStep
<1>6. CASE PutClipSettings \/ \E c \in Clips : Report(c) \/ Age(c)
    BY <1>6, TimeDoes DEF CacheStep
<1>7. CASE Restart
    BY <1>7, RestartDoes DEF CacheStep
<1> QED BY <1>1, <1>2, <1>3, <1>4, <1>5, <1>6, <1>7 DEF Next

\* IInv is inductive.
THEOREM Invariance == Spec => []IInv
<1>1. Init => IInv
    BY InitIInv
<1>2. IInv /\ [Next]_vars => IInv'
    <2>1. IInv /\ Next => IInv'
        BY NextDoes
    <2>2. IInv /\ UNCHANGED vars => IInv'
        <3> SUFFICES ASSUME IInv, UNCHANGED vars PROVE IInv'
            OBVIOUS
        <3>1. UNCHANGED <<recording, hasClip, keep, old, restarts, files, fills, caller, out,
                          pass, late>>
            BY DEF vars, rows, calls, pruner
        <3>2. RowsOK' /\ CallsOK' /\ PassOK'
            BY <3>1 DEF IInv, Types, RowsOK, CallsOK, PassOK
        <3> QED BY <3>1, <3>2, FillsStay DEF IInv, Types
    <2> QED BY <2>1, <2>2
<1> QED BY <1>1, <1>2, PTL DEF Spec

-----------------------------------------------------------------------------
(* The results.                                                            *)

\* Rows, files, jobs and callers have their types, and a job is in flight for its
\* clip exactly as long as it is at work.
THEOREM TypeCorrect == Spec => []TypeOK
<1>1. IInv => TypeOK
    BY IInvIsTypeOK
<1> QED BY <1>1, Invariance, PTL

\* http.ServeFile on the cached clip: nobody is served a torn file, whatever a
\* crash, a failed fill or the pruner left behind.
THEOREM ServedIsComplete == Spec => []ServedComplete
<1>1. IInv => ServedComplete
    BY IInvIsTypeOK
<1> QED BY <1>1, Invariance, PTL

\* A step takes a clip away only if it is not pinned, or was pinned too late.
LEMMA TakenIsNotPinned ==
    ASSUME IInv, CacheStep, NEW c \in Clips, mp4[c] # "none", mp4'[c] = "none"
    PROVE  c \notin keep \ late
<1>1. mp4 \in [Clips -> Complete]
    BY DEF IInv, Types, FilesOK
<1>2. ASSUME NEW b \in Clips, Fills(b)
      PROVE  FALSE
    BY <1>1, <1>2 DEF Fills
<1>3. ASSUME NEW b \in Clips, Takes(b)
      PROVE  c = b
    BY <1>1, <1>3 DEF Takes
<1> QED BY <1>2, <1>3 DEF CacheStep, Takes

\* PruneOnce: a pinned event keeps its clip, unless it was pinned between the lookup
\* and the removal of the file.
THEOREM PinnedStays == Spec => PinnedIsKept
<1> DEFINE Kept == \A c \in Clips : mp4[c] # "none" /\ mp4'[c] = "none" => c \notin keep \ late
<1>1. IInv /\ [Next]_vars => [Kept]_vars
    BY NextDoes, TakenIsNotPinned
<1> QED BY <1>1, Invariance, PTL DEF Spec, PinnedIsKept

\* EnsureCachedClip, with the pruner, the restarts and all who call it, implements
\* the abstract cache: a clip is absent or complete, appears in one step, and is
\* never replaced while it is there.
THEOREM ImplementsClipCache == Spec => CacheSpec
<1>1. Init => Cache!Init
    BY DEF Init, Cache!Init
<1>2. IInv /\ [Next]_vars => [Cache!Next]_(Cache!vars)
    <2> SUFFICES ASSUME IInv, [Next]_vars
                 PROVE  Cache!Next \/ UNCHANGED <<recording, mp4>>
        BY DEF Cache!vars
    <2>1. CASE Next
        <3>1. mp4 \in [Clips -> Complete] /\ CacheStep
            BY <2>1, NextDoes DEF IInv, Types, FilesOK
        <3>2. ASSUME NEW c \in Clips, UNCHANGED recording, Fills(c)
              PROVE  Cache!Fill(c) \/ UNCHANGED <<recording, mp4>>
            BY <3>2 DEF Fills, Cache!Fill
        <3>3. ASSUME NEW c \in Clips, Takes(c)
              PROVE  Cache!Drop(c) \/ UNCHANGED <<recording, mp4>>
            BY <3>1, <3>3 DEF Takes, Cache!Drop
        <3>4. ASSUME NEW c \in Clips, Record(c), UNCHANGED mp4
              PROVE  Cache!Progress(c)
            BY <3>4 DEF Record, Cache!Progress
        <3> QED BY <3>1, <3>2, <3>3, <3>4 DEF CacheStep, Cache!Next
    <2>2. CASE UNCHANGED vars
        BY <2>2 DEF vars, rows, files
    <2> QED BY <2>1, <2>2
<1> QED BY <1>1, <1>2, Invariance, PTL DEF Spec, CacheSpec, Cache!Spec
=============================================================================
