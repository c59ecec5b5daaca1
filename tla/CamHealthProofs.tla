-------------------------- MODULE CamHealthProofs --------------------------
(***************************************************************************)
(* What CamHealth keeps for any set of cameras, debounce window and pace   *)
(* of polls.                                                               *)
(*                                                                         *)
(* NotByOnePoll and GraceAtStartup speak of the tags, which one poll       *)
(* derives from ages the polls before it have left; the invariant adds     *)
(* what bounds those ages: an age is at most the time since the poll that  *)
(* last saw the camera, and at most the monitor's uptime.                  *)
(***************************************************************************)
EXTENDS CamHealth, TLAPS

\* After a poll that saw the camera its age is the time since at most; after one
\* miss the age is a gap longer at most; and an age is never more than the uptime.
AgesBounded ==
    \A c \in Cameras : age[c] # None =>
        /\ missed[c] = 0 => age[c] <= wait
        /\ missed[c] = 1 => age[c] <= Gap + wait
        /\ uptime # None /\ age[c] <= uptime

\* The cameras are observed from the first poll on, all at once.
SeenTogether == \A c \in Cameras : age[c] = None <=> uptime = None

TagsJustified == \A c \in offline : missed[c] > 0 /\ age[c] = OfflineAfter

IInv == TypeOK /\ AgesBounded /\ SeenTogether /\ TagsJustified /\ NotByOnePoll

-----------------------------------------------------------------------------
\* An age grows by a tick, up to OfflineAfter.
LEMMA OlderBounds ==
    ASSUME NEW a \in (0 .. OfflineAfter) \cup {None}
    PROVE  /\ Older(a, 1) \in (0 .. OfflineAfter) \cup {None}
           /\ Older(a, 1) = None <=> a = None
           /\ a # None => /\ a <= Older(a, 1)
                          /\ Older(a, 1) <= a + 1
                          /\ a = OfflineAfter => Older(a, 1) = OfflineAfter
BY CamHealthAssumption DEF Older, Upto

\* An uptime that was no less than an age is no less after a tick.
LEMMA OlderMonotone ==
    ASSUME NEW a \in 0 .. OfflineAfter, NEW b \in 0 .. OfflineAfter, a <= b
    PROVE  Older(a, 1) <= Older(b, 1)
BY CamHealthAssumption DEF Older, Upto

LEMMA InitIInv == Init => IInv
BY CamHealthAssumption
DEF Init, IInv, TypeOK, AgesBounded, SeenTogether, TagsJustified, NotByOnePoll

LEMMA TickIInv == IInv /\ Tick => IInv'
<1> SUFFICES ASSUME IInv, Tick PROVE IInv'
    OBVIOUS
<1> USE CamHealthAssumption
<1>1. TypeOK'
    <2>1. age' \in [Cameras -> (0 .. OfflineAfter) \cup {None}]
        BY OlderBounds DEF IInv, TypeOK, Tick
    <2>2. uptime' \in (0 .. OfflineAfter) \cup {None}
        BY OlderBounds DEF IInv, TypeOK, Tick
    <2> QED BY <2>1, <2>2 DEF IInv, TypeOK, Tick
<1>2. AgesBounded'
    <2> SUFFICES ASSUME NEW c \in Cameras, age'[c] # None
                 PROVE  /\ missed'[c] = 0 => age'[c] <= wait'
                        /\ missed'[c] = 1 => age'[c] <= Gap + wait'
                        /\ uptime' # None /\ age'[c] <= uptime'
        BY DEF AgesBounded
    <2>1. age'[c] = Older(age[c], 1) /\ uptime' = Older(uptime, 1)
        BY DEF IInv, TypeOK, Tick
    <2>2. /\ age[c] \in 0 .. OfflineAfter /\ uptime \in 0 .. OfflineAfter
          /\ age[c] <= uptime /\ age'[c] <= age[c] + 1
          /\ age'[c] \in 0 .. OfflineAfter /\ uptime' \in 0 .. OfflineAfter
        BY <2>1, OlderBounds DEF IInv, TypeOK, AgesBounded
    <2>3. age'[c] <= uptime'
        BY <2>1, <2>2, OlderMonotone
    <2>4. wait \in Nat /\ wait' = wait + 1 /\ missed'[c] = missed[c]
        BY DEF IInv, TypeOK, Tick
    <2>5. /\ missed[c] = 0 => age[c] <= wait
          /\ missed[c] = 1 => age[c] <= Gap + wait
        BY <2>2 DEF IInv, AgesBounded
    <2> QED BY <2>2, <2>3, <2>4, <2>5
<1>3. SeenTogether'
    BY OlderBounds DEF IInv, TypeOK, SeenTogether, Tick
<1>4. TagsJustified'
    BY OlderBounds DEF IInv, TypeOK, TagsJustified, Tick
<1>5. NotByOnePoll'
    BY DEF IInv, NotByOnePoll, Tick
<1> QED BY <1>1, <1>2, <1>3, <1>4, <1>5 DEF IInv

LEMMA RecordIInv == IInv /\ Record => IInv'
<1> SUFFICES ASSUME IInv, Record PROVE IInv'
    OBVIOUS
<1> USE CamHealthAssumption
<1>1. \A c \in Cameras : /\ NewAge(c) \in 0 .. OfflineAfter
                         /\ missed[c] \in 0 .. 2
                         /\ missed'[c] = IF c \in sample THEN 0 ELSE Upto(missed[c] + 1, 2)
                         /\ age'[c] = NewAge(c)
    BY DEF IInv, TypeOK, Record, NewAge
<1>2. uptime' \in 0 .. OfflineAfter /\ wait' = 0
    BY DEF IInv, TypeOK, Record
<1>3. TypeOK'
    <2>1. age' \in [Cameras -> (0 .. OfflineAfter) \cup {None}]
        BY <1>1 DEF Record
    <2>2. missed' \in [Cameras -> 0 .. 2]
        BY <1>1 DEF Record, Upto
    <2> QED BY <1>2, <2>1, <2>2 DEF IInv, TypeOK, Record
<1>4. \A c \in Cameras : missed'[c] = 0 => NewAge(c) = 0
    BY <1>1 DEF NewAge, Upto
<1>5. \A c \in Cameras : missed'[c] = 1 => NewAge(c) <= Gap
    <2> SUFFICES ASSUME NEW c \in Cameras, missed'[c] = 1, NewAge(c) # 0
                 PROVE  NewAge(c) <= Gap
        BY <1>1
    <2>1. c \notin sample /\ age[c] # None /\ NewAge(c) = age[c]
        BY DEF NewAge
    <2>2. missed[c] = 0
        BY <1>1, <2>1 DEF Upto
    <2>3. age[c] <= wait /\ wait \in 0 .. Gap /\ age[c] \in 0 .. OfflineAfter
        BY <2>1, <2>2 DEF IInv, TypeOK, AgesBounded
    <2> QED BY <2>1, <2>3
<1>6. AgesBounded'
    <2> SUFFICES ASSUME NEW c \in Cameras
                 PROVE  /\ missed'[c] = 0 => age'[c] <= wait'
                        /\ missed'[c] = 1 => age'[c] <= Gap + wait'
                        /\ uptime' # None /\ age'[c] <= uptime'
        BY DEF AgesBounded
    <2>1. NewAge(c) <= uptime'
        BY <1>1, <1>2 DEF IInv, TypeOK, AgesBounded, Record, NewAge
    <2> QED BY <1>1, <1>2, <1>4, <1>5, <2>1
<1>7. SeenTogether'
    BY <1>1, <1>2 DEF SeenTogether
<1>8. TagsJustified'
    BY <1>1, <1>4 DEF Record, TagsJustified, Down, Upto
<1>9. NotByOnePoll'
    BY <1>1, <1>4, <1>5 DEF Record, NotByOnePoll, Down, Upto
<1> QED BY <1>3, <1>6, <1>7, <1>8, <1>9 DEF IInv

LEMMA NextIInv == IInv /\ [Next]_vars => IInv'
<1> SUFFICES ASSUME IInv, [Next]_vars PROVE IInv'
    OBVIOUS
<1> USE CamHealthAssumption DEF IInv, TypeOK, AgesBounded, SeenTogether,
                                TagsJustified, NotByOnePoll
<1>1. CASE Tick
    BY <1>1, TickIInv
<1>2. CASE Fetch
    BY <1>2 DEF Fetch
<1>3. CASE Record
    BY <1>3, RecordIInv
<1>4. CASE Restart
    BY <1>4 DEF Restart
<1>5. CASE \E c \in Cameras : Flip(c)
    BY <1>5 DEF Flip
<1>6. CASE UNCHANGED vars
    BY <1>6 DEF vars
<1> QED BY <1>1, <1>2, <1>3, <1>4, <1>5, <1>6 DEF Next

-----------------------------------------------------------------------------
\* The inductive invariant.
THEOREM Invariance == Spec => []IInv
BY InitIInv, NextIInv, PTL DEF Spec

\* The variables keep their types.
THEOREM TypeCorrect == Spec => []TypeOK
BY Invariance, PTL DEF IInv

\* poll: one failed or empty poll never tags a camera, whatever the window, as
\* long as polls come closer together than the window.
THEOREM OneMissIsNotEnough == Spec => []NotByOnePoll
BY Invariance, PTL DEF IInv

\* No camera is tagged within OfflineAfter of the start.
THEOREM FullGrace == Spec => []GraceAtStartup
<1>1. IInv => GraceAtStartup
    <2> SUFFICES ASSUME IInv, NEW c \in offline PROVE uptime = OfflineAfter
        BY DEF GraceAtStartup
    <2>1. c \in Cameras /\ age[c] = OfflineAfter /\ uptime \in (0 .. OfflineAfter) \cup {None}
        BY DEF IInv, TypeOK, TagsJustified
    <2>2. uptime # None /\ OfflineAfter <= uptime
        BY <2>1, CamHealthAssumption DEF IInv, AgesBounded
    <2> QED BY <2>1, <2>2, CamHealthAssumption
<1> QED BY <1>1, Invariance, PTL
=============================================================================
