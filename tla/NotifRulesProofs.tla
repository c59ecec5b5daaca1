-------------------------- MODULE NotifRulesProofs --------------------------
(***************************************************************************)
(* What normalized and staticAllows do, for every day length, score scale, *)
(* rule and event.                                                         *)
(***************************************************************************)
EXTENDS NotifRules, TLAPS

\* The cleaned names are names.
LEMMA CleanSetIsNames ==
    ASSUME NEW in \in SUBSET Typed
    PROVE  cleanSet(in) \in SUBSET Names
BY NotifRulesAssumption DEF cleanSet

\* Names need no cleaning.
LEMMA CleanSetKeepsNames ==
    ASSUME NEW in \in SUBSET Names
    PROVE  cleanSet(in) = in
BY NotifRulesAssumption DEF cleanSet

LEMMA ClampMinuteRange ==
    ASSUME NEW m \in Int
    PROVE  /\ clampMinute(m) \in -1 .. Day - 1
           /\ m >= 0 => clampMinute(m) \in Minutes
           /\ m \in -1 .. Day - 1 => clampMinute(m) = m
BY NotifRulesAssumption DEF clampMinute, Minutes

LEMMA ClampScoreRange ==
    ASSUME NEW s \in Int
    PROVE  /\ clampScore(s) \in 0 .. Full
           /\ s \in 0 .. Full => clampScore(s) = s
BY NotifRulesAssumption DEF clampScore

\* normalized: "bad API input can't produce a nonsensical stored rule", and the
\* quiet hours are all or nothing.
THEOREM NormalizedIsStored ==
    ASSUME NEW r \in Requested
    PROVE  normalized(r) \in Stored
<1>1. r.labels \in SUBSET Typed /\ r.zones \in SUBSET Typed
  BY DEF Requested
<1>2. /\ r.minScore \in Int /\ r.cooldown \in Int
      /\ r.start \in Int /\ r.end \in Int
  BY DEF Requested
<1> DEFINE n == normalized(r)
<1>3. n.labels \in SUBSET Names /\ n.zones \in SUBSET Names
  BY <1>1, CleanSetIsNames DEF normalized
<1>4. n.minScore \in 0 .. Full
  BY <1>2, ClampScoreRange DEF normalized
<1>5. n.cooldown \in Nat
  BY <1>2 DEF normalized
<1>6. n.start \in -1 .. Day - 1 /\ n.end \in -1 .. Day - 1
  BY <1>2, ClampMinuteRange, NotifRulesAssumption DEF normalized
<1>7. n.start = -1 <=> n.end = -1
  <2>1. CASE r.start < 0 \/ r.end < 0
    BY <2>1 DEF normalized
  <2>2. CASE ~ (r.start < 0 \/ r.end < 0)
    <3>1. r.start >= 0 /\ r.end >= 0
      BY <1>2, <2>2
    <3>2. clampMinute(r.start) \in Minutes /\ clampMinute(r.end) \in Minutes
      BY <1>2, <3>1, ClampMinuteRange
    <3>3. n.start = clampMinute(r.start) /\ n.end = clampMinute(r.end)
      BY <2>2 DEF normalized
    <3> QED
      BY <3>2, <3>3, NotifRulesAssumption DEF Minutes
  <2> QED
    BY <2>1, <2>2
<1>8. n = [labels |-> n.labels, zones |-> n.zones, minScore |-> n.minScore,
           cooldown |-> n.cooldown, start |-> n.start, end |-> n.end]
  BY DEF normalized
<1> QED
  BY <1>3, <1>4, <1>5, <1>6, <1>7, <1>8 DEF Stored

\* A stored rule that the app sends back unchanged is stored unchanged.
THEOREM NormalizedKeepsStored ==
    ASSUME NEW r \in Stored
    PROVE  normalized(r) = r
<1>1. /\ r.labels \in SUBSET Names /\ r.zones \in SUBSET Names
      /\ r.minScore \in 0 .. Full /\ r.cooldown \in Nat
      /\ r.start \in -1 .. Day - 1 /\ r.end \in -1 .. Day - 1
      /\ r.start = -1 <=> r.end = -1
  BY DEF Stored
<1>2. r = [labels |-> r.labels, zones |-> r.zones, minScore |-> r.minScore,
           cooldown |-> r.cooldown, start |-> r.start, end |-> r.end]
  BY DEF Stored
<1>3. cleanSet(r.labels) = r.labels /\ cleanSet(r.zones) = r.zones
  BY <1>1, CleanSetKeepsNames
<1>4. clampScore(r.minScore) = r.minScore
  BY <1>1, ClampScoreRange, NotifRulesAssumption
<1>5. ~ (r.cooldown < 0)
  BY <1>1
<1>6. clampMinute(r.start) = r.start /\ clampMinute(r.end) = r.end
  BY <1>1, ClampMinuteRange, NotifRulesAssumption
<1>7. r.start < 0 \/ r.end < 0 => r.start = -1 /\ r.end = -1
  BY <1>1, NotifRulesAssumption
<1> QED
  BY <1>2, <1>3, <1>4, <1>5, <1>6, <1>7 DEF normalized

\* inQuietHours: the comparison with its two cases is the window that runs
\* forward from the start, past midnight if need be, up to and not with the end.
THEOREM QuietHoursRunForward ==
    ASSUME NEW r \in Stored, NEW m \in Minutes
    PROVE  inQuietHours(r, m) <=> Quiet(r, m)
<1>1. /\ r.start \in -1 .. Day - 1 /\ r.end \in -1 .. Day - 1
      /\ r.start = -1 <=> r.end = -1
  BY DEF Stored
<1>2. m \in Int /\ 0 <= m /\ m < Day /\ Day \in Nat
  BY NotifRulesAssumption DEF Minutes
<1>3. CASE r.start = -1
  BY <1>1, <1>3 DEF inQuietHours, Quiet
<1>4. CASE r.start # -1
  <2>1. /\ r.start \in Int /\ r.end \in Int
        /\ 0 <= r.start /\ r.start < Day /\ 0 <= r.end /\ r.end < Day
    BY <1>1, <1>2, <1>4
  <2> QED
    BY <1>2, <1>4, <2>1 DEF inQuietHours, Quiet, Elapsed
<1> QED
  BY <1>3, <1>4

\* staticAllows lets through what the user chose to be told of, and no more.
THEOREM StaticAllowsTheChosen ==
    ASSUME NEW r \in Stored, NEW ev \in Events, NEW m \in Minutes
    PROVE  staticAllows(r, ev, m) <=> Chosen(r, ev, m)
<1>1. r.minScore \in 0 .. Full /\ ev.score \in 0 .. Full
  BY DEF Stored, Events
<1>2. ~ (r.minScore > 0 /\ ev.score < r.minScore) <=> ev.score >= r.minScore
  BY <1>1, NotifRulesAssumption
<1>3. r.zones \cap ev.zones # {} <=> \E z \in ev.zones : z \in r.zones
  OBVIOUS
<1> QED
  BY <1>2, <1>3, QuietHoursRunForward DEF staticAllows, Chosen

\* Quiet hours never cover the whole day, whatever the app sends: an end of
\* 1440 and one of 1439 are the same minute, and so are two equal bounds.
THEOREM QuietHoursEnd ==
    ASSUME NEW r \in Requested
    PROVE  \E m \in Minutes : ~ inQuietHours(normalized(r), m)
<1> DEFINE n == normalized(r)
<1>1. n \in Stored
  BY NormalizedIsStored
<1>2. n.start \in -1 .. Day - 1 /\ n.end \in -1 .. Day - 1
  BY <1>1 DEF Stored
<1> HIDE DEF n
<1>3. CASE n.end < 0
  <2>1. 0 \in Minutes
    BY NotifRulesAssumption DEF Minutes
  <2>2. ~ inQuietHours(n, 0)
    BY <1>2, <1>3, NotifRulesAssumption DEF inQuietHours
  <2> QED
    BY <2>1, <2>2 DEF n
<1>4. CASE n.end >= 0
  <2>1. n.end \in Minutes
    BY <1>2, <1>4, NotifRulesAssumption DEF Minutes
  <2>2. ~ inQuietHours(n, n.end)
    BY <1>2, <1>4, NotifRulesAssumption DEF inQuietHours
  <2> QED
    BY <2>1, <2>2 DEF n
<1> QED
  BY <1>2, <1>3, <1>4, NotifRulesAssumption
=============================================================================
