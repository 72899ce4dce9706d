---------------------------- MODULE OverlapCalc ----------------------------
(***************************************************************************)
(* jobs/overlap_calc.py: whether the awake windows of two users overlap    *)
(* now, for how long still, or in how many minutes they will.  The module  *)
(* adds the passing of time to the calculation: a minute at a time, both   *)
(* local clocks advance and the calculation is asked again.                *)
(***************************************************************************)
EXTENDS Integers

CONSTANT MinutesPerDay   \* MINUTES_PER_DAY

ASSUME OverlapAssumption == MinutesPerDay \in Nat \ {0, 1}

Minute == 0 .. MinutesPerDay - 1

Schedule == [start : Minute, end : Minute]   \* wake_start, wake_end

VARIABLES
  a, b,         \* the schedules of the two users
  aNow, bNow    \* their local clocks: the time zones are what sets them apart

vars == <<a, b, aNow, bNow>>

-----------------------------------------------------------------------------
(* The calculation.                                                        *)

\* Mutant: awake in the minute of wake_end, too.
StillAwake(now, start, end) ==
  IF start < end THEN start <= now /\ now <= end ELSE now >= start \/ now <= end

\* [start, end), around midnight when it does not end later than it starts.
IsAwake(now, start, end) ==
  IF start < end THEN start <= now /\ now < end ELSE now >= start \/ now < end

\* Mutant: whoever is awake at midnight is thought to fall asleep then.
EndAtMidnight(now, start, end) == IF start < end \/ now < start THEN end ELSE MinutesPerDay

EffectiveEnd(now, start, end) ==
  IF start < end \/ now < start THEN end ELSE end + MinutesPerDay

\* Mutant: a day too late for whoever wakes within the minute.
LaterStart(now, start) == IF start > now + 1 THEN start ELSE start + MinutesPerDay

\* Mutant: a day is a minute short for whoever wakes after midnight.
ShortDayStart(now, start) == IF start >= now THEN start ELSE start + MinutesPerDay - 1

NextStart(now, start) == IF start >= now THEN start ELSE start + MinutesPerDay

Awake(s, now) == IsAwake(now, s.start, s.end)
Until(s, now) == IF Awake(s, now) THEN 0 ELSE NextStart(now, s.start) - now
Left(s, now) == EffectiveEnd(now, s.start, s.end) - now

Least(m, n) == IF m <= n THEN m ELSE n
Most(m, n) == IF m >= n THEN m ELSE n

LaterUntil(s, sNow, t, tNow) == Most(Until(s, sNow), Until(t, tNow))

Active == Awake(a, aNow) /\ Awake(b, bNow)                 \* state "active"
MinutesRemaining == Least(Left(a, aNow), Left(b, bNow))    \* of an active one
MinutesUntilOpen == LaterUntil(a, aNow, b, bNow)           \* of an upcoming one

-----------------------------------------------------------------------------
(* Time.                                                                   *)

Init ==
  /\ a \in Schedule /\ b \in Schedule
  /\ aNow \in Minute /\ bNow \in Minute

NextMinute(now) == IF now = MinutesPerDay - 1 THEN 0 ELSE now + 1

Tick ==
  /\ aNow' = NextMinute(aNow)
  /\ bNow' = NextMinute(bNow)
  /\ UNCHANGED <<a, b>>

Spec == Init /\ [][Tick]_vars

-----------------------------------------------------------------------------
\* Schedules and clocks stay within the day (astimezone of _local_minutes).
TypeOK ==
  /\ a \in Schedule /\ b \in Schedule
  /\ aNow \in Minute /\ bNow \in Minute

\* What is said to come lies ahead and less than a day away; what is said to
\* remain is at least this minute and at most a day (calculate_overlap).
AnswerIsAhead ==
  /\ Active => MinutesRemaining \in 1 .. MinutesPerDay
  /\ ~Active => MinutesUntilOpen \in 1 .. MinutesPerDay - 1

\* A window that starts when it ends is the whole day, and here it starts anew.
DayTurns(s, now) == s.start = s.end /\ now = s.start

\* An overlap lasts as long as minutes_remaining said, and no longer: it is there
\* the next minute, with one minute less, or this was the last and it is over.
\* (calculate_overlap) Only a window of the whole day goes on past what was said.
LastsAsSaid ==
  [][Active =>
       \/ MinutesRemaining > 1 /\ Active' /\ MinutesRemaining' = MinutesRemaining - 1
       \/ MinutesRemaining = 1 /\ ~Active'
       \/ MinutesRemaining = 1 /\ (DayTurns(a, aNow)' \/ DayTurns(b, bNow)')]_vars

\* An overlap does not open sooner than minutes_until_open said: a minute
\* later the answer is at most one minute less, and only from 1 does it open.
OpensNoSooner ==
  [][~Active =>
       \/ MinutesUntilOpen = 1
       \/ ~Active' /\ MinutesUntilOpen' >= MinutesUntilOpen - 1]_vars

\* Minutes until a user falls asleep: from here when awake, else after waking.
UntilAsleep(s, now) ==
  IF Awake(s, now) THEN Left(s, now) ELSE Until(s, now) + Left(s, s.start)

BothStayUp ==
  MinutesUntilOpen < UntilAsleep(a, aNow) /\ MinutesUntilOpen < UntilAsleep(b, bNow)

\* An overlap opens exactly when minutes_until_open said if neither of the two
\* falls asleep before that (calculate_overlap), across midnight, too.
OpensWhenSaidIfAwake ==
  [][~Active /\ BothStayUp =>
       \/ MinutesUntilOpen = 1 /\ Active'
       \/ MinutesUntilOpen > 1 /\ ~Active' /\ MinutesUntilOpen' = MinutesUntilOpen - 1]_vars

\* An overlap opens as minutes_until_open said ("an overlap window is about to
\* open", jobs/overlap_notifier.py): not if the one awake now falls asleep first.
OpensWhenSaid ==
  [][~Active =>
       \/ MinutesUntilOpen = 1 /\ Active'
       \/ MinutesUntilOpen > 1 /\ ~Active' /\ MinutesUntilOpen' = MinutesUntilOpen - 1]_vars

=============================================================================
