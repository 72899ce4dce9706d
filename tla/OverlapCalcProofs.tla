------------------------- MODULE OverlapCalcProofs -------------------------
(***************************************************************************)
(* The overlap calculation for a day of any length, the real one of 1440   *)
(* minutes included: what one user's window does within a minute, and from *)
(* it what the answer for two users does.                                  *)
(***************************************************************************)
EXTENDS OverlapCalc, TLAPS

\* What is known of one user's schedule at a local time of the day.
LEMMA OneUser ==
  ASSUME NEW s \in Schedule, NEW now \in Minute
  PROVE  /\ Awake(s, now) => Left(s, now) \in 1 .. MinutesPerDay /\ Until(s, now) = 0
         /\ ~Awake(s, now) => Until(s, now) \in 1 .. MinutesPerDay - 1
BY OverlapAssumption
DEF OverlapAssumption, Schedule, Minute, Awake, IsAwake, Left, EffectiveEnd, Until, NextStart

\* And what becomes of it within a minute.
LEMMA OneUserOneMinute ==
  ASSUME NEW s \in Schedule, NEW now \in Minute
  PROVE  LET next == NextMinute(now) IN
         /\ next \in Minute
         /\ Awake(s, now) /\ Left(s, now) > 1 =>
              Awake(s, next) /\ Left(s, next) = Left(s, now) - 1
         /\ Awake(s, now) /\ Left(s, now) = 1 => ~Awake(s, next) \/ DayTurns(s, next)
         /\ ~Awake(s, now) /\ Until(s, now) > 1 =>
              ~Awake(s, next) /\ Until(s, next) = Until(s, now) - 1
         /\ Until(s, next) >= Until(s, now) - 1
<1> DEFINE next == NextMinute(now)
<1>1. next \in Minute
  BY OverlapAssumption DEF OverlapAssumption, Minute, NextMinute
<1>2. ASSUME Awake(s, now), Left(s, now) > 1
      PROVE  Awake(s, next) /\ Left(s, next) = Left(s, now) - 1
  BY <1>2, OverlapAssumption
  DEF OverlapAssumption, Schedule, Minute, NextMinute, Awake, IsAwake, Left, EffectiveEnd
<1>3. ASSUME ~Awake(s, now), Until(s, now) > 1
      PROVE  ~Awake(s, next) /\ Until(s, next) = Until(s, now) - 1
  BY <1>3, OverlapAssumption
  DEF OverlapAssumption, Schedule, Minute, NextMinute, Awake, IsAwake, Until, NextStart
<1>4. Until(s, next) >= Until(s, now) - 1
  BY <1>1, <1>3, OneUser, OverlapAssumption DEF OverlapAssumption, Minute
<1>5. ASSUME Awake(s, now), Left(s, now) = 1
      PROVE  ~Awake(s, next) \/ DayTurns(s, next)
  BY <1>5, OverlapAssumption
  DEF OverlapAssumption, Schedule, Minute, NextMinute, Awake, IsAwake, Left, EffectiveEnd, DayTurns
<1> QED
  BY <1>1, <1>2, <1>3, <1>4, <1>5

\* The local clocks stay within the day.
LEMMA TypeCorrect == Spec => []TypeOK
<1>1. Init => TypeOK
  BY DEF Init, TypeOK
<1>2. TypeOK /\ [Tick]_vars => TypeOK'
  BY OneUserOneMinute DEF TypeOK, Tick, vars
<1> QED
  BY <1>1, <1>2, PTL DEF Spec

\* calculate_overlap announces at least one minute and at most a day.
THEOREM AnswersLieAhead == Spec => []AnswerIsAhead
<1>1. TypeOK => AnswerIsAhead
  <2> SUFFICES ASSUME TypeOK PROVE AnswerIsAhead
    OBVIOUS
  <2>1. CASE Active
    BY <2>1, OneUser DEF TypeOK, Active, AnswerIsAhead, MinutesRemaining, Least
  <2>2. CASE ~Active
    BY <2>2, OneUser, OverlapAssumption
    DEF OverlapAssumption, TypeOK, Active, AnswerIsAhead, MinutesUntilOpen, LaterUntil, Most
  <2> QED
    BY <2>1, <2>2
<1> QED
  BY <1>1, TypeCorrect, PTL

\* What minutes_remaining becomes within a minute.
LEMMA OverlapNearsItsEnd ==
  ASSUME TypeOK, Tick, Active
  PROVE  \/ MinutesRemaining > 1 /\ Active' /\ MinutesRemaining' = MinutesRemaining - 1
         \/ MinutesRemaining = 1 /\ ~Active'
         \/ MinutesRemaining = 1 /\ (DayTurns(a, aNow)' \/ DayTurns(b, bNow)')
<1>1. a' = a /\ b' = b /\ aNow' = NextMinute(aNow) /\ bNow' = NextMinute(bNow)
  BY DEF Tick
<1>2. /\ Awake(a, aNow) /\ Left(a, aNow) \in 1 .. MinutesPerDay
      /\ Awake(b, bNow) /\ Left(b, bNow) \in 1 .. MinutesPerDay
  BY OneUser DEF TypeOK, Active
<1>3. CASE Left(a, aNow) > 1 /\ Left(b, bNow) > 1
  <2>1. /\ Awake(a, aNow') /\ Left(a, aNow') = Left(a, aNow) - 1
        /\ Awake(b, bNow') /\ Left(b, bNow') = Left(b, bNow) - 1
    BY <1>1, <1>2, <1>3, OneUserOneMinute DEF TypeOK
  <2> QED
    BY <1>1, <1>2, <1>3, <2>1, OverlapAssumption
    DEF OverlapAssumption, Active, MinutesRemaining, Least
<1>4. CASE Left(a, aNow) = 1 \/ Left(b, bNow) = 1
  <2>1. MinutesRemaining = 1
    BY <1>2, <1>4, OverlapAssumption DEF OverlapAssumption, MinutesRemaining, Least
  <2>2. \/ ~Awake(a, aNow') \/ DayTurns(a, aNow')
        \/ ~Awake(b, bNow') \/ DayTurns(b, bNow')
    BY <1>1, <1>2, <1>4, OneUserOneMinute DEF TypeOK
  <2> QED
    BY <1>1, <2>1, <2>2 DEF Active, DayTurns
<1> QED
  BY <1>2, <1>3, <1>4, OverlapAssumption DEF OverlapAssumption

\* minutes_remaining is exact, minute by minute: no overlap ends before it has
\* run out, and none goes on after it but where a window of the whole day begins
\* anew, which calculate_overlap counts to its end only.
THEOREM OverlapsLastAsSaid == Spec => LastsAsSaid
<1>1. TypeOK /\ [Tick]_vars =>
        [Active =>
           \/ MinutesRemaining > 1 /\ Active' /\ MinutesRemaining' = MinutesRemaining - 1
           \/ MinutesRemaining = 1 /\ ~Active'
           \/ MinutesRemaining = 1 /\ (DayTurns(a, aNow)' \/ DayTurns(b, bNow)')]_vars
  BY OverlapNearsItsEnd
<1> QED
  BY <1>1, TypeCorrect, PTL DEF Spec, LastsAsSaid

\* A minute brings the opening nearer by at most a minute.
LEMMA OpeningNearsByTheMinute ==
  ASSUME TypeOK, Tick, ~Active, MinutesUntilOpen # 1
  PROVE  ~Active' /\ MinutesUntilOpen' >= MinutesUntilOpen - 1
<1>1. /\ Until(a, aNow) \in 0 .. MinutesPerDay /\ Until(b, bNow) \in 0 .. MinutesPerDay
      /\ Until(a, aNow') \in 0 .. MinutesPerDay /\ Until(b, bNow') \in 0 .. MinutesPerDay
  BY OneUser, OneUserOneMinute, OverlapAssumption DEF OverlapAssumption, TypeOK, Tick
<1>2. /\ Until(a, aNow') >= Until(a, aNow) - 1
      /\ Until(b, bNow') >= Until(b, bNow) - 1
  BY OneUserOneMinute DEF TypeOK, Tick
<1>3. MinutesUntilOpen > 1
  BY OneUser, OverlapAssumption
  DEF OverlapAssumption, TypeOK, Active, MinutesUntilOpen, LaterUntil, Most
<1>4. Until(a, aNow) > 1 \/ Until(b, bNow) > 1
  BY <1>1, <1>3 DEF MinutesUntilOpen, LaterUntil, Most
<1>5. ~Awake(a, aNow') \/ ~Awake(b, bNow')
  BY <1>1, <1>4, OneUser, OneUserOneMinute, OverlapAssumption
  DEF OverlapAssumption, TypeOK, Tick
<1>6. a' = a /\ b' = b
  BY DEF Tick
<1> QED
  BY <1>1, <1>2, <1>5, <1>6, OverlapAssumption
  DEF OverlapAssumption, Active, MinutesUntilOpen, LaterUntil, Most

\* minutes_until_open never promises too late an opening.
THEOREM OverlapsOpenNoSooner == Spec => OpensNoSooner
<1>1. TypeOK /\ [Tick]_vars =>
        [~Active =>
           \/ MinutesUntilOpen = 1
           \/ ~Active' /\ MinutesUntilOpen' >= MinutesUntilOpen - 1]_vars
  BY OpeningNearsByTheMinute
<1> QED
  BY <1>1, TypeCorrect, PTL DEF Spec, OpensNoSooner

\* A minute brings one user's bedtime nearer by that minute, until it comes.
LEMMA BedtimeNears ==
  ASSUME NEW s \in Schedule, NEW now \in Minute, UntilAsleep(s, now) > 1
  PROVE  /\ Until(s, now) <= 1 => Awake(s, NextMinute(now))
         /\ Until(s, now) > 1 => /\ ~Awake(s, NextMinute(now))
                                /\ Until(s, NextMinute(now)) = Until(s, now) - 1
<1>1. /\ Awake(s, now) => Until(s, now) = 0
      /\ ~Awake(s, now) => Until(s, now) \in 1 .. MinutesPerDay - 1
  BY OneUser
<1>2. CASE Awake(s, now)
  <2>1. Left(s, now) > 1
    BY <1>2 DEF UntilAsleep
  <2> QED
    BY <1>1, <1>2, <2>1, OneUserOneMinute
<1>3. CASE ~Awake(s, now) /\ Until(s, now) > 1
  <2>1. /\ ~Awake(s, NextMinute(now))
        /\ Until(s, NextMinute(now)) = Until(s, now) - 1
    BY <1>3, OneUserOneMinute
  <2>2. Until(s, now) \in Nat
    BY <1>1, <1>3, OverlapAssumption DEF OverlapAssumption
  <2> QED
    BY <1>3, <2>1, <2>2
<1>4. CASE ~Awake(s, now) /\ Until(s, now) <= 1
  <2>1. Until(s, now) = 1
    BY <1>1, <1>4, OverlapAssumption DEF OverlapAssumption
  <2>2. NextMinute(now) = s.start
    BY <1>4, <2>1, OverlapAssumption
    DEF OverlapAssumption, Schedule, Minute, NextMinute, Until, NextStart
  <2>3. Awake(s, s.start)
    BY DEF Awake, IsAwake, Schedule, Minute
  <2> QED
    BY <1>4, <2>1, <2>2, <2>3
<1> QED
  BY <1>2, <1>3, <1>4, <1>1

LEMMA OpeningIsExact ==
  ASSUME TypeOK, Tick, ~Active, BothStayUp
  PROVE  \/ MinutesUntilOpen = 1 /\ Active'
         \/ MinutesUntilOpen > 1 /\ ~Active' /\ MinutesUntilOpen' = MinutesUntilOpen - 1
<1>1. a' = a /\ b' = b /\ aNow' = NextMinute(aNow) /\ bNow' = NextMinute(bNow)
  BY DEF Tick
<1>2. /\ Until(a, aNow) \in Nat /\ Until(b, bNow) \in Nat
      /\ Until(a, aNow') \in Nat /\ Until(b, bNow') \in Nat
      /\ UntilAsleep(a, aNow) \in Nat /\ UntilAsleep(b, bNow) \in Nat
  <2>1. ASSUME NEW s \in Schedule, NEW now \in Minute
        PROVE  Until(s, now) \in Nat /\ UntilAsleep(s, now) \in Nat
    <3>1. s.start \in Minute /\ Awake(s, s.start)
      BY DEF Schedule, Minute, Awake, IsAwake
    <3> QED
      BY <2>1, <3>1, OneUser, OverlapAssumption DEF OverlapAssumption, UntilAsleep
  <2> QED
    BY <1>1, <2>1, OneUserOneMinute DEF TypeOK
<1>3. /\ MinutesUntilOpen \in Nat /\ MinutesUntilOpen >= 1
      /\ MinutesUntilOpen = Most(Until(a, aNow), Until(b, bNow))
  BY <1>2, OneUser, OverlapAssumption
  DEF OverlapAssumption, TypeOK, Active, MinutesUntilOpen, LaterUntil, Most
<1>4. /\ Until(a, aNow) <= 1 => Awake(a, aNow')
      /\ Until(a, aNow) > 1 => ~Awake(a, aNow') /\ Until(a, aNow') = Until(a, aNow) - 1
      /\ Until(b, bNow) <= 1 => Awake(b, bNow')
      /\ Until(b, bNow) > 1 => ~Awake(b, bNow') /\ Until(b, bNow') = Until(b, bNow) - 1
  BY <1>1, <1>2, <1>3, BedtimeNears DEF TypeOK, BothStayUp, Most
<1>5. /\ Awake(a, aNow') => Until(a, aNow') = 0
      /\ Awake(b, bNow') => Until(b, bNow') = 0
  BY DEF Until
<1>6. Active' <=> Awake(a, aNow') /\ Awake(b, bNow')
  BY <1>1 DEF Active
<1>7. MinutesUntilOpen' = Most(Until(a, aNow'), Until(b, bNow'))
  BY <1>1 DEF MinutesUntilOpen, LaterUntil
<1> QED
  BY <1>2, <1>3, <1>4, <1>5, <1>6, <1>7 DEF Most

\* minutes_until_open is exact while both keep to it: the one finding about it,
\* OpensWhenSaid, has no other cause than a bedtime in between.
THEOREM OverlapsOpenAsSaid == Spec => OpensWhenSaidIfAwake
<1>1. TypeOK /\ [Tick]_vars =>
        [~Active /\ BothStayUp =>
           \/ MinutesUntilOpen = 1 /\ Active'
           \/ MinutesUntilOpen > 1 /\ ~Active' /\ MinutesUntilOpen' = MinutesUntilOpen - 1]_vars
  BY OpeningIsExact
<1> QED
  BY <1>1, TypeCorrect, PTL DEF Spec, OpensWhenSaidIfAwake
=============================================================================
