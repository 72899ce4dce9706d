----------------------- MODULE OverlapNotifierProofs -----------------------
(***************************************************************************)
(* The notifier for a day, a dedup window and a notice of any length.      *)
(***************************************************************************)
EXTENDS OverlapNotifier, OverlapCalcProofs

\* While no failed tick is on record, the stamp is not older than the last push
\* delivered; a tick that has come to push has found the relationship unstamped.
ToldWithinStamp ==
  /\ job.at \in Loop => told >= since
  /\ job.at \in {"members", "optOuts"} => told = DedupWindow
  /\ job.at \in {"push", "stamp"} => told = DedupWindow \/ told = Least(job.age, DedupWindow)

\* A tick goes past `continue` only when the window opens soon.
SoonOrOut == job.at \in {"optOuts", "push", "stamp"} => job.soon

\* The tick under way that found the window about to open.
UnderWay == job.at \in Busy /\ job.soon /\ job.age = looked

\* What a look that still counts has left behind: a stamp, a tick about to set
\* it, or a window that was further away than the notice and still is.
LookStands ==
  looked < NoticeMinutes =>
    /\ rel = "whole"
    /\ job.at \in Busy /\ job.soon => UnderWay
    /\ \/ since <= looked
       \/ UnderWay
       \/ ~Active /\ MinutesUntilOpen > NoticeMinutes - looked

NotifierInv == NotifierTypeOK /\ ToldWithinStamp /\ SoonOrOut /\ LookStands

-----------------------------------------------------------------------------
LEMMA LeastOf ==
  ASSUME NEW m \in Nat, NEW n \in Nat
  PROVE  /\ Least(m, n) \in 0 .. n
         /\ Least(m, n) <= m
         /\ Least(Least(m, n) + 1, n) = Least(m + 1, n)
BY DEF Least

\* minutes_until_open is a number, which is all the notifier asks of it.
LEMMA UntilOpenIsANumber == TypeOK => MinutesUntilOpen \in Int
<1> SUFFICES ASSUME TypeOK PROVE MinutesUntilOpen \in Int
  OBVIOUS
<1> QED
  BY OneUser, OverlapAssumption
  DEF OverlapAssumption, TypeOK, MinutesUntilOpen, LaterUntil, Most

\* Of the calculation nothing changes while the clocks stand still.
LEMMA ClocksStandStill ==
  ASSUME UNCHANGED vars
  PROVE  TypeOK' = TypeOK /\ Active' = Active /\ MinutesUntilOpen' = MinutesUntilOpen
BY DEF vars, TypeOK, Active, MinutesUntilOpen

\* The notifier starts with nobody told and nothing looked at.
LEMMA NotifierStarts == NotifierInit => NotifierInv
BY NotifierAssumption
DEF NotifierAssumption, NotifierInit, NotifierInv, NotifierTypeOK, ToldWithinStamp, SoonOrOut,
    LookStands, UnderWay, Init, TypeOK, Waiting, Life, Loop, Busy, Users

LEMMA SelectKeeps ==
  ASSUME NotifierInv, Select PROVE NotifierInv'
<1> USE NotifierAssumption DEF NotifierAssumption
<1> DEFINE selected == rel \in {"whole", "unready"} /\ Unstamped
<1>1. /\ job.at = "due" /\ told >= since
      /\ NotifierTypeOK /\ LookStands
  BY DEF NotifierInv, Select, ToldWithinStamp, Loop
<1>2. /\ UNCHANGED vars /\ rel' = rel /\ since' = since /\ told' = told
      /\ TypeOK' /\ Active' = Active /\ MinutesUntilOpen' = MinutesUntilOpen
  BY <1>1, ClocksStandStill DEF Select, NotifierTypeOK
<1>3. MinutesUntilOpen \in Int /\ Soon \in BOOLEAN
  BY <1>1, UntilOpenIsANumber DEF NotifierTypeOK, Soon
<1>4. CASE selected
  <2>1. /\ job' = [at |-> "members", soon |-> Soon, age |-> 0, to |-> {}]
        /\ looked' = IF rel = "whole" /\ ~Active THEN 0 ELSE looked
    BY <1>4 DEF Select, Waiting
  <2>2. since = DedupWindow /\ told = DedupWindow
    BY <1>1, <1>4 DEF NotifierTypeOK, Unstamped
  <2>3. NotifierTypeOK'
    BY <1>1, <1>2, <1>3, <2>1 DEF NotifierTypeOK, Loop, Busy
  <2>4. LookStands'
    <3>1. CASE rel = "whole" /\ ~Active
      <4>1. looked' = 0 /\ rel' = "whole" /\ job'.at \in Busy /\ job'.age = 0
        BY <1>2, <2>1, <3>1 DEF Busy
      <4>2. job'.soon \/ MinutesUntilOpen' > NoticeMinutes - 0
        <5>1. job'.soon = Soon
          BY <2>1
        <5>2. Soon \/ MinutesUntilOpen > NoticeMinutes
          BY <1>3, <3>1 DEF Soon
        <5> QED
          BY <1>2, <1>3, <5>1, <5>2
      <4> QED
        BY <4>1, <4>2, <1>2, <3>1 DEF LookStands, UnderWay
    <3>2. CASE ~(rel = "whole" /\ ~Active)
      <4>1. looked >= NoticeMinutes
        BY <1>1, <2>2, <3>2 DEF LookStands, UnderWay, NotifierTypeOK, Busy
      <4> QED
        BY <2>1, <3>2, <4>1, <1>1 DEF LookStands, NotifierTypeOK
    <3> QED
      BY <3>1, <3>2
  <2> QED
    BY <1>2, <2>1, <2>2, <2>3, <2>4 DEF NotifierInv, ToldWithinStamp, SoonOrOut, Loop
<1>5. CASE ~selected
  <2>1. /\ job' = [at |-> "asleep", soon |-> FALSE, age |-> 0, to |-> {}]
        /\ looked' = looked
    BY <1>5 DEF Select, Waiting
  <2>2. NotifierTypeOK'
    BY <1>1, <1>2, <2>1 DEF NotifierTypeOK, Loop, Busy
  <2>3. LookStands'
    BY <1>1, <1>2, <2>1 DEF LookStands, UnderWay, Busy
  <2> QED
    BY <1>1, <1>2, <2>1, <2>2, <2>3 DEF NotifierInv, ToldWithinStamp, SoonOrOut, Loop
<1> QED
  BY <1>4, <1>5

LEMMA LoadMembersKeeps ==
  ASSUME NotifierInv, LoadMembers PROVE NotifierInv'
<1> USE NotifierAssumption DEF NotifierAssumption
<1>1. /\ job.at = "members" /\ told = DedupWindow
      /\ NotifierTypeOK /\ LookStands
  BY DEF NotifierInv, LoadMembers, ToldWithinStamp
<1>2. /\ UNCHANGED vars /\ UNCHANGED <<rel, since, told, looked>>
      /\ TypeOK' /\ Active' = Active /\ MinutesUntilOpen' = MinutesUntilOpen
  BY <1>1, ClocksStandStill DEF LoadMembers, NotifierTypeOK
<1>3. CASE rel \in {"whole", "paused"} /\ job.soon
  <2>1. job' = [job EXCEPT !.at = "optOuts"]
    BY <1>3 DEF LoadMembers
  <2>2. job'.at = "optOuts" /\ job'.soon /\ job'.age = job.age /\ job'.to = job.to
    BY <1>1, <1>3, <2>1 DEF NotifierTypeOK
  <2>3. NotifierTypeOK'
    BY <1>1, <1>2, <2>1, <2>2 DEF NotifierTypeOK, Loop, Busy
  <2>4. LookStands'
    BY <1>1, <1>2, <1>3, <2>2 DEF LookStands, UnderWay, Busy
  <2> QED
    BY <1>1, <1>2, <2>2, <2>3, <2>4 DEF NotifierInv, ToldWithinStamp, SoonOrOut, Loop
<1>4. CASE ~(rel \in {"whole", "paused"} /\ job.soon)
  <2>1. job' = [at |-> "asleep", soon |-> FALSE, age |-> 0, to |-> {}]
    BY <1>4 DEF LoadMembers, Waiting
  <2>2. NotifierTypeOK'
    BY <1>1, <1>2, <2>1 DEF NotifierTypeOK, Loop, Busy
  <2>3. LookStands'
    BY <1>1, <1>2, <1>4, <2>1 DEF LookStands, UnderWay, Busy
  <2> QED
    BY <1>1, <1>2, <2>1, <2>2, <2>3 DEF NotifierInv, NotifierTypeOK, ToldWithinStamp, SoonOrOut, Loop
<1> QED
  BY <1>3, <1>4

\* The steps of a tick that only move it on, among the pushes.
LEMMA MovingOnKeeps ==
  ASSUME NotifierInv,
         job.at \in {"optOuts", "push"}, job'.at \in {"push", "stamp"},
         job' \in [at : Loop \cup Busy, soon : BOOLEAN, age : 0 .. MaxTick, to : SUBSET Users],
         job'.soon = job.soon, job'.age = job.age, job'.at = "push" <=> job'.to # {},
         told' = told \/ told' = Least(job.age, DedupWindow),
         UNCHANGED <<vars, rel, since, looked>>
  PROVE  NotifierInv'
<1> USE NotifierAssumption DEF NotifierAssumption
<1>1. NotifierTypeOK /\ LookStands /\ ToldWithinStamp /\ job.soon
  BY DEF NotifierInv, SoonOrOut
<1>2. TypeOK' /\ Active' = Active /\ MinutesUntilOpen' = MinutesUntilOpen
  BY <1>1, ClocksStandStill DEF NotifierTypeOK
<1>3. Least(job.age, DedupWindow) \in 0 .. DedupWindow
  <2>1. job \in [at : Loop \cup Busy, soon : BOOLEAN, age : 0 .. MaxTick, to : SUBSET Users]
    BY <1>1 DEF NotifierTypeOK
  <2>2. job.age \in 0 .. MaxTick
    BY <2>1
  <2>3. job.age \in Nat /\ DedupWindow \in Nat
    BY <2>2
  <2> QED
    BY <2>3, LeastOf
<1>4. NotifierTypeOK'
  BY <1>1, <1>2, <1>3 DEF NotifierTypeOK, Loop
<1>5. ToldWithinStamp'
  BY <1>1 DEF ToldWithinStamp, Loop
<1>6. LookStands'
  BY <1>1, <1>2 DEF LookStands, UnderWay, Busy
<1> QED
  BY <1>1, <1>4, <1>5, <1>6 DEF NotifierInv, SoonOrOut

LEMMA LoadOptOutsKeeps ==
  ASSUME NotifierInv, LoadOptOuts PROVE NotifierInv'
<1>1. PICK to \in SUBSET Users :
        job' = [job EXCEPT !.at = IF to = {} THEN "stamp" ELSE "push", !.to = to]
  BY DEF LoadOptOuts
<1>2. job \in [at : Loop \cup Busy, soon : BOOLEAN, age : 0 .. MaxTick, to : SUBSET Users]
  BY DEF NotifierInv, NotifierTypeOK
<1>3. /\ job'.at = (IF to = {} THEN "stamp" ELSE "push") /\ job'.to = to
      /\ job'.soon = job.soon /\ job'.age = job.age
      /\ job' \in [at : Loop \cup Busy, soon : BOOLEAN, age : 0 .. MaxTick, to : SUBSET Users]
  BY <1>1, <1>2 DEF Busy
<1> QED
  BY <1>3, MovingOnKeeps DEF LoadOptOuts

LEMMA PushKeeps ==
  ASSUME NotifierInv, NEW u \in Users, Deliver(u) \/ Lose(u) PROVE NotifierInv'
<1>1. /\ job' = [job EXCEPT !.at = IF job.to = {u} THEN "stamp" ELSE "push", !.to = job.to \ {u}]
      /\ job.at = "push" /\ u \in job.to /\ UNCHANGED <<vars, rel, since, looked>>
      /\ told' = told \/ told' = Least(job.age, DedupWindow)
  BY DEF Deliver, Lose, PushedTo
<1>2. job \in [at : Loop \cup Busy, soon : BOOLEAN, age : 0 .. MaxTick, to : SUBSET Users]
  BY DEF NotifierInv, NotifierTypeOK
<1>3. /\ job'.at = (IF job.to = {u} THEN "stamp" ELSE "push") /\ job'.to = job.to \ {u}
      /\ job'.soon = job.soon /\ job'.age = job.age
      /\ job' \in [at : Loop \cup Busy, soon : BOOLEAN, age : 0 .. MaxTick, to : SUBSET Users]
  BY <1>1, <1>2 DEF Busy
<1>4. job.to = {u} <=> job.to \ {u} = {}
  BY <1>1
<1> QED
  BY <1>1, <1>3, <1>4, MovingOnKeeps

LEMMA StampKeeps ==
  ASSUME NotifierInv, Stamp PROVE NotifierInv'
<1> USE NotifierAssumption DEF NotifierAssumption
<1>1. /\ job.at = "stamp" /\ job.soon /\ job.age \in Nat
      /\ told = DedupWindow \/ told = Least(job.age, DedupWindow)
      /\ NotifierTypeOK /\ LookStands
  BY DEF NotifierInv, Stamp, NotifierTypeOK, ToldWithinStamp, SoonOrOut
<1>2. /\ UNCHANGED vars /\ UNCHANGED <<rel, looked>>
      /\ job' = [at |-> "asleep", soon |-> FALSE, age |-> 0, to |-> {}]
      /\ TypeOK' /\ Active' = Active /\ MinutesUntilOpen' = MinutesUntilOpen
  BY <1>1, ClocksStandStill DEF Stamp, NotifierTypeOK, Waiting
<1>3. Least(job.age, DedupWindow) \in 0 .. DedupWindow /\ Least(job.age, DedupWindow) <= job.age
  BY <1>1, LeastOf
<1>4. /\ since' \in 0 .. DedupWindow /\ told' \in 0 .. DedupWindow /\ told' >= since'
      /\ rel # "gone" => since' <= job.age
  BY <1>1, <1>3 DEF Stamp, NotifierTypeOK
<1>5. NotifierTypeOK'
  BY <1>1, <1>2, <1>4 DEF NotifierTypeOK, Loop, Busy
<1>6. LookStands'
  BY <1>1, <1>2, <1>4 DEF LookStands, UnderWay, Busy
<1> QED
  BY <1>2, <1>4, <1>5, <1>6 DEF NotifierInv, ToldWithinStamp, SoonOrOut, Loop

LEMMA InterruptKeeps ==
  ASSUME NotifierInv, NEW next \in Loop, Interrupt(next) PROVE NotifierInv'
<1> USE NotifierAssumption DEF NotifierAssumption
<1>1. NotifierTypeOK /\ LookStands /\ ToldWithinStamp
  BY DEF NotifierInv
<1>2. /\ UNCHANGED vars /\ UNCHANGED <<rel, since>>
      /\ job' = [at |-> next, soon |-> FALSE, age |-> 0, to |-> {}]
      /\ TypeOK' /\ Active' = Active /\ MinutesUntilOpen' = MinutesUntilOpen
  BY <1>1, ClocksStandStill DEF Interrupt, NotifierTypeOK, Waiting
<1>3. /\ \/ told' = DedupWindow /\ looked' = NoticeMinutes
         \/ job.at \in Loop /\ told' = told /\ looked' = looked
  BY <1>1 DEF Interrupt, NotifierTypeOK
<1>4. NotifierTypeOK'
  BY <1>1, <1>2, <1>3 DEF NotifierTypeOK, Loop, Busy
<1>5. told' >= since'
  BY <1>1, <1>2, <1>3 DEF NotifierTypeOK, ToldWithinStamp
<1>6. LookStands'
  BY <1>1, <1>2, <1>3 DEF LookStands, UnderWay, Busy, Loop
<1> QED
  BY <1>2, <1>4, <1>5, <1>6 DEF NotifierInv, ToldWithinStamp, SoonOrOut, Loop

LEMMA RelationshipChangesKeeps ==
  ASSUME NotifierInv, RelationshipChanges PROVE NotifierInv'
<1> USE NotifierAssumption DEF NotifierAssumption
<1>1. NotifierTypeOK /\ ToldWithinStamp /\ SoonOrOut
  BY DEF NotifierInv
<1>2. TypeOK'
  BY <1>1, ClocksStandStill DEF RelationshipChanges, NotifierTypeOK
<1>3. /\ rel' \in Life /\ looked' = NoticeMinutes
      /\ UNCHANGED <<since, job, told>>
  BY DEF RelationshipChanges
<1>4. NotifierTypeOK'
  BY <1>1, <1>2, <1>3 DEF NotifierTypeOK
<1> QED
  BY <1>1, <1>3, <1>4 DEF NotifierInv, ToldWithinStamp, SoonOrOut, LookStands

LEMMA MinutePassesKeeps ==
  ASSUME NotifierInv, MinutePasses PROVE NotifierInv'
<1> USE NotifierAssumption DEF NotifierAssumption
<1>1. NotifierTypeOK /\ ToldWithinStamp /\ SoonOrOut /\ LookStands
  BY DEF NotifierInv
<1>2. /\ Tick /\ rel' = rel
      /\ since' = Least(since + 1, DedupWindow)
      /\ told' = Least(told + 1, DedupWindow)
      /\ looked' = Least(looked + 1, NoticeMinutes)
  BY DEF MinutePasses
<1>3. TypeOK' /\ MinutesUntilOpen \in Int
  BY <1>1, <1>2, OneUserOneMinute, UntilOpenIsANumber DEF NotifierTypeOK, TypeOK, Tick
<1>4. job \in [at : Loop \cup Busy, soon : BOOLEAN, age : 0 .. MaxTick, to : SUBSET Users]
  BY <1>1 DEF NotifierTypeOK
<1>5. /\ job' \in [at : Loop \cup Busy, soon : BOOLEAN, age : 0 .. MaxTick, to : SUBSET Users]
      /\ job.at \in Loop => job'.at = "due" /\ job'.age = 0
      /\ job.at \in Busy => job'.at = job.at /\ job'.soon = job.soon /\ job'.age = job.age + 1
      /\ job'.at \in Loop <=> job.at \in Loop
      /\ job'.at = "push" <=> job'.to # {}
  <2>1. CASE job.at = "asleep"
    <3>1. job' = [at |-> "due", soon |-> FALSE, age |-> 0, to |-> {}]
      BY <2>1 DEF MinutePasses, Waiting, Busy
    <3>2. job'.at = "due" /\ job'.age = 0 /\ job'.to = {}
      BY <3>1
    <3>3. job' \in [at : Loop \cup Busy, soon : BOOLEAN, age : 0 .. MaxTick, to : SUBSET Users]
      BY <3>1 DEF Loop, Busy
    <3> QED
      BY <2>1, <3>2, <3>3 DEF Loop, Busy
  <2>2. CASE job.at = "due"
    <3>1. job' = job
      BY <2>2 DEF MinutePasses, Busy
    <3> QED
      BY <1>1, <1>4, <2>2, <3>1 DEF NotifierTypeOK, Loop, Busy
  <2>3. CASE job.at \in Busy
    <3>1. job' = [job EXCEPT !.age = @ + 1] /\ job.age < MaxTick
      BY <2>3 DEF MinutePasses, Busy
    <3> QED
      BY <1>1, <1>4, <2>3, <3>1 DEF NotifierTypeOK, Loop, Busy
  <2> QED
    BY <1>4, <2>1, <2>2, <2>3 DEF Loop
<1>6. /\ since' \in 0 .. DedupWindow /\ told' \in 0 .. DedupWindow
      /\ looked' \in 0 .. NoticeMinutes
      /\ since' <= since + 1
      /\ told >= since => told' >= since'
      /\ told = DedupWindow => told' = DedupWindow
      /\ looked' < NoticeMinutes => looked' = looked + 1
  BY <1>1, <1>2 DEF NotifierTypeOK, Least
<1>7. NotifierTypeOK'
  BY <1>1, <1>2, <1>3, <1>5, <1>6 DEF NotifierTypeOK, Loop
<1>8. ToldWithinStamp'
  <2>1. CASE job.at \in Loop
    BY <1>1, <1>5, <1>6, <2>1 DEF ToldWithinStamp, Loop
  <2>2. CASE job.at \in {"members", "optOuts"}
    BY <1>1, <1>5, <1>6, <2>2 DEF ToldWithinStamp, Loop, Busy
  <2>3. CASE job.at \in {"push", "stamp"}
    <3>1. job.age \in Nat
      <4>1. job.age \in 0 .. MaxTick
        BY <1>4
      <4> QED
        BY <4>1
    <3>2. Least(Least(job.age, DedupWindow) + 1, DedupWindow) = Least(job.age + 1, DedupWindow)
      BY <3>1, LeastOf
    <3>3. /\ told = DedupWindow \/ told = Least(job.age, DedupWindow)
          /\ job'.at = job.at /\ job'.age = job.age + 1
      BY <1>1, <1>5, <2>3 DEF ToldWithinStamp, Busy
    <3>4. told' = DedupWindow \/ told' = Least(job'.age, DedupWindow)
      BY <1>2, <1>6, <3>2, <3>3
    <3> QED
      BY <2>3, <3>3, <3>4 DEF ToldWithinStamp, Loop
  <2> QED
    BY <1>4, <2>1, <2>2, <2>3 DEF Busy
<1>9. LookStands'
  <2> SUFFICES ASSUME looked' < NoticeMinutes PROVE LookStands'
    BY DEF LookStands
  <2>1. /\ looked' = looked + 1 /\ looked \in Nat /\ looked < NoticeMinutes
        /\ since \in Nat
    BY <1>1, <1>6 DEF NotifierTypeOK
  <2>2. rel' = "whole"
    BY <1>1, <1>2, <2>1 DEF LookStands
  <2>3. job'.at \in Busy => job.at \in Busy
    BY <1>4, <1>5 DEF Loop, Busy
  <2>4. UnderWay => UnderWay'
    BY <1>5, <2>1 DEF UnderWay
  <2>5. job'.at \in Busy /\ job'.soon => UnderWay'
    BY <1>1, <1>5, <2>1, <2>3, <2>4 DEF LookStands
  <2>6. since <= looked => since' <= looked'
    BY <1>6, <2>1
  <2>7. ASSUME ~Active, MinutesUntilOpen > NoticeMinutes - looked
        PROVE  ~Active' /\ MinutesUntilOpen' > NoticeMinutes - looked'
    <3>1. MinutesUntilOpen > 1
      BY <1>3, <2>1, <2>7
    <3>2. ~Active' /\ MinutesUntilOpen' >= MinutesUntilOpen - 1
      BY <1>1, <1>2, <2>7, <3>1, OpeningNearsByTheMinute DEF NotifierTypeOK
    <3>3. MinutesUntilOpen' \in Int
      BY <1>3, OneUser, OverlapAssumption
      DEF OverlapAssumption, TypeOK, MinutesUntilOpen, LaterUntil, Most
    <3> QED
      BY <1>3, <2>1, <2>7, <3>2, <3>3
  <2> QED
    BY <1>1, <2>1, <2>2, <2>4, <2>5, <2>6, <2>7 DEF LookStands
<1>10. SoonOrOut'
  <2>1. CASE job.at \in Loop
    BY <1>5, <2>1 DEF SoonOrOut
  <2>2. CASE job.at \in Busy
    BY <1>1, <1>5, <2>2 DEF SoonOrOut
  <2> QED
    BY <1>4, <2>1, <2>2
<1> QED
  BY <1>7, <1>8, <1>9, <1>10 DEF NotifierInv

\* A step that changes nothing.
LEMMA StutterKeeps ==
  ASSUME NotifierInv, UNCHANGED notifierVars PROVE NotifierInv'
<1>1. UNCHANGED vars /\ UNCHANGED <<rel, since, job, told, looked>>
  BY DEF notifierVars, vars
<1>2. TypeOK' = TypeOK /\ Active' = Active /\ MinutesUntilOpen' = MinutesUntilOpen
  BY <1>1, ClocksStandStill
<1> QED
  BY <1>1, <1>2 DEF NotifierInv, NotifierTypeOK, ToldWithinStamp, SoonOrOut, LookStands, UnderWay

-----------------------------------------------------------------------------
\* The invariant on which everything below rests: how stamps, pushes and looks
\* are related between any two steps of the task (overlap_notifier.py, main.py).
THEOREM NotifierInvariance == NotifierSpec => []NotifierInv
<1>1. NotifierInv /\ [NotifierNext]_notifierVars => NotifierInv'
  <2> SUFFICES ASSUME NotifierInv, [NotifierNext]_notifierVars PROVE NotifierInv'
    OBVIOUS
  <2>1. CASE Select
    BY <2>1, SelectKeeps
  <2>2. CASE LoadMembers
    BY <2>2, LoadMembersKeeps
  <2>3. CASE LoadOptOuts
    BY <2>3, LoadOptOutsKeeps
  <2>4. ASSUME NEW u \in Users, Deliver(u) \/ Lose(u) PROVE NotifierInv'
    BY <2>4, PushKeeps
  <2>5. CASE Stamp
    BY <2>5, StampKeeps
  <2>6. CASE TickFails \/ Restart
    BY <2>6, InterruptKeeps DEF TickFails, Restart, Loop
  <2>7. CASE MinutePasses
    BY <2>7, MinutePassesKeeps
  <2>8. CASE RelationshipChanges
    BY <2>8, RelationshipChangesKeeps
  <2>9. CASE UNCHANGED notifierVars
    BY <2>9, StutterKeeps
  <2> QED
    BY <2>1, <2>2, <2>3, <2>4, <2>5, <2>6, <2>7, <2>8, <2>9 DEF NotifierNext
<1> QED
  BY <1>1, NotifierStarts, PTL DEF NotifierSpec

\* The task's state stays within its ranges.
THEOREM NotifierTypeCorrect == NotifierSpec => []NotifierTypeOK
<1>1. NotifierInv => NotifierTypeOK
  BY DEF NotifierInv
<1> QED
  BY <1>1, NotifierInvariance, PTL

\* A couple is pushed to once per dedup window, unless a tick fails, whatever
\* the window, the notice and the time a tick takes.
THEOREM PushesKeepApart == NotifierSpec => PushesAreApart
<1>1. NotifierInv /\ [NotifierNext]_notifierVars =>
        [(\E u \in Users : Deliver(u)) =>
           \/ told = DedupWindow
           \/ told = Least(job.age, DedupWindow)]_notifierVars
  BY DEF NotifierInv, ToldWithinStamp, Deliver, PushedTo
<1> QED
  BY <1>1, NotifierInvariance, PTL DEF NotifierSpec, PushesAreApart

\* No opening that a tick should have announced is passed over in silence.
THEOREM NothingIsOverlooked == NotifierSpec => NoWindowOverlooked
<1>1. ASSUME NotifierInv, NotifierNext, ~Active, Active', looked < NoticeMinutes
      PROVE  since' < DedupWindow \/ job'.at \in Busy
  <2>1. NotifierTypeOK /\ LookStands
    BY <1>1 DEF NotifierInv
  <2>2. MinutePasses
    BY <1>1, ClocksStandStill
    DEF NotifierNext, Select, LoadMembers, LoadOptOuts, Deliver, Lose, PushedTo, Stamp,
        TickFails, Restart, Interrupt, RelationshipChanges
  <2>3. since' = Least(since + 1, DedupWindow) /\ Tick
    BY <2>2 DEF MinutePasses
  <2>4. CASE since <= looked
    BY <1>1, <2>1, <2>3, <2>4, NotifierAssumption
    DEF NotifierAssumption, NotifierTypeOK, Least
  <2>5. CASE UnderWay
    <3>1. job' = [job EXCEPT !.age = @ + 1]
      BY <2>2, <2>5 DEF MinutePasses, UnderWay, Busy
    <3> QED
      BY <2>1, <2>5, <3>1 DEF UnderWay, NotifierTypeOK
  <2>6. CASE MinutesUntilOpen > NoticeMinutes - looked
    <3>1. MinutesUntilOpen # 1
      BY <1>1, <2>1, <2>6, UntilOpenIsANumber, NotifierAssumption
      DEF NotifierAssumption, NotifierTypeOK
    <3> QED
      BY <1>1, <2>1, <2>3, <3>1, OpeningNearsByTheMinute DEF NotifierTypeOK
  <2> QED
    BY <1>1, <2>1, <2>4, <2>5, <2>6 DEF LookStands
<1>2. NotifierInv /\ [NotifierNext]_notifierVars =>
        [~Active /\ Active' /\ looked < NoticeMinutes =>
           since' < DedupWindow \/ job'.at \in Busy]_notifierVars
  BY <1>1
<1> QED
  BY <1>2, NotifierInvariance, PTL DEF NotifierSpec, NoWindowOverlooked

=============================================================================
