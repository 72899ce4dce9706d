-------------------------- MODULE OverlapNotifier --------------------------
(***************************************************************************)
(* jobs/overlap_notifier.py and the loop in main.py that runs it: the      *)
(* background task that announces the overlap of a couple shortly before   *)
(* it opens, and stamps the relationship so that it does so once a day.    *)
(* The module follows one relationship and the task; whatever a tick does  *)
(* for other relationships is time that passes, or a failure, between the  *)
(* steps for this one.  Requests of the users change the relationship      *)
(* between any two steps.  The schedules of the couple stay as they are.   *)
(***************************************************************************)
EXTENDS OverlapCalc

CONSTANTS
  DedupWindow,     \* DEDUP_WINDOW, in minutes
  NoticeMinutes,   \* NOTIFY_WHEN_MINUTES_UNTIL_OPEN_LE
  MaxTick          \* bound: the minutes one tick may take

ASSUME NotifierAssumption ==
  /\ DedupWindow \in Nat /\ NoticeMinutes \in Nat /\ MaxTick \in Nat
  /\ NoticeMinutes < DedupWindow

Users == {"a", "b"}

\* "whole": active, with two members in known time zones; "paused": its status
\* is another; "unready": a member or a time zone is missing; "gone": deleted.
Life == {"whole", "paused", "unready", "gone"}

\* What a tick does next for this relationship; "asleep" and "due" are the
\* loop's: asyncio.sleep, and about to call notify_imminent_overlaps.
Loop == {"asleep", "due"}
Busy == {"members", "optOuts", "push", "stamp"}

VARIABLES
  rel,     \* the row of relationships and what hangs on it
  since,   \* minutes since last_overlap_notified_at; DedupWindow: or more, or NULL
  job,     \* the task: at, and of a tick under way the age of its `now`, whether
           \*   the window opens soon as of `now`, and to whom it has yet to push
  told,    \* history: minutes since the `now` of the last tick that delivered a
           \*   push; DedupWindow: or more, or a tick has failed since
  looked   \* history: minutes since a tick last found the whole relationship
           \*   unstamped and closed; NoticeMinutes: or more, or spoilt since

notifierVars == <<a, b, aNow, bNow, rel, since, job, told, looked>>

-----------------------------------------------------------------------------
Waiting(at) == [at |-> at, soon |-> FALSE, age |-> 0, to |-> {}]

NotifierInit ==
  /\ Init
  /\ rel = "whole"
  /\ since = DedupWindow
  /\ job = Waiting("due")
  /\ told = DedupWindow
  /\ looked = NoticeMinutes

\* Mutant: the cutoff lies a minute too near.
StampedLongEnoughAgo == since >= DedupWindow - 1

\* last_overlap_notified_at <= eligible_cutoff, or NULL.
Unstamped == since >= DedupWindow

\* Mutant: < for <=.
VerySoon == ~Active /\ MinutesUntilOpen < NoticeMinutes

Soon == ~Active /\ MinutesUntilOpen <= NoticeMinutes

\* The tick takes its `now` and selects the active relationships not stamped
\* within DedupWindow.  (calculate_overlap is called later, but for this `now`.)
Select ==
  LET selected == rel \in {"whole", "unready"} /\ Unstamped IN
  /\ job.at = "due"
  /\ job' = IF selected THEN [Waiting("members") EXCEPT !.soon = Soon] ELSE Waiting("asleep")
  /\ looked' = IF selected /\ rel = "whole" /\ ~Active THEN 0 ELSE looked
  /\ UNCHANGED <<vars, rel, since, told>>

\* Two members, two time zones, a window that opens soon; or `continue`.  The
\* status is not asked again.
LoadMembers ==
  /\ job.at = "members"
  /\ job' = IF rel \in {"whole", "paused"} /\ job.soon
            THEN [job EXCEPT !.at = "optOuts"] ELSE Waiting("asleep")
  /\ UNCHANGED <<vars, rel, since, told, looked>>

\* Mutant: with nobody to push to, the tick never comes to the stamp.
LoadSomeOptOuts ==
  /\ job.at = "optOuts"
  /\ \E to \in SUBSET Users : job' = [job EXCEPT !.at = "push", !.to = to]
  /\ UNCHANGED <<vars, rel, since, told, looked>>

\* Whoever has not opted out of overlap_opening gets a push; maybe nobody.
LoadOptOuts ==
  /\ job.at = "optOuts"
  /\ \E to \in SUBSET Users :
       job' = [job EXCEPT !.at = IF to = {} THEN "stamp" ELSE "push", !.to = to]
  /\ UNCHANGED <<vars, rel, since, told, looked>>

PushedTo(u) ==
  /\ job.at = "push" /\ u \in job.to
  /\ job' = [job EXCEPT !.at = IF job.to = {u} THEN "stamp" ELSE "push", !.to = job.to \ {u}]
  /\ UNCHANGED <<vars, rel, since, looked>>

\* send_to_user reaches a device of u.
Deliver(u) == PushedTo(u) /\ told' = Least(job.age, DedupWindow)

\* It does not: no device, a dead token, Expo fails; the exception is swallowed.
Lose(u) == PushedTo(u) /\ UNCHANGED told

\* The UPDATE writes this tick's `now`; when it matches no row, the tick fails.
Stamp ==
  /\ job.at = "stamp"
  /\ job' = Waiting("asleep")
  /\ IF rel = "gone" THEN told' = DedupWindow /\ UNCHANGED since
                     ELSE since' = Least(job.age, DedupWindow) /\ UNCHANGED told
  /\ UNCHANGED <<vars, rel, looked>>

Interrupt(next) ==
  /\ job' = Waiting(next)
  /\ IF job.at \in Busy THEN told' = DedupWindow /\ looked' = NoticeMinutes
                        ELSE UNCHANGED <<told, looked>>
  /\ UNCHANGED <<vars, rel, since>>

\* An exception ends the tick: the session rolls back, the loop logs and sleeps.
TickFails == job.at \in Busy /\ Interrupt("asleep")

\* The process stops at any point and starts anew: no sleep before the first tick.
Restart == job.at # "due" /\ Interrupt("due")

\* asyncio.sleep takes the minute that passes; a tick at most MaxTick of them.
MinutePasses ==
  /\ job.at \in Busy => job.age < MaxTick
  /\ Tick
  /\ job' = CASE job.at = "asleep"  -> Waiting("due")
              [] job.at = "due"     -> job
              [] job.at \in Busy    -> [job EXCEPT !.age = @ + 1]
  /\ since' = Least(since + 1, DedupWindow)
  /\ told' = Least(told + 1, DedupWindow)
  /\ looked' = Least(looked + 1, NoticeMinutes)
  /\ UNCHANGED rel

\* PATCH /relationships sets the status, PATCH /users/me a time zone, an erasure
\* takes a member, DELETE /relationships the row.
RelationshipChanges ==
  /\ rel # "gone"
  /\ rel' \in Life \ {rel}
  /\ looked' = NoticeMinutes
  /\ UNCHANGED <<vars, since, job, told>>

NotifierNext ==
  \/ Select \/ LoadMembers \/ LoadOptOuts
  \/ \E u \in Users : Deliver(u) \/ Lose(u)
  \/ Stamp
  \/ TickFails \/ Restart
  \/ MinutePasses
  \/ RelationshipChanges

NotifierSpec == NotifierInit /\ [][NotifierNext]_notifierVars

-----------------------------------------------------------------------------
\* The task and its history stay within their ranges; only a tick under way has
\* a `now`, and only one that pushes has recipients (notify_imminent_overlaps).
NotifierTypeOK ==
  /\ TypeOK
  /\ rel \in Life
  /\ since \in 0 .. DedupWindow
  /\ told \in 0 .. DedupWindow
  /\ looked \in 0 .. NoticeMinutes
  /\ job \in [at : Loop \cup Busy, soon : BOOLEAN, age : 0 .. MaxTick, to : SUBSET Users]
  /\ job.at \in Loop => job.age = 0
  /\ job.at = "push" <=> job.to # {}

\* "Once we've notified for a given relationship, we won't send again until the
\* dedup window has elapsed" (jobs/overlap_notifier.py): the pushes of two ticks
\* are DedupWindow apart by the ticks' `now`, however long the first one took to
\* commit its stamp, unless one that was under way in between failed.
PushesAreApart ==
  [][(\E u \in Users : Deliver(u)) =>
       \/ told = DedupWindow
       \/ told = Least(job.age, DedupWindow)]_notifierVars

\* No window opens that a tick has overlooked (jobs/overlap_notifier.py): when
\* one opens at most NoticeMinutes after a tick found the couple unstamped and
\* the window closed, and since then no tick failed and nothing befell the
\* relationship, it has been stamped within DedupWindow or a tick is about it.
NoWindowOverlooked ==
  [][~Active /\ Active' /\ looked < NoticeMinutes =>
       since' < DedupWindow \/ job'.at \in Busy]_notifierVars

=============================================================================
