------------------------------ MODULE Countdown ------------------------------
(***************************************************************************)
(* PATCH /relationships with a next_meet_at: the date of the relationship  *)
(* is written and the partner told, while tokens and preferences change.   *)
(* One relationship, until it is deleted; status and type are not notified *)
(* of and left out.                                                        *)
(***************************************************************************)
EXTENDS NotificationPrefs

VARIABLES
  date,      \* relationships.next_meet_at
  live,      \* the relationships row is there
  unaware,   \* history: users nobody has told of the last change of the date
  loud,      \* history: calls whose partner did not opt out all the time since
  rivalled   \* history: registrations whose token went to another user, or lost
             \*   its row, between their SELECT and their write

vars == <<owner, gone, call, optOuts, date, live, unaware, loud, rivalled>>

Relationship == <<date, live>>
Notified == "countdown_updated"

ASSUME DateAssumption == Null \notin Date

Init ==
  /\ owner = [t \in Token |-> Null]
  /\ gone = {}
  /\ call = [p \in Request |-> NoCall]
  /\ optOuts = {}
  /\ date \in Date
  /\ live = TRUE
  /\ unaware = {}
  /\ loud = {}
  /\ rivalled = {}

-----------------------------------------------------------------------------
BeginUpdate(p, u) ==
  /\ CallAt(p, "idle") /\ u \notin gone
  /\ \E d \in Date :
       Proceed(p, [NoCall EXCEPT !.at = "find", !.me = u, !.to = Other(u), !.want = d])
  /\ UNCHANGED <<owner, optOuts, Relationship, unaware>>

\* Nothing is left to do for the partner of p: told, not to be told, or p failed.
Excused(p) == unaware' = unaware \ {Other(call[p].me)}

\* Service.update: the old date, kept in a variable; 404 without relationship.
Find(p) ==
  /\ CallAt(p, "find")
  /\ IF live THEN Proceed(p, [call[p] EXCEPT !.at = "write", !.old = date])
     ELSE Respond(p)
  /\ UNCHANGED <<owner, optOuts, Relationship, unaware>>

\* Repository.update looks the relationship up again, but the session answers
\* with the copy it has: the UPDATE is left out when that copy holds the date
\* already.  Without the row the call ends in 404 or 500.
Write(p) ==
  LET c == call[p] IN
  /\ CallAt(p, "write")
  /\ \/ /\ live /\ c.want # c.old
        /\ date' = c.want
        /\ unaware' = (unaware \ {c.me}) \cup {c.to}
        /\ Proceed(p, [c EXCEPT !.at = "refresh"])
     \/ /\ live /\ c.want = c.old
        /\ Proceed(p, [c EXCEPT !.at = "refresh"])
        /\ UNCHANGED <<date, unaware>>
     \/ ~live /\ Respond(p) /\ UNCHANGED <<date, unaware>>
  /\ UNCHANGED <<owner, optOuts, live>>

\* Mutant: compared with the date of the request.
RequestDiffers(p) == call[p].want # date

Changed(p) == call[p].old # date

\* db.refresh, and the comparison with the date in the table now.
Refresh(p) ==
  /\ CallAt(p, "refresh")
  /\ IF live /\ Changed(p)
     THEN Proceed(p, [call[p] EXCEPT !.at = "partner"])
     ELSE Respond(p)
  /\ UNCHANGED <<owner, optOuts, Relationship, unaware>>

FindPartner(p) ==
  /\ CallAt(p, "partner")
  /\ IF live THEN Proceed(p, [call[p] EXCEPT !.at = "optOuts"]) /\ UNCHANGED unaware
     ELSE Respond(p) /\ Excused(p)
  /\ UNCHANGED <<owner, optOuts, Relationship>>

\* Mutant: the preferences of the wrong user.
OwnPreference(p) == OptedOut(call[p].me, Notified)

Silenced(p) == OptedOut(call[p].to, Notified)

LoadOptOuts(p) ==
  /\ CallAt(p, "optOuts")
  /\ IF Silenced(p) THEN Respond(p) /\ Excused(p)
     ELSE Proceed(p, [call[p] EXCEPT !.at = "tokens"]) /\ UNCHANGED unaware
  /\ UNCHANGED <<owner, optOuts, Relationship>>

\* The partner is told, has no device, or Expo does not take the message, which
\* is logged and forgotten.
Deliver(p) ==
  /\ ListTokens(p) \/ Expo(p)
  /\ IF call[p].to # call[p].me /\ call'[p].at # "expo" THEN Excused(p) ELSE UNCHANGED unaware
  /\ UNCHANGED <<optOuts, Relationship>>

UpdateStep(p) ==
  Find(p) \/ Write(p) \/ Refresh(p) \/ FindPartner(p) \/ LoadOptOuts(p) \/ Deliver(p)

\* DELETE /relationships of either member, or the first transaction of DELETE
\* /users/me.
EndRelationship ==
  /\ live
  /\ live' = FALSE
  /\ unaware' = {}
  /\ UNCHANGED <<owner, gone, call, optOuts, date>>

\* The second one, with what goes with the users row (ON DELETE CASCADE).
EraseMember(u) ==
  /\ ~live /\ u \notin gone
  /\ gone' = gone \cup {u}
  /\ owner' = Without(TokensOf(u))
  /\ call' = [q \in Request |-> Missing(q, TokensOf(u))]
  /\ optOuts' = {row \in optOuts : row[1] # u}
  /\ UNCHANGED <<date, live, unaware>>

\* History: p has found the date changed, or will, and goes on to the partner.
Owes(p) ==
  /\ call[p].to = Other(call[p].me)
  /\ \/ CallAt(p, "refresh") /\ call[p].old # date
     \/ call[p].at \in {"partner", "optOuts", "tokens", "expo"}

\* The process or a connection fails while p waits.
FailCall(p) ==
  /\ ~CallAt(p, "idle")
  /\ Respond(p)
  /\ IF Owes(p) THEN Excused(p) ELSE UNCHANGED unaware
  /\ UNCHANGED <<owner, optOuts, Relationship>>

-----------------------------------------------------------------------------
BeginCall(p) ==
  \E u \in User :
    \/ BeginTokenCall(p, u) /\ UNCHANGED <<optOuts, Relationship, unaware>>
    \/ BeginPreferences(p, u) /\ UNCHANGED <<Relationship, unaware>>
    \/ BeginUpdate(p, u)

TokenCall(p) ==
  /\ Lookup(p) \/ InsertToken(p) \/ UpdateToken(p) \/ Unregister(p) \/ Prune(p)
  /\ UNCHANGED <<optOuts, Relationship, unaware>>

Handle(p) ==
  \/ TokenCall(p)
  \/ PreferenceStep(p) /\ UNCHANGED <<Relationship, unaware>>
  \/ UpdateStep(p)

\* History: a call joins, or stays, while its partner is not opted out.
Listen ==
  loud' = {p \in Request : /\ call'[p].to \in User
                           /\ \/ p \in loud
                              \/ <<call'[p].to, Notified>> \notin optOuts'}

\* History: while a registration waits to write, its token becomes another's, or
\* nobody's, by whatever call or erasure.
Watch ==
  rivalled' = {p \in Request :
                 /\ call'[p].at \in {"insert", "update"}
                 /\ \/ p \in rivalled
                    \/ /\ call[p].at \in {"insert", "update"}
                       /\ owner'[call[p].tok] \notin {owner[call[p].tok], call[p].me}}

Next ==
  /\ \/ \E p \in Request : (BeginCall(p) \/ Handle(p) \/ FailCall(p)) /\ UNCHANGED gone
     \/ EndRelationship
     \/ \E u \in User : EraseMember(u)
  /\ Listen
  /\ Watch

Spec == Init /\ [][Next]_vars

-----------------------------------------------------------------------------
(* Properties.                                                             *)

\* Every variable holds what the schema and the handlers allow in it.
CountdownTypeOK ==
  /\ owner \in [Token -> User \cup {Null}]
  /\ gone \subseteq User
  /\ call \in [Request -> Call]
  /\ optOuts \subseteq User \X Key
  /\ date \in Date
  /\ live \in BOOLEAN
  /\ unaware \subseteq User
  /\ loud \subseteq Request
  /\ rivalled \subseteq Request

\* Once nothing is in flight, whoever did not set the present date was told of
\* it, or had switched this notification off, had no device, or was not to be
\* reached: however the updates of both were interleaved, and although each
\* compares the date with a copy it took two awaits before it wrote its own
\* (RelationshipsService.update).
PartnerHears ==
  (\A p \in Request : CallAt(p, "idle")) => unaware = {}

\* A partner who had switched the notification off before the update began, and
\* left it so, gets none: the devices are only asked for when, at some time
\* since, countdown_updated was on (_notify_partner_of_countdown_update).
OptOutIsKept ==
  \A p \in Request :
    CallAt(p, "expo") /\ call[p].to # call[p].me => p \in loud

\* Nothing is left of a member who is gone, and nothing comes back: no device, no
\* preference, although calls of his go on, past the cascade and past the
\* transaction that began it (device_tokens, notification_opt_outs).
NothingOfTheErased ==
  \A u \in gone : TokensOf(u) = {} /\ \A row \in optOuts : row[1] # u

\* A registration that comes to its write leaves the token with its user: unless
\* another user got the token, or its row was deleted, since the SELECT, or the
\* user is gone.  Other calls of the same user do no harm, whether they insert the
\* row first, so that the INSERT is refused, or take it over before the UPDATE; and
\* the ORM leaves out user_id only where it is right (DeviceTokenRepository.upsert).
RegistrationSticks ==
  [][\A p \in Request \ rivalled :
       (InsertToken(p) \/ UpdateToken(p)) /\ call[p].me \notin gone =>
         owner'[call[p].tok] = call[p].me]_vars

=============================================================================
