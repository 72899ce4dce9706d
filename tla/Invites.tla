------------------------------ MODULE Invites ------------------------------
(***************************************************************************)
(* RelationshipInvitesService and its repository: sending an invite,       *)
(* looking for one, declining one.  Accepting is in Relationships.         *)
(***************************************************************************)
EXTENDS Database

CONSTANT RateLimitMax   \* INVITE_RATE_LIMIT_MAX

ASSUME InvitesAssumption == RateLimitMax \in Nat

\* Time passes for an invite: it leaves the one-hour window of the rate
\* limit, later its expires_at (INVITE_TTL) is reached.
Elapse(i) ==
  /\ invites[i].status # "absent"
  /\ \/ /\ invites[i].age = "recent"
        /\ invites' = [invites EXCEPT ![i].age = "older"]
     \/ /\ invites[i].age = "older"
        /\ invites' = [invites EXCEPT ![i].age = "lapsed"]
  /\ UNCHANGED <<users, relationships, members, session>>

-----------------------------------------------------------------------------
(* POST /relationships/invites                                             *)

BeginInvite(p, u) ==
  /\ "invite" \in Ops
  /\ At(p, "idle")
  /\ \E a \in Address : Move(p, [Idle EXCEPT !.at = "count", !.me = u, !.to = a])
  /\ UNCHANGED tables

RecentPending(u) ==
  {i \in Invite : /\ invites[i].inviter = u
                  /\ invites[i].age = "recent"
                  /\ invites[i].status = "pending"}

\* Mutant: one invite too many.
RateLimitedLate(u) == Cardinality(RecentPending(u)) > RateLimitMax

RateLimited(u) == Cardinality(RecentPending(u)) >= RateLimitMax

CountRecent(p) ==
  /\ At(p, "count")
  /\ IF RateLimited(session[p].me)
     THEN Reply(p)
     ELSE Move(p, [session[p] EXCEPT !.at = "duplicate"])
  /\ UNCHANGED tables

PendingFromTo(u, a) ==
  {i \in Invite : /\ invites[i].inviter = u
                  /\ invites[i].to = a
                  /\ invites[i].status = "pending"}

\* Mutant: a pending invite is forgotten once it leaves the window.
RecentDuplicate(u, a) == PendingFromTo(u, a) \cap RecentPending(u) # {}

\* One pending invite is refused; of two, scalar_one_or_none complains.
Duplicate(u, a) == PendingFromTo(u, a) # {}

CheckDuplicate(p) ==
  /\ At(p, "duplicate")
  /\ IF Duplicate(session[p].me, session[p].to)
     THEN Reply(p)
     ELSE Move(p, [session[p] EXCEPT !.at = "addInvite"])
  /\ UNCHANGED tables

\* Mutant: inviter_email is filled with the id.
NewInviteById(u, a) ==
  [inviter |-> u, from |-> u, to |-> a, status |-> "pending", rel |-> Null, age |-> "recent"]

NewInvite(u, a) ==
  [inviter |-> u, from |-> MailOf(u), to |-> a,
   status |-> "pending", rel |-> Null, age |-> "recent"]

\* The foreign key refuses the row when the inviter's row is gone by now.
\* The unique index over (relationship_id, invitee_email) refuses nothing:
\* relationship_id is NULL in the new row.
AddInvite(p) ==
  /\ At(p, "addInvite")
  /\ ~BeingErased(p, session[p].me)
  /\ \/ /\ users[session[p].me] = "live"
        /\ \E i \in Invite :
             /\ invites[i].status = "absent"
             /\ invites' = [invites EXCEPT ![i] = NewInvite(session[p].me, session[p].to)]
     \/ /\ \/ users[session[p].me] # "live"
           \/ \A i \in Invite : invites[i].status # "absent"
        /\ UNCHANGED invites
  /\ Reply(p)
  /\ UNCHANGED <<users, relationships, members>>

-----------------------------------------------------------------------------
(* GET /relationships/invites/pending                                      *)

BeginPending(p, u) ==
  /\ "pending" \in Ops
  /\ At(p, "idle")
  /\ Move(p, [Idle EXCEPT !.at = "pending", !.me = u])
  /\ UNCHANGED tables

\* inviter_user_id != user_id is not true of a NULL inviter.
PendingFor(u) ==
  {i \in Invite : /\ invites[i].to = MailOf(u)
                  /\ invites[i].status = "pending"
                  /\ invites[i].inviter \notin {Null, u}}

\* Mutant: whatever is found is marked expired.
ExpirePending(p) ==
  /\ At(p, "pending")
  /\ \E i \in PendingFor(session[p].me) :
       Move(p, [session[p] EXCEPT !.at = "expire", !.inv = i])
  /\ UNCHANGED tables

\* The query has no ORDER BY: first() returns any of the rows.
GetPending(p) ==
  /\ At(p, "pending")
  /\ \/ /\ \E i \in PendingFor(session[p].me) :
             IF IsExpired(i)
             THEN Move(p, [session[p] EXCEPT !.at = "expire", !.inv = i])
             ELSE Reply(p)
     \/ /\ PendingFor(session[p].me) = {}
        /\ Reply(p)
  /\ UNCHANGED tables

\* mark_expired, on behalf of any request that found a pending invite lapsed.
\* The status it overwrites is the one in the table now.
MarkExpired(p) ==
  /\ At(p, "expire")
  /\ ~Locked(p, session[p].inv)
  /\ invites' = [invites EXCEPT ![session[p].inv].status = "expired"]
  /\ Reply(p)
  /\ UNCHANGED <<users, relationships, members>>

-----------------------------------------------------------------------------
(* PUT /relationships/invites/{token}/decline                              *)

BeginDecline(p, u) ==
  /\ "decline" \in Ops
  /\ At(p, "idle")
  /\ \E i \in Invite :
       Move(p, [Idle EXCEPT !.at = "declineToken", !.me = u, !.inv = i])
  /\ UNCHANGED tables

\* Unknown token, or addressed to somebody else, or expired, or to decline.
LoadToDecline(p) ==
  LET i == session[p].inv IN
  /\ At(p, "declineToken")
  /\ IF invites[i].status = "absent" \/ invites[i].to # MailOf(session[p].me)
     THEN Reply(p)
     ELSE UnlessExpired(p, "decline")
  /\ UNCHANGED tables

MarkDeclined(p) ==
  LET i == session[p].inv IN
  /\ At(p, "decline")
  /\ ~Locked(p, i)
  /\ invites' = [invites EXCEPT ![i].status = StatusWrite(i, session[p].seen, "declined")]
  /\ Reply(p)
  /\ UNCHANGED <<users, relationships, members>>

-----------------------------------------------------------------------------
BeginInviteRequest(p, u) == BeginInvite(p, u) \/ BeginPending(p, u) \/ BeginDecline(p, u)

InviteStep(p) ==
  \/ CountRecent(p) \/ CheckDuplicate(p) \/ AddInvite(p)
  \/ GetPending(p) \/ MarkExpired(p)
  \/ LoadToDecline(p) \/ MarkDeclined(p)

=============================================================================
