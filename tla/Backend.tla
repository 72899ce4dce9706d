------------------------------ MODULE Backend ------------------------------
(***************************************************************************)
(* The API as a whole: invites, relationships and accounts over one        *)
(* database, any number of requests in flight.                             *)
(***************************************************************************)
EXTENDS Invites, Accounts

vars == <<dbVars, accounts>>

Init ==
  /\ users = [u \in User |-> IF u \in Registered THEN "live" ELSE "absent"]
  /\ relationships = [r \in Relationship |-> "absent"]
  /\ members = {}
  /\ invites = [i \in Invite |-> NoInvite]
  /\ session = [p \in Request |-> Idle]
  /\ accounts = [s \in Sub |->
       IF \E u \in Registered : SubOf[u] = s THEN "active" ELSE "absent"]

\* A client calls an operation: get_current_user finds the row of its token.
Begin(p) ==
  \/ \E u \in User :
       /\ SignedIn(u)
       /\ \/ (BeginInviteRequest(p, u) \/ BeginRelationshipRequest(p, u)) /\ UNCHANGED accounts
          \/ BeginErase(p, u)
  \/ BeginRegister(p)

\* One step of a handler, as far as its next await.
Handle(p) ==
  \/ (InviteStep(p) \/ RelationshipStep(p)) /\ UNCHANGED accounts
  \/ AccountStep(p)

Environment ==
  \/ \E i \in Invite : Elapse(i) /\ UNCHANGED accounts
  \/ \E s \in Sub : SignUp(s) \/ TokenExpires(s)

Next ==
  \/ \E p \in Request : Begin(p) \/ Handle(p) \/ (Fail(p) /\ UNCHANGED accounts)
  \/ Environment

Spec == Init /\ [][Next]_vars

\* The next statement of p waits for rows that q has written or taken.
WaitsFor(p, q) ==
  LET s == session[p] IN
  /\ p # q
  /\ \/ /\ s.at \in {"expire", "decline"} \/ (s.at = "pair" /\ BothExist(p))
        /\ s.inv \in session[q].ended
     \/ s.at = "endInvites" /\ AcceptedFor(s.rel) \cap session[q].ended # {}
     \/ s.at \in {"delete", "eraseRelationship"} /\ q \in RelationshipHolders(p, s.rel)
     \/ s.at \in {"leaveCascade", "relationshipCascade"}
        /\ \E i \in session[q].ended : invites[i].rel = s.rel
     \/ s.at = "eraseUser" /\ q \in UserHolders(p, s.me)
     \/ s.at = "userCascade" /\ \E i \in session[q].ended : invites[i].inviter = s.me
     \/ s.at \in {"addInvite", "pair"} /\ HoldsUser(q, s.me)
     \/ s.at = "pair" /\ HoldsUser(q, s.other)
     \/ s.at = "addUser" /\ \E u \in LiveUsers :
          HoldsUser(q, u) /\ (MailOf(u) = EmailOf[s.sub] \/ SubOf[u] = s.sub)

\* PostgreSQL finds two transactions waiting for each other and aborts one.
BreakDeadlock ==
  \E p, q \in Request :
    /\ WaitsFor(p, q) /\ WaitsFor(q, p)
    /\ Fail(p) /\ UNCHANGED accounts

\* The event loop runs every handler on, and every statement is answered; the
\* waiters for a row lock are served in turn, so a statement that the lock lets
\* through again and again is not passed over for ever.
FairSpec == Spec /\ WF_vars(BreakDeadlock) /\ \A p \in Request : SF_vars(Handle(p))

-----------------------------------------------------------------------------
(* Properties of every behaviour, requests interleaved at will.            *)

\* Every variable holds what the schema and the handlers allow in it.
TypeOK ==
  /\ users \in [User -> RowLife]
  /\ relationships \in [Relationship -> RowLife]
  /\ members \subseteq Relationship \X User
  /\ invites \in [Invite -> InviteRow]
  /\ session \in [Request -> Session]
  /\ accounts \in [Sub -> AccountState]

\* A row that names another row by its id names a live one, whatever ids the
\* handlers carried across their awaits (relationship_members and invites).
NoDanglingReference ==
  /\ \A m \in members : relationships[m[1]] = "live" /\ users[m[2]] = "live"
  /\ \A i \in Invite : invites[i].rel # Null => relationships[invites[i].rel] = "live"
  /\ \A i \in Invite : invites[i].inviter # Null => users[invites[i].inviter] = "live"

\* An invite that is linked to a relationship is the invitation between its
\* members: one holds the inviting address, the other the invited one.
LinkedInviteNamesTheCouple ==
  \A i \in Invite : invites[i].rel # Null =>
    /\ invites[i].from # invites[i].to
    /\ \A u \in MembersOf(invites[i].rel) : MailOf(u) \in {invites[i].from, invites[i].to}

\* Nobody is in a relationship nobody invited them to: for every pair of
\* members there is an invite from the one's address to the other's.
MembersWereInvited ==
  \A r \in Relationship : \A u, v \in MembersOf(r) : u # v =>
    \E i \in Invite : {invites[i].from, invites[i].to} = {MailOf(u), MailOf(v)}

\* DELETE /users/me removes the Supabase account first: a users row that is
\* gone belonged to a subject Supabase no longer knows.
AuthGoesFirst ==
  \A u \in User : users[u] = "gone" => accounts[SubOf[u]] \in {"deleted", "expired"}

\* An address belongs to one account at a time: not to two registrations that
\* both found it free, nor to an account and to one that was erased, whose token
\* still registers (UserRepository.add).
OneRowPerAddress == \A u, v \in LiveUsers : MailOf(u) = MailOf(v) => u = v

\* An invite is marked expired only once its expires_at has passed, however
\* long ago the request that marks it had read it.
ExpiredOnlyWhenDue ==
  \A i \in Invite : invites[i].status = "expired" => IsExpired(i)

\* A pending invite has no relationship: the unique index over pending
\* (relationship_id, invitee_email) pairs never compares two rows.
PendingIsUnlinked ==
  \A i \in Invite : invites[i].status = "pending" => invites[i].rel = Null

\* INVITE_RATE_LIMIT_MAX is passed only by requests that counted before one of
\* them had inserted: by less than there are requests in flight.
RateLimitNearlyHolds ==
  \A u \in User : Cardinality(RecentPending(u)) < RateLimitMax + Cardinality(Request)

\* Pending invites to the same address come from requests that all looked before
\* one of them had inserted: no more than there are requests in flight.
FewPendingTwins ==
  \A u \in User, a \in Address : Cardinality(PendingFromTo(u, a)) <= Cardinality(Request)

\* An invite becomes ended in the very step that deletes the relationship it
\* was accepted for, although the UPDATE and the DELETE are three awaits apart.
EndsWithItsRelationship ==
  [][\A i \in Invite :
       invites'[i].status = "ended" /\ invites[i].status # "ended" =>
         /\ invites[i].status = "accepted"
         /\ \E r \in Relationship : /\ invites[i].rel = r
                                    /\ relationships[r] = "live"
                                    /\ relationships'[r] = "gone"]_vars

\* A handler in flight always gets as far as its response.
EveryRequestIsAnswered ==
  \A p \in Request : ~At(p, "idle") ~> At(p, "idle")

\* Requests that all wait for one another: two of them do so directly.  One is a
\* leave that has updated its invites before it deletes the relationship, the
\* other has not: it has taken the relationship, or the account of a member,
\* and comes to the invites last (RelationshipsService.delete).
DeadlocksArePairs ==
  \A S \in SUBSET Request :
    (S # {} /\ \A p \in S : \E q \in S : WaitsFor(p, q)) =>
      \E p, q \in S : /\ WaitsFor(p, q) /\ WaitsFor(q, p)
                      /\ At(p, "delete") /\ session[p].ended # {}
                      /\ session[q].ended = {}

\* What all of this is for, without the requests, tokens and statements.
Promise == INSTANCE Couples WITH
  Mail <- [u \in User |-> MailOf(u)],
  invited <- {<<invites[i].from, invites[i].to>> : i \in {j \in Invite : invites[j].status # "absent"}},
  life <- relationships,
  couple <- [r \in Relationship |-> MembersOf(r)],
  left <- {u \in User : users[u] = "gone"}

\* The statements of all handlers, interleaved at will, add up to the steps of
\* Couples: two become a couple at once and upon an invitation, both are there
\* when they do, nobody joins later, and they part at once, unless one erases
\* the account.
CouplesAsPromised == Promise!Spec

-----------------------------------------------------------------------------
(* Properties of requests served one at a time (one element in Request).   *)

\* At most one relationship between two users.
OneRelationshipPerCouple ==
  \A q, r \in Relationship : \A u, v \in User :
    {u, v} \subseteq MembersOf(q) \cap MembersOf(r) /\ u # v => q = r

\* At most one pending invite from a user to an address.
OnePendingInvite ==
  \A u \in User, a \in Address : Cardinality(PendingFromTo(u, a)) <= 1

\* At most RateLimitMax pending invites of one user within the window.
RateLimitHolds ==
  \A u \in User : Cardinality(RecentPending(u)) <= RateLimitMax

\* An expired invite stays expired.
ExpiredIsFinal ==
  [][\A i \in Invite : invites[i].status = "expired" => invites'[i].status = "expired"]_vars

\* A relationship has two members as long as it exists.
NoHalfRelationship ==
  \A r \in Relationship : relationships[r] = "live" => Cardinality(MembersOf(r)) = 2

\* Every relationship is linked from the invite that was accepted for it.
RelationshipHasItsInvite ==
  \A r \in Relationship : relationships[r] = "live" => \E i \in Invite : invites[i].rel = r

\* Nobody accepts the invite of the partner, and an erasure that got as far as
\* the users row has ended the relationship first: the steps of all handlers
\* are those of the strict Couples (RelationshipsService.add, UsersService.delete).
CouplesStrictly == Promise!StrictSpec

-----------------------------------------------------------------------------
(* What the repository says of itself and the code does not keep.          *)

\* _get_relationship_member_by_id asserts one membership per user
\* (scalar_one_or_none).
OneRelationshipPerUser ==
  \A u \in User : Cardinality(RelationshipsOf(u)) <= 1

\* A deletion that stopped after the Supabase account left only the users row.
OnlyAnOrphanedRow ==
  \A u \in User :
    (/\ accounts[SubOf[u]] \in {"deleted", "expired"}
     /\ \A p \in Request : At(p, "idle"))
    => RelationshipsOf(u) = {}

=============================================================================
