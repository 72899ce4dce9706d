--------------------------- MODULE Relationships ---------------------------
(***************************************************************************)
(* RelationshipsService and its repository: accepting an invite (POST      *)
(* /relationships) and ending the relationship (DELETE /relationships).    *)
(***************************************************************************)
EXTENDS Database

-----------------------------------------------------------------------------
(* POST /relationships                                                     *)

BeginAccept(p, u) ==
  /\ "accept" \in Ops
  /\ At(p, "idle")
  /\ \E i \in Invite :
       Move(p, [Idle EXCEPT !.at = "token", !.me = u, !.inv = i])
  /\ UNCHANGED tables

\* get_by_token of the service: the expiry is checked, the status is not.
LoadInvite(p) ==
  /\ At(p, "token")
  /\ IF invites[session[p].inv].status = "absent"
     THEN Reply(p)
     ELSE UnlessExpired(p, "inviter")
  /\ UNCHANGED tables

\* The inviter is looked up by address: whoever holds it now.
LoadInviter(p) ==
  /\ At(p, "inviter")
  /\ \/ \E u \in LiveUsers :
          /\ MailOf(u) = invites[session[p].inv].from
          /\ Move(p, [session[p] EXCEPT !.at = "myMember", !.other = u])
     \/ /\ \A u \in LiveUsers : MailOf(u) # invites[session[p].inv].from
        /\ Reply(p)
  /\ UNCHANGED tables

\* Mutants: a guard is dropped.
AnyRecipient(p) == FALSE
MayPairWithSelf(p) == FALSE

WrongRecipient(p) == MailOf(session[p].me) # invites[session[p].inv].to
PairsWithSelf(p) == session[p].me = session[p].other

\* No relationship in common: the recipient and the two users are compared,
\* with no await in between, before anything is written.
NothingInCommon(p) ==
  IF WrongRecipient(p) \/ PairsWithSelf(p)
  THEN Reply(p)
  ELSE Move(p, [session[p] EXCEPT !.at = "pair"])

\* _get_relationship_member_by_id(current_user): none is what add expects,
\* two make scalar_one_or_none raise.
FindMyMember(p) ==
  LET mine == RelationshipsOf(session[p].me) IN
  /\ At(p, "myMember")
  /\ \/ /\ mine = {}
        /\ NothingInCommon(p)
     \/ \E r \in mine :
          IF mine = {r}
          THEN Move(p, [session[p] EXCEPT !.at = "theirMember", !.rel = r])
          ELSE Reply(p)
  /\ UNCHANGED tables

FindTheirMember(p) ==
  LET theirs == RelationshipsOf(session[p].other) IN
  /\ At(p, "theirMember")
  /\ IF theirs = {session[p].rel}
     THEN Move(p, [session[p] EXCEPT !.at = "common"])
     ELSE IF \E r \in theirs : theirs # {r}
     THEN Reply(p)
     ELSE NothingInCommon(p)
  /\ UNCHANGED tables

\* Mutant: the refusal is swallowed with the two exceptions that mean no.
SwallowCommon(p) ==
  /\ At(p, "common")
  /\ NothingInCommon(p)
  /\ UNCHANGED tables

\* get_by_id: the relationship both belonged to a moment ago.  Still there,
\* the request is refused (409; 500 when the membership vanished meanwhile).
FindCommon(p) ==
  /\ At(p, "common")
  /\ IF relationships[session[p].rel] = "live"
     THEN Reply(p)
     ELSE NothingInCommon(p)
  /\ UNCHANGED tables

\* Mutants: the link or the status is forgotten, the foreign keys are missing.
AcceptUnlinked(i, seen, r) ==
  invites' = [invites EXCEPT ![i].status = StatusWrite(i, seen, "accepted")]
LinkUnaccepted(i, seen, r) == invites' = [invites EXCEPT ![i].rel = r]
NoForeignKey(p) == TRUE

MarkAccepted(i, seen, r) ==
  invites' = [invites EXCEPT ![i].status = StatusWrite(i, seen, "accepted"), ![i].rel = r]

BothExist(p) == users[session[p].me] = "live" /\ users[session[p].other] = "live"

\* begin_nested: relationship, two members, mark_accepted; then commit.  A
\* foreign key refuses the members when one of the users is gone by now.
Pair(p) ==
  LET s == session[p] IN
  /\ At(p, "pair")
  /\ ~BeingErased(p, s.me) /\ ~BeingErased(p, s.other)
  /\ \/ /\ BothExist(p)
        /\ ~Locked(p, s.inv)
        /\ \E r \in Relationship :
             /\ relationships[r] = "absent"
             /\ relationships' = [relationships EXCEPT ![r] = "live"]
             /\ members' = members \cup {<<r, s.me>>, <<r, s.other>>}
             /\ MarkAccepted(s.inv, s.seen, r)
     \/ /\ \/ ~BothExist(p)
           \/ \A r \in Relationship : relationships[r] # "absent"
        /\ UNCHANGED <<relationships, members, invites>>
  /\ Reply(p)
  /\ UNCHANGED users

-----------------------------------------------------------------------------
(* DELETE /relationships                                                   *)

BeginLeave(p, u) ==
  /\ "leave" \in Ops
  /\ At(p, "idle")
  /\ Move(p, [Idle EXCEPT !.at = "find", !.me = u])
  /\ UNCHANGED tables

\* _get_by_user_id: the one relationship of the user, or no answer but an error.
FindMine(p, next) ==
  /\ \E r \in Relationship :
       /\ RelationshipsOf(session[p].me) = {r}
       /\ Move(p, [session[p] EXCEPT !.at = next, !.rel = r])
  /\ UNCHANGED tables

CannotFindMine(p) == \A r \in Relationship : RelationshipsOf(session[p].me) # {r}

FindToLeave(p) ==
  /\ At(p, "find")
  /\ \/ FindMine(p, "endInvites")
     \/ /\ CannotFindMine(p)
        /\ Reply(p)
        /\ UNCHANGED tables

AcceptedFor(r) == {i \in Invite : invites[i].rel = r /\ invites[i].status = "accepted"}

\* Mutant: committed at once.
EndInvitesNow(p) ==
  /\ At(p, "endInvites")
  /\ invites' = [i \in Invite |-> IF i \in AcceptedFor(session[p].rel)
                                 THEN [invites[i] EXCEPT !.status = "ended"]
                                 ELSE invites[i]]
  /\ Move(p, [session[p] EXCEPT !.at = "findAgain"])
  /\ UNCHANGED <<users, relationships, members>>

\* mark_relationship_ended: flushed, not committed; the rows stay locked.
EndInvites(p) ==
  LET hit == AcceptedFor(session[p].rel) IN
  /\ At(p, "endInvites")
  /\ \A i \in hit : ~Locked(p, i)
  /\ Move(p, [session[p] EXCEPT !.at = "findAgain", !.ended = hit])
  /\ UNCHANGED tables

\* repository.delete looks the relationship up a second time.
FindAgain(p) ==
  /\ At(p, "findAgain")
  /\ \/ FindMine(p, "delete")
     \/ /\ CannotFindMine(p)
        /\ Reply(p)
        /\ UNCHANGED tables

\* Mutant: only the caller leaves.
LeavePartnerBehind(p) ==
  /\ members' = members \ {<<session[p].rel, session[p].me>>}
  /\ UNCHANGED <<users, relationships, invites>>

\* DELETE FROM relationships takes the row and its members first.
LockRelationship(p, here, next) ==
  /\ At(p, here)
  /\ RelationshipHolders(p, session[p].rel) = {}
  /\ Move(p, [session[p] EXCEPT !.at = next])
  /\ UNCHANGED tables

\* Then its cascade, and commit.  The members go with it (ON DELETE
\* CASCADE), its invites are unlinked (ON DELETE SET NULL), and the invites
\* updated before in this transaction become visible as ended.  Deleting a
\* row that is gone already is no error.
DeleteRelationship(p) ==
  LET s == session[p]
      touched == {i \in Invite : invites[i].rel = s.rel} \cup s.ended
  IN
  /\ \A i \in touched : ~Locked(p, i)
  /\ relationships' = [relationships EXCEPT ![s.rel] = "gone"]
  /\ members' = {m \in members : m[1] # s.rel}
  /\ invites' = [i \in Invite |->
       [invites[i] EXCEPT !.rel = IF @ = s.rel THEN Null ELSE @,
                          !.status = IF i \in s.ended THEN "ended" ELSE @]]
  /\ UNCHANGED users

LockToLeave(p) == LockRelationship(p, "delete", "leaveCascade")

Leave(p) ==
  /\ At(p, "leaveCascade")
  /\ DeleteRelationship(p)
  /\ Reply(p)

-----------------------------------------------------------------------------
BeginRelationshipRequest(p, u) == BeginAccept(p, u) \/ BeginLeave(p, u)

RelationshipStep(p) ==
  \/ LoadInvite(p) \/ LoadInviter(p) \/ FindMyMember(p) \/ FindTheirMember(p)
  \/ FindCommon(p) \/ Pair(p)
  \/ FindToLeave(p) \/ EndInvites(p) \/ FindAgain(p)
  \/ LockToLeave(p) \/ Leave(p)

=============================================================================
