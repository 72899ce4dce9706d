------------------------------ MODULE Accounts ------------------------------
(***************************************************************************)
(* UsersService: creating the users row of a Supabase account (POST        *)
(* /users) and deleting the account (DELETE /users/me), with the Supabase  *)
(* accounts themselves and the access tokens that outlive them.            *)
(***************************************************************************)
EXTENDS Relationships

VARIABLE accounts   \* the state of each Supabase subject

\* "deleted": removed at Supabase, its last access token not yet expired;
\* tokens are verified by signature only.  "expired": no token is left.
AccountState == {"absent", "active", "deleted", "expired"}

HoldsToken(s) == accounts[s] \in {"active", "deleted"}

\* get_current_user: a valid token whose subject has a users row.
SignedIn(u) == users[u] = "live" /\ HoldsToken(SubOf[u])

-----------------------------------------------------------------------------
(* Supabase                                                                *)

SignUp(s) ==
  /\ accounts[s] = "absent"
  /\ \A t \in Sub : accounts[t] = "active" => EmailOf[t] # EmailOf[s]
  /\ accounts' = [accounts EXCEPT ![s] = "active"]
  /\ UNCHANGED dbVars

TokenExpires(s) ==
  /\ accounts[s] = "deleted"
  /\ accounts' = [accounts EXCEPT ![s] = "expired"]
  /\ UNCHANGED dbVars

-----------------------------------------------------------------------------
(* POST /users                                                             *)

BeginRegister(p) ==
  /\ "register" \in Ops
  /\ At(p, "idle")
  /\ \E s \in Sub :
       /\ HoldsToken(s)
       /\ Move(p, [Idle EXCEPT !.at = "email", !.sub = s])
  /\ UNCHANGED <<tables, accounts>>

EmailTaken(s) == \E u \in LiveUsers : MailOf(u) = EmailOf[s]
SubTaken(s) == \E u \in LiveUsers : SubOf[u] = s

CheckEmail(p) ==
  /\ At(p, "email")
  /\ IF EmailTaken(session[p].sub)
     THEN Reply(p)
     ELSE Move(p, [session[p] EXCEPT !.at = "addUser"])
  /\ UNCHANGED <<tables, accounts>>

FreeRows(s) == {u \in User : users[u] = "absent" /\ SubOf[u] = s}

\* Mutant: no unique constraints.
NoRowLeft(s) == FreeRows(s) = {}

\* The unique constraints on email and supabase_user_id have the last word.
Refused(s) == EmailTaken(s) \/ SubTaken(s) \/ FreeRows(s) = {}

AddUser(p) ==
  LET s == session[p].sub IN
  /\ At(p, "addUser")
  /\ \A u \in LiveUsers : MailOf(u) = EmailOf[s] \/ SubOf[u] = s => ~BeingErased(p, u)
  /\ \/ /\ ~Refused(s)
        /\ \E u \in FreeRows(s) : users' = [users EXCEPT ![u] = "live"]
     \/ Refused(s) /\ UNCHANGED users
  /\ Reply(p)
  /\ UNCHANGED <<relationships, members, invites, accounts>>

-----------------------------------------------------------------------------
(* DELETE /users/me                                                        *)

BeginErase(p, u) ==
  /\ "erase" \in Ops
  /\ At(p, "idle")
  /\ Move(p, [Idle EXCEPT !.at = "load", !.me = u])
  /\ UNCHANGED <<tables, accounts>>

LoadUser(p, here, next) ==
  /\ At(p, here)
  /\ IF users[session[p].me] = "live"
     THEN Move(p, [session[p] EXCEPT !.at = next])
     ELSE Reply(p)
  /\ UNCHANGED <<tables, accounts>>

\* Mutant: a failure of Supabase is ignored.
AuthFailureIgnored(p) ==
  /\ At(p, "authDelete")
  /\ Move(p, [session[p] EXCEPT !.at = "findErased"])
  /\ UNCHANGED <<tables, accounts>>

\* delete_auth_user: Supabase first.  The call succeeds (also when the
\* account was gone already), or it fails: refused, or cut off after
\* Supabase had carried it out.
DeleteAuthUser(p) ==
  LET s == SubOf[session[p].me]
      remove == accounts' = [accounts EXCEPT ![s] = IF @ = "active" THEN "deleted" ELSE @]
  IN
  /\ At(p, "authDelete")
  /\ \/ remove /\ Move(p, [session[p] EXCEPT !.at = "findErased"])
     \/ remove /\ Reply(p)
     \/ UNCHANGED accounts /\ Reply(p)
  /\ UNCHANGED tables

\* Mutant: the relationship is left to the cascade from users.
KeepRelationship(p) ==
  /\ At(p, "findErased")
  /\ Move(p, [session[p] EXCEPT !.at = "reload"])
  /\ UNCHANGED <<tables, accounts>>

\* Mutant: the invites are ended first, as by a leave.
EndInvitesFirst(p) ==
  LET mine == RelationshipsOf(session[p].me) IN
  /\ At(p, "findErased")
  /\ IF mine = {}
     THEN Move(p, [session[p] EXCEPT !.at = "reload"])
     ELSE \E r \in mine :
            /\ \A i \in AcceptedFor(r) : ~Locked(p, i)
            /\ Move(p, [session[p] EXCEPT !.at = "eraseRelationship", !.rel = r,
                                         !.ended = AcceptedFor(r)])
  /\ UNCHANGED <<tables, accounts>>

\* relationship_repository.delete: not found is suppressed, MultipleResultsFound
\* is not, and ends the request with the users row still there.
FindErased(p) ==
  LET mine == RelationshipsOf(session[p].me) IN
  /\ At(p, "findErased")
  /\ \/ FindMine(p, "eraseRelationship")
     \/ /\ CannotFindMine(p)
        /\ IF mine = {}
           THEN Move(p, [session[p] EXCEPT !.at = "reload"])
           ELSE Reply(p)
        /\ UNCHANGED tables
  /\ UNCHANGED accounts

LockToErase(p) ==
  LockRelationship(p, "eraseRelationship", "relationshipCascade") /\ UNCHANGED accounts

EraseRelationship(p) ==
  /\ At(p, "relationshipCascade")
  /\ DeleteRelationship(p)
  /\ Move(p, [session[p] EXCEPT !.at = "reload", !.rel = Null])
  /\ UNCHANGED accounts

\* DELETE FROM users takes the row and its memberships first.
LockUser(p) ==
  /\ At(p, "eraseUser")
  /\ UserHolders(p, session[p].me) = {}
  /\ Move(p, [session[p] EXCEPT !.at = "userCascade"])
  /\ UNCHANGED <<tables, accounts>>

\* Memberships go with the row, invites lose their inviter.
EraseUser(p) ==
  LET u == session[p].me
      sent == {i \in Invite : invites[i].inviter = u}
  IN
  /\ At(p, "userCascade")
  /\ \A i \in sent : ~Locked(p, i)
  /\ users' = [users EXCEPT ![u] = "gone"]
  /\ members' = {m \in members : m[2] # u}
  /\ invites' = [i \in Invite |->
       [invites[i] EXCEPT !.inviter = IF @ = u THEN Null ELSE @]]
  /\ Reply(p)
  /\ UNCHANGED <<relationships, accounts>>

-----------------------------------------------------------------------------
BeginAccountRequest(p, u) == BeginErase(p, u)

AccountStep(p) ==
  \/ CheckEmail(p) \/ AddUser(p)
  \/ LoadUser(p, "load", "authDelete") \/ DeleteAuthUser(p)
  \/ FindErased(p) \/ LockToErase(p) \/ EraseRelationship(p)
  \/ LoadUser(p, "reload", "eraseUser") \/ LockUser(p) \/ EraseUser(p)

=============================================================================
