------------------------------ MODULE Database ------------------------------
(***************************************************************************)
(* The tables behind the pairing of two users (models.py) and the request  *)
(* sessions that read and write them.                                      *)
(*                                                                         *)
(* Every HTTP request owns one AsyncSession (core/database_connection.py). *)
(* Each await on it is a point where the event loop serves another         *)
(* request, so a handler is a sequence of atomic steps: one SELECT each,   *)
(* and one step for the writes of a transaction together with its commit   *)
(* (uncommitted writes are invisible to the other requests).  Statements   *)
(* read the latest committed rows: PostgreSQL runs at READ COMMITTED.      *)
(*                                                                         *)
(* A row id belongs to one users row for ever: EmailOf and SubOf give the  *)
(* address and the Supabase subject of the row an id is handed out to,     *)
(* which no operation of the program changes afterwards.                   *)
(***************************************************************************)
EXTENDS Naturals, FiniteSets

CONSTANTS
  Email,         \* addresses as users.email holds them: lower case, stripped
  Address,       \* addresses as invites.invitee_email holds them: as typed
  Sub,           \* Supabase subjects (users.supabase_user_id)
  User,          \* users.id
  SubOf,         \* the subject each users row is created for
  EmailOf,       \* the address of each Supabase subject
  Relationship,  \* relationships.id
  Invite,        \* invites.id and its token
  Request,       \* the requests that may be in flight together
  Ops,           \* the operations clients call in this instance
  Registered,    \* users rows present at the start
  Null           \* SQL NULL, Python None

VARIABLES
  users,          \* life of each users row
  relationships,  \* life of each relationships row
  members,        \* relationship_members: <<relationship_id, user_id>> pairs
  invites,        \* the invites rows
  session         \* what each request in flight has read, and where it is

tables == <<users, relationships, members, invites>>
dbVars == <<users, relationships, members, invites, session>>

MailOf(u) == EmailOf[SubOf[u]]

Operation == {"invite", "pending", "decline", "accept", "leave", "erase", "register"}

ASSUME DatabaseAssumption ==
  /\ Email \subseteq Address
  /\ SubOf \in [User -> Sub]
  /\ EmailOf \in [Sub -> Email]
  /\ Ops \subseteq Operation
  /\ Registered \subseteq User
  /\ \A u, v \in Registered : MailOf(u) = MailOf(v) => u = v
  /\ Null \notin Address \cup Sub \cup User \cup Relationship \cup Invite

-----------------------------------------------------------------------------
(* Rows.  Ids come from sequences and are never handed out twice.          *)

RowLife == {"absent", "live", "gone"}

InviteStatus == {"pending", "accepted", "declined", "revoked", "expired", "ended"}

\* How old an invite is, as far as the program can tell: created within the
\* rate-limit window, older than that, or past its expires_at.
InviteAge == {"recent", "older", "lapsed"}

InviteRow ==
  [inviter : User \cup {Null}, from : Email \cup {Null}, to : Address \cup {Null},
   status : InviteStatus \cup {"absent"}, rel : Relationship \cup {Null},
   age : InviteAge]

NoInvite ==
  [inviter |-> Null, from |-> Null, to |-> Null,
   status |-> "absent", rel |-> Null, age |-> "recent"]

IsExpired(i) == invites[i].age = "lapsed"

LiveUsers == {u \in User : users[u] = "live"}
MembersOf(r) == {u \in User : <<r, u>> \in members}
RelationshipsOf(u) == {r \in Relationship : <<r, u>> \in members}

-----------------------------------------------------------------------------
(* Sessions.                                                               *)

Step ==
  {"idle",
   "count", "duplicate", "addInvite",                              \* invite
   "pending", "expire",                                            \* pending
   "declineToken", "decline",                                      \* decline
   "token", "inviter", "myMember", "theirMember", "common", "pair", \* accept
   "find", "endInvites", "findAgain", "delete", "leaveCascade",    \* leave
   "load", "authDelete", "findErased", "eraseRelationship",
   "relationshipCascade", "reload", "eraseUser", "userCascade",    \* erase
   "email", "addUser"}                                             \* register

Session ==
  [at : Step,
   me : User \cup {Null},            \* current_user
   sub : Sub \cup {Null},            \* claims["sub"], for register
   to : Address \cup {Null},         \* invitee_email of the body
   inv : Invite \cup {Null},         \* the invite loaded
   seen : InviteStatus \cup {Null},  \* its status when it was loaded
   other : User \cup {Null},         \* the inviter's row
   rel : Relationship \cup {Null},   \* the relationship last found
   ended : SUBSET Invite]            \* invites updated and not yet committed

Idle ==
  [at |-> "idle", me |-> Null, sub |-> Null, to |-> Null, inv |-> Null,
   seen |-> Null, other |-> Null, rel |-> Null, ended |-> {}]

At(p, step) == session[p].at = step

\* The session of request p moves on to state s.
Move(p, s) == session' = [session EXCEPT ![p] = s]

\* A response, of any status code, or an exception no handler catches: the
\* session is closed, and what it had not committed is rolled back.
Reply(p) == Move(p, Idle)

\* Mutant: the rows a request has updated itself make it wait, too.
LockedByAny(p, i) == \E q \in Request : i \in session[q].ended

\* An UPDATE holds the row until its transaction ends; writers of the row wait.
Locked(p, i) == \E q \in Request \ {p} : i \in session[q].ended

\* A DELETE takes its row and the members that go with it, then comes to the
\* invites; while it waits for one of those it holds what it has taken.
HoldsRelationship(q, r) ==
  session[q].at \in {"leaveCascade", "relationshipCascade"} /\ session[q].rel = r
HoldsUser(q, u) == At(q, "userCascade") /\ session[q].me = u

\* Others that have taken the row of r or of one of its members.
RelationshipHolders(p, r) ==
  {q \in Request \ {p} : \/ HoldsRelationship(q, r)
                         \/ \E u \in MembersOf(r) : HoldsUser(q, u)}

\* Others that have taken the row of u or one of u's memberships.
UserHolders(p, u) ==
  {q \in Request \ {p} : \/ HoldsUser(q, u)
                         \/ \E r \in RelationshipsOf(u) : HoldsRelationship(q, r)}

\* An INSERT waits for the deletion of a row it refers to, or of the row that
\* has the value it needs for itself.
BeingErased(p, u) == \E q \in Request \ {p} : HoldsUser(q, u)

\* UPDATE invites SET status = s, loaded earlier with status `seen`: the ORM
\* leaves the column out when the value equals the one it had loaded.
StatusWrite(i, seen, s) == IF seen = s THEN invites[i].status ELSE s

\* Mutant: an invite that has been answered is not asked for its expires_at.
PendingMayExpire(p, next) ==
  LET i == session[p].inv IN
  IF ~IsExpired(i) \/ invites[i].status # "pending"
  THEN Move(p, [session[p] EXCEPT !.at = next, !.seen = invites[i].status])
  ELSE Move(p, [session[p] EXCEPT !.at = "expire"])

\* The invite just loaded goes on to `next` unless it has expired; one found
\* expired and still pending is first marked so.  Its status matters for
\* nothing else: whether it was answered before is not asked.
UnlessExpired(p, next) ==
  LET i == session[p].inv IN
  IF ~IsExpired(i)
  THEN Move(p, [session[p] EXCEPT !.at = next, !.seen = invites[i].status])
  ELSE IF invites[i].status = "pending"
  THEN Move(p, [session[p] EXCEPT !.at = "expire"])
  ELSE Reply(p)

\* The process, a connection or a statement fails while p is waiting for it.
Fail(p) ==
  /\ session[p].at # "idle"
  /\ Reply(p)
  /\ UNCHANGED tables

=============================================================================
