--------------------------- MODULE BackendProofs ---------------------------
(***************************************************************************)
(* What holds of Backend for any numbers of users, invites, relationships  *)
(* and requests in flight.  The handlers carry values across their awaits; *)
(* the inductive invariant says what is still true of these values         *)
(* (Sound), and the proofs rest on how little the tables may change under  *)
(* a waiting request (Grows).                                              *)
(***************************************************************************)
EXTENDS Backend, TLAPS

-----------------------------------------------------------------------------
(* The inductive invariant.                                                *)

Registering == {"email", "addUser"}
Inviting == {"count", "duplicate", "addInvite"}
Answering == {"decline", "inviter", "myMember", "theirMember", "common", "pair"}
Pairing == {"myMember", "theirMember", "common", "pair"}
Leaving == {"endInvites", "findAgain", "delete", "leaveCascade"}
Erasing ==
  {"findErased", "eraseRelationship", "relationshipCascade", "reload", "eraseUser", "userCascade"}

\* Who calls, and with what.
SoundCaller(s) ==
  /\ s.at \notin {"idle"} \cup Registering => s.me \in User /\ users[s.me] # "absent"
  /\ s.at \in Registering => s.sub \in Sub /\ accounts[s.sub] # "absent"
  /\ s.at \in Inviting => s.to \in Address
  /\ s.at \in Erasing => accounts[SubOf[s.me]] \in {"deleted", "expired"}

\* The invite that was loaded is still the one it was, and no longer pending
\* if it was not when it was loaded.
SoundInvite(s) ==
  /\ s.at \in {"declineToken", "token"} => s.inv \in Invite
  /\ s.at = "expire" =>
       s.inv \in Invite /\ invites[s.inv].status # "absent" /\ IsExpired(s.inv)
  /\ s.at \in Answering =>
       /\ s.inv \in Invite /\ invites[s.inv].status # "absent"
       /\ s.seen # "pending" => invites[s.inv].status # "pending"

\* The two users an accept has compared with it.
SoundPair(s) ==
  /\ s.at \in Pairing => s.other \in User /\ MailOf(s.other) = invites[s.inv].from
  /\ s.at = "pair" => MailOf(s.me) = invites[s.inv].to /\ s.me # s.other

\* The relationship that was found: the caller is in it, or one of them is gone;
\* it existed.
SoundRelationship(s) ==
  /\ s.at \in Leaving \cup {"theirMember", "common", "eraseRelationship", "relationshipCascade"} =>
       s.rel \in Relationship
  /\ s.at \in Leaving =>
       \/ <<s.rel, s.me>> \in members
       \/ users[s.me] = "gone"
       \/ relationships[s.rel] = "gone"
  /\ s.at \in Leaving \cup {"eraseRelationship", "relationshipCascade"} =>
       relationships[s.rel] # "absent"

\* The invites updated and not committed: accepted ones of that relationship.
SoundEnded(s) ==
  /\ s.at \notin {"findAgain", "delete", "leaveCascade"} => s.ended = {}
  /\ \A i \in s.ended : invites[i].status = "accepted" /\ invites[i].rel = s.rel

Sound(s) ==
  SoundCaller(s) /\ SoundInvite(s) /\ SoundPair(s) /\ SoundRelationship(s) /\ SoundEnded(s)

OneWriterPerInvite ==
  \A p, q \in Request : p # q => session[p].ended \cap session[q].ended = {}

\* Every users row had an account.
RowsHaveAccounts == \A u \in User : users[u] # "absent" => accounts[SubOf[u]] # "absent"

\* MembersWereInvited, by an invite that exists.
InvitedByARow ==
  \A r \in Relationship : \A u, v \in MembersOf(r) : u # v =>
    \E i \in Invite : /\ invites[i].status # "absent"
                      /\ {invites[i].from, invites[i].to} = {MailOf(u), MailOf(v)}

TableInv ==
  /\ RowsHaveAccounts
  /\ OneRowPerAddress
  /\ NoDanglingReference
  /\ LinkedInviteNamesTheCouple
  /\ InvitedByARow
  /\ AuthGoesFirst
  /\ ExpiredOnlyWhenDue
  /\ PendingIsUnlinked

SessionInv == \A p \in Request : Sound(session[p])

IInv == TypeOK /\ TableInv /\ SessionInv /\ OneWriterPerInvite

-----------------------------------------------------------------------------
(* How steps compose.                                                      *)

\* What a step may do to the tables while the requests in W wait.
Grows(W) ==
  /\ \A i \in Invite : invites[i].status # "absent" =>
       /\ invites'[i].status # "absent"
       /\ invites'[i].from = invites[i].from /\ invites'[i].to = invites[i].to
       /\ invites[i].status # "pending" => invites'[i].status # "pending"
       /\ IsExpired(i) => IsExpired(i)'
  /\ \A q \in W : \A i \in session[q].ended :
       invites'[i].status = invites[i].status /\ invites'[i].rel = invites[i].rel
  /\ \A u \in User : /\ users[u] # "absent" => users'[u] # "absent"
                     /\ users[u] = "gone" => users'[u] = "gone"
  /\ \A r \in Relationship :
       /\ relationships[r] = "gone" => relationships'[r] = "gone"
       /\ relationships[r] # "absent" => relationships'[r] # "absent"
  /\ \A m \in members :
       m \in members' \/ users'[m[2]] = "gone" \/ relationships'[m[1]] = "gone"
  /\ \A s \in Sub :
       /\ accounts[s] # "absent" => accounts'[s] # "absent"
       /\ accounts[s] \in {"deleted", "expired"} => accounts'[s] \in {"deleted", "expired"}

\* Request p moves to a state that is sound afterwards; the others wait.
Moves(p) ==
  /\ session' \in [Request -> Session]
  /\ \A q \in Request \ {p} : session'[q] = session[q]
  /\ Sound(session[p])'
  /\ \A i \in session'[p].ended : i \in session[p].ended \/ ~Locked(p, i)

\* The facts about the constants, in the form the proofs use them.
LEMMA Constants ==
  /\ \A u \in User : SubOf[u] \in Sub /\ MailOf(u) \in Email
  /\ \A s \in Sub : EmailOf[s] \in Email
  /\ Email \subseteq Address
  /\ Null \notin Address /\ Null \notin User /\ Null \notin Invite
  /\ Null \notin Relationship /\ Null \notin Sub
BY DatabaseAssumption DEF DatabaseAssumption, MailOf

\* A request that waits stays sound while the tables grow.
LEMMA WaitingStaysSound ==
  ASSUME TypeOK, NEW W \in SUBSET Request, Grows(W), NEW q \in W,
         Sound(session[q]), session'[q] = session[q]
  PROVE  Sound(session[q])'
<1> DEFINE s == session[q]
<1>1. s \in Session /\ s.ended \subseteq Invite
  BY DEF TypeOK, Session
<1>2. SoundCaller(session[q])'
  BY <1>1, Constants DEF Grows, Sound, SoundCaller, Registering, Inviting, Erasing, TypeOK
<1>3. SoundInvite(session[q])'
  BY <1>1 DEF Grows, Sound, SoundInvite, Answering, TypeOK, IsExpired
<1>4. SoundPair(session[q])'
  BY <1>1 DEF Grows, Sound, SoundPair, SoundInvite, Answering, Pairing, MailOf
<1>5. SoundRelationship(session[q])'
  BY <1>1 DEF Grows, Sound, SoundRelationship, SoundCaller, Leaving, Registering, TypeOK
<1>6. SoundEnded(session[q])'
  BY <1>1 DEF Grows, Sound, SoundEnded
<1> QED
  BY <1>2, <1>3, <1>4, <1>5, <1>6 DEF Sound

\* A step of p keeps the sessions sound.
LEMMA SessionsStaySound ==
  ASSUME TypeOK, SessionInv, OneWriterPerInvite,
         NEW p \in Request, Grows(Request \ {p}), Moves(p)
  PROVE  SessionInv' /\ OneWriterPerInvite'
<1>1. ASSUME NEW q \in Request PROVE Sound(session[q])'
  <2>1. CASE q = p
    BY <2>1 DEF Moves
  <2>2. CASE q # p
    BY <2>2, WaitingStaysSound DEF Moves, SessionInv
  <2> QED
    BY <2>1, <2>2
<1>2. ASSUME NEW q \in Request, NEW r \in Request, q # r
      PROVE  session'[q].ended \cap session'[r].ended = {}
  BY <1>2 DEF Moves, OneWriterPerInvite, Locked
<1> QED
  BY <1>1, <1>2 DEF SessionInv, OneWriterPerInvite

-----------------------------------------------------------------------------
(* Steps that only read.                                                   *)

Reads(p) == Moves(p) /\ UNCHANGED <<tables, accounts>>

LEMMA ReadsKeepInv ==
  ASSUME IInv, NEW p \in Request, Reads(p)
  PROVE  IInv'
<1>1. Grows(Request \ {p})
  BY DEF Reads, Grows, tables, IsExpired
<1>2. SessionInv' /\ OneWriterPerInvite'
  BY <1>1, SessionsStaySound DEF IInv, Reads
<1>3. TypeOK'
  BY DEF IInv, TypeOK, Reads, Moves, tables
<1>4. RowsHaveAccounts' /\ OneRowPerAddress' /\ AuthGoesFirst'
  BY DEF IInv, TableInv, Reads, tables, RowsHaveAccounts, OneRowPerAddress, AuthGoesFirst, LiveUsers
<1>5. NoDanglingReference' /\ ExpiredOnlyWhenDue' /\ PendingIsUnlinked'
  BY DEF IInv, TableInv, Reads, tables, NoDanglingReference, ExpiredOnlyWhenDue,
         PendingIsUnlinked, IsExpired
<1>6. LinkedInviteNamesTheCouple' /\ InvitedByARow'
  BY DEF IInv, TableInv, Reads, tables, LinkedInviteNamesTheCouple, InvitedByARow, MembersOf
<1> QED
  BY <1>2, <1>3, <1>4, <1>5, <1>6 DEF IInv, TableInv

\* The response of a request, and the end of its session.
LEMMA ReplyMoves ==
  ASSUME TypeOK, NEW p \in Request, Reply(p)
  PROVE  Moves(p)
<1>1. Idle \in Session
  BY DEF Idle, Session, Step
<1>2. session'[p] = Idle /\ session' \in [Request -> Session]
  BY <1>1 DEF Reply, Move, TypeOK
<1>3. Sound(session[p])'
  BY <1>2 DEF Sound, Idle, SoundCaller, SoundInvite, SoundPair, SoundRelationship, SoundEnded,
              Registering, Inviting, Erasing, Answering, Pairing, Leaving
<1>4. session'[p].ended = {}
  BY <1>2 DEF Idle
<1> QED
  BY <1>2, <1>3, <1>4 DEF Moves, Reply, Move, TypeOK

\* A move to a sound state that leaves the tables alone.
LEMMA MoveReads ==
  ASSUME TypeOK, NEW p \in Request, NEW s \in Session, Move(p, s), Sound(s),
         UNCHANGED <<tables, accounts>>,
         \A i \in s.ended : i \in session[p].ended \/ ~Locked(p, i)
  PROVE  Reads(p)
<1>1. /\ session' \in [Request -> Session]
      /\ session'[p] = s
      /\ \A q \in Request \ {p} : session'[q] = session[q]
  BY DEF Move, TypeOK
<1>2. Sound(session[p])'
  BY <1>1 DEF tables, Sound, SoundCaller, SoundInvite, SoundPair, SoundRelationship, SoundEnded,
              IsExpired
<1> QED
  BY <1>1, <1>2 DEF Reads, Moves

\* A request arrives: its session holds what was called and by whom.
LEMMA BeginReads ==
  ASSUME IInv, NEW p \in Request, Begin(p)
  PROVE  Reads(p)
<1> TypeOK
  BY DEF IInv
<1> USE DEF Idle, Registering, Inviting, Erasing, Answering, Pairing, Leaving
<1>1. ASSUME NEW u \in User, SignedIn(u), BeginInvite(p, u), UNCHANGED accounts
      PROVE  Reads(p)
  <2>1. PICK x \in Address : Move(p, [Idle EXCEPT !.at = "count", !.me = u, !.to = x])
    BY <1>1 DEF BeginInvite
  <2> DEFINE s == [Idle EXCEPT !.at = "count", !.me = u, !.to = x]
  <2>2. s \in Session /\ s.ended = {} /\ Sound(s)
    BY <1>1 DEF Session, Step, SignedIn, Sound, SoundCaller, SoundInvite, SoundPair,
       SoundRelationship, SoundEnded
  <2> QED
    BY <1>1, <2>1, <2>2, MoveReads DEF BeginInvite
<1>2. ASSUME NEW u \in User, SignedIn(u), BeginPending(p, u), UNCHANGED accounts
      PROVE  Reads(p)
  <2> DEFINE s == [Idle EXCEPT !.at = "pending", !.me = u]
  <2>2. s \in Session /\ s.ended = {} /\ Sound(s)
    BY <1>2 DEF Session, Step, SignedIn, Sound, SoundCaller, SoundInvite, SoundPair,
       SoundRelationship, SoundEnded
  <2> QED
    BY <1>2, <2>2, MoveReads DEF BeginPending
<1>3. ASSUME NEW u \in User, SignedIn(u), BeginDecline(p, u), UNCHANGED accounts
      PROVE  Reads(p)
  <2>1. PICK x \in Invite : Move(p, [Idle EXCEPT !.at = "declineToken", !.me = u, !.inv = x])
    BY <1>3 DEF BeginDecline
  <2> DEFINE s == [Idle EXCEPT !.at = "declineToken", !.me = u, !.inv = x]
  <2>2. s \in Session /\ s.ended = {} /\ Sound(s)
    BY <1>3 DEF Session, Step, SignedIn, Sound, SoundCaller, SoundInvite, SoundPair,
       SoundRelationship, SoundEnded
  <2> QED
    BY <1>3, <2>1, <2>2, MoveReads DEF BeginDecline
<1>4. ASSUME NEW u \in User, SignedIn(u), BeginAccept(p, u), UNCHANGED accounts
      PROVE  Reads(p)
  <2>1. PICK x \in Invite : Move(p, [Idle EXCEPT !.at = "token", !.me = u, !.inv = x])
    BY <1>4 DEF BeginAccept
  <2> DEFINE s == [Idle EXCEPT !.at = "token", !.me = u, !.inv = x]
  <2>2. s \in Session /\ s.ended = {} /\ Sound(s)
    BY <1>4 DEF Session, Step, SignedIn, Sound, SoundCaller, SoundInvite, SoundPair,
       SoundRelationship, SoundEnded
  <2> QED
    BY <1>4, <2>1, <2>2, MoveReads DEF BeginAccept
<1>5. ASSUME NEW u \in User, SignedIn(u), BeginLeave(p, u), UNCHANGED accounts
      PROVE  Reads(p)
  <2> DEFINE s == [Idle EXCEPT !.at = "find", !.me = u]
  <2>2. s \in Session /\ s.ended = {} /\ Sound(s)
    BY <1>5 DEF Session, Step, SignedIn, Sound, SoundCaller, SoundInvite, SoundPair,
       SoundRelationship, SoundEnded
  <2> QED
    BY <1>5, <2>2, MoveReads DEF BeginLeave
<1>6. ASSUME NEW u \in User, SignedIn(u), BeginErase(p, u), UNCHANGED accounts
      PROVE  Reads(p)
  <2> DEFINE s == [Idle EXCEPT !.at = "load", !.me = u]
  <2>2. s \in Session /\ s.ended = {} /\ Sound(s)
    BY <1>6 DEF Session, Step, SignedIn, Sound, SoundCaller, SoundInvite, SoundPair,
       SoundRelationship, SoundEnded
  <2> QED
    BY <1>6, <2>2, MoveReads DEF BeginErase
<1>7. ASSUME BeginRegister(p)
      PROVE  Reads(p)
  <2>1. PICK x \in Sub : HoldsToken(x) /\ Move(p, [Idle EXCEPT !.at = "email", !.sub = x])
    BY <1>7 DEF BeginRegister
  <2> DEFINE s == [Idle EXCEPT !.at = "email", !.sub = x]
  <2>2. s \in Session /\ s.ended = {} /\ Sound(s)
    BY <2>1 DEF HoldsToken, Session, Step, Sound, SoundCaller, SoundInvite, SoundPair,
       SoundRelationship, SoundEnded
  <2> QED
    BY <1>7, <2>1, <2>2, MoveReads DEF BeginRegister
<1> QED
  BY <1>1, <1>2, <1>3, <1>4, <1>5, <1>6, <1>7
  DEF Begin, BeginInviteRequest, BeginRelationshipRequest, BeginErase

\* What a handler that has begun knows: its state, and that it is sound.
LEMMA Running ==
  ASSUME IInv, NEW p \in Request
  PROVE  session[p] \in Session /\ Sound(session[p]) /\ session[p].ended \subseteq Invite
BY DEF IInv, TypeOK, SessionInv, Session

\* The expiry check of an invite that was found.
LEMMA UnlessExpiredReads ==
  ASSUME IInv, NEW p \in Request, NEW next \in {"decline", "inviter"},
         session[p].at \in {"declineToken", "token"},
         invites[session[p].inv].status # "absent",
         UnlessExpired(p, next), UNCHANGED <<tables, accounts>>
  PROVE  Reads(p)
<1> DEFINE i == session[p].inv
           go == [session[p] EXCEPT !.at = next, !.seen = invites[i].status]
           expire == [session[p] EXCEPT !.at = "expire"]
<1> USE DEF Sound, SoundCaller, SoundInvite, SoundPair, SoundRelationship, SoundEnded,
            Registering, Inviting, Erasing, Answering, Pairing, Leaving
<1>1. TypeOK /\ session[p] \in Session /\ Sound(session[p])
  BY Running DEF IInv
<1>2. i \in Invite /\ invites[i].status \in InviteStatus
  BY <1>1 DEF TypeOK, InviteRow
<1>3. CASE Move(p, go)
  <2>1. next \in Step
    BY DEF Step
  <2>2. go \in Session /\ go.ended = {}
    BY <1>1, <1>2, <2>1 DEF Session
  <2>3. Sound(go)
    BY <1>1, <1>2, <2>2 DEF Session
  <2> QED
    BY <1>1, <1>3, <2>2, <2>3, MoveReads
<1>4. CASE IsExpired(i) /\ Move(p, expire)
  <2>1. expire \in Session /\ expire.ended = {} /\ Sound(expire)
    BY <1>1, <1>2, <1>4 DEF Session, Step
  <2> QED
    BY <1>1, <1>4, <2>1, MoveReads
<1>5. CASE Reply(p)
  BY <1>1, <1>5, ReplyMoves DEF Reads
<1> QED
  BY <1>3, <1>4, <1>5 DEF UnlessExpired

LEMMA InviteReads ==
  ASSUME IInv, NEW p \in Request, UNCHANGED accounts,
         CountRecent(p) \/ CheckDuplicate(p) \/ GetPending(p) \/ LoadToDecline(p)
  PROVE  Reads(p)
<1> USE DEF At, Registering, Inviting, Erasing, Answering, Pairing, Leaving
<1>1. TypeOK /\ session[p] \in Session /\ Sound(session[p])
  BY Running DEF IInv
<1>2. CASE Reply(p)
  BY <1>1, <1>2, ReplyMoves DEF Reads, CountRecent, CheckDuplicate, GetPending, LoadToDecline
<1>3. CASE CountRecent(p) /\ ~Reply(p)
  <2> DEFINE s == [session[p] EXCEPT !.at = "duplicate"]
  <2>1. s \in Session /\ s.ended = {} /\ Sound(s)
    BY <1>1, <1>3 DEF CountRecent, Session, Step, Sound, SoundCaller, SoundInvite, SoundPair,
       SoundRelationship, SoundEnded
  <2> QED
    BY <1>1, <1>3, <2>1, MoveReads DEF CountRecent
<1>4. CASE CheckDuplicate(p) /\ ~Reply(p)
  <2> DEFINE s == [session[p] EXCEPT !.at = "addInvite"]
  <2>1. s \in Session /\ s.ended = {} /\ Sound(s)
    BY <1>1, <1>4 DEF CheckDuplicate, Session, Step, Sound, SoundCaller, SoundInvite, SoundPair,
       SoundRelationship, SoundEnded
  <2> QED
    BY <1>1, <1>4, <2>1, MoveReads DEF CheckDuplicate
<1>5. CASE GetPending(p) /\ ~Reply(p)
  <2>1. PICK i \in PendingFor(session[p].me) :
          IsExpired(i) /\ Move(p, [session[p] EXCEPT !.at = "expire", !.inv = i])
    BY <1>5 DEF GetPending
  <2> DEFINE s == [session[p] EXCEPT !.at = "expire", !.inv = i]
  <2>2. i \in Invite /\ invites[i].status # "absent" /\ At(p, "pending")
    BY <1>5 DEF GetPending, PendingFor
  <2>3. s \in Session /\ s.ended = {}
    <3>1. "expire" \in Step
      BY DEF Step
    <3> QED
      BY <1>1, <2>2, <3>1 DEF Session, Sound, SoundEnded
  <2>4. SoundCaller(s)
    BY <1>1, <2>2 DEF Sound, SoundCaller, Session
  <2>5. SoundInvite(s)
    BY <1>1, <2>1, <2>2 DEF SoundInvite, IsExpired, Session
  <2>6. SoundPair(s) /\ SoundRelationship(s) /\ SoundEnded(s)
    BY <1>1, <2>2, <2>3 DEF SoundPair, SoundRelationship, SoundEnded, Session
  <2>7. Sound(s)
    BY <2>3, <2>4, <2>5, <2>6 DEF Sound
  <2> QED
    BY <1>1, <1>5, <2>1, <2>3, <2>7, MoveReads DEF GetPending
<1>6. CASE LoadToDecline(p) /\ ~Reply(p)
  BY <1>1, <1>6, UnlessExpiredReads DEF LoadToDecline, tables
<1> QED
  BY <1>2, <1>3, <1>4, <1>5, <1>6

\* The last comparisons of an accept, before it writes.
LEMMA NothingInCommonReads ==
  ASSUME IInv, NEW p \in Request, session[p].at \in {"myMember", "theirMember", "common"},
         NothingInCommon(p), UNCHANGED <<tables, accounts>>
  PROVE  Reads(p)
<1> DEFINE s == [session[p] EXCEPT !.at = "pair"]
<1>1. TypeOK /\ session[p] \in Session /\ Sound(session[p])
  BY Running DEF IInv
<1>2. CASE Reply(p)
  BY <1>1, <1>2, ReplyMoves DEF Reads
<1>3. CASE ~WrongRecipient(p) /\ ~PairsWithSelf(p) /\ Move(p, s)
  <2>1. s \in Session /\ s.ended = {}
    BY <1>1 DEF Session, Step, Sound, SoundEnded
  <2>2. SoundCaller(s) /\ SoundInvite(s)
    BY <1>1 DEF Sound, SoundCaller, SoundInvite, Session, IsExpired,
       Registering, Inviting, Erasing, Answering
  <2>3. SoundPair(s)
    BY <1>1, <1>3 DEF Sound, SoundPair, Session, WrongRecipient, PairsWithSelf, Pairing, MailOf
  <2>4. SoundRelationship(s) /\ SoundEnded(s)
    BY <1>1, <2>1 DEF SoundRelationship, SoundEnded, Session, Leaving
  <2>5. Sound(s)
    BY <2>2, <2>3, <2>4 DEF Sound
  <2> QED
    BY <1>1, <1>3, <2>1, <2>5, MoveReads
<1> QED
  BY <1>2, <1>3 DEF NothingInCommon

LEMMA AcceptReads ==
  ASSUME IInv, NEW p \in Request, UNCHANGED accounts,
         LoadInvite(p) \/ LoadInviter(p) \/ FindMyMember(p) \/ FindTheirMember(p) \/ FindCommon(p)
  PROVE  Reads(p)
<1>1. TypeOK /\ session[p] \in Session /\ Sound(session[p])
  BY Running DEF IInv
<1>2. UNCHANGED <<tables, accounts>>
  BY DEF LoadInvite, LoadInviter, FindMyMember, FindTheirMember, FindCommon
<1>3. CASE Reply(p)
  BY <1>1, <1>2, <1>3, ReplyMoves DEF Reads
<1>4. CASE LoadInvite(p) /\ ~Reply(p)
  BY <1>2, <1>4, UnlessExpiredReads DEF LoadInvite, At
<1>5. CASE LoadInviter(p) /\ ~Reply(p)
  <2>1. PICK u \in LiveUsers : /\ MailOf(u) = invites[session[p].inv].from
                               /\ Move(p, [session[p] EXCEPT !.at = "myMember", !.other = u])
    BY <1>5 DEF LoadInviter
  <2> DEFINE s == [session[p] EXCEPT !.at = "myMember", !.other = u]
  <2>2. session[p].at = "inviter" /\ u \in User
    BY <1>5 DEF LoadInviter, At, LiveUsers
  <2>3. s \in Session /\ s.ended = {}
    <3>1. "myMember" \in Step
      BY DEF Step
    <3> QED
      BY <1>1, <2>2, <3>1 DEF Session, Sound, SoundEnded
  <2>4. SoundCaller(s) /\ SoundInvite(s)
    BY <1>1, <2>2 DEF Sound, SoundCaller, SoundInvite, Session, IsExpired,
       Registering, Inviting, Erasing, Answering
  <2>5. SoundPair(s)
    BY <1>1, <2>1, <2>2 DEF SoundPair, Session, Pairing, MailOf
  <2>6. SoundRelationship(s) /\ SoundEnded(s)
    BY <1>1, <2>3 DEF SoundRelationship, SoundEnded, Session, Leaving
  <2>7. Sound(s)
    BY <2>4, <2>5, <2>6 DEF Sound
  <2> QED
    BY <1>1, <1>2, <2>1, <2>3, <2>7, MoveReads
<1>6. CASE FindMyMember(p) /\ ~Reply(p)
  <2>1. session[p].at = "myMember"
    BY <1>6 DEF FindMyMember, At
  <2>2. CASE NothingInCommon(p)
    BY <1>2, <2>1, <2>2, NothingInCommonReads
  <2>3. CASE \E r \in RelationshipsOf(session[p].me) :
               Move(p, [session[p] EXCEPT !.at = "theirMember", !.rel = r])
    <3>1. PICK r \in RelationshipsOf(session[p].me) :
            Move(p, [session[p] EXCEPT !.at = "theirMember", !.rel = r])
      BY <2>3
    <3> DEFINE s == [session[p] EXCEPT !.at = "theirMember", !.rel = r]
    <3>2. s \in Session /\ s.ended = {} /\ r \in Relationship
      <4>1. "theirMember" \in Step
        BY DEF Step
      <4> QED
        BY <1>1, <2>1, <4>1 DEF Session, Sound, SoundEnded, RelationshipsOf
    <3>3. SoundCaller(s) /\ SoundInvite(s) /\ SoundPair(s)
      BY <1>1, <2>1 DEF Sound, SoundCaller, SoundInvite, SoundPair, Session, IsExpired, MailOf,
         Registering, Inviting, Erasing, Answering, Pairing
    <3>4. SoundRelationship(s) /\ SoundEnded(s)
      BY <1>1, <3>2 DEF SoundRelationship, SoundEnded, Session, Leaving
    <3>5. Sound(s)
      BY <3>3, <3>4 DEF Sound
    <3> QED
      BY <1>1, <1>2, <3>1, <3>2, <3>5, MoveReads
  <2> QED
    BY <1>6, <2>2, <2>3 DEF FindMyMember
<1>7. CASE FindTheirMember(p) /\ ~Reply(p)
  <2>1. session[p].at = "theirMember"
    BY <1>7 DEF FindTheirMember, At
  <2>2. CASE NothingInCommon(p)
    BY <1>2, <2>1, <2>2, NothingInCommonReads
  <2>3. CASE Move(p, [session[p] EXCEPT !.at = "common"])
    <3> DEFINE s == [session[p] EXCEPT !.at = "common"]
    <3>1. s \in Session /\ s.ended = {}
      BY <1>1, <2>1 DEF Session, Step, Sound, SoundEnded
    <3>2. SoundCaller(s) /\ SoundInvite(s) /\ SoundPair(s)
      BY <1>1, <2>1 DEF Sound, SoundCaller, SoundInvite, SoundPair, Session, IsExpired, MailOf,
         Registering, Inviting, Erasing, Answering, Pairing
    <3>3. SoundRelationship(s) /\ SoundEnded(s)
      BY <1>1, <2>1, <3>1 DEF Sound, SoundRelationship, SoundEnded, Session, Leaving
    <3>4. Sound(s)
      BY <3>2, <3>3 DEF Sound
    <3> QED
      BY <1>1, <1>2, <2>3, <3>1, <3>4, MoveReads
  <2> QED
    BY <1>7, <2>2, <2>3 DEF FindTheirMember
<1>8. CASE FindCommon(p) /\ ~Reply(p)
  BY <1>2, <1>8, NothingInCommonReads DEF FindCommon, At
<1> QED
  BY <1>3, <1>4, <1>5, <1>6, <1>7, <1>8


\* The relationship of the caller, on behalf of a DELETE: who found the same
\* one before still holds the invites it updated then.
LEMMA FindMineReads ==
  ASSUME IInv, NEW p \in Request, UNCHANGED accounts,
         NEW next \in {"endInvites", "delete", "eraseRelationship"},
         \/ session[p].at = "find" /\ next = "endInvites"
         \/ session[p].at = "findAgain" /\ next = "delete"
         \/ session[p].at = "findErased" /\ next = "eraseRelationship",
         FindMine(p, next)
  PROVE  Reads(p)
<1>1. TypeOK /\ session[p] \in Session /\ Sound(session[p])
  BY Running DEF IInv
<1>2. PICK r \in Relationship : /\ RelationshipsOf(session[p].me) = {r}
                                /\ Move(p, [session[p] EXCEPT !.at = next, !.rel = r])
  BY DEF FindMine
<1> DEFINE s == [session[p] EXCEPT !.at = next, !.rel = r]
<1>3. /\ s \in Session /\ s.at = next /\ s.rel = r
      /\ s.me = session[p].me /\ s.ended = session[p].ended
  <2>1. next \in Step
    BY DEF Step
  <2> QED
    BY <1>1, <2>1 DEF Session
<1>4. s.me \in User /\ <<r, s.me>> \in members
  <2>1. s.me \in User
    BY <1>1, <1>3 DEF Sound, SoundCaller, Registering
  <2> QED
    BY <1>2, <1>3, <2>1 DEF RelationshipsOf
<1>5. \A i \in s.ended : invites[i].status = "accepted" /\ invites[i].rel = r
  <2> SUFFICES ASSUME NEW i \in s.ended
               PROVE  invites[i].status = "accepted" /\ invites[i].rel = r
    OBVIOUS
  <2>1. /\ session[p].at = "findAgain"
        /\ invites[i].status = "accepted" /\ invites[i].rel = session[p].rel
    BY <1>1, <1>3 DEF Sound, SoundEnded
  <2>2. i \in Invite /\ session[p].rel \in Relationship
    BY <1>1, <1>3, <2>1 DEF Session, Sound, SoundRelationship, Leaving
  <2>3. relationships[session[p].rel] = "live" /\ users[s.me] = "live"
    BY <2>1, <2>2, <1>4, Constants DEF IInv, TableInv, NoDanglingReference
  <2>4. <<session[p].rel, s.me>> \in members
    BY <1>1, <1>3, <2>1, <2>3 DEF Sound, SoundRelationship, Leaving
  <2>5. session[p].rel = r
    BY <1>2, <1>3, <2>2, <2>4 DEF RelationshipsOf
  <2> QED
    BY <2>1, <2>5
<1>6. SoundCaller(s)
  BY <1>1, <1>3 DEF Sound, SoundCaller, Registering, Inviting, Erasing, Session
<1>7. SoundInvite(s) /\ SoundPair(s)
  BY <1>3 DEF SoundInvite, SoundPair, Answering, Pairing
<1>8. SoundRelationship(s)
  <2>1. relationships[r] = "live"
    BY <1>4, Constants DEF IInv, TableInv, NoDanglingReference
  <2> QED
    BY <1>3, <1>4, <2>1 DEF SoundRelationship
<1>9. SoundEnded(s)
  BY <1>1, <1>3, <1>5 DEF Sound, SoundEnded
<1>10. Sound(s)
  BY <1>6, <1>7, <1>8, <1>9 DEF Sound
<1>11. UNCHANGED <<tables, accounts>>
  BY DEF FindMine
<1> QED
  BY <1>1, <1>2, <1>3, <1>10, <1>11, MoveReads

LEMMA LeaveReads ==
  ASSUME IInv, NEW p \in Request, UNCHANGED accounts,
         FindToLeave(p) \/ EndInvites(p) \/ FindAgain(p)
  PROVE  Reads(p)
<1>1. TypeOK /\ session[p] \in Session /\ Sound(session[p])
  BY Running DEF IInv
<1>2. CASE Reply(p) /\ UNCHANGED tables
  BY <1>1, <1>2, ReplyMoves DEF Reads
<1>3. CASE session[p].at = "find" /\ FindMine(p, "endInvites")
  BY <1>3, FindMineReads
<1>4. CASE session[p].at = "findAgain" /\ FindMine(p, "delete")
  BY <1>4, FindMineReads
<1>5. CASE EndInvites(p)
  <2> DEFINE hit == AcceptedFor(session[p].rel)
             s == [session[p] EXCEPT !.at = "findAgain", !.ended = hit]
  <2>1. session[p].at = "endInvites" /\ UNCHANGED tables /\ Move(p, s)
    BY <1>5 DEF EndInvites, At
  <2>2. s \in Session /\ s.at = "findAgain" /\ s.ended = hit
        /\ s.me = session[p].me /\ s.rel = session[p].rel
    <3>1. "findAgain" \in Step
      BY DEF Step
    <3> QED
      BY <1>1, <3>1 DEF Session, AcceptedFor
  <2>3. SoundCaller(s)
    BY <1>1, <2>1, <2>2 DEF Sound, SoundCaller, Registering, Inviting, Erasing
  <2>4. SoundInvite(s) /\ SoundPair(s)
    BY <2>2 DEF SoundInvite, SoundPair, Answering, Pairing
  <2>5. SoundRelationship(s)
    BY <1>1, <2>1, <2>2 DEF Sound, SoundRelationship, Leaving
  <2>6. SoundEnded(s)
    BY <2>2 DEF SoundEnded, AcceptedFor
  <2>7. Sound(s)
    BY <2>3, <2>4, <2>5, <2>6 DEF Sound
  <2>8. \A i \in s.ended : ~Locked(p, i)
    BY <1>5, <2>2 DEF EndInvites
  <2> QED
    BY <1>1, <2>1, <2>2, <2>7, <2>8, MoveReads
<1> QED
  BY <1>2, <1>3, <1>4, <1>5 DEF FindToLeave, FindAgain, At

\* The steps of an erasure and a registration that only look, and a failure.
LEMMA AccountReads ==
  ASSUME IInv, NEW p \in Request,
         \/ CheckEmail(p) \/ FindErased(p) \/ (Fail(p) /\ UNCHANGED accounts)
         \/ LoadUser(p, "load", "authDelete") \/ LoadUser(p, "reload", "eraseUser")
  PROVE  Reads(p)
<1>1. TypeOK /\ session[p] \in Session /\ Sound(session[p])
  BY Running DEF IInv
<1>2. UNCHANGED <<tables, accounts>>
  BY DEF CheckEmail, FindErased, FindMine, LoadUser, Fail
<1>3. CASE Reply(p)
  BY <1>1, <1>2, <1>3, ReplyMoves DEF Reads
<1>4. CASE session[p].at = "findErased" /\ FindMine(p, "eraseRelationship")
  BY <1>2, <1>4, FindMineReads
<1>5. ASSUME NEW next \in {"addUser", "authDelete", "reload", "eraseUser"},
             \/ session[p].at = "email" /\ next = "addUser"
             \/ session[p].at = "load" /\ next = "authDelete"
             \/ session[p].at = "findErased" /\ next = "reload"
             \/ session[p].at = "reload" /\ next = "eraseUser",
             Move(p, [session[p] EXCEPT !.at = next])
      PROVE  Reads(p)
  <2> DEFINE s == [session[p] EXCEPT !.at = next]
  <2>1. s \in Session /\ s.at = next /\ s.me = session[p].me /\ s.sub = session[p].sub
        /\ s.ended = session[p].ended
    BY <1>1 DEF Session, Step
  <2>2. s.ended = {}
    BY <1>1, <1>5, <2>1 DEF Sound, SoundEnded
  <2>3. SoundCaller(s)
    BY <1>1, <1>5, <2>1 DEF Sound, SoundCaller, Registering, Inviting, Erasing
  <2>4. SoundInvite(s) /\ SoundPair(s) /\ SoundRelationship(s) /\ SoundEnded(s)
    BY <2>1, <2>2 DEF SoundInvite, SoundPair, SoundRelationship, SoundEnded,
                      Answering, Pairing, Leaving
  <2>5. Sound(s)
    BY <2>3, <2>4 DEF Sound
  <2> QED
    BY <1>1, <1>2, <1>5, <2>1, <2>2, <2>5, MoveReads
<1> QED
  BY <1>3, <1>4, <1>5 DEF CheckEmail, FindErased, Fail, LoadUser, At

\* A DELETE that has taken its row, and not yet come to the invites.
LEMMA LocksRead ==
  ASSUME IInv, NEW p \in Request, UNCHANGED accounts,
         LockToLeave(p) \/ LockToErase(p) \/ LockUser(p)
  PROVE  Reads(p)
<1>1. TypeOK /\ session[p] \in Session /\ Sound(session[p])
  BY Running DEF IInv
<1>2. ASSUME NEW here, NEW next,
             <<here, next>> \in {<<"delete", "leaveCascade">>,
                               <<"eraseRelationship", "relationshipCascade">>,
                               <<"eraseUser", "userCascade">>},
             At(p, here), Move(p, [session[p] EXCEPT !.at = next]), UNCHANGED tables
      PROVE  Reads(p)
  <2> DEFINE s == [session[p] EXCEPT !.at = next]
  <2>1. session[p].at = here /\ next \in Step
    BY <1>2 DEF At, Step
  <2>2. /\ s \in Session /\ s.at = next /\ s.me = session[p].me /\ s.rel = session[p].rel
        /\ s.ended = session[p].ended
    BY <1>1, <2>1 DEF Session
  <2>3. SoundCaller(s)
    BY <1>1, <1>2, <2>1, <2>2 DEF Sound, SoundCaller, Registering, Inviting, Erasing
  <2>4. SoundInvite(s) /\ SoundPair(s)
    BY <1>2, <2>2 DEF SoundInvite, SoundPair, Answering, Pairing
  <2>5. SoundRelationship(s)
    BY <1>1, <1>2, <2>1, <2>2 DEF Sound, SoundRelationship, Leaving
  <2>6. SoundEnded(s)
    BY <1>1, <1>2, <2>1, <2>2 DEF Sound, SoundEnded
  <2>7. Sound(s)
    BY <2>3, <2>4, <2>5, <2>6 DEF Sound
  <2> QED
    BY <1>1, <1>2, <2>2, <2>7, MoveReads
<1> QED
  BY <1>2 DEF LockToLeave, LockToErase, LockRelationship, LockUser

-----------------------------------------------------------------------------
(* Steps that write.  Each shows that the tables stay right and that they  *)
(* only grow, which keeps the requests that wait sound.                    *)

\* The steps of a request that change a table; all its others only read.
LEMMA StepsThatWrite ==
  ASSUME NEW p \in Request, Begin(p) \/ Handle(p) \/ Fail(p)
  PROVE  \/ UNCHANGED tables
         \/ MarkExpired(p) \/ MarkDeclined(p) \/ AddInvite(p) \/ Pair(p)
         \/ Leave(p) \/ EraseRelationship(p) \/ AddUser(p) \/ EraseUser(p)
BY DEF Begin, BeginInviteRequest, BeginRelationshipRequest, BeginErase, BeginRegister,
       BeginInvite, BeginPending, BeginDecline, BeginAccept, BeginLeave,
       Handle, InviteStep, RelationshipStep, AccountStep, Fail,
       CountRecent, CheckDuplicate, GetPending, LoadToDecline,
       LoadInvite, LoadInviter, FindMyMember, FindTheirMember, FindCommon,
       FindToLeave, FindMine, EndInvites, FindAgain, LockToLeave, LockToErase,
       LockRelationship, LockUser, CheckEmail, LoadUser, DeleteAuthUser, FindErased

\* No invite becomes pending, or recent, or somebody else's.
NoNewPending ==
  \A i \in Invite : invites'[i].status = "pending" /\ invites'[i].inviter # Null =>
    /\ invites[i].status = "pending"
    /\ invites'[i].inviter = invites[i].inviter
    /\ invites'[i].to = invites[i].to
    /\ invites'[i].age = "recent" => invites[i].age = "recent"

LEMMA WritesKeepInv ==
  ASSUME IInv, NEW p \in Request, Moves(p), Grows(Request \ {p}),
         users' \in [User -> RowLife], relationships' \in [Relationship -> RowLife],
         members' \subseteq Relationship \X User, invites' \in [Invite -> InviteRow],
         accounts' \in [Sub -> AccountState], TableInv'
  PROVE  IInv'
<1>1. SessionInv' /\ OneWriterPerInvite'
  BY SessionsStaySound DEF IInv
<1>2. TypeOK'
  BY DEF TypeOK, Moves
<1> QED
  BY <1>1, <1>2 DEF IInv

\* The couples that are left have been invited, as long as nobody joins.
LEMMA InvitationsStay ==
  ASSUME InvitedByARow, NEW W, Grows(W), members' \subseteq members
  PROVE  InvitedByARow'
<1> SUFFICES ASSUME NEW r \in Relationship, NEW u \in MembersOf(r)', NEW v \in MembersOf(r)', u # v
             PROVE  \E i \in Invite :
                      /\ invites'[i].status # "absent"
                      /\ {invites'[i].from, invites'[i].to} = {MailOf(u), MailOf(v)}
  BY DEF InvitedByARow
<1>1. u \in MembersOf(r) /\ v \in MembersOf(r)
  BY DEF MembersOf
<1>2. PICK i \in Invite : /\ invites[i].status # "absent"
                         /\ {invites[i].from, invites[i].to} = {MailOf(u), MailOf(v)}
  BY <1>1 DEF InvitedByARow
<1> QED
  BY <1>2 DEF Grows

\* An invite no other request has updated gets another status.
LEMMA StatusChangeKeepsInv ==
  ASSUME IInv, NEW p \in Request, NEW i \in Invite, NEW status \in InviteStatus,
         invites[i].status # "absent", ~Locked(p, i),
         status = "pending" => invites[i].status = "pending",
         status = "expired" => IsExpired(i),
         invites' = [invites EXCEPT ![i].status = status], Reply(p),
         UNCHANGED <<users, relationships, members, accounts>>
  PROVE  IInv'
<1>1. TypeOK /\ TableInv
  BY DEF IInv
<1>2. Moves(p)
  BY <1>1, ReplyMoves
<1>3. invites' \in [Invite -> InviteRow]
  BY <1>1 DEF TypeOK, InviteRow
<1>4. \A j \in Invite :
        /\ invites'[j].inviter = invites[j].inviter /\ invites'[j].from = invites[j].from
        /\ invites'[j].to = invites[j].to /\ invites'[j].rel = invites[j].rel
        /\ invites'[j].age = invites[j].age
        /\ invites'[j].status = IF j = i THEN status ELSE invites[j].status
  BY <1>1 DEF TypeOK, InviteRow
<1>5. Grows(Request \ {p})
  <2>1. \A q \in Request \ {p} : session[q].ended \subseteq Invite \ {i}
    BY Running DEF Locked
  <2> QED
    BY <1>4, <2>1 DEF Grows, InviteStatus, IsExpired
<1>6. RowsHaveAccounts' /\ OneRowPerAddress' /\ AuthGoesFirst'
  BY <1>1 DEF TableInv, RowsHaveAccounts, OneRowPerAddress, AuthGoesFirst, LiveUsers
<1>7. NoDanglingReference' /\ PendingIsUnlinked' /\ ExpiredOnlyWhenDue'
  BY <1>1, <1>4
  DEF TableInv, NoDanglingReference, PendingIsUnlinked, ExpiredOnlyWhenDue, IsExpired
<1>8. LinkedInviteNamesTheCouple'
  BY <1>1, <1>4 DEF TableInv, LinkedInviteNamesTheCouple, MembersOf
<1>9. InvitedByARow'
  BY <1>1, <1>5, InvitationsStay DEF TableInv
<1> QED
  BY <1>1, <1>2, <1>3, <1>5, <1>6, <1>7, <1>8, <1>9, WritesKeepInv DEF TableInv, TypeOK

LEMMA MarkKeepsInv ==
  ASSUME IInv, NEW p \in Request, UNCHANGED accounts, MarkExpired(p) \/ MarkDeclined(p)
  PROVE  IInv'
<1>1. TypeOK /\ session[p] \in Session /\ Sound(session[p])
  BY Running DEF IInv
<1>2. CASE MarkExpired(p)
  <2>1. session[p].inv \in Invite /\ invites[session[p].inv].status # "absent"
        /\ IsExpired(session[p].inv)
    BY <1>1, <1>2 DEF MarkExpired, At, Sound, SoundInvite
  <2> QED
    BY <1>2, <2>1, StatusChangeKeepsInv DEF MarkExpired, InviteStatus
<1>3. CASE MarkDeclined(p)
  <2> DEFINE i == session[p].inv
             status == StatusWrite(i, session[p].seen, "declined")
  <2>1. i \in Invite /\ invites[i].status # "absent"
        /\ (session[p].seen # "pending" => invites[i].status # "pending")
    BY <1>1, <1>3 DEF MarkDeclined, At, Sound, SoundInvite, Answering
  <2>2. status \in InviteStatus /\ (status = "pending" => invites[i].status = "pending")
    BY <1>1, <2>1 DEF StatusWrite, TypeOK, InviteRow, InviteStatus
  <2>3. status = "expired" => IsExpired(i)
    BY <2>1 DEF IInv, TableInv, ExpiredOnlyWhenDue, StatusWrite
  <2> QED
    BY <1>3, <2>1, <2>2, <2>3, StatusChangeKeepsInv DEF MarkDeclined
<1> QED
  BY <1>2, <1>3

LEMMA AddInviteKeepsInv ==
  ASSUME IInv, NEW p \in Request, UNCHANGED accounts, AddInvite(p)
  PROVE  IInv'
<1>1. TypeOK /\ TableInv /\ session[p] \in Session /\ Sound(session[p])
  BY Running DEF IInv
<1>2. Moves(p)
  BY <1>1, ReplyMoves DEF AddInvite
<1>3. CASE UNCHANGED invites
  BY <1>2, <1>3, ReadsKeepInv DEF AddInvite, Reads, tables
<1>4. CASE /\ users[session[p].me] = "live"
           /\ \E i \in Invite :
                /\ invites[i].status = "absent"
                /\ invites' = [invites EXCEPT ![i] = NewInvite(session[p].me, session[p].to)]
  <2> DEFINE u == session[p].me
             a == session[p].to
  <2>1. PICK i \in Invite : /\ invites[i].status = "absent"
                            /\ invites' = [invites EXCEPT ![i] = NewInvite(u, a)]
    BY <1>4
  <2>2. u \in User /\ a \in Address /\ users[u] = "live"
    BY <1>1, <1>4 DEF AddInvite, At, Sound, SoundCaller, Inviting, Registering
  <2>3. invites' \in [Invite -> InviteRow]
    BY <1>1, <2>1, <2>2, Constants DEF TypeOK, InviteRow, NewInvite, InviteStatus, InviteAge
  <2>4. /\ invites'[i] = NewInvite(u, a)
        /\ \A j \in Invite \ {i} : invites'[j] = invites[j]
    BY <1>1, <2>1 DEF TypeOK
  <2>5. UNCHANGED <<users, relationships, members>>
    BY DEF AddInvite
  <2>6. Grows(Request \ {p})
    <3>1. \A q \in Request \ {p} : session[q].ended \subseteq Invite \ {i}
      BY <2>1, Running DEF Sound, SoundEnded
    <3> QED
      BY <2>1, <2>4, <2>5, <3>1 DEF Grows, IsExpired
  <2>7. RowsHaveAccounts' /\ OneRowPerAddress' /\ AuthGoesFirst'
    BY <1>1, <2>5 DEF TableInv, RowsHaveAccounts, OneRowPerAddress, AuthGoesFirst, LiveUsers
  <2>8. NoDanglingReference' /\ PendingIsUnlinked' /\ ExpiredOnlyWhenDue'
    BY <1>1, <2>2, <2>4, <2>5
    DEF TableInv, NoDanglingReference, PendingIsUnlinked, ExpiredOnlyWhenDue, IsExpired, NewInvite
  <2>9. LinkedInviteNamesTheCouple'
    BY <1>1, <2>4, <2>5 DEF TableInv, LinkedInviteNamesTheCouple, MembersOf, NewInvite
  <2>10. InvitedByARow'
    BY <1>1, <2>5, <2>6, InvitationsStay DEF TableInv
  <2> QED
    BY <1>1, <1>2, <2>3, <2>5, <2>6, <2>7, <2>8, <2>9, <2>10, WritesKeepInv DEF TableInv, TypeOK
<1> QED
  BY <1>3, <1>4 DEF AddInvite

\* The one step that joins two users.
LEMMA PairKeepsInv ==
  ASSUME IInv, NEW p \in Request, UNCHANGED accounts, Pair(p)
  PROVE  IInv'
<1> DEFINE s == session[p]
           i == s.inv
<1>1. TypeOK /\ TableInv /\ s \in Session /\ Sound(s)
  BY Running DEF IInv
<1>2. Moves(p)
  BY <1>1, ReplyMoves DEF Pair
<1>3. CASE UNCHANGED <<relationships, members, invites>>
  BY <1>2, <1>3, ReadsKeepInv DEF Pair, Reads, tables
<1>4. CASE /\ BothExist(p)
           /\ ~Locked(p, i)
           /\ \E r \in Relationship :
                /\ relationships[r] = "absent"
                /\ relationships' = [relationships EXCEPT ![r] = "live"]
                /\ members' = members \cup {<<r, s.me>>, <<r, s.other>>}
                /\ MarkAccepted(i, s.seen, r)
  <2>1. PICK r \in Relationship :
          /\ relationships[r] = "absent"
          /\ relationships' = [relationships EXCEPT ![r] = "live"]
          /\ members' = members \cup {<<r, s.me>>, <<r, s.other>>}
          /\ MarkAccepted(i, s.seen, r)
    BY <1>4
  <2>2. /\ s.me \in User /\ s.other \in User /\ i \in Invite /\ s.me # s.other
        /\ users[s.me] = "live" /\ users[s.other] = "live"
        /\ MailOf(s.other) = invites[i].from /\ MailOf(s.me) = invites[i].to
        /\ invites[i].status # "absent"
        /\ s.seen # "pending" => invites[i].status # "pending"
    BY <1>1, <1>4 DEF Pair, At, BothExist, Sound, SoundCaller, SoundInvite, SoundPair,
                      Registering, Answering, Pairing
  <2>3. invites[i].from # invites[i].to
    BY <1>1, <2>2 DEF TableInv, OneRowPerAddress, LiveUsers
  <2> DEFINE status == StatusWrite(i, s.seen, "accepted")
  <2>4. /\ status \in InviteStatus \ {"pending"}
        /\ status # invites[i].status => status = "accepted"
    BY <1>1, <2>2 DEF StatusWrite, TypeOK, InviteRow, InviteStatus
  <2>5. invites' = [invites EXCEPT ![i].status = status, ![i].rel = r]
    BY <2>1 DEF MarkAccepted
  <2> HIDE DEF status
  <2>6. invites' \in [Invite -> InviteRow]
    BY <1>1, <2>2, <2>4, <2>5 DEF TypeOK, InviteRow
  <2>7. \A j \in Invite :
          /\ invites'[j].inviter = invites[j].inviter /\ invites'[j].from = invites[j].from
          /\ invites'[j].to = invites[j].to /\ invites'[j].age = invites[j].age
          /\ invites'[j].rel = IF j = i THEN r ELSE invites[j].rel
          /\ invites'[j].status = IF j = i THEN status ELSE invites[j].status
    BY <1>1, <2>5 DEF TypeOK, InviteRow
  <2>8. /\ relationships' \in [Relationship -> RowLife]
        /\ relationships'[r] = "live"
        /\ \A q \in Relationship \ {r} : relationships'[q] = relationships[q]
        /\ members' \subseteq Relationship \X User
        /\ users' = users
    BY <1>1, <2>1, <2>2 DEF TypeOK, RowLife, Pair
  <2>9. /\ \A m \in members : m[1] # r
        /\ \A j \in Invite : invites[j].rel # r
    BY <1>1, <2>1, Constants DEF TableInv, NoDanglingReference
  <2>10. Grows(Request \ {p})
    <3>1. \A q \in Request \ {p} : session[q].ended \subseteq Invite \ {i}
      BY <1>4, Running DEF Locked
    <3> QED
      BY <2>1, <2>4, <2>7, <2>8, <3>1 DEF Grows, InviteStatus, IsExpired
  <2>11. RowsHaveAccounts' /\ OneRowPerAddress' /\ AuthGoesFirst'
    BY <1>1, <2>8 DEF TableInv, RowsHaveAccounts, OneRowPerAddress, AuthGoesFirst, LiveUsers
  <2>12. NoDanglingReference'
    <3>1. \A m \in members' : relationships'[m[1]] = "live" /\ users'[m[2]] = "live"
      BY <1>1, <2>1, <2>2, <2>8, <2>9 DEF TableInv, NoDanglingReference, TypeOK
    <3>2. \A j \in Invite : invites'[j].rel # Null => relationships'[invites'[j].rel] = "live"
      BY <1>1, <2>7, <2>8, <2>9 DEF TableInv, NoDanglingReference, TypeOK, InviteRow
    <3>3. \A j \in Invite : invites'[j].inviter # Null => users'[invites'[j].inviter] = "live"
      BY <1>1, <2>7, <2>8 DEF TableInv, NoDanglingReference
    <3> QED
      BY <3>1, <3>2, <3>3 DEF NoDanglingReference
  <2>13. PendingIsUnlinked' /\ ExpiredOnlyWhenDue'
    BY <1>1, <2>4, <2>7 DEF TableInv, PendingIsUnlinked, ExpiredOnlyWhenDue, IsExpired
  <2>14. \A u \in User : (<<r, u>> \in members' => u \in {s.me, s.other})
                         /\ \A q \in Relationship \ {r} :
                              <<q, u>> \in members' <=> <<q, u>> \in members
    BY <2>1, <2>9
  <2>15. LinkedInviteNamesTheCouple'
    <3>1. ASSUME NEW j \in Invite, invites'[j].rel # Null, NEW u \in User,
                 <<invites'[j].rel, u>> \in members'
          PROVE  MailOf(u) \in {invites'[j].from, invites'[j].to}
      <4>1. CASE j = i
        BY <2>2, <2>7, <2>14, <3>1, <4>1
      <4>2. CASE j # i
        <5>1. invites[j].rel \in Relationship \ {r} /\ invites'[j].rel = invites[j].rel
          BY <1>1, <2>7, <2>9, <3>1, <4>2 DEF TypeOK, InviteRow
        <5>2. u \in MembersOf(invites[j].rel)
          BY <2>14, <3>1, <5>1 DEF MembersOf
        <5> QED
          BY <1>1, <2>7, <3>1, <5>1, <5>2 DEF TableInv, LinkedInviteNamesTheCouple
      <4> QED
        BY <4>1, <4>2
    <3>2. ASSUME NEW j \in Invite, invites'[j].rel # Null
          PROVE  invites'[j].from # invites'[j].to
      BY <1>1, <2>3, <2>7, <3>2 DEF TableInv, LinkedInviteNamesTheCouple
    <3> QED
      BY <3>1, <3>2 DEF LinkedInviteNamesTheCouple, MembersOf
  <2>16. InvitedByARow'
    <3> SUFFICES ASSUME NEW q \in Relationship, NEW u \in MembersOf(q)', NEW v \in MembersOf(q)',
                        u # v
                 PROVE  \E j \in Invite :
                          /\ invites'[j].status # "absent"
                          /\ {invites'[j].from, invites'[j].to} = {MailOf(u), MailOf(v)}
      BY DEF InvitedByARow
    <3>1. CASE q = r
      <4>1. {u, v} = {s.me, s.other}
        BY <2>14, <3>1 DEF MembersOf
      <4>2. /\ invites'[i].status # "absent"
            /\ {invites'[i].from, invites'[i].to} = {MailOf(s.me), MailOf(s.other)}
        BY <2>2, <2>4, <2>7 DEF InviteStatus
      <4>3. {MailOf(u), MailOf(v)} = {MailOf(s.me), MailOf(s.other)}
        BY <4>1
      <4> QED
        BY <2>2, <4>2, <4>3
    <3>2. CASE q # r
      <4>1. u \in MembersOf(q) /\ v \in MembersOf(q)
        BY <2>14, <3>2 DEF MembersOf
      <4>2. PICK j \in Invite : /\ invites[j].status # "absent"
                                /\ {invites[j].from, invites[j].to} = {MailOf(u), MailOf(v)}
        <5>1. InvitedByARow
          BY <1>1 DEF TableInv
        <5> QED
          BY <3>2, <4>1, <5>1 DEF InvitedByARow
      <4> QED
        BY <2>10, <4>2 DEF Grows
    <3> QED
      BY <3>1, <3>2
  <2> QED
    BY <1>1, <1>2, <2>6, <2>8, <2>10, <2>11, <2>12, <2>13, <2>15, <2>16, WritesKeepInv
    DEF TableInv, TypeOK
<1> QED
  BY <1>3, <1>4 DEF Pair

\* A relationship is deleted, with its members, and its invites are unlinked.
LEMMA DeleteKeepsInv ==
  ASSUME IInv, NEW p \in Request, UNCHANGED accounts, Moves(p), DeleteRelationship(p),
         session[p].rel \in Relationship
  PROVE  IInv'
<1> DEFINE s == session[p]
           d == s.rel
<1>1. TypeOK /\ TableInv /\ s \in Session /\ Sound(s)
  BY Running DEF IInv
<1>2. \A i \in s.ended : i \in Invite /\ invites[i].status = "accepted"
  BY <1>1, Running DEF Sound, SoundEnded
<1>3. invites' = [i \in Invite |->
        [invites[i] EXCEPT !.rel = IF @ = d THEN Null ELSE @,
                           !.status = IF i \in s.ended THEN "ended" ELSE @]]
  BY DEF DeleteRelationship
<1>4. invites' \in [Invite -> InviteRow]
  <2>1. ASSUME NEW i \in Invite
        PROVE  [invites[i] EXCEPT !.rel = IF @ = d THEN Null ELSE @,
                                  !.status = IF i \in s.ended THEN "ended" ELSE @] \in InviteRow
    <3>1. invites[i] \in InviteRow
      BY <1>1 DEF TypeOK
    <3>2. "ended" \in InviteStatus
      BY DEF InviteStatus
    <3> QED
      BY <3>1, <3>2 DEF InviteRow
  <2> QED
    BY <1>3, <2>1
<1>5. \A j \in Invite :
        /\ invites'[j].inviter = invites[j].inviter /\ invites'[j].from = invites[j].from
        /\ invites'[j].to = invites[j].to /\ invites'[j].age = invites[j].age
        /\ invites'[j].rel = IF invites[j].rel = d THEN Null ELSE invites[j].rel
        /\ invites'[j].status = IF j \in s.ended THEN "ended" ELSE invites[j].status
  BY <1>1, <1>3 DEF TypeOK, InviteRow
<1>6. /\ relationships' \in [Relationship -> RowLife]
      /\ relationships'[d] = "gone"
      /\ \A q \in Relationship \ {d} : relationships'[q] = relationships[q]
      /\ members' = {m \in members : m[1] # d}
      /\ users' = users
  BY <1>1 DEF TypeOK, RowLife, DeleteRelationship
<1>7. members' \subseteq members /\ members' \subseteq Relationship \X User
  BY <1>1, <1>6 DEF TypeOK
<1>8. Grows(Request \ {p})
  <2>1. \A q \in Request \ {p} : \A i \in session[q].ended :
          i \in Invite /\ i \notin s.ended /\ invites[i].rel # d
    BY Running DEF DeleteRelationship, Locked
  <2>2. \A i \in Invite : invites[i].status # "absent" =>
          /\ invites'[i].status # "absent"
          /\ invites'[i].from = invites[i].from /\ invites'[i].to = invites[i].to
          /\ invites[i].status # "pending" => invites'[i].status # "pending"
          /\ IsExpired(i) => IsExpired(i)'
    BY <1>5 DEF IsExpired
  <2>3. \A m \in members :
          m \in members' \/ users'[m[2]] = "gone" \/ relationships'[m[1]] = "gone"
    BY <1>6
  <2> QED
    BY <1>5, <1>6, <2>1, <2>2, <2>3 DEF Grows
<1>9. RowsHaveAccounts' /\ OneRowPerAddress' /\ AuthGoesFirst'
  BY <1>1, <1>6 DEF TableInv, RowsHaveAccounts, OneRowPerAddress, AuthGoesFirst, LiveUsers
<1>10. NoDanglingReference'
  <2>1. \A m \in members' : relationships'[m[1]] = "live" /\ users'[m[2]] = "live"
    BY <1>1, <1>6 DEF TableInv, NoDanglingReference, TypeOK
  <2>2. \A i \in Invite : invites'[i].rel # Null => relationships'[invites'[i].rel] = "live"
    BY <1>1, <1>5, <1>6 DEF TableInv, NoDanglingReference, TypeOK, InviteRow
  <2>3. \A i \in Invite : invites'[i].inviter # Null => users'[invites'[i].inviter] = "live"
    BY <1>1, <1>5, <1>6 DEF TableInv, NoDanglingReference
  <2> QED
    BY <2>1, <2>2, <2>3 DEF NoDanglingReference
<1>11. PendingIsUnlinked' /\ ExpiredOnlyWhenDue'
  BY <1>1, <1>5 DEF TableInv, PendingIsUnlinked, ExpiredOnlyWhenDue, IsExpired
<1>12. LinkedInviteNamesTheCouple'
  BY <1>1, <1>5, <1>7 DEF TableInv, LinkedInviteNamesTheCouple, MembersOf
<1>13. InvitedByARow'
  BY <1>1, <1>7, <1>8, InvitationsStay DEF TableInv
<1> QED
  BY <1>1, <1>4, <1>6, <1>7, <1>8, <1>9, <1>10, <1>11, <1>12, <1>13, WritesKeepInv
  DEF TableInv, TypeOK

LEMMA LeaveKeepsInv ==
  ASSUME IInv, NEW p \in Request, UNCHANGED accounts, Leave(p)
  PROVE  IInv'
<1>1. TypeOK /\ Sound(session[p])
  BY Running DEF IInv
<1>2. session[p].rel \in Relationship
  BY <1>1 DEF Leave, At, Sound, SoundRelationship, Leaving
<1>3. Moves(p)
  BY <1>1, ReplyMoves DEF Leave
<1> QED
  BY <1>2, <1>3, DeleteKeepsInv DEF Leave

LEMMA EraseRelationshipKeepsInv ==
  ASSUME IInv, NEW p \in Request, EraseRelationship(p)
  PROVE  IInv'
<1>0. PICK s : s = [session[p] EXCEPT !.at = "reload", !.rel = Null]
  OBVIOUS
<1>1. /\ TypeOK /\ session[p] \in Session /\ Sound(session[p])
      /\ session[p].at = "relationshipCascade"
  BY Running DEF IInv, EraseRelationship, At
<1>2. session[p].rel \in Relationship
  BY <1>1 DEF Sound, SoundRelationship
<1>3. /\ s \in Session /\ s.at = "reload"
      /\ s.me = session[p].me /\ s.ended = session[p].ended
  BY <1>0, <1>1 DEF Session, Step
<1>4. /\ session' \in [Request -> Session]
      /\ session'[p] = s
      /\ \A q \in Request \ {p} : session'[q] = session[q]
  BY <1>0, <1>1, <1>3 DEF EraseRelationship, Move, TypeOK
<1>5. s.ended = {}
  BY <1>1, <1>3 DEF Sound, SoundEnded
<1>6. SoundCaller(s)'
  BY <1>1, <1>3 DEF EraseRelationship, DeleteRelationship, Sound, SoundCaller,
                    Registering, Inviting, Erasing
<1>7. SoundInvite(s)' /\ SoundPair(s)' /\ SoundRelationship(s)' /\ SoundEnded(s)'
  BY <1>3, <1>5 DEF SoundInvite, SoundPair, SoundRelationship, SoundEnded,
                    Answering, Pairing, Leaving
<1>8. Sound(session[p])'
  <2>1. Sound(s)'
    BY <1>6, <1>7 DEF Sound
  <2> QED
    BY <1>4, <2>1
<1>9. Moves(p)
  BY <1>3, <1>4, <1>5, <1>8 DEF Moves
<1> QED
  BY <1>2, <1>9, DeleteKeepsInv DEF EraseRelationship

\* A users row is created: its address is free, and nothing names its id yet.
LEMMA AddUserKeepsInv ==
  ASSUME IInv, NEW p \in Request, AddUser(p)
  PROVE  IInv'
<1> DEFINE s == session[p].sub
<1>1. TypeOK /\ TableInv /\ Sound(session[p])
  BY Running DEF IInv
<1>2. Moves(p)
  BY <1>1, ReplyMoves DEF AddUser
<1>3. CASE UNCHANGED users
  BY <1>2, <1>3, ReadsKeepInv DEF AddUser, Reads, tables
<1>4. CASE ~Refused(s) /\ \E u \in FreeRows(s) : users' = [users EXCEPT ![u] = "live"]
  <2>1. PICK u \in FreeRows(s) : users' = [users EXCEPT ![u] = "live"]
    BY <1>4
  <2>2. u \in User /\ users[u] = "absent" /\ SubOf[u] = s
    BY DEF FreeRows
  <2>3. accounts[s] # "absent"
    BY <1>1 DEF AddUser, At, Sound, SoundCaller, Registering
  <2>4. /\ users' \in [User -> RowLife]
        /\ users'[u] = "live"
        /\ \A v \in User \ {u} : users'[v] = users[v]
    BY <1>1, <2>1, <2>2 DEF TypeOK, RowLife
  <2>5. UNCHANGED <<relationships, members, invites, accounts>>
    BY DEF AddUser
  <2>6. Grows(Request \ {p})
    BY <2>2, <2>4, <2>5 DEF Grows, IsExpired
  <2>7. RowsHaveAccounts' /\ AuthGoesFirst'
    BY <1>1, <2>2, <2>3, <2>4, <2>5 DEF TableInv, RowsHaveAccounts, AuthGoesFirst
  <2>8. OneRowPerAddress'
    <3>1. \A v \in User \ {u} : users[v] = "live" => MailOf(v) # MailOf(u)
      BY <1>4, <2>2 DEF Refused, EmailTaken, LiveUsers, MailOf
    <3>2. OneRowPerAddress
      BY <1>1 DEF TableInv
    <3> QED
      BY <2>2, <2>4, <3>1, <3>2 DEF OneRowPerAddress, LiveUsers
  <2>9. NoDanglingReference'
    BY <1>1, <2>2, <2>4, <2>5 DEF TableInv, NoDanglingReference, TypeOK, InviteRow
  <2>10. PendingIsUnlinked' /\ ExpiredOnlyWhenDue' /\ LinkedInviteNamesTheCouple'
    BY <1>1, <2>5 DEF TableInv, PendingIsUnlinked, ExpiredOnlyWhenDue, IsExpired,
                      LinkedInviteNamesTheCouple, MembersOf
  <2>11. InvitedByARow'
    BY <1>1, <2>5, <2>6, InvitationsStay DEF TableInv
  <2> QED
    BY <1>1, <1>2, <2>4, <2>5, <2>6, <2>7, <2>8, <2>9, <2>10, <2>11, WritesKeepInv
    DEF TableInv, TypeOK
<1> QED
  BY <1>3, <1>4 DEF AddUser

\* A users row is deleted; its Supabase account is gone before it.
LEMMA EraseUserKeepsInv ==
  ASSUME IInv, NEW p \in Request, EraseUser(p)
  PROVE  IInv'
<1> DEFINE u == session[p].me
<1>1. TypeOK /\ TableInv /\ Sound(session[p])
  BY Running DEF IInv
<1>2. Moves(p)
  BY <1>1, ReplyMoves DEF EraseUser
<1>3. u \in User /\ users[u] # "absent" /\ accounts[SubOf[u]] \in {"deleted", "expired"}
  BY <1>1 DEF EraseUser, At, Sound, SoundCaller, Registering, Erasing
<1>4. invites' = [i \in Invite |->
        [invites[i] EXCEPT !.inviter = IF @ = u THEN Null ELSE @]]
  BY DEF EraseUser
<1>5. invites' \in [Invite -> InviteRow]
  <2>1. ASSUME NEW i \in Invite
        PROVE  [invites[i] EXCEPT !.inviter = IF @ = u THEN Null ELSE @] \in InviteRow
    BY <1>1 DEF TypeOK, InviteRow
  <2> QED
    BY <1>4, <2>1
<1>6. \A j \in Invite :
        /\ invites'[j].inviter = IF invites[j].inviter = u THEN Null ELSE invites[j].inviter
        /\ invites'[j].from = invites[j].from /\ invites'[j].to = invites[j].to
        /\ invites'[j].age = invites[j].age /\ invites'[j].rel = invites[j].rel
        /\ invites'[j].status = invites[j].status
  BY <1>1, <1>4 DEF TypeOK, InviteRow
<1>7. /\ users' \in [User -> RowLife]
      /\ users'[u] = "gone"
      /\ \A v \in User \ {u} : users'[v] = users[v]
      /\ members' = {m \in members : m[2] # u}
      /\ UNCHANGED <<relationships, accounts>>
  BY <1>1, <1>3 DEF TypeOK, RowLife, EraseUser
<1>8. members' \subseteq members /\ members' \subseteq Relationship \X User
  BY <1>1, <1>7 DEF TypeOK
<1>9. Grows(Request \ {p})
  <2>1. \A q \in Request \ {p} : session[q].ended \subseteq Invite
    BY Running
  <2>2. \A i \in Invite : IsExpired(i) => IsExpired(i)'
    BY <1>6 DEF IsExpired
  <2> QED
    BY <1>6, <1>7, <2>1, <2>2 DEF Grows
<1>10. RowsHaveAccounts' /\ AuthGoesFirst'
  BY <1>1, <1>3, <1>7 DEF TableInv, RowsHaveAccounts, AuthGoesFirst
<1>11. OneRowPerAddress'
  BY <1>1, <1>7 DEF TableInv, OneRowPerAddress, LiveUsers
<1>12. NoDanglingReference'
  <2>1. \A m \in members' : relationships'[m[1]] = "live" /\ users'[m[2]] = "live"
    BY <1>1, <1>7 DEF TableInv, NoDanglingReference, TypeOK
  <2>2. \A i \in Invite : invites'[i].rel # Null => relationships'[invites'[i].rel] = "live"
    BY <1>1, <1>6, <1>7 DEF TableInv, NoDanglingReference
  <2>3. \A i \in Invite : invites'[i].inviter # Null => users'[invites'[i].inviter] = "live"
    BY <1>1, <1>6, <1>7 DEF TableInv, NoDanglingReference, TypeOK, InviteRow
  <2> QED
    BY <2>1, <2>2, <2>3 DEF NoDanglingReference
<1>13. PendingIsUnlinked' /\ ExpiredOnlyWhenDue'
  BY <1>1, <1>6 DEF TableInv, PendingIsUnlinked, ExpiredOnlyWhenDue, IsExpired
<1>14. LinkedInviteNamesTheCouple'
  BY <1>1, <1>6, <1>8 DEF TableInv, LinkedInviteNamesTheCouple, MembersOf
<1>15. InvitedByARow'
  BY <1>1, <1>8, <1>9, InvitationsStay DEF TableInv
<1> QED
  BY <1>1, <1>2, <1>5, <1>7, <1>8, <1>9, <1>10, <1>11, <1>12, <1>13, <1>14, <1>15,
     WritesKeepInv
  DEF TableInv, TypeOK

\* What is left of an invariant when only Supabase accounts change: no subject
\* becomes unknown again, and a removed one stays removed.
LEMMA AccountChange ==
  ASSUME TypeOK, TableInv, UNCHANGED tables, NEW W \in SUBSET Request,
         \A s \in Sub :
           /\ accounts[s] # "absent" => accounts'[s] # "absent"
           /\ accounts[s] \in {"deleted", "expired"} => accounts'[s] \in {"deleted", "expired"}
  PROVE  TableInv' /\ Grows(W)
<1>1. RowsHaveAccounts' /\ AuthGoesFirst'
  BY Constants DEF TableInv, RowsHaveAccounts, AuthGoesFirst, tables
<1>2. OneRowPerAddress' /\ NoDanglingReference' /\ ExpiredOnlyWhenDue' /\ PendingIsUnlinked'
  BY DEF TableInv, tables, OneRowPerAddress, LiveUsers, NoDanglingReference,
         ExpiredOnlyWhenDue, IsExpired, PendingIsUnlinked
<1>3. LinkedInviteNamesTheCouple' /\ InvitedByARow'
  BY DEF TableInv, tables, LinkedInviteNamesTheCouple, InvitedByARow, MembersOf
<1>4. Grows(W)
  BY DEF Grows, tables, IsExpired
<1> QED
  BY <1>1, <1>2, <1>3, <1>4 DEF TableInv

LEMMA DeleteAuthUserKeepsInv ==
  ASSUME IInv, NEW p \in Request, DeleteAuthUser(p)
  PROVE  IInv'
<1> DEFINE u == session[p].me
           remove == accounts' = [accounts EXCEPT ![SubOf[u]] = IF @ = "active" THEN "deleted" ELSE @]
<1>0. PICK s : s = [session[p] EXCEPT !.at = "findErased"]
  OBVIOUS
<1>1. /\ TypeOK /\ TableInv /\ session[p] \in Session /\ Sound(session[p])
      /\ session[p].at = "authDelete" /\ UNCHANGED tables
  BY Running DEF IInv, DeleteAuthUser, At
<1>2. u \in User /\ users[u] # "absent" /\ SubOf[u] \in Sub
  BY <1>1, Constants DEF Sound, SoundCaller, Registering
<1>3. accounts[SubOf[u]] # "absent"
  BY <1>1, <1>2 DEF TableInv, RowsHaveAccounts
<1>4. CASE UNCHANGED accounts /\ Reply(p)
  BY <1>1, <1>4, ReplyMoves, ReadsKeepInv DEF Reads
<1>5. CASE remove /\ (Reply(p) \/ Move(p, s))
  <2>1. /\ accounts' \in [Sub -> AccountState]
        /\ accounts'[SubOf[u]] \in {"deleted", "expired"}
        /\ \A t \in Sub \ {SubOf[u]} : accounts'[t] = accounts[t]
    BY <1>1, <1>2, <1>3, <1>5 DEF TypeOK, AccountState
  <2>2. TableInv' /\ Grows(Request \ {p})
    BY <1>1, <2>1, AccountChange
  <2>3. Moves(p)
    <3>1. CASE Reply(p)
      BY <1>1, <3>1, ReplyMoves
    <3>2. CASE Move(p, s)
      <4>1. s \in Session /\ s.at = "findErased" /\ s.me = u /\ s.ended = session[p].ended
        BY <1>0, <1>1 DEF Session, Step
      <4>2. s.ended = {}
        BY <1>1, <4>1 DEF Sound, SoundEnded
      <4>3. SoundCaller(s)'
        BY <1>1, <1>2, <2>1, <4>1 DEF SoundCaller, tables, Registering, Inviting, Erasing
      <4>4. SoundInvite(s)' /\ SoundPair(s)' /\ SoundRelationship(s)' /\ SoundEnded(s)'
        BY <4>1, <4>2 DEF SoundInvite, SoundPair, SoundRelationship, SoundEnded,
                          Answering, Pairing, Leaving
      <4>5. Sound(s)'
        BY <4>3, <4>4 DEF Sound
      <4>6. /\ session' \in [Request -> Session]
            /\ session'[p] = s
            /\ \A q \in Request \ {p} : session'[q] = session[q]
        BY <1>1, <3>2, <4>1 DEF Move, TypeOK
      <4> QED
        BY <4>2, <4>5, <4>6 DEF Moves
    <3> QED
      BY <1>5, <3>1, <3>2
  <2> QED
    BY <1>1, <2>1, <2>2, <2>3, WritesKeepInv DEF TypeOK, tables
<1> QED
  BY <1>0, <1>4, <1>5 DEF DeleteAuthUser

\* Time, Supabase and its users act while every request waits.
LEMMA EnvironmentKeepsInv ==
  ASSUME IInv, Environment
  PROVE  IInv'
<1>1. TypeOK /\ TableInv
  BY DEF IInv
<1>2. session' = session
  BY DEF Environment, Elapse, SignUp, TokenExpires, dbVars
<1>3. ASSUME Grows(Request) PROVE SessionInv' /\ OneWriterPerInvite'
  <2>1. \A q \in Request : Sound(session[q])'
    BY <1>1, <1>2, <1>3, WaitingStaysSound DEF IInv, SessionInv
  <2> QED
    BY <1>2, <2>1 DEF IInv, SessionInv, OneWriterPerInvite
<1>4. ASSUME NEW i \in Invite, Elapse(i), UNCHANGED accounts
      PROVE  IInv'
  <2>1. PICK age \in {"older", "lapsed"} : /\ invites[i].age # "lapsed"
                                           /\ invites' = [invites EXCEPT ![i].age = age]
    BY <1>4 DEF Elapse
  <2>2. invites' \in [Invite -> InviteRow]
    BY <1>1, <2>1 DEF TypeOK, InviteRow, InviteAge
  <2>3. \A j \in Invite :
          /\ invites'[j].inviter = invites[j].inviter /\ invites'[j].from = invites[j].from
          /\ invites'[j].to = invites[j].to /\ invites'[j].rel = invites[j].rel
          /\ invites'[j].status = invites[j].status
          /\ IsExpired(j) => IsExpired(j)'
    BY <1>1, <2>1 DEF TypeOK, InviteRow, IsExpired
  <2>4. UNCHANGED <<users, relationships, members, accounts>>
    BY <1>4 DEF Elapse
  <2>5. Grows(Request)
    <3>1. \A q \in Request : session[q].ended \subseteq Invite
      BY Running
    <3> QED
      BY <2>3, <2>4, <3>1 DEF Grows
  <2>6. RowsHaveAccounts' /\ OneRowPerAddress' /\ AuthGoesFirst'
    BY <1>1, <2>4 DEF TableInv, RowsHaveAccounts, OneRowPerAddress, AuthGoesFirst, LiveUsers
  <2>7. NoDanglingReference' /\ PendingIsUnlinked' /\ ExpiredOnlyWhenDue'
    BY <1>1, <2>3, <2>4 DEF TableInv, NoDanglingReference, PendingIsUnlinked, ExpiredOnlyWhenDue
  <2>8. LinkedInviteNamesTheCouple'
    BY <1>1, <2>3, <2>4 DEF TableInv, LinkedInviteNamesTheCouple, MembersOf
  <2>9. InvitedByARow'
    BY <1>1, <2>4, <2>5, InvitationsStay DEF TableInv
  <2> QED
    BY <1>1, <1>2, <1>3, <2>2, <2>4, <2>5, <2>6, <2>7, <2>8, <2>9 DEF IInv, TypeOK, TableInv
<1>5. ASSUME NEW s \in Sub, SignUp(s) \/ TokenExpires(s)
      PROVE  IInv'
  <2>1. UNCHANGED tables
    BY <1>5 DEF SignUp, TokenExpires, dbVars, tables
  <2>2. /\ accounts' \in [Sub -> AccountState]
        /\ \A t \in Sub :
             /\ accounts[t] # "absent" => accounts'[t] # "absent"
             /\ accounts[t] \in {"deleted", "expired"} => accounts'[t] \in {"deleted", "expired"}
    BY <1>1, <1>5 DEF SignUp, TokenExpires, TypeOK, AccountState
  <2>3. TableInv' /\ Grows(Request)
    BY <1>1, <2>1, <2>2, AccountChange
  <2> QED
    BY <1>1, <1>2, <1>3, <2>1, <2>2, <2>3 DEF IInv, TypeOK, tables
<1> QED
  BY <1>4, <1>5 DEF Environment

-----------------------------------------------------------------------------
(* The invariant, and what follows from it.                                *)

LEMMA InitKeepsInv == Init => IInv
<1> SUFFICES ASSUME Init PROVE IInv
  OBVIOUS
<1> USE DEF Init
<1>1. TypeOK
  <2>1. Idle \in Session
    BY DEF Idle, Session, Step
  <2>2. NoInvite \in InviteRow
    BY DEF NoInvite, InviteRow, InviteAge
  <2> QED
    BY <2>1, <2>2 DEF TypeOK, RowLife, AccountState
<1>2. RowsHaveAccounts /\ AuthGoesFirst
  BY DatabaseAssumption DEF DatabaseAssumption, RowsHaveAccounts, AuthGoesFirst
<1>3. OneRowPerAddress
  BY DatabaseAssumption DEF DatabaseAssumption, OneRowPerAddress, LiveUsers
<1>4. NoDanglingReference /\ PendingIsUnlinked /\ ExpiredOnlyWhenDue /\ LinkedInviteNamesTheCouple
  BY DEF NoDanglingReference, PendingIsUnlinked, ExpiredOnlyWhenDue, LinkedInviteNamesTheCouple,
         NoInvite
<1>5. InvitedByARow
  BY DEF InvitedByARow, MembersOf
<1>6. SessionInv
  BY DEF SessionInv, Idle, Sound, SoundCaller, SoundInvite, SoundPair, SoundRelationship, SoundEnded,
         Registering, Inviting, Erasing, Answering, Pairing, Leaving
<1>7. OneWriterPerInvite
  BY DEF OneWriterPerInvite, Idle
<1> QED
  BY <1>1, <1>2, <1>3, <1>4, <1>5, <1>6, <1>7 DEF IInv, TableInv

LEMMA NextKeepsInv == IInv /\ [Next]_vars => IInv'
<1> SUFFICES ASSUME IInv, [Next]_vars PROVE IInv'
  OBVIOUS
<1>1. ASSUME NEW p \in Request, Begin(p) PROVE IInv'
  BY <1>1, BeginReads, ReadsKeepInv
<1>2. ASSUME NEW p \in Request, InviteStep(p), UNCHANGED accounts PROVE IInv'
  <2>1. CASE CountRecent(p) \/ CheckDuplicate(p) \/ GetPending(p) \/ LoadToDecline(p)
    BY <1>2, <2>1, InviteReads, ReadsKeepInv
  <2>2. CASE MarkExpired(p) \/ MarkDeclined(p)
    BY <1>2, <2>2, MarkKeepsInv
  <2>3. CASE AddInvite(p)
    BY <1>2, <2>3, AddInviteKeepsInv
  <2> QED
    BY <1>2, <2>1, <2>2, <2>3 DEF InviteStep
<1>3. ASSUME NEW p \in Request, RelationshipStep(p), UNCHANGED accounts PROVE IInv'
  <2>1. CASE LoadInvite(p) \/ LoadInviter(p) \/ FindMyMember(p) \/ FindTheirMember(p) \/ FindCommon(p)
    BY <1>3, <2>1, AcceptReads, ReadsKeepInv
  <2>2. CASE FindToLeave(p) \/ EndInvites(p) \/ FindAgain(p)
    BY <1>3, <2>2, LeaveReads, ReadsKeepInv
  <2>3. CASE Pair(p)
    BY <1>3, <2>3, PairKeepsInv
  <2>4. CASE Leave(p)
    BY <1>3, <2>4, LeaveKeepsInv
  <2>5. CASE LockToLeave(p)
    BY <1>3, <2>5, LocksRead, ReadsKeepInv
  <2> QED
    BY <1>3, <2>1, <2>2, <2>3, <2>4, <2>5 DEF RelationshipStep
<1>4. ASSUME NEW p \in Request, AccountStep(p) \/ (Fail(p) /\ UNCHANGED accounts) PROVE IInv'
  <2>1. CASE \/ CheckEmail(p) \/ FindErased(p) \/ (Fail(p) /\ UNCHANGED accounts)
             \/ LoadUser(p, "load", "authDelete") \/ LoadUser(p, "reload", "eraseUser")
    BY <2>1, AccountReads, ReadsKeepInv
  <2>2. CASE AddUser(p)
    BY <2>2, AddUserKeepsInv
  <2>3. CASE DeleteAuthUser(p)
    BY <2>3, DeleteAuthUserKeepsInv
  <2>4. CASE EraseRelationship(p)
    BY <2>4, EraseRelationshipKeepsInv
  <2>5. CASE EraseUser(p)
    BY <2>5, EraseUserKeepsInv
  <2>6. CASE LockToErase(p) \/ LockUser(p)
    BY <2>6, LocksRead, ReadsKeepInv DEF LockToErase, LockUser
  <2> QED
    BY <1>4, <2>1, <2>2, <2>3, <2>4, <2>5, <2>6 DEF AccountStep
<1>5. CASE Environment
  BY <1>5, EnvironmentKeepsInv
<1>6. CASE UNCHANGED vars
  <2>1. UNCHANGED <<tables, accounts, session>>
    BY <1>6 DEF vars, dbVars, tables
  <2>2. TypeOK'
    BY <2>1 DEF IInv, TypeOK, tables
  <2>3. TableInv' /\ Grows(Request)
    BY <2>1, AccountChange DEF IInv
  <2>4. \A q \in Request : Sound(session[q])'
    BY <2>1, <2>3, WaitingStaysSound DEF IInv, SessionInv
  <2> QED
    BY <2>1, <2>2, <2>3, <2>4 DEF IInv, SessionInv, OneWriterPerInvite
<1> QED
  BY <1>1, <1>2, <1>3, <1>4, <1>5, <1>6 DEF Next, Handle

\* The tables and the requests in flight stay consistent with each other:
\* whatever a handler has carried across its awaits is still true of them.
THEOREM Invariance == Spec => []IInv
<1> QED
  BY InitKeepsInv, NextKeepsInv, PTL DEF Spec

\* Rows and sessions only ever hold what the schema and the handlers allow.
THEOREM TypeCorrect == Spec => []TypeOK
<1>1. IInv => TypeOK
  BY DEF IInv
<1> QED
  BY Invariance, <1>1, PTL

\* Cascades and constraints keep every reference between rows to a live row.
THEOREM NoReferenceDangles == Spec => []NoDanglingReference
<1>1. IInv => NoDanglingReference
  BY DEF IInv, TableInv
<1> QED
  BY Invariance, <1>1, PTL

\* RelationshipsService.add links an invite only to the couple it names.
THEOREM LinksNameTheCouple == Spec => []LinkedInviteNamesTheCouple
<1>1. IInv => LinkedInviteNamesTheCouple
  BY DEF IInv, TableInv
<1> QED
  BY Invariance, <1>1, PTL

\* However accepts, departures and erasures interleave, two members of one
\* relationship have been invited, the one by the other.
THEOREM CouplesWereInvited == Spec => []MembersWereInvited
<1>1. IInv => MembersWereInvited
  <2> SUFFICES ASSUME InvitedByARow,
                      NEW r \in Relationship, NEW u \in MembersOf(r), NEW v \in MembersOf(r), u # v
               PROVE  \E i \in Invite : {invites[i].from, invites[i].to} = {MailOf(u), MailOf(v)}
    BY DEF IInv, TableInv, MembersWereInvited
  <2> QED
    BY DEF InvitedByARow
<1> QED
  BY Invariance, <1>1, PTL

\* UsersService.delete never leaves a Supabase account behind without its row.
THEOREM AccountsGoFirst == Spec => []AuthGoesFirst
<1>1. IInv => AuthGoesFirst
  BY DEF IInv, TableInv
<1> QED
  BY Invariance, <1>1, PTL

\* However many registrations have found the address free, one row holds it.
THEOREM AddressesAreUnique == Spec => []OneRowPerAddress
<1>1. IInv => OneRowPerAddress
  BY DEF IInv, TableInv
<1> QED
  BY Invariance, <1>1, PTL

\* mark_expired never reaches an invite that could still be accepted.
THEOREM ExpiryIsDue == Spec => []ExpiredOnlyWhenDue
<1>1. IInv => ExpiredOnlyWhenDue
  BY DEF IInv, TableInv
<1> QED
  BY Invariance, <1>1, PTL

\* The unique index over (relationship_id, invitee_email) among the pending
\* invites never sees a relationship_id.
THEOREM PendingHasNoRelationship == Spec => []PendingIsUnlinked
<1>1. IInv => PendingIsUnlinked
  BY DEF IInv, TableInv
<1> QED
  BY Invariance, <1>1, PTL

-----------------------------------------------------------------------------
(* The UPDATE of the invites and the DELETE of their relationship.         *)

\* What EndsWithItsRelationship asks of one step.
EndsOnlyWithIt ==
  \A i \in Invite :
    invites'[i].status = "ended" /\ invites[i].status # "ended" =>
      /\ invites[i].status = "accepted"
      /\ \E r \in Relationship : /\ invites[i].rel = r
                                 /\ relationships[r] = "live"
                                 /\ relationships'[r] = "gone"

LEMMA DeletionEnds ==
  ASSUME IInv, NEW p \in Request, DeleteRelationship(p), session[p].rel \in Relationship
  PROVE  EndsOnlyWithIt
<1> SUFFICES ASSUME NEW i \in Invite, invites'[i].status = "ended", invites[i].status # "ended"
             PROVE  /\ invites[i].status = "accepted"
                    /\ \E r \in Relationship : /\ invites[i].rel = r
                                               /\ relationships[r] = "live"
                                               /\ relationships'[r] = "gone"
  BY DEF EndsOnlyWithIt
<1> DEFINE d == session[p].rel
<1>1. i \in session[p].ended
  <2> SUFFICES ASSUME i \notin session[p].ended PROVE FALSE
    OBVIOUS
  <2>1. invites' = [j \in Invite |->
          [invites[j] EXCEPT !.rel = IF @ = d THEN Null ELSE @,
                             !.status = IF j \in session[p].ended THEN "ended" ELSE @]]
    BY DEF DeleteRelationship
  <2>2. invites[i] \in InviteRow
    BY DEF IInv, TypeOK
  <2> QED
    BY <2>1, <2>2 DEF InviteRow
<1>2. invites[i].status = "accepted" /\ invites[i].rel = d
  BY <1>1, Running DEF Sound, SoundEnded
<1>3. relationships[d] = "live"
  BY <1>2, Constants DEF IInv, TableInv, NoDanglingReference
<1>4. relationships'[d] = "gone"
  BY DEF DeleteRelationship, IInv, TypeOK
<1> QED
  BY <1>2, <1>3, <1>4

LEMMA OthersDoNotEnd ==
  ASSUME IInv, NEW p \in Request,
         Begin(p) \/ Handle(p) \/ Fail(p), ~Leave(p), ~EraseRelationship(p)
  PROVE  EndsOnlyWithIt
<1>1. CASE UNCHANGED invites
  BY <1>1 DEF EndsOnlyWithIt
<1>2. CASE MarkExpired(p)
  BY <1>2 DEF MarkExpired, EndsOnlyWithIt, IInv, TypeOK, InviteRow
<1>3. CASE MarkDeclined(p)
  BY <1>3 DEF MarkDeclined, StatusWrite, EndsOnlyWithIt, IInv, TypeOK, InviteRow
<1>4. CASE AddInvite(p)
  BY <1>4 DEF AddInvite, NewInvite, EndsOnlyWithIt, IInv, TypeOK, InviteRow
<1>5. CASE Pair(p)
  <2>1. ASSUME NEW r, MarkAccepted(session[p].inv, session[p].seen, r) PROVE EndsOnlyWithIt
    BY <2>1 DEF MarkAccepted, StatusWrite, EndsOnlyWithIt, IInv, TypeOK, InviteRow
  <2> QED
    BY <1>1, <1>5, <2>1 DEF Pair
<1>6. CASE EraseUser(p)
  BY <1>6 DEF EraseUser, EndsOnlyWithIt, IInv, TypeOK, InviteRow
<1> QED
  BY <1>1, <1>2, <1>3, <1>4, <1>5, <1>6, StepsThatWrite DEF tables, AddUser

\* RelationshipsService.delete: between its UPDATE and its DELETE no other
\* request relinks the invites or deletes the relationship under them.
THEOREM InvitesEndWithTheirRelationship == Spec => EndsWithItsRelationship
<1>1. ASSUME IInv, [Next]_vars PROVE [EndsOnlyWithIt]_vars
  <2>1. ASSUME NEW p \in Request, Leave(p) \/ EraseRelationship(p) PROVE EndsOnlyWithIt
    <3>1. session[p].rel \in Relationship
      BY <1>1, <2>1, Running
      DEF Leave, EraseRelationship, At, Sound, SoundRelationship, Leaving
    <3> QED
      BY <1>1, <2>1, <3>1, DeletionEnds DEF Leave, EraseRelationship
  <2>2. ASSUME NEW p \in Request, Begin(p) \/ Handle(p) \/ Fail(p) PROVE EndsOnlyWithIt
    BY <1>1, <2>1, <2>2, OthersDoNotEnd
  <2>3. CASE Environment
    BY <1>1, <2>3 DEF Environment, Elapse, SignUp, TokenExpires, dbVars, EndsOnlyWithIt,
                      IInv, TypeOK, InviteRow
  <2> QED
    BY <1>1, <2>2, <2>3 DEF Next
<1> QED
  BY Invariance, <1>1, PTL DEF Spec, EndsWithItsRelationship, EndsOnlyWithIt
=============================================================================
