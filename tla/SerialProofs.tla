---------------------------- MODULE SerialProofs ----------------------------
(***************************************************************************)
(* What the checks of the handlers achieve while requests are served one   *)
(* at a time: a check and the write it guards are still awaits apart, and  *)
(* clocks, failures and new accounts come between them, but no other       *)
(* handler does.                                                           *)
(***************************************************************************)
EXTENDS CouplesProofs, FiniteSetTheorems

-----------------------------------------------------------------------------
(* The inductive invariant, on top of IInv.                                *)

OneAtATime == \E p \in Request : Request = {p}

\* OnePendingInvite, row by row.
PendingInvitesDiffer ==
  \A i, j \in Invite :
    /\ invites[i].status = "pending" /\ invites[j].status = "pending"
    /\ invites[i].inviter = invites[j].inviter /\ invites[i].inviter # Null
    /\ invites[i].to = invites[j].to
    => i = j

FinitelyManyRecent == \A u \in User : IsFiniteSet(RecentPending(u))

TwoMembers ==
  \A r \in Relationship : relationships[r] = "live" =>
    \E u, v \in User : u # v /\ MembersOf(r) = {u, v}

\* RelationshipHasItsInvite, by an invite that exists.
LinkedByARow ==
  \A r \in Relationship : relationships[r] = "live" =>
    \E i \in Invite : invites[i].status # "absent" /\ invites[i].rel = r

InviteInv == PendingInvitesDiffer /\ FinitelyManyRecent /\ RateLimitHolds
CoupleInv == TwoMembers /\ OneRelationshipPerCouple /\ LinkedByARow

\* What was checked before is still so: nobody else writes.
CheckedInvite(s) ==
  /\ s.at \in {"duplicate", "addInvite"} => Cardinality(RecentPending(s.me)) < RateLimitMax
  /\ s.at = "addInvite" => PendingFromTo(s.me, s.to) = {}
  /\ s.at \in Answering => invites[s.inv].status # "expired"

CheckedCouple(s) ==
  /\ s.at \in {"theirMember", "common", "eraseRelationship", "relationshipCascade"} =>
       RelationshipsOf(s.me) = {s.rel}
  /\ s.at = "pair" => RelationshipsOf(s.me) \cap RelationshipsOf(s.other) = {}
  /\ s.at \in {"reload", "eraseUser", "userCascade"} => RelationshipsOf(s.me) = {}

Checked(s) == CheckedInvite(s) /\ CheckedCouple(s)

SInv == InviteInv /\ CoupleInv /\ \A p \in Request : Checked(session[p])

\* The steps at which a handler rests on something it has checked.
Guarded ==
  {"duplicate", "addInvite", "theirMember", "common", "eraseRelationship", "relationshipCascade",
   "reload", "eraseUser", "userCascade"}
  \cup Answering

-----------------------------------------------------------------------------
(* How the parts are kept.                                                 *)

LEMMA FewerPending ==
  ASSUME InviteInv, NoNewPending
  PROVE  /\ InviteInv'
         /\ \A u \in User : Cardinality(RecentPending(u)') <= Cardinality(RecentPending(u))
         /\ \A u \in User, a \in Address : PendingFromTo(u, a)' \subseteq PendingFromTo(u, a)
<1>1. PendingInvitesDiffer'
  BY DEF InviteInv, PendingInvitesDiffer, NoNewPending
<1>2. \A u \in User : RecentPending(u)' \subseteq RecentPending(u)
  BY Constants DEF NoNewPending, RecentPending
<1>3. ASSUME NEW u \in User
      PROVE  /\ IsFiniteSet(RecentPending(u)')
             /\ Cardinality(RecentPending(u)') <= Cardinality(RecentPending(u))
             /\ Cardinality(RecentPending(u)') <= RateLimitMax
  <2>1. IsFiniteSet(RecentPending(u)) /\ Cardinality(RecentPending(u)) <= RateLimitMax
    BY DEF InviteInv, FinitelyManyRecent, RateLimitHolds
  <2>2. /\ IsFiniteSet(RecentPending(u)')
        /\ Cardinality(RecentPending(u)') <= Cardinality(RecentPending(u))
    BY <1>2, <2>1, FS_Subset
  <2>3. Cardinality(RecentPending(u)') \in Nat /\ Cardinality(RecentPending(u)) \in Nat
    BY <2>1, <2>2, FS_CardinalityType
  <2> QED
    BY <2>1, <2>2, <2>3, InvitesAssumption DEF InvitesAssumption
<1>4. \A u \in User, a \in Address : PendingFromTo(u, a)' \subseteq PendingFromTo(u, a)
  BY Constants DEF NoNewPending, PendingFromTo
<1> QED
  BY <1>1, <1>3, <1>4 DEF InviteInv, FinitelyManyRecent, RateLimitHolds

LEMMA CouplesStay ==
  ASSUME CoupleInv, UNCHANGED <<relationships, members>>,
         \A i \in Invite : invites[i].status # "absent" =>
           invites'[i].status # "absent" /\ invites'[i].rel = invites[i].rel
  PROVE  CoupleInv'
<1>1. TwoMembers' /\ OneRelationshipPerCouple'
  BY DEF CoupleInv, TwoMembers, OneRelationshipPerCouple, MembersOf
<1>2. LinkedByARow'
  BY DEF CoupleInv, LinkedByARow
<1> QED
  BY <1>1, <1>2 DEF CoupleInv

\* The only request is answered; what the others have checked is nothing.
LEMMA AnsweredAlone ==
  ASSUME TypeOK, OneAtATime, NEW p \in Request, Reply(p), InviteInv', CoupleInv'
  PROVE  SInv'
<1>1. Request = {p} /\ session'[p] = Idle
  BY DEF OneAtATime, Reply, Move, TypeOK
<1>2. Checked(session[p])'
  BY <1>1 DEF Idle, Checked, CheckedInvite, CheckedCouple, Answering
<1> QED
  BY <1>1, <1>2 DEF SInv

LEMMA TablesStay ==
  ASSUME SInv, UNCHANGED <<relationships, members, invites>>
  PROVE  InviteInv' /\ CoupleInv'
<1>1. NoNewPending
  BY DEF NoNewPending
<1> QED
  BY <1>1, FewerPending, CouplesStay DEF SInv

\* A move that leaves the tables alone, to a state where all is checked.
LEMMA MoveChecked ==
  ASSUME TypeOK, OneAtATime, SInv, NEW p \in Request, NEW s, Move(p, s), Checked(s),
         UNCHANGED <<relationships, members, invites>>
  PROVE  SInv'
<1>1. Request = {p} /\ session'[p] = s
  BY DEF OneAtATime, Move, TypeOK
<1>2. Checked(session[p])'
  BY <1>1 DEF Checked, CheckedInvite, CheckedCouple, RecentPending, PendingFromTo, RelationshipsOf
<1> QED
  BY <1>1, <1>2, TablesStay DEF SInv

LEMMA Unguarded ==
  ASSUME NEW s, s.at \notin Guarded PROVE Checked(s)
BY DEF Guarded, Answering, Checked, CheckedInvite, CheckedCouple

LEMMA ReplyChecked ==
  ASSUME TypeOK, OneAtATime, SInv, NEW p \in Request, Reply(p),
         UNCHANGED <<relationships, members, invites>>
  PROVE  SInv'
BY TablesStay, AnsweredAlone

\* The state of the handler, and what it has checked.
LEMMA RunningAlone ==
  ASSUME IInv, SInv, NEW p \in Request
  PROVE  /\ TypeOK /\ session[p] \in Session /\ Sound(session[p])
         /\ Checked(session[p])
BY Running DEF IInv, SInv

-----------------------------------------------------------------------------
(* Steps that only read.                                                   *)

LEMMA BeginIsSerial ==
  ASSUME IInv, OneAtATime, SInv, NEW p \in Request, Begin(p)
  PROVE  SInv'
<1>1. PICK s : Move(p, s) /\ s.at \notin Guarded /\ UNCHANGED tables
  BY DEF Begin, BeginInviteRequest, BeginRelationshipRequest, BeginErase, BeginRegister,
         BeginInvite, BeginPending, BeginDecline, BeginAccept, BeginLeave,
         Idle, Guarded, Answering
<1> QED
  BY <1>1, Unguarded, MoveChecked DEF IInv, tables

\* A lapsed invite is not answered, and only a lapsed one is marked expired.
LEMMA UnlessExpiredIsSerial ==
  ASSUME IInv, OneAtATime, SInv, NEW p \in Request, NEW next \in {"decline", "inviter"},
         session[p].at \in {"declineToken", "token"},
         UnlessExpired(p, next), UNCHANGED tables
  PROVE  SInv'
<1> DEFINE i == session[p].inv
           go == [session[p] EXCEPT !.at = next, !.seen = invites[i].status]
           expire == [session[p] EXCEPT !.at = "expire"]
<1>1. TypeOK /\ session[p] \in Session /\ i \in Invite /\ UNCHANGED <<relationships, members, invites>>
  BY RunningAlone DEF Sound, SoundInvite, tables
<1>2. CASE ~IsExpired(i) /\ Move(p, go)
  <2>1. invites[i].status # "expired"
    BY <1>1, <1>2 DEF IInv, TableInv, ExpiredOnlyWhenDue
  <2>2. go.at = next /\ go.inv = i
    BY <1>1 DEF Session
  <2> HIDE DEF go
  <2>3. Checked(go)
    BY <2>1, <2>2 DEF Checked, CheckedInvite, CheckedCouple
  <2> QED
    BY <1>1, <1>2, <2>3, MoveChecked
<1>3. CASE Move(p, expire)
  <2>1. expire.at = "expire"
    BY <1>1 DEF Session
  <2>2. Checked(expire)
    BY <2>1, Unguarded DEF Guarded, Answering
  <2> QED
    BY <1>1, <1>3, <2>2, MoveChecked
<1>4. CASE Reply(p)
  BY <1>1, <1>4, ReplyChecked
<1> QED
  BY <1>2, <1>3, <1>4 DEF UnlessExpired

LEMMA InviteReadsAreSerial ==
  ASSUME IInv, OneAtATime, SInv, NEW p \in Request,
         CountRecent(p) \/ CheckDuplicate(p) \/ GetPending(p) \/ LoadToDecline(p)
  PROVE  SInv'
<1>1. TypeOK /\ session[p] \in Session /\ Sound(session[p]) /\ Checked(session[p])
  BY RunningAlone
<1>2. UNCHANGED <<relationships, members, invites>>
  BY DEF CountRecent, CheckDuplicate, GetPending, LoadToDecline, tables
<1>3. CASE Reply(p)
  BY <1>1, <1>2, <1>3, ReplyChecked
<1>4. CASE CountRecent(p) /\ ~Reply(p)
  <2> DEFINE s == [session[p] EXCEPT !.at = "duplicate"]
  <2>1. s.at = "duplicate" /\ s.me = session[p].me
    BY <1>1 DEF Session
  <2>2. session[p].me \in User /\ Move(p, s) /\ ~RateLimited(session[p].me)
    BY <1>1, <1>4 DEF CountRecent, At, Sound, SoundCaller, Registering
  <2>3. Cardinality(RecentPending(session[p].me)) < RateLimitMax
    <3>1. Cardinality(RecentPending(session[p].me)) \in Nat
      BY <2>2, FS_CardinalityType DEF SInv, InviteInv, FinitelyManyRecent
    <3> QED
      BY <2>2, <3>1, InvitesAssumption DEF RateLimited, InvitesAssumption
  <2> HIDE DEF s
  <2>4. Checked(s)
    BY <2>1, <2>3 DEF Checked, CheckedInvite, CheckedCouple, Answering
  <2> QED
    BY <1>1, <1>2, <2>2, <2>4, MoveChecked
<1>5. CASE CheckDuplicate(p) /\ ~Reply(p)
  <2> DEFINE s == [session[p] EXCEPT !.at = "addInvite"]
  <2>1. s.at = "addInvite" /\ s.me = session[p].me /\ s.to = session[p].to
    BY <1>1 DEF Session
  <2>2. Move(p, s) /\ session[p].at = "duplicate" /\ ~Duplicate(session[p].me, session[p].to)
    BY <1>5 DEF CheckDuplicate, At
  <2> HIDE DEF s
  <2>3. Checked(s)
    BY <1>1, <2>1, <2>2 DEF Checked, CheckedInvite, CheckedCouple, Answering, Duplicate
  <2> QED
    BY <1>1, <1>2, <2>2, <2>3, MoveChecked
<1>6. CASE GetPending(p) /\ ~Reply(p)
  <2>1. PICK i : Move(p, [session[p] EXCEPT !.at = "expire", !.inv = i])
    BY <1>6 DEF GetPending
  <2> DEFINE s == [session[p] EXCEPT !.at = "expire", !.inv = i]
  <2>2. s.at = "expire"
    BY <1>1 DEF Session
  <2>3. Checked(s)
    BY <2>2, Unguarded DEF Guarded, Answering
  <2> QED
    BY <1>1, <1>2, <2>1, <2>3, MoveChecked
<1>7. CASE LoadToDecline(p) /\ ~Reply(p)
  BY <1>7, UnlessExpiredIsSerial DEF LoadToDecline, At
<1> QED
  BY <1>3, <1>4, <1>5, <1>6, <1>7

\* Whoever comes to write has no relationship in common.
LEMMA NothingInCommonIsSerial ==
  ASSUME IInv, OneAtATime, SInv, NEW p \in Request,
         session[p].at \in {"myMember", "theirMember", "common"},
         RelationshipsOf(session[p].me) \cap RelationshipsOf(session[p].other) = {},
         NothingInCommon(p), UNCHANGED tables
  PROVE  SInv'
<1> DEFINE s == [session[p] EXCEPT !.at = "pair"]
<1>1. /\ TypeOK /\ session[p] \in Session /\ Checked(session[p])
      /\ UNCHANGED <<relationships, members, invites>>
  BY RunningAlone DEF tables
<1>2. CASE Reply(p)
  BY <1>1, <1>2, ReplyChecked
<1>3. CASE Move(p, s)
  <2>1. /\ s.at = "pair" /\ s.me = session[p].me
        /\ s.other = session[p].other /\ s.inv = session[p].inv
    BY <1>1 DEF Session
  <2> HIDE DEF s
  <2>2. Checked(s)
    BY <1>1, <2>1 DEF Checked, CheckedInvite, CheckedCouple, Answering
  <2> QED
    BY <1>1, <1>3, <2>2, MoveChecked
<1> QED
  BY <1>2, <1>3 DEF NothingInCommon

LEMMA AcceptReadsAreSerial ==
  ASSUME IInv, OneAtATime, SInv, NEW p \in Request,
         LoadInvite(p) \/ LoadInviter(p) \/ FindMyMember(p) \/ FindTheirMember(p) \/ FindCommon(p)
  PROVE  SInv'
<1>1. TypeOK /\ session[p] \in Session /\ Sound(session[p]) /\ Checked(session[p])
  BY RunningAlone
<1>2. UNCHANGED tables /\ UNCHANGED <<relationships, members, invites>>
  BY DEF LoadInvite, LoadInviter, FindMyMember, FindTheirMember, FindCommon, tables
<1>3. CASE Reply(p)
  BY <1>1, <1>2, <1>3, ReplyChecked
<1>4. CASE LoadInvite(p) /\ ~Reply(p)
  BY <1>2, <1>4, UnlessExpiredIsSerial DEF LoadInvite, At
<1>5. CASE LoadInviter(p) /\ ~Reply(p)
  <2>1. PICK u : Move(p, [session[p] EXCEPT !.at = "myMember", !.other = u])
    BY <1>5 DEF LoadInviter
  <2> DEFINE s == [session[p] EXCEPT !.at = "myMember", !.other = u]
  <2>2. s.at = "myMember" /\ s.inv = session[p].inv /\ session[p].at = "inviter"
    BY <1>1, <1>5 DEF Session, LoadInviter, At
  <2> HIDE DEF s
  <2>3. Checked(s)
    BY <1>1, <2>2 DEF Checked, CheckedInvite, CheckedCouple, Answering
  <2> QED
    BY <1>1, <1>2, <2>1, <2>3, MoveChecked DEF s
<1>6. CASE FindMyMember(p) /\ ~Reply(p)
  <2>1. CASE RelationshipsOf(session[p].me) = {} /\ NothingInCommon(p)
    BY <1>2, <1>6, <2>1, NothingInCommonIsSerial DEF FindMyMember, At
  <2>2. CASE \E r \in RelationshipsOf(session[p].me) :
               /\ RelationshipsOf(session[p].me) = {r}
               /\ Move(p, [session[p] EXCEPT !.at = "theirMember", !.rel = r])
    <3>1. PICK r : /\ RelationshipsOf(session[p].me) = {r}
                   /\ Move(p, [session[p] EXCEPT !.at = "theirMember", !.rel = r])
      BY <2>2
    <3> DEFINE s == [session[p] EXCEPT !.at = "theirMember", !.rel = r]
    <3>2. /\ s.at = "theirMember" /\ s.me = session[p].me /\ s.rel = r
          /\ s.inv = session[p].inv /\ session[p].at = "myMember"
      BY <1>1, <1>6 DEF Session, FindMyMember, At
    <3> HIDE DEF s
    <3>3. Checked(s)
      BY <1>1, <3>1, <3>2 DEF Checked, CheckedInvite, CheckedCouple, Answering
    <3> QED
      BY <1>1, <1>2, <3>1, <3>3, MoveChecked DEF s
  <2> QED
    BY <1>6, <2>1, <2>2 DEF FindMyMember
<1>7. CASE FindTheirMember(p) /\ ~Reply(p)
  <2>1. session[p].at = "theirMember" /\ RelationshipsOf(session[p].me) = {session[p].rel}
    BY <1>1, <1>7 DEF FindTheirMember, At, Checked, CheckedCouple
  <2>2. CASE Move(p, [session[p] EXCEPT !.at = "common"])
    <3> DEFINE s == [session[p] EXCEPT !.at = "common"]
    <3>1. /\ s.at = "common" /\ s.me = session[p].me /\ s.rel = session[p].rel
          /\ s.inv = session[p].inv
      BY <1>1 DEF Session
    <3> HIDE DEF s
    <3>2. Checked(s)
      BY <1>1, <2>1, <3>1 DEF Checked, CheckedInvite, CheckedCouple, Answering
    <3> QED
      BY <1>1, <1>2, <2>2, <3>2, MoveChecked DEF s
  <2>3. CASE /\ RelationshipsOf(session[p].other) # {session[p].rel}
             /\ \A r \in RelationshipsOf(session[p].other) : RelationshipsOf(session[p].other) = {r}
             /\ NothingInCommon(p)
    BY <1>2, <2>1, <2>3, NothingInCommonIsSerial
  <2> QED
    BY <1>7, <2>2, <2>3 DEF FindTheirMember
<1>8. CASE FindCommon(p) /\ ~Reply(p)
  <2>1. <<session[p].rel, session[p].me>> \in members
    BY <1>1, <1>8 DEF FindCommon, At, Checked, CheckedCouple, RelationshipsOf
  <2>2. relationships[session[p].rel] = "live"
    BY <2>1 DEF IInv, TableInv, NoDanglingReference
  <2> QED
    BY <1>8, <2>2 DEF FindCommon
<1> QED
  BY <1>3, <1>4, <1>5, <1>6, <1>7, <1>8

LEMMA LeaveReadsAreSerial ==
  ASSUME IInv, OneAtATime, SInv, NEW p \in Request,
         FindToLeave(p) \/ EndInvites(p) \/ FindAgain(p)
  PROVE  SInv'
<1>1. TypeOK /\ session[p] \in Session
  BY RunningAlone
<1>2. UNCHANGED <<relationships, members, invites>>
  BY DEF FindToLeave, EndInvites, FindAgain, FindMine, tables
<1>3. CASE Reply(p)
  BY <1>1, <1>2, <1>3, ReplyChecked
<1>4. CASE ~Reply(p)
  <2>1. PICK next \in Leaving : \/ \E r : Move(p, [session[p] EXCEPT !.at = next, !.rel = r])
                                \/ \E e : Move(p, [session[p] EXCEPT !.at = next, !.ended = e])
    BY <1>4 DEF FindToLeave, EndInvites, FindAgain, FindMine, Leaving
  <2>2. CASE \E r : Move(p, [session[p] EXCEPT !.at = next, !.rel = r])
    <3>1. PICK r : Move(p, [session[p] EXCEPT !.at = next, !.rel = r])
      BY <2>2
    <3>2. [session[p] EXCEPT !.at = next, !.rel = r].at \notin Guarded
      BY <1>1 DEF Session, Guarded, Answering, Leaving
    <3> QED
      BY <1>1, <1>2, <3>1, <3>2, Unguarded, MoveChecked
  <2>3. CASE \E e : Move(p, [session[p] EXCEPT !.at = next, !.ended = e])
    <3>1. PICK e : Move(p, [session[p] EXCEPT !.at = next, !.ended = e])
      BY <2>3
    <3>2. [session[p] EXCEPT !.at = next, !.ended = e].at \notin Guarded
      BY <1>1 DEF Session, Guarded, Answering, Leaving
    <3> QED
      BY <1>1, <1>2, <3>1, <3>2, Unguarded, MoveChecked
  <2> QED
    BY <2>1, <2>2, <2>3
<1> QED
  BY <1>3, <1>4

LEMMA AccountReadsAreSerial ==
  ASSUME IInv, OneAtATime, SInv, NEW p \in Request,
         \/ CheckEmail(p) \/ AddUser(p) \/ DeleteAuthUser(p) \/ FindErased(p) \/ Fail(p)
         \/ LoadUser(p, "load", "authDelete") \/ LoadUser(p, "reload", "eraseUser")
  PROVE  SInv'
<1>1. TypeOK /\ session[p] \in Session /\ Checked(session[p])
  BY RunningAlone
<1>2. UNCHANGED <<relationships, members, invites>>
  BY DEF CheckEmail, AddUser, DeleteAuthUser, FindErased, FindMine, Fail, LoadUser, tables
<1>3. CASE Reply(p)
  BY <1>1, <1>2, <1>3, ReplyChecked
<1>4. CASE \E next \in {"addUser", "findErased", "authDelete"} :
             Move(p, [session[p] EXCEPT !.at = next])
  <2>1. PICK next \in {"addUser", "findErased", "authDelete"} :
               Move(p, [session[p] EXCEPT !.at = next])
    BY <1>4
  <2>2. PICK s : Move(p, s) /\ s.at = next
    BY <1>1, <2>1 DEF Session
  <2>3. Checked(s)
    BY <2>2, Unguarded DEF Guarded, Answering
  <2> QED
    BY <1>1, <1>2, <2>2, <2>3, MoveChecked
<1>5. CASE FindErased(p) /\ ~Reply(p)
  <2>1. CASE FindMine(p, "eraseRelationship")
    <3>1. PICK r : /\ RelationshipsOf(session[p].me) = {r}
                   /\ Move(p, [session[p] EXCEPT !.at = "eraseRelationship", !.rel = r])
      BY <2>1 DEF FindMine
    <3> DEFINE s == [session[p] EXCEPT !.at = "eraseRelationship", !.rel = r]
    <3>2. s.at = "eraseRelationship" /\ s.me = session[p].me /\ s.rel = r
      BY <1>1 DEF Session
    <3> HIDE DEF s
    <3>3. Checked(s)
      BY <3>1, <3>2 DEF Checked, CheckedInvite, CheckedCouple, Answering
    <3> QED
      BY <1>1, <1>2, <3>1, <3>3, MoveChecked DEF s
  <2>2. CASE /\ RelationshipsOf(session[p].me) = {}
             /\ Move(p, [session[p] EXCEPT !.at = "reload"])
    <3> DEFINE s == [session[p] EXCEPT !.at = "reload"]
    <3>1. s.at = "reload" /\ s.me = session[p].me
      BY <1>1 DEF Session
    <3> HIDE DEF s
    <3>2. Checked(s)
      BY <2>2, <3>1 DEF Checked, CheckedInvite, CheckedCouple, Answering
    <3> QED
      BY <1>1, <1>2, <2>2, <3>2, MoveChecked DEF s
  <2> QED
    BY <1>5, <2>1, <2>2 DEF FindErased
<1>6. CASE LoadUser(p, "reload", "eraseUser") /\ ~Reply(p)
  <2>1. PICK s : Move(p, s) /\ s.at = "eraseUser" /\ RelationshipsOf(s.me) = {}
    BY <1>1, <1>6 DEF LoadUser, At, Session, Checked, CheckedCouple
  <2>2. Checked(s)
    BY <2>1 DEF Checked, CheckedInvite, CheckedCouple, Answering
  <2> QED
    BY <1>1, <1>2, <2>1, <2>2, MoveChecked
<1> QED
  BY <1>3, <1>4, <1>5, <1>6 DEF CheckEmail, AddUser, DeleteAuthUser, Fail, LoadUser

\* A DELETE that takes its rows finds what was checked before still so.
LEMMA LocksAreSerial ==
  ASSUME IInv, OneAtATime, SInv, NEW p \in Request,
         LockToLeave(p) \/ LockToErase(p) \/ LockUser(p)
  PROVE  SInv'
<1>1. TypeOK /\ session[p] \in Session /\ Checked(session[p])
  BY RunningAlone
<1>2. ASSUME NEW here, NEW next,
             <<here, next>> \in {<<"delete", "leaveCascade">>,
                               <<"eraseRelationship", "relationshipCascade">>,
                               <<"eraseUser", "userCascade">>},
             At(p, here), Move(p, [session[p] EXCEPT !.at = next]), UNCHANGED tables
      PROVE  SInv'
  <2> DEFINE s == [session[p] EXCEPT !.at = next]
  <2>1. session[p].at = here /\ s.at = next /\ s.me = session[p].me /\ s.rel = session[p].rel
    BY <1>1, <1>2 DEF At, Session
  <2>2. UNCHANGED <<relationships, members, invites>> /\ Move(p, s)
    BY <1>2 DEF tables
  <2> HIDE DEF s
  <2>3. Checked(s)
    BY <1>1, <1>2, <2>1 DEF Checked, CheckedInvite, CheckedCouple, Answering
  <2> QED
    BY <1>1, <2>2, <2>3, MoveChecked
<1> QED
  BY <1>2 DEF LockToLeave, LockToErase, LockRelationship, LockUser

-----------------------------------------------------------------------------
(* Steps that write.                                                       *)

\* The fields of the invites after the status of one was written.
LEMMA StatusChangeIsSerial ==
  ASSUME IInv, OneAtATime, SInv, NEW p \in Request, Reply(p),
         NEW i \in Invite, NEW status \in InviteStatus, invites[i].status # "absent",
         status = "pending" => invites[i].status = "pending",
         invites' = [invites EXCEPT ![i].status = status],
         UNCHANGED <<relationships, members>>
  PROVE  SInv'
<1>1. \A j \in Invite : /\ invites'[j].status = IF j = i THEN status ELSE invites[j].status
                        /\ invites'[j].inviter = invites[j].inviter
                        /\ invites'[j].to = invites[j].to
                        /\ invites'[j].age = invites[j].age
                        /\ invites'[j].rel = invites[j].rel
  BY DEF IInv, TypeOK, InviteRow
<1>2. InviteInv'
  <2>1. NoNewPending
    BY <1>1 DEF NoNewPending
  <2> QED
    BY <2>1, FewerPending DEF SInv
<1>3. CoupleInv'
  <2>1. status # "absent"
    BY DEF InviteStatus
  <2> QED
    BY <1>1, <2>1, CouplesStay DEF SInv
<1> QED
  BY <1>2, <1>3, AnsweredAlone DEF IInv

LEMMA MarkIsSerial ==
  ASSUME IInv, OneAtATime, SInv, NEW p \in Request, MarkExpired(p) \/ MarkDeclined(p)
  PROVE  SInv'
<1> DEFINE i == session[p].inv
<1>1. TypeOK /\ Sound(session[p])
  BY RunningAlone
<1>2. i \in Invite /\ invites[i].status \in InviteStatus
  BY <1>1 DEF MarkExpired, MarkDeclined, At, Sound, SoundInvite, Answering, TypeOK, InviteRow
<1>3. invites[i].status # "absent"
  BY <1>2 DEF InviteStatus
<1>4. PICK status \in InviteStatus :
        /\ invites' = [invites EXCEPT ![i].status = status]
        /\ status = "pending" => invites[i].status = "pending"
  <2>1. /\ StatusWrite(i, session[p].seen, "declined") \in InviteStatus
        /\ StatusWrite(i, session[p].seen, "declined") = "pending" => invites[i].status = "pending"
    BY <1>2 DEF StatusWrite, InviteStatus
  <2>2. "expired" \in InviteStatus
    BY DEF InviteStatus
  <2> QED
    BY <2>1, <2>2 DEF MarkExpired, MarkDeclined
<1> QED
  BY <1>2, <1>3, <1>4, StatusChangeIsSerial DEF MarkExpired, MarkDeclined

\* The invite counted for and compared three awaits before is added: it is one
\* of at most RateLimitMax, and no other goes to that address.
LEMMA AddInviteIsSerial ==
  ASSUME IInv, OneAtATime, SInv, NEW p \in Request, AddInvite(p)
  PROVE  SInv'
<1>1. TypeOK /\ Sound(session[p]) /\ Checked(session[p])
  BY RunningAlone
<1>2. PICK u \in User, a \in Address : u = session[p].me /\ a = session[p].to
  BY <1>1 DEF AddInvite, At, Sound, SoundCaller, Inviting, Registering
<1>3. CASE UNCHANGED invites
  BY <1>1, <1>3, ReplyChecked DEF AddInvite
<1>4. CASE \E i \in Invite : /\ invites[i].status = "absent"
                             /\ invites' = [invites EXCEPT ![i] = NewInvite(u, a)]
  <2>1. PICK i \in Invite : /\ invites[i].status = "absent"
                            /\ invites' = [invites EXCEPT ![i] = NewInvite(u, a)]
    BY <1>4
  <2>2. /\ invites'[i].inviter = u /\ invites'[i].to = a
        /\ \A j \in Invite \ {i} : invites'[j] = invites[j]
    BY <1>1, <2>1 DEF TypeOK, NewInvite
  <2>3. PendingFromTo(u, a) = {} /\ Cardinality(RecentPending(u)) < RateLimitMax
    BY <1>1, <1>2 DEF AddInvite, At, Checked, CheckedInvite
  <2>4. PendingInvitesDiffer'
    <3>1. \A j \in Invite \ {i} :
            ~(invites[j].status = "pending" /\ invites[j].inviter = u /\ invites[j].to = a)
      BY <2>3 DEF PendingFromTo
    <3> QED
      BY <2>2, <3>1 DEF SInv, InviteInv, PendingInvitesDiffer
  <2>5. ASSUME NEW v \in User
        PROVE  IsFiniteSet(RecentPending(v)') /\ Cardinality(RecentPending(v)') <= RateLimitMax
    <3>1. IsFiniteSet(RecentPending(v)) /\ Cardinality(RecentPending(v)) <= RateLimitMax
      BY DEF SInv, InviteInv, FinitelyManyRecent, RateLimitHolds
    <3>2. CASE v # u
      <4>1. RecentPending(v)' = RecentPending(v)
        BY <2>1, <2>2, <3>2 DEF RecentPending
      <4> QED
        BY <3>1, <4>1
    <3>3. CASE v = u
      <4>1. RecentPending(u)' \subseteq RecentPending(u) \cup {i}
        BY <2>2 DEF RecentPending
      <4>2. /\ IsFiniteSet(RecentPending(u) \cup {i})
            /\ Cardinality(RecentPending(u) \cup {i}) <= Cardinality(RecentPending(u)) + 1
            /\ Cardinality(RecentPending(u)) \in Nat
        <5>1. IsFiniteSet(RecentPending(u)) /\ Cardinality(RecentPending(u)) \in Nat
          BY <3>1, <3>3, FS_CardinalityType
        <5>2. /\ IsFiniteSet(RecentPending(u) \cup {i})
              /\ Cardinality(RecentPending(u) \cup {i})
                 = IF i \in RecentPending(u) THEN Cardinality(RecentPending(u))
                   ELSE Cardinality(RecentPending(u)) + 1
          BY <5>1, FS_AddElement
        <5> QED
          BY <5>1, <5>2
      <4>3. /\ IsFiniteSet(RecentPending(u)')
            /\ Cardinality(RecentPending(u)') <= Cardinality(RecentPending(u) \cup {i})
        BY <4>1, <4>2, FS_Subset
      <4>4. /\ Cardinality(RecentPending(u)') \in Nat
            /\ Cardinality(RecentPending(u) \cup {i}) \in Nat
        BY <4>2, <4>3, FS_CardinalityType
      <4> QED
        BY <2>3, <3>3, <4>2, <4>3, <4>4, InvitesAssumption DEF InvitesAssumption
    <3> QED
      BY <3>2, <3>3
  <2>6. InviteInv'
    BY <2>4, <2>5 DEF InviteInv, FinitelyManyRecent, RateLimitHolds
  <2>7. CoupleInv'
    BY <2>1, <2>2, CouplesStay DEF SInv, AddInvite
  <2> QED
    BY <1>1, <2>6, <2>7, AnsweredAlone DEF AddInvite
<1> QED
  BY <1>2, <1>3, <1>4 DEF AddInvite

\* The two have no relationship, so the invite between them has none either,
\* and the link to the new one takes nothing from another.
LEMMA PairIsSerial ==
  ASSUME IInv, OneAtATime, SInv, NEW p \in Request, Pair(p)
  PROVE  SInv'
<1> DEFINE s == session[p]
           i == s.inv
<1>1. TypeOK /\ TableInv /\ Sound(s) /\ Checked(s)
  BY RunningAlone DEF IInv
<1>2. CASE UNCHANGED <<relationships, members, invites>>
  BY <1>1, <1>2, ReplyChecked DEF Pair
<1>3. CASE /\ BothExist(p)
           /\ \E r \in Relationship :
                /\ relationships[r] = "absent"
                /\ relationships' = [relationships EXCEPT ![r] = "live"]
                /\ members' = members \cup {<<r, s.me>>, <<r, s.other>>}
                /\ MarkAccepted(i, s.seen, r)
  <2>1. PICK r \in Relationship :
          /\ relationships[r] = "absent"
          /\ relationships' = [relationships EXCEPT ![r] = "live"]
          /\ members' = members \cup {<<r, s.me>>, <<r, s.other>>}
          /\ MarkAccepted(i, s.seen, r)
    BY <1>3
  <2>2. /\ s.me \in User /\ s.other \in User /\ i \in Invite /\ s.me # s.other
        /\ users[s.me] = "live" /\ users[s.other] = "live"
        /\ MailOf(s.other) = invites[i].from /\ MailOf(s.me) = invites[i].to
        /\ invites[i].status \in InviteStatus /\ invites[i].status # "absent"
        /\ s.seen # "pending" => invites[i].status # "pending"
        /\ RelationshipsOf(s.me) \cap RelationshipsOf(s.other) = {}
    BY <1>1, <1>3 DEF Pair, At, BothExist, Sound, SoundCaller, SoundInvite, SoundPair,
                      Registering, Answering, Pairing, Checked, CheckedCouple, TypeOK, InviteRow
  <2> DEFINE status == StatusWrite(i, s.seen, "accepted")
  <2>3. status \in InviteStatus \ {"pending"} /\ status # "absent"
    BY <2>2 DEF StatusWrite, InviteStatus
  <2>4. invites' = [invites EXCEPT ![i].status = status, ![i].rel = r]
    BY <2>1 DEF MarkAccepted
  <2> HIDE DEF status
  <2>5. \A j \in Invite :
          /\ invites'[j].inviter = invites[j].inviter /\ invites'[j].to = invites[j].to
          /\ invites'[j].age = invites[j].age
          /\ invites'[j].rel = IF j = i THEN r ELSE invites[j].rel
          /\ invites'[j].status = IF j = i THEN status ELSE invites[j].status
    BY <1>1, <2>4 DEF TypeOK, InviteRow
  <2>6. InviteInv'
    <3>1. NoNewPending
      BY <2>3, <2>5 DEF NoNewPending
    <3> QED
      BY <3>1, FewerPending DEF SInv
  <2>7. /\ MembersOf(r)' = {s.me, s.other}
        /\ \A q \in Relationship \ {r} : MembersOf(q)' = MembersOf(q)
    <3>1. \A m \in members : m[1] # r
      BY <1>1, <2>1 DEF TableInv, NoDanglingReference
    <3> QED
      BY <2>1, <2>2, <3>1 DEF MembersOf
  <2>8. \A q \in Relationship : relationships'[q] = IF q = r THEN "live" ELSE relationships[q]
    BY <1>1, <2>1 DEF TypeOK
  <2>9. \A q \in Relationship : ~({s.me, s.other} \subseteq MembersOf(q))
    BY <2>2 DEF RelationshipsOf, MembersOf
  <2>10. TwoMembers'
    BY <2>2, <2>7, <2>8 DEF SInv, CoupleInv, TwoMembers
  <2>11. OneRelationshipPerCouple'
    <3> SUFFICES ASSUME NEW q \in Relationship, NEW t \in Relationship,
                        NEW u \in User, NEW v \in User, u # v,
                        {u, v} \subseteq MembersOf(q)' \cap MembersOf(t)'
                 PROVE  q = t
      BY DEF OneRelationshipPerCouple
    <3>1. CASE q # r /\ t # r
      BY <2>7, <3>1 DEF SInv, CoupleInv, OneRelationshipPerCouple
    <3>2. CASE q = r \/ t = r
      <4>1. {u, v} = {s.me, s.other}
        BY <2>7, <3>2
      <4> QED
        BY <2>7, <2>9, <3>2, <4>1
    <3> QED
      BY <3>1, <3>2
  <2>12. LinkedByARow'
    <3> SUFFICES ASSUME NEW q \in Relationship, relationships'[q] = "live"
                 PROVE  \E j \in Invite : invites'[j].status # "absent" /\ invites'[j].rel = q
      BY DEF LinkedByARow
    <3>1. CASE q = r
      BY <2>2, <2>3, <2>5, <3>1
    <3>2. CASE q # r
      <4>1. PICK j \in Invite : invites[j].status # "absent" /\ invites[j].rel = q
        BY <2>8, <3>2 DEF SInv, CoupleInv, LinkedByARow
      <4>2. j # i
        <5>1. SUFFICES ASSUME j = i PROVE FALSE
          OBVIOUS
        <5>2. PICK u \in User, v \in User : u # v /\ MembersOf(q) = {u, v}
          BY <2>8, <3>2 DEF SInv, CoupleInv, TwoMembers
        <5>3. {MailOf(u), MailOf(v)} \subseteq {MailOf(s.me), MailOf(s.other)}
          <6>1. q # Null
            BY Constants
          <6>2. \A w \in MembersOf(invites[i].rel) : MailOf(w) \in {invites[i].from, invites[i].to}
            BY <1>1, <2>2, <4>1, <5>1, <6>1 DEF TableInv, LinkedInviteNamesTheCouple
          <6> QED
            BY <2>2, <4>1, <5>1, <5>2, <6>2
        <5>4. u \in LiveUsers /\ v \in LiveUsers /\ s.me \in LiveUsers /\ s.other \in LiveUsers
          <6>1. <<q, u>> \in members /\ <<q, v>> \in members
            BY <5>2 DEF MembersOf
          <6> QED
            BY <1>1, <2>2, <6>1 DEF TableInv, NoDanglingReference, LiveUsers
        <5>5. u \in {s.me, s.other} /\ v \in {s.me, s.other}
          BY <1>1, <5>3, <5>4 DEF TableInv, OneRowPerAddress
        <5> QED
          BY <2>9, <5>2, <5>5
      <4> QED
        BY <2>5, <4>1, <4>2
    <3> QED
      BY <3>1, <3>2
  <2>13. CoupleInv'
    BY <2>10, <2>11, <2>12 DEF CoupleInv
  <2> QED
    BY <1>1, <2>6, <2>13, AnsweredAlone DEF Pair
<1> QED
  BY <1>2, <1>3 DEF Pair

\* A relationship goes with both members and with the links to it.
LEMMA DeleteIsSerial ==
  ASSUME IInv, OneAtATime, SInv, NEW p \in Request, DeleteRelationship(p),
         session[p].rel \in Relationship
  PROVE  InviteInv' /\ CoupleInv'
<1> DEFINE d == session[p].rel
<1>1. TypeOK
  BY DEF IInv
<1>2. \A j \in Invite :
        /\ invites'[j].inviter = invites[j].inviter /\ invites'[j].to = invites[j].to
        /\ invites'[j].age = invites[j].age
        /\ invites'[j].rel = IF invites[j].rel = d THEN Null ELSE invites[j].rel
        /\ invites'[j].status = IF j \in session[p].ended THEN "ended" ELSE invites[j].status
  <2>1. invites' = [j \in Invite |->
          [invites[j] EXCEPT !.rel = IF @ = d THEN Null ELSE @,
                             !.status = IF j \in session[p].ended THEN "ended" ELSE @]]
    BY DEF DeleteRelationship
  <2> QED
    BY <1>1, <2>1 DEF TypeOK, InviteRow
<1>3. InviteInv'
  <2>1. NoNewPending
    BY <1>2 DEF NoNewPending
  <2> QED
    BY <2>1, FewerPending DEF SInv
<1>4. /\ \A r \in Relationship : relationships'[r] = "live" => r # d /\ relationships[r] = "live"
      /\ \A r \in Relationship : MembersOf(r)' = IF r = d THEN {} ELSE MembersOf(r)
  BY <1>1 DEF DeleteRelationship, TypeOK, MembersOf
<1>5. TwoMembers'
  BY <1>4 DEF SInv, CoupleInv, TwoMembers
<1>6. OneRelationshipPerCouple'
  BY <1>4 DEF SInv, CoupleInv, OneRelationshipPerCouple
<1>7. LinkedByARow'
  BY <1>2, <1>4 DEF SInv, CoupleInv, LinkedByARow
<1> QED
  BY <1>3, <1>5, <1>6, <1>7 DEF CoupleInv

LEMMA LeaveIsSerial ==
  ASSUME IInv, OneAtATime, SInv, NEW p \in Request, Leave(p)
  PROVE  SInv'
<1>1. session[p].rel \in Relationship
  BY Running DEF Leave, At, Sound, SoundRelationship, Leaving
<1> QED
  BY <1>1, DeleteIsSerial, AnsweredAlone DEF Leave, IInv

LEMMA EraseRelationshipIsSerial ==
  ASSUME IInv, OneAtATime, SInv, NEW p \in Request, EraseRelationship(p)
  PROVE  SInv'
<1> DEFINE s == [session[p] EXCEPT !.at = "reload", !.rel = Null]
<1>1. TypeOK /\ session[p] \in Session /\ Sound(session[p]) /\ Checked(session[p])
  BY RunningAlone
<1>2. session[p].rel \in Relationship /\ RelationshipsOf(session[p].me) = {session[p].rel}
  BY <1>1 DEF EraseRelationship, At, Sound, SoundRelationship, Checked, CheckedCouple
<1>3. s.at = "reload" /\ s.me = session[p].me
  BY <1>1 DEF Session
<1>4. session'[p] = s /\ Request = {p}
  BY <1>1 DEF EraseRelationship, Move, TypeOK, OneAtATime
<1>5. RelationshipsOf(session[p].me)' = {}
  <2>1. \A r \in Relationship : <<r, session[p].me>> \notin members'
    BY <1>2 DEF EraseRelationship, DeleteRelationship, RelationshipsOf
  <2> QED
    BY <1>3, <1>4, <2>1 DEF RelationshipsOf
<1>6. Checked(session[p])'
  BY <1>3, <1>4, <1>5 DEF Checked, CheckedInvite, CheckedCouple, Answering
<1> QED
  BY <1>2, <1>4, <1>6, DeleteIsSerial DEF EraseRelationship, SInv

\* The cascade from users finds no membership left.
LEMMA EraseUserIsSerial ==
  ASSUME IInv, OneAtATime, SInv, NEW p \in Request, EraseUser(p)
  PROVE  SInv'
<1> DEFINE u == session[p].me
<1>1. TypeOK /\ Checked(session[p])
  BY RunningAlone
<1>2. members' = members /\ relationships' = relationships
  <2>1. \A m \in members : m[2] # u
    BY <1>1 DEF EraseUser, At, Checked, CheckedCouple, RelationshipsOf, TypeOK
  <2> QED
    BY <2>1 DEF EraseUser
<1>3. \A j \in Invite :
        /\ invites'[j].inviter = IF invites[j].inviter = u THEN Null ELSE invites[j].inviter
        /\ invites'[j].to = invites[j].to /\ invites'[j].age = invites[j].age
        /\ invites'[j].rel = invites[j].rel /\ invites'[j].status = invites[j].status
  <2>1. invites' = [j \in Invite |-> [invites[j] EXCEPT !.inviter = IF @ = u THEN Null ELSE @]]
    BY DEF EraseUser
  <2> QED
    BY <1>1, <2>1 DEF TypeOK, InviteRow
<1>4. InviteInv'
  <2>1. NoNewPending
    BY <1>3 DEF NoNewPending
  <2> QED
    BY <2>1, FewerPending DEF SInv
<1>5. CoupleInv'
  BY <1>2, <1>3, CouplesStay DEF SInv
<1> QED
  BY <1>1, <1>4, <1>5, AnsweredAlone DEF EraseUser

\* Time takes invites out of the window and adds none.
LEMMA ElapseIsSerial ==
  ASSUME IInv, OneAtATime, SInv, NEW i \in Invite, Elapse(i)
  PROVE  SInv'
<1>1. TypeOK /\ SessionInv
  BY DEF IInv
<1>2. \A j \in Invite : /\ invites'[j].status = invites[j].status
                        /\ invites'[j].inviter = invites[j].inviter
                        /\ invites'[j].to = invites[j].to
                        /\ invites'[j].rel = invites[j].rel
                        /\ invites'[j].age = "recent" => invites[j].age = "recent"
  BY <1>1 DEF Elapse, TypeOK, InviteRow
<1>3. NoNewPending
  BY <1>2 DEF NoNewPending
<1>4. CoupleInv'
  BY <1>2, CouplesStay DEF SInv, Elapse
<1>5. ASSUME NEW p \in Request PROVE Checked(session[p])'
  <2> DEFINE s == session[p]
  <2>1. Checked(s) /\ Sound(s) /\ s' = s
    BY RunningAlone DEF Elapse
  <2>2. s.at \in {"duplicate", "addInvite"} => Cardinality(RecentPending(s.me)') < RateLimitMax
    <3> SUFFICES ASSUME s.at \in {"duplicate", "addInvite"}
                 PROVE  Cardinality(RecentPending(s.me)') < RateLimitMax
      OBVIOUS
    <3>1. s.me \in User
      BY <2>1 DEF Sound, SoundCaller, Registering
    <3>2. /\ Cardinality(RecentPending(s.me)') <= Cardinality(RecentPending(s.me))
          /\ Cardinality(RecentPending(s.me)) < RateLimitMax
          /\ IsFiniteSet(RecentPending(s.me)') /\ IsFiniteSet(RecentPending(s.me))
      BY <1>3, <2>1, <3>1, FewerPending
      DEF SInv, InviteInv, FinitelyManyRecent, Checked, CheckedInvite
    <3>3. Cardinality(RecentPending(s.me)') \in Nat /\ Cardinality(RecentPending(s.me)) \in Nat
      BY <3>2, FS_CardinalityType
    <3> QED
      BY <3>2, <3>3, InvitesAssumption DEF InvitesAssumption
  <2>3. s.at = "addInvite" => PendingFromTo(s.me, s.to)' = {}
    BY <1>2, <2>1 DEF Checked, CheckedInvite, PendingFromTo
  <2>4. s.at \in Answering => invites'[s.inv].status # "expired"
    BY <1>2, <2>1 DEF Checked, CheckedInvite, Sound, SoundInvite
  <2>5. CheckedCouple(session[p])'
    BY <2>1 DEF Elapse, Checked, CheckedCouple, RelationshipsOf
  <2> QED
    BY <2>1, <2>2, <2>3, <2>4, <2>5 DEF Checked, CheckedInvite
<1> QED
  BY <1>3, <1>4, <1>5, FewerPending DEF SInv

-----------------------------------------------------------------------------
(* The invariant, and what follows from it.                                *)

LEMMA InitIsSerial == Init => SInv
<1> SUFFICES ASSUME Init PROVE SInv
  OBVIOUS
<1> USE DEF Init
<1>1. InviteInv
  <2>1. \A u \in User : RecentPending(u) = {}
    BY DEF RecentPending, NoInvite
  <2>2. FinitelyManyRecent /\ RateLimitHolds
    BY <2>1, FS_EmptySet, InvitesAssumption
    DEF FinitelyManyRecent, RateLimitHolds, InvitesAssumption
  <2>3. PendingInvitesDiffer
    BY DEF PendingInvitesDiffer, NoInvite
  <2> QED
    BY <2>2, <2>3 DEF InviteInv
<1>2. CoupleInv
  BY DEF CoupleInv, TwoMembers, OneRelationshipPerCouple, LinkedByARow, MembersOf
<1>3. \A p \in Request : Checked(session[p])
  BY Unguarded DEF Idle, Guarded, Answering
<1> QED
  BY <1>1, <1>2, <1>3 DEF SInv

LEMMA NextIsSerial ==
  ASSUME IInv, OneAtATime, SInv, [Next]_vars
  PROVE  SInv'
<1>1. ASSUME NEW p \in Request, Begin(p) PROVE SInv'
  BY <1>1, BeginIsSerial
<1>2. ASSUME NEW p \in Request, InviteStep(p) PROVE SInv'
  BY <1>2, InviteReadsAreSerial, MarkIsSerial, AddInviteIsSerial DEF InviteStep
<1>3. ASSUME NEW p \in Request, RelationshipStep(p) PROVE SInv'
  BY <1>3, AcceptReadsAreSerial, LeaveReadsAreSerial, PairIsSerial, LeaveIsSerial,
     LocksAreSerial
  DEF RelationshipStep
<1>4. ASSUME NEW p \in Request, AccountStep(p) \/ Fail(p) PROVE SInv'
  BY <1>4, AccountReadsAreSerial, LocksAreSerial, EraseRelationshipIsSerial, EraseUserIsSerial
  DEF AccountStep
<1>5. CASE \E i \in Invite : Elapse(i)
  BY <1>5, ElapseIsSerial
<1>6. CASE UNCHANGED dbVars
  <2>1. UNCHANGED <<relationships, members, invites>> /\ session' = session
    BY <1>6 DEF dbVars
  <2>2. \A p \in Request : Checked(session[p])'
    BY <2>1 DEF SInv, Checked, CheckedInvite, CheckedCouple,
                RecentPending, PendingFromTo, RelationshipsOf
  <2> QED
    BY <2>1, <2>2, TablesStay DEF SInv
<1> QED
  BY <1>1, <1>2, <1>3, <1>4, <1>5, <1>6
  DEF Next, Handle, Environment, SignUp, TokenExpires, vars

\* Served one at a time, a handler still finds true what it has checked.
THEOREM SerialInvariance == OneAtATime => (Spec => []SInv)
<1> SUFFICES ASSUME OneAtATime PROVE Spec => []SInv
  OBVIOUS
<1>1. IInv /\ SInv /\ [Next]_vars => SInv'
  BY NextIsSerial
<1> QED
  BY <1>1, Invariance, InitIsSerial, PTL DEF Spec

\* Accepting a second invite of the partner is refused (RelationshipsService.add).
THEOREM OneAtATimeOnePerCouple == OneAtATime => (Spec => []OneRelationshipPerCouple)
<1>1. SInv => OneRelationshipPerCouple
  BY DEF SInv, CoupleInv
<1> QED
  BY <1>1, SerialInvariance, PTL

\* A second invite to the same address is refused while the first is pending.
THEOREM OneAtATimeOnePending == OneAtATime => (Spec => []OnePendingInvite)
<1>1. SInv => OnePendingInvite
  <2> SUFFICES ASSUME SInv, NEW u \in User, NEW a \in Address
               PROVE  Cardinality(PendingFromTo(u, a)) <= 1
    BY DEF OnePendingInvite
  <2>1. CASE PendingFromTo(u, a) = {}
    BY <2>1, FS_EmptySet
  <2>2. CASE \E i : PendingFromTo(u, a) = {i}
    BY <2>2, FS_Singleton
  <2>3. \A i, j \in PendingFromTo(u, a) : i = j
    BY Constants DEF SInv, InviteInv, PendingInvitesDiffer, PendingFromTo
  <2> QED
    BY <2>1, <2>2, <2>3
<1> QED
  BY <1>1, SerialInvariance, PTL

\* INVITE_RATE_LIMIT_MAX is never passed, however clocks run between count and insert.
THEOREM OneAtATimeRateLimit == OneAtATime => (Spec => []RateLimitHolds)
<1>1. SInv => RateLimitHolds
  BY DEF SInv, InviteInv
<1> QED
  BY <1>1, SerialInvariance, PTL

\* No failure of an erasure and no departure leaves a relationship of one.
THEOREM OneAtATimeNoHalf == OneAtATime => (Spec => []NoHalfRelationship)
<1>1. SInv => NoHalfRelationship
  <2> SUFFICES ASSUME SInv, NEW r \in Relationship, relationships[r] = "live"
               PROVE  Cardinality(MembersOf(r)) = 2
    BY DEF NoHalfRelationship
  <2>1. PICK u \in User, v \in User : u # v /\ MembersOf(r) = {u, v}
    BY DEF SInv, CoupleInv, TwoMembers
  <2>2. IsFiniteSet({u}) /\ Cardinality({u}) = 1 /\ {u, v} = {u} \cup {v} /\ v \notin {u}
    BY <2>1, FS_Singleton
  <2>3. Cardinality({u} \cup {v}) = IF v \in {u} THEN Cardinality({u}) ELSE Cardinality({u}) + 1
    BY <2>2, FS_AddElement
  <2> QED
    BY <2>1, <2>2, <2>3
<1> QED
  BY <1>1, SerialInvariance, PTL

\* The link from the invite to the relationship is never taken over by another.
THEOREM OneAtATimeLinked == OneAtATime => (Spec => []RelationshipHasItsInvite)
<1>1. SInv => RelationshipHasItsInvite
  BY DEF SInv, CoupleInv, LinkedByARow, RelationshipHasItsInvite
<1> QED
  BY <1>1, SerialInvariance, PTL

-----------------------------------------------------------------------------
(* Expired for good.                                                       *)

StaysExpired ==
  \A i \in Invite : invites[i].status = "expired" => invites'[i].status = "expired"

LEMMA ExpiredStays ==
  ASSUME IInv, SInv, [Next]_vars
  PROVE  StaysExpired
<1>1. CASE UNCHANGED invites
  BY <1>1 DEF StaysExpired
<1>2. ASSUME NEW p \in Request, MarkExpired(p) PROVE StaysExpired
  BY <1>2 DEF MarkExpired, StaysExpired, IInv, TypeOK, InviteRow
<1>3. ASSUME NEW p \in Request, MarkDeclined(p) \/ Pair(p) PROVE StaysExpired
  <2> DEFINE i == session[p].inv
  <2>1. invites[i].status # "expired"
    BY <1>3, RunningAlone DEF MarkDeclined, Pair, At, Checked, CheckedInvite, Answering
  <2>2. \A j \in Invite \ {i} : invites'[j] = invites[j]
    BY <1>3 DEF MarkDeclined, Pair, MarkAccepted, IInv, TypeOK
  <2> QED
    BY <2>1, <2>2 DEF StaysExpired
<1>4. ASSUME NEW p \in Request, AddInvite(p) PROVE StaysExpired
  BY <1>4 DEF AddInvite, StaysExpired, IInv, TypeOK
<1>5. ASSUME NEW p \in Request, Leave(p) \/ EraseRelationship(p) PROVE StaysExpired
  <2>1. \A i \in session[p].ended : invites[i].status = "accepted"
    BY Running DEF Sound, SoundEnded
  <2>2. \A i \in Invite :
          invites'[i].status = IF i \in session[p].ended THEN "ended" ELSE invites[i].status
    <3>1. invites' = [i \in Invite |->
            [invites[i] EXCEPT !.rel = IF @ = session[p].rel THEN Null ELSE @,
                               !.status = IF i \in session[p].ended THEN "ended" ELSE @]]
      BY <1>5 DEF Leave, EraseRelationship, DeleteRelationship
    <3> QED
      BY <3>1 DEF IInv, TypeOK, InviteRow
  <2> QED
    BY <2>1, <2>2 DEF StaysExpired
<1>6. ASSUME NEW p \in Request, EraseUser(p) PROVE StaysExpired
  BY <1>6 DEF EraseUser, StaysExpired, IInv, TypeOK, InviteRow
<1>7. ASSUME NEW i \in Invite, Elapse(i) PROVE StaysExpired
  BY <1>7 DEF Elapse, StaysExpired, IInv, TypeOK, InviteRow
<1> QED
  BY <1>1, <1>2, <1>3, <1>4, <1>5, <1>6, <1>7, StepsThatWrite
  DEF Next, Environment, SignUp, TokenExpires, vars, dbVars, tables, AddUser

\* Whoever answers an invite has found it in time, or found it marked and gave up.
THEOREM OneAtATimeExpiredIsFinal == OneAtATime => (Spec => ExpiredIsFinal)
<1>1. IInv /\ SInv /\ [Next]_vars => [StaysExpired]_vars
  BY ExpiredStays
<1> QED
  BY <1>1, Invariance, SerialInvariance, PTL DEF Spec, ExpiredIsFinal, StaysExpired

-----------------------------------------------------------------------------
(* The strict refinement.                                                  *)

\* Whoever writes knows what was checked before.
LEMMA RequestStepIsStrict ==
  ASSUME IInv, SInv, NEW p \in Request, Begin(p) \/ Handle(p) \/ Fail(p)
  PROVE  [Promise!StrictNext]_(Promise!vars)
<1>1. Checked(session[p])
  BY DEF SInv
<1>2. CASE Stutters
  BY <1>2 DEF Stutters, Invited, Coupled, Left, Promise!vars
<1>3. ASSUME session[p].at = "pair", NEW r \in Relationship, NEW u \in User, NEW v \in User,
             u = session[p].me, v = session[p].other, Promise!Pair(r, u, v)
      PROVE  Promise!StrictNext
  <2>1. RelationshipsOf(u) \cap RelationshipsOf(v) = {}
    BY <1>1, <1>3 DEF Checked, CheckedCouple
  <2>2. \A q \in Relationship : ~({u, v} \subseteq MembersOf(q))
    BY <2>1 DEF RelationshipsOf, MembersOf
  <2> QED
    BY <1>3, <2>2 DEF Promise!StrictNext
<1>4. ASSUME session[p].at = "userCascade", NEW u \in User, u = session[p].me, Promise!Erase(u)
      PROVE  Promise!StrictNext
  <2>1. RelationshipsOf(u) = {}
    BY <1>1, <1>4 DEF Checked, CheckedCouple
  <2>2. \A q \in Relationship : u \notin MembersOf(q)
    BY <2>1 DEF RelationshipsOf, MembersOf
  <2> QED
    BY <1>4, <2>2 DEF Promise!StrictNext
<1>5. CASE \E u \in User, a \in Address : Promise!Ask(u, a)
  BY <1>5 DEF Promise!StrictNext
<1>6. CASE \E r \in Relationship : Promise!Part(r)
  BY <1>6 DEF Promise!StrictNext
<1> QED
  BY <1>2, <1>3, <1>4, <1>5, <1>6, RequestStepPromises

\* One at a time, the handlers keep people from becoming a couple twice and
\* from being left in a relationship with nobody.
THEOREM OneAtATimeStrict == OneAtATime => (Spec => CouplesStrictly)
<1>1. IInv /\ SInv /\ [Next]_vars => [Promise!StrictNext]_(Promise!vars)
  <2> SUFFICES ASSUME IInv, SInv, [Next]_vars PROVE [Promise!StrictNext]_(Promise!vars)
    OBVIOUS
  <2>1. CASE \E p \in Request : Begin(p) \/ Handle(p) \/ Fail(p)
    BY <2>1, RequestStepIsStrict
  <2>2. CASE Environment \/ UNCHANGED vars
    BY <2>2, OthersStutter DEF Stutters, Invited, Coupled, Left, Promise!vars
  <2> QED
    BY <2>1, <2>2 DEF Next
<1> QED
  BY <1>1, InitIsPromised, Invariance, SerialInvariance, PTL
  DEF Spec, CouplesStrictly, Promise!StrictSpec
=============================================================================
