------------------------- MODULE ConcurrencyProofs -------------------------
(***************************************************************************)
(* What any number of requests in flight at once can do to each other: who *)
(* waits for whose rows, and how far two checks that do not see each       *)
(* other's writes can overshoot.                                           *)
(***************************************************************************)
EXTENDS BackendProofs, FiniteSetTheorems

-----------------------------------------------------------------------------
(* Row locks: the inductive invariant, on top of IInv.                     *)

\* inviter_email is the address of the inviter while the inviter's row lives.
InviterSentIt ==
  \A i \in Invite : invites[i].inviter # Null => invites[i].from = MailOf(invites[i].inviter)

\* The inviter of a linked invite is in the relationship.
InviterIsMember ==
  \A i \in Invite : invites[i].rel # Null /\ invites[i].inviter # Null =>
    <<invites[i].rel, invites[i].inviter>> \in members

\* A relationship is linked from one invite only.
OneInvitePerRelationship ==
  \A i, j \in Invite : invites[i].rel # Null /\ invites[i].rel = invites[j].rel => i = j

\* A row is taken by one request at a time.
OneHolder ==
  \A p, q \in Request, r \in Relationship :
    HoldsRelationship(p, r) /\ HoldsRelationship(q, r) => p = q

\* So are the members that go with a relationship and with a user.
OneHolderOfMembers ==
  \A p, q \in Request, r \in Relationship : \A u \in MembersOf(r) :
    ~(HoldsRelationship(p, r) /\ HoldsUser(q, u))

LinkInv == InviterSentIt /\ InviterIsMember /\ OneInvitePerRelationship
LockInv == LinkInv /\ OneHolder /\ OneHolderOfMembers

\* The requests that have taken rows for a DELETE.
Cascading == {"leaveCascade", "relationshipCascade", "userCascade"}

\* Those that have passed a check of create and not inserted yet.
Admitted == {"duplicate", "addInvite"}

\* Those of accept that have found the caller in a relationship.
Comparing == {"theirMember", "common"}

\* The relationships two users have in common.
Shared(u, v) == RelationshipsOf(u) \cap RelationshipsOf(v)

Entered == Cascading \cup Admitted \cup Comparing \cup {"pair"}

-----------------------------------------------------------------------------
(* The links between invites, relationships and members.                   *)

\* Links are cut, and memberships go only together with them.
LEMMA CutLinks ==
  ASSUME LinkInv,
         \A i \in Invite : /\ invites'[i].from = invites[i].from
                          /\ invites'[i].rel \in {Null, invites[i].rel}
                          /\ invites'[i].inviter \in {Null, invites[i].inviter},
         \A i \in Invite : invites'[i].rel # Null /\ invites'[i].inviter # Null =>
           (<<invites[i].rel, invites[i].inviter>> \in members =>
              <<invites[i].rel, invites[i].inviter>> \in members')
  PROVE  LinkInv'
<1>1. InviterSentIt'
  BY DEF LinkInv, InviterSentIt
<1>2. InviterIsMember'
  BY DEF LinkInv, InviterIsMember
<1>3. OneInvitePerRelationship'
  BY DEF LinkInv, OneInvitePerRelationship
<1> QED
  BY <1>1, <1>2, <1>3 DEF LinkInv

LEMMA MarkKeepsLinks ==
  ASSUME IInv, LinkInv, NEW p \in Request, MarkExpired(p) \/ MarkDeclined(p)
  PROVE  LinkInv'
<1>1. \A i \in Invite : /\ invites'[i].from = invites[i].from
                        /\ invites'[i].rel = invites[i].rel
                        /\ invites'[i].inviter = invites[i].inviter
  BY DEF MarkExpired, MarkDeclined, IInv, TypeOK, InviteRow
<1>2. members' = members
  BY DEF MarkExpired, MarkDeclined
<1> QED
  BY <1>1, <1>2, CutLinks

LEMMA AddInviteKeepsLinks ==
  ASSUME IInv, LinkInv, NEW p \in Request, AddInvite(p)
  PROVE  LinkInv'
<1>1. CASE UNCHANGED invites
  BY <1>1, CutLinks DEF AddInvite
<1>2. CASE \E i \in Invite :
             invites' = [invites EXCEPT ![i] = NewInvite(session[p].me, session[p].to)]
  <2>1. PICK i \in Invite :
               invites' = [invites EXCEPT ![i] = NewInvite(session[p].me, session[p].to)]
    BY <1>2
  <2>2. /\ invites'[i].from = MailOf(session[p].me) /\ invites'[i].inviter = session[p].me
        /\ invites'[i].rel = Null
        /\ \A j \in Invite \ {i} : invites'[j] = invites[j]
        /\ members' = members
    BY <2>1 DEF IInv, TypeOK, NewInvite, AddInvite
  <2>3. InviterSentIt'
    BY <2>2 DEF LinkInv, InviterSentIt
  <2>4. InviterIsMember'
    BY <2>2 DEF LinkInv, InviterIsMember
  <2>5. OneInvitePerRelationship'
    BY <2>2 DEF LinkInv, OneInvitePerRelationship
  <2> QED
    BY <2>3, <2>4, <2>5 DEF LinkInv
<1> QED
  BY <1>1, <1>2 DEF AddInvite

\* The inviter who is made a member is the row the invite names: both hold the
\* address it was sent from, and no other live row does.
LEMMA PairKeepsLinks ==
  ASSUME IInv, LinkInv, NEW p \in Request, Pair(p)
  PROVE  LinkInv'
<1> DEFINE s == session[p]
           i == s.inv
<1>1. TypeOK /\ TableInv /\ Sound(s)
  BY Running DEF IInv
<1>2. CASE UNCHANGED <<members, invites>>
  BY <1>2, CutLinks
<1>3. CASE /\ BothExist(p)
           /\ \E r \in Relationship :
                /\ relationships[r] = "absent"
                /\ members' = members \cup {<<r, s.me>>, <<r, s.other>>}
                /\ MarkAccepted(i, s.seen, r)
  <2>1. PICK r \in Relationship : /\ relationships[r] = "absent"
                                  /\ members' = members \cup {<<r, s.me>>, <<r, s.other>>}
                                  /\ MarkAccepted(i, s.seen, r)
    BY <1>3
  <2>2. i \in Invite /\ s.other \in LiveUsers /\ MailOf(s.other) = invites[i].from
    BY <1>1, <1>3 DEF Pair, At, BothExist, Sound, SoundInvite, SoundPair, Answering, Pairing, LiveUsers
  <2>3. \A j \in Invite : /\ invites'[j].from = invites[j].from
                          /\ invites'[j].inviter = invites[j].inviter
                          /\ invites'[j].rel = IF j = i THEN r ELSE invites[j].rel
    BY <1>1, <2>1, <2>2 DEF MarkAccepted, TypeOK, InviteRow
  <2>4. \A j \in Invite : invites[j].rel # r
    BY <1>1, <2>1, Constants DEF TableInv, NoDanglingReference
  <2>5. ASSUME invites[i].inviter # Null PROVE invites[i].inviter = s.other
    <3>1. invites[i].inviter \in LiveUsers
      BY <1>1, <2>2, <2>5 DEF TableInv, NoDanglingReference, LiveUsers, TypeOK, InviteRow
    <3>2. MailOf(invites[i].inviter) = MailOf(s.other)
      BY <2>2, <2>5 DEF LinkInv, InviterSentIt
    <3> QED
      BY <1>1, <2>2, <3>1, <3>2 DEF TableInv, OneRowPerAddress
  <2>6. InviterSentIt'
    BY <2>3 DEF LinkInv, InviterSentIt
  <2>7. InviterIsMember'
    BY <2>1, <2>3, <2>5 DEF LinkInv, InviterIsMember
  <2>8. OneInvitePerRelationship'
    BY <2>3, <2>4 DEF LinkInv, OneInvitePerRelationship
  <2> QED
    BY <2>6, <2>7, <2>8 DEF LinkInv
<1> QED
  BY <1>2, <1>3 DEF Pair

LEMMA DeleteKeepsLinks ==
  ASSUME IInv, LinkInv, NEW p \in Request, DeleteRelationship(p)
  PROVE  LinkInv'
<1>1. invites' = [i \in Invite |->
        [invites[i] EXCEPT !.rel = IF @ = session[p].rel THEN Null ELSE @,
                           !.status = IF i \in session[p].ended THEN "ended" ELSE @]]
  BY DEF DeleteRelationship
<1>2. \A i \in Invite :
        /\ invites'[i].from = invites[i].from /\ invites'[i].inviter = invites[i].inviter
        /\ invites'[i].rel = IF invites[i].rel = session[p].rel THEN Null ELSE invites[i].rel
  BY <1>1 DEF IInv, TypeOK, InviteRow
<1>3. \A i \in Invite : invites'[i].rel # Null =>
        (<<invites[i].rel, invites[i].inviter>> \in members =>
           <<invites[i].rel, invites[i].inviter>> \in members')
  BY <1>2 DEF DeleteRelationship
<1> QED
  BY <1>2, <1>3, CutLinks

LEMMA EraseUserKeepsLinks ==
  ASSUME IInv, LinkInv, NEW p \in Request, EraseUser(p)
  PROVE  LinkInv'
<1> DEFINE u == session[p].me
<1>1. invites' = [i \in Invite |-> [invites[i] EXCEPT !.inviter = IF @ = u THEN Null ELSE @]]
  BY DEF EraseUser
<1>2. \A i \in Invite :
        /\ invites'[i].from = invites[i].from /\ invites'[i].rel = invites[i].rel
        /\ invites'[i].inviter = IF invites[i].inviter = u THEN Null ELSE invites[i].inviter
  BY <1>1 DEF IInv, TypeOK, InviteRow
<1>3. \A i \in Invite : invites'[i].inviter # Null =>
        (<<invites[i].rel, invites[i].inviter>> \in members =>
           <<invites[i].rel, invites[i].inviter>> \in members')
  BY <1>2 DEF EraseUser
<1> QED
  BY <1>2, <1>3, CutLinks

\* Whatever a request does next, a linked invite stays that of its couple.
LEMMA RequestKeepsLinks ==
  ASSUME IInv, LinkInv, NEW p \in Request, Begin(p) \/ Handle(p) \/ Fail(p)
  PROVE  LinkInv'
<1>1. CASE UNCHANGED <<members, invites>>
  BY <1>1, CutLinks
<1> QED
  BY <1>1, StepsThatWrite, MarkKeepsLinks, AddInviteKeepsLinks, PairKeepsLinks,
     DeleteKeepsLinks, EraseUserKeepsLinks
  DEF tables, Leave, EraseRelationship, AddUser

-----------------------------------------------------------------------------
(* The rows that requests hold.                                            *)

\* Rows are taken by no other step than the locking one of each DELETE, and no
\* other step than a check admits an invite or an accept.
LEMMA OnlyTheseEnter ==
  ASSUME IInv, NEW p \in Request, Begin(p) \/ Handle(p) \/ Fail(p),
         ~LockToLeave(p), ~LockToErase(p), ~LockUser(p), ~CountRecent(p), ~CheckDuplicate(p),
         ~FindMyMember(p), ~FindTheirMember(p), ~FindCommon(p)
  PROVE  /\ session'[p].at \notin Entered
         /\ \A q \in Request \ {p} : session'[q] = session[q]
<1>1. session \in [Request -> Session]
  BY DEF IInv, TypeOK
<1>2. CASE Reply(p)
  BY <1>1, <1>2 DEF Reply, Move, Idle, Entered, Cascading, Admitted, Comparing
<1>3. CASE Begin(p)
  BY <1>1, <1>3
  DEF Begin, BeginInviteRequest, BeginRelationshipRequest, BeginErase, BeginRegister,
      BeginInvite, BeginPending, BeginDecline, BeginAccept, BeginLeave, Move, Idle, Entered, Cascading, Admitted, Comparing
<1>4. ASSUME NEW s, Move(p, s), s.at \notin Entered
      PROVE  /\ session'[p].at \notin Entered
             /\ \A q \in Request \ {p} : session'[q] = session[q]
  BY <1>1, <1>4 DEF Move
<1>5. session[p] \in Session
  BY <1>1
<1>6. ASSUME NEW next \in Step \ (Entered), NEW x,
             \/ Move(p, [session[p] EXCEPT !.at = next])
             \/ Move(p, [session[p] EXCEPT !.at = next, !.inv = x])
             \/ Move(p, [session[p] EXCEPT !.at = next, !.seen = x])
             \/ Move(p, [session[p] EXCEPT !.at = next, !.other = x])
             \/ Move(p, [session[p] EXCEPT !.at = next, !.rel = x])
             \/ Move(p, [session[p] EXCEPT !.at = next, !.ended = x])
      PROVE  /\ session'[p].at \notin Entered
             /\ \A q \in Request \ {p} : session'[q] = session[q]
  <2>1. /\ [session[p] EXCEPT !.at = next].at = next
        /\ [session[p] EXCEPT !.at = next, !.inv = x].at = next
        /\ [session[p] EXCEPT !.at = next, !.seen = x].at = next
        /\ [session[p] EXCEPT !.at = next, !.other = x].at = next
        /\ [session[p] EXCEPT !.at = next, !.rel = x].at = next
        /\ [session[p] EXCEPT !.at = next, !.ended = x].at = next
    BY <1>5 DEF Session
  <2> QED
    BY <1>4, <1>6, <2>1
<1>7. CASE \E next \in {"decline", "inviter"} : UnlessExpired(p, next)
  BY <1>2, <1>6, <1>7 DEF UnlessExpired, Step, Entered, Cascading, Admitted, Comparing
<1>8. CASE InviteStep(p)
  BY <1>2, <1>6, <1>7, <1>8
  DEF InviteStep, AddInvite, GetPending, MarkExpired,
      LoadToDecline, MarkDeclined, Step, Entered, Cascading, Admitted, Comparing
<1>9. CASE RelationshipStep(p)
  BY <1>2, <1>6, <1>7, <1>9
  DEF RelationshipStep, LoadInvite, LoadInviter, Pair, FindToLeave, FindMine, EndInvites, FindAgain, Leave, Step, Entered, Cascading, Admitted, Comparing
<1>10. CASE AccountStep(p)
  BY <1>2, <1>6, <1>10
  DEF AccountStep, CheckEmail, AddUser, LoadUser, DeleteAuthUser, FindErased, FindMine,
      EraseRelationship, EraseUser, Step, Entered, Cascading, Admitted, Comparing
<1> QED
  BY <1>2, <1>3, <1>8, <1>9, <1>10 DEF Handle, Fail

\* What the two checks of create do to the request.
LEMMA ChecksAdmit ==
  ASSUME IInv, NEW p \in Request, CountRecent(p) \/ CheckDuplicate(p)
  PROVE  /\ UNCHANGED tables
         /\ \A q \in Request \ {p} : session'[q] = session[q]
         /\ \/ session'[p].at = "idle"
            \/ /\ session'[p].me = session[p].me /\ session'[p].to = session[p].to
               /\ \/ session[p].at = "count" /\ session'[p].at = "duplicate"
                  \/ session[p].at = "duplicate" /\ session'[p].at = "addInvite"
<1>1. session \in [Request -> Session] /\ session[p] \in Session
  BY DEF IInv, TypeOK
<1>2. CASE Reply(p)
  BY <1>1, <1>2 DEF CountRecent, CheckDuplicate, Reply, Move, Idle
<1>3. CASE CountRecent(p) /\ ~Reply(p)
  BY <1>1, <1>3 DEF CountRecent, Move, At, Session
<1>4. CASE CheckDuplicate(p) /\ ~Reply(p)
  BY <1>1, <1>4 DEF CheckDuplicate, Move, At, Session
<1> QED
  BY <1>2, <1>3, <1>4

\* What the lookups of accept find out: the two share nothing now, or not the
\* relationship the caller was in.
LEMMA LookupsJoin ==
  ASSUME IInv, NEW p \in Request, FindMyMember(p) \/ FindTheirMember(p) \/ FindCommon(p)
  PROVE  /\ UNCHANGED tables
         /\ \A q \in Request \ {p} : session'[q] = session[q]
         /\ \/ session'[p].at = "idle"
            \/ /\ session'[p].me = session[p].me /\ session'[p].other = session[p].other
               /\ \/ /\ session[p].at = "myMember" /\ session'[p].at = "theirMember"
                     /\ RelationshipsOf(session[p].me) = {session'[p].rel}
                  \/ /\ session[p].at = "theirMember" /\ session'[p].at = "common"
                     /\ session'[p].rel = session[p].rel
                  \/ /\ session[p].at = "myMember" /\ session'[p].at = "pair"
                     /\ RelationshipsOf(session[p].me) = {}
                  \/ /\ session[p].at \in Comparing /\ session'[p].at = "pair"
                     /\ session[p].rel \notin Shared(session[p].me, session[p].other)
<1>1. session \in [Request -> Session] /\ session[p] \in Session
  BY DEF IInv, TypeOK
<1>2. UNCHANGED tables
  BY DEF FindMyMember, FindTheirMember, FindCommon
<1>3. \A q \in Request \ {p} : session'[q] = session[q]
  BY <1>1 DEF FindMyMember, FindTheirMember, FindCommon, NothingInCommon, Reply, Move
<1>4. CASE Reply(p)
  BY <1>1, <1>2, <1>3, <1>4 DEF Reply, Move, Idle
<1>5. ASSUME NothingInCommon(p), ~Reply(p)
      PROVE  /\ session'[p].me = session[p].me /\ session'[p].other = session[p].other
             /\ session'[p].at = "pair"
  BY <1>1, <1>5 DEF NothingInCommon, Move, Session
<1>6. CASE FindMyMember(p) /\ ~Reply(p)
  <2>1. CASE RelationshipsOf(session[p].me) = {} /\ NothingInCommon(p)
    BY <1>2, <1>3, <1>5, <1>6, <2>1 DEF FindMyMember, At
  <2>2. CASE \E r \in RelationshipsOf(session[p].me) :
               /\ RelationshipsOf(session[p].me) = {r}
               /\ Move(p, [session[p] EXCEPT !.at = "theirMember", !.rel = r])
    <3>1. PICK r : /\ RelationshipsOf(session[p].me) = {r}
                   /\ Move(p, [session[p] EXCEPT !.at = "theirMember", !.rel = r])
      BY <2>2
    <3>2. /\ session'[p].me = session[p].me /\ session'[p].other = session[p].other
          /\ session'[p].at = "theirMember" /\ session'[p].rel = r
      BY <1>1, <3>1 DEF Move, Session
    <3> QED
      BY <1>2, <1>3, <1>6, <3>1, <3>2 DEF FindMyMember, At
  <2> QED
    BY <1>6, <2>1, <2>2 DEF FindMyMember
<1>7. CASE FindTheirMember(p) /\ ~Reply(p)
  <2>1. CASE RelationshipsOf(session[p].other) = {session[p].rel}
    <3>1. Move(p, [session[p] EXCEPT !.at = "common"])
      BY <1>7, <2>1 DEF FindTheirMember
    <3>2. /\ session'[p].me = session[p].me /\ session'[p].other = session[p].other
          /\ session'[p].at = "common" /\ session'[p].rel = session[p].rel
      BY <1>1, <3>1 DEF Move, Session
    <3> QED
      BY <1>2, <1>3, <1>7, <3>2 DEF FindTheirMember, At
  <2>2. CASE RelationshipsOf(session[p].other) # {session[p].rel}
    <3>1. NothingInCommon(p) /\ session[p].rel \notin RelationshipsOf(session[p].other)
      BY <1>7, <2>2 DEF FindTheirMember
    <3>2. session[p].rel \notin Shared(session[p].me, session[p].other)
      BY <3>1 DEF Shared
    <3> QED
      BY <1>2, <1>3, <1>5, <1>7, <3>1, <3>2 DEF FindTheirMember, At, Comparing
  <2> QED
    BY <2>1, <2>2
<1>8. CASE FindCommon(p) /\ ~Reply(p)
  <2>1. NothingInCommon(p) /\ relationships[session[p].rel] # "live"
    BY <1>8 DEF FindCommon
  <2>2. session[p].rel \notin Shared(session[p].me, session[p].other)
    BY <2>1 DEF Shared, RelationshipsOf, IInv, TableInv, NoDanglingReference
  <2> QED
    BY <1>2, <1>3, <1>5, <1>8, <2>1, <2>2 DEF FindCommon, At, Comparing
<1> QED
  BY <1>4, <1>6, <1>7, <1>8

\* New members are those of a relationship nobody can have taken yet.
LEMMA MembersJoinNew ==
  ASSUME IInv, NEW p \in Request, Begin(p) \/ Handle(p) \/ Fail(p)
  PROVE  \A m \in members' \ members : relationships[m[1]] = "absent"
<1>1. CASE Pair(p)
  BY <1>1 DEF Pair
<1>2. CASE ~Pair(p)
  <2>1. members' \subseteq members
    BY <1>2, StepsThatWrite
    DEF tables, MarkExpired, MarkDeclined, AddInvite, Leave, EraseRelationship,
        DeleteRelationship, AddUser, EraseUser
  <2> QED
    BY <2>1
<1> QED
  BY <1>1, <1>2

\* A relationship that is being deleted has existed.
LEMMA TakenExists ==
  ASSUME IInv, NEW q \in Request, NEW r \in Relationship, HoldsRelationship(q, r)
  PROVE  relationships[r] # "absent"
BY Running DEF HoldsRelationship, Sound, SoundRelationship, Leaving

LEMMA LocksExclude ==
  ASSUME IInv, OneHolder, OneHolderOfMembers, NEW p \in Request,
         LockToLeave(p) \/ LockToErase(p) \/ LockUser(p)
  PROVE  OneHolder' /\ OneHolderOfMembers'
<1>1. TypeOK /\ session[p] \in Session
  BY Running DEF IInv
<1>2. members' = members
  BY DEF LockToLeave, LockToErase, LockRelationship, LockUser, tables
<1>3. CASE LockToLeave(p) \/ LockToErase(p)
  <2>1. PICK next \in {"leaveCascade", "relationshipCascade"} :
               Move(p, [session[p] EXCEPT !.at = next])
    BY <1>3 DEF LockToLeave, LockToErase, LockRelationship
  <2>2. /\ session'[p].at = next /\ session'[p].rel = session[p].rel
        /\ \A q \in Request \ {p} : session'[q] = session[q]
    BY <1>1, <2>1 DEF Move, TypeOK, Session
  <2>3. RelationshipHolders(p, session[p].rel) = {}
    BY <1>3 DEF LockToLeave, LockToErase, LockRelationship
  <2>4. OneHolder'
    BY <2>2, <2>3 DEF OneHolder, HoldsRelationship, RelationshipHolders
  <2>5. OneHolderOfMembers'
    BY <1>2, <2>2, <2>3
    DEF OneHolderOfMembers, HoldsRelationship, HoldsUser, RelationshipHolders, MembersOf, At
  <2> QED
    BY <2>4, <2>5
<1>4. CASE LockUser(p)
  <2>1. /\ session'[p].at = "userCascade" /\ session'[p].me = session[p].me
        /\ \A q \in Request \ {p} : session'[q] = session[q]
    BY <1>1, <1>4 DEF LockUser, Move, TypeOK, Session
  <2>2. UserHolders(p, session[p].me) = {}
    BY <1>4 DEF LockUser
  <2>3. OneHolder'
    BY <2>1 DEF OneHolder, HoldsRelationship
  <2>4. OneHolderOfMembers'
    BY <1>2, <2>1, <2>2
    DEF OneHolderOfMembers, HoldsRelationship, HoldsUser, UserHolders, MembersOf,
        RelationshipsOf, At
  <2> QED
    BY <2>3, <2>4
<1> QED
  BY <1>3, <1>4

LEMMA RequestKeepsLocks ==
  ASSUME IInv, OneHolder, OneHolderOfMembers, NEW p \in Request, Begin(p) \/ Handle(p) \/ Fail(p)
  PROVE  OneHolder' /\ OneHolderOfMembers'
<1>1. CASE LockToLeave(p) \/ LockToErase(p) \/ LockUser(p)
  BY <1>1, LocksExclude
<1>2. CASE ~LockToLeave(p) /\ ~LockToErase(p) /\ ~LockUser(p)
  <2>1. session'[p].at \notin Cascading /\ \A q \in Request \ {p} : session'[q] = session[q]
    BY <1>2, OnlyTheseEnter, ChecksAdmit, LookupsJoin DEF Entered, Cascading
  <2>2. \A q \in Request, r \in Relationship :
          HoldsRelationship(q, r)' => HoldsRelationship(q, r) /\ q # p
    BY <2>1 DEF HoldsRelationship, Cascading
  <2>3. \A q \in Request, u \in User : HoldsUser(q, u)' => HoldsUser(q, u)
    BY <2>1 DEF HoldsUser, At, Cascading
  <2>4. OneHolder'
    BY <2>2 DEF OneHolder
  <2>5. ASSUME NEW q \in Request, NEW r \in Relationship, HoldsRelationship(q, r)',
               NEW u \in User, <<r, u>> \in members'
        PROVE  <<r, u>> \in members
    <3>1. relationships[r] # "absent"
      BY <2>2, <2>5, TakenExists
    <3>2. <<r, u>> \in members' \ members => relationships[<<r, u>>[1]] = "absent"
      BY MembersJoinNew
    <3> QED
      BY <2>5, <3>1, <3>2
  <2>6. OneHolderOfMembers'
    BY <2>2, <2>3, <2>5 DEF OneHolderOfMembers, MembersOf
  <2> QED
    BY <2>4, <2>6
<1> QED
  BY <1>1, <1>2

LEMMA InitLocks == Init => LockInv
BY DEF Init, LockInv, LinkInv, InviterSentIt, InviterIsMember, OneInvitePerRelationship,
       OneHolder, OneHolderOfMembers, HoldsRelationship, NoInvite, Idle

LEMMA NextLocks ==
  ASSUME IInv, LockInv, [Next]_vars
  PROVE  LockInv'
<1>1. ASSUME NEW p \in Request, Begin(p) \/ Handle(p) \/ Fail(p) PROVE LockInv'
  BY <1>1, RequestKeepsLinks, RequestKeepsLocks DEF LockInv
<1>2. ASSUME UNCHANGED <<members, session>>, \A i \in Invite :
               /\ invites'[i].from = invites[i].from /\ invites'[i].rel = invites[i].rel
               /\ invites'[i].inviter = invites[i].inviter
      PROVE  LockInv'
  <2>1. LinkInv'
    BY <1>2, CutLinks DEF LockInv
  <2>2. OneHolder' /\ OneHolderOfMembers'
    BY <1>2 DEF LockInv, OneHolder, OneHolderOfMembers, HoldsRelationship, HoldsUser, MembersOf, At
  <2> QED
    BY <2>1, <2>2 DEF LockInv
<1>3. CASE Environment \/ UNCHANGED vars
  BY <1>2, <1>3 DEF Environment, Elapse, SignUp, TokenExpires, vars, dbVars, IInv, TypeOK, InviteRow
<1> QED
  BY <1>1, <1>3 DEF Next

\* Rows are held by one request each, and linked invites are their couple's.
THEOREM LocksAreExclusive == Spec => []LockInv
<1> QED
  BY Invariance, InitLocks, NextLocks, PTL DEF Spec

-----------------------------------------------------------------------------
(* Deadlocks.                                                              *)

\* Everybody in S waits for somebody in S.
Stuck(S) == S \in SUBSET Request /\ S # {} /\ \A p \in S : \E q \in S : WaitsFor(p, q)

\* Whoever holds invites and waits has yet to delete the relationship, or does so.
LEMMA InviteHolderWaits ==
  ASSUME IInv, NEW y \in Request, NEW z \in Request, WaitsFor(y, z), NEW i \in session[y].ended
  PROVE  /\ session[y].at \in {"delete", "leaveCascade"}
         /\ i \in Invite /\ invites[i].rel = session[y].rel /\ session[y].rel \in Relationship
<1>1. Sound(session[y]) /\ session[y] \in Session /\ session[y].ended \subseteq Invite
  BY Running DEF Session
<1>2. session[y].at \in {"findAgain", "delete", "leaveCascade"}
  BY <1>1 DEF Sound, SoundEnded
<1> QED
  BY <1>1, <1>2 DEF WaitsFor, Sound, SoundEnded, SoundRelationship, Leaving

\* A DELETE that has its rows and waits is in a pair: with the leave that
\* holds the invite it waits for.
LEMMA CascadeIsInAPair ==
  ASSUME IInv, LockInv, NEW S, Stuck(S), NEW z \in S, session[z].at \in Cascading
  PROVE  \E y \in S : /\ WaitsFor(y, z) /\ WaitsFor(z, y)
                      /\ At(y, "delete") /\ session[y].ended # {} /\ session[z].ended = {}
<1>1. PICK y \in S : WaitsFor(z, y)
  BY DEF Stuck
<1>2. PICK x \in S : WaitsFor(y, x)
  BY DEF Stuck
<1>3. y \in Request /\ z \in Request /\ x \in Request /\ y # z
  BY <1>1 DEF Stuck, WaitsFor
<1>4. Sound(session[z]) /\ Sound(session[y])
  BY <1>3, Running
<1>5. CASE session[z].at \in {"leaveCascade", "relationshipCascade"}
  <2>1. PICK i \in session[y].ended : invites[i].rel = session[z].rel
    BY <1>1, <1>5 DEF WaitsFor
  <2>2. /\ session[y].at \in {"delete", "leaveCascade"}
        /\ i \in Invite /\ invites[i].rel = session[y].rel /\ session[y].rel \in Relationship
    BY <1>2, <1>3, <2>1, InviteHolderWaits
  <2>3. HoldsRelationship(z, session[y].rel)
    BY <1>5, <2>1, <2>2 DEF HoldsRelationship
  <2>4. session[y].at = "delete"
    BY <1>3, <2>2, <2>3 DEF LockInv, OneHolder, HoldsRelationship
  <2>5. WaitsFor(y, z)
    BY <1>3, <2>3, <2>4 DEF WaitsFor, RelationshipHolders
  <2>6. session[z].ended = {}
    <3>1. SUFFICES ASSUME NEW j \in session[z].ended PROVE FALSE
      OBVIOUS
    <3>2. j \in Invite /\ invites[j].rel = session[z].rel
      BY <1>3, <1>4, Running DEF Sound, SoundEnded, Session
    <3>3. i = j
      BY <2>1, <2>2, <3>2, Constants DEF LockInv, LinkInv, OneInvitePerRelationship
    <3> QED
      BY <1>3, <2>1, <3>3 DEF IInv, OneWriterPerInvite
  <2> QED
    BY <1>1, <2>1, <2>4, <2>5, <2>6 DEF At
<1>6. CASE session[z].at = "userCascade"
  <2>1. PICK i \in session[y].ended : invites[i].inviter = session[z].me
    BY <1>1, <1>6 DEF WaitsFor
  <2>2. /\ session[y].at \in {"delete", "leaveCascade"}
        /\ i \in Invite /\ invites[i].rel = session[y].rel /\ session[y].rel \in Relationship
    BY <1>2, <1>3, <2>1, InviteHolderWaits
  <2>3. session[z].me \in User
    BY <1>4, <1>6 DEF Sound, SoundCaller, Registering
  <2>4. session[z].me \in MembersOf(session[y].rel)
    BY <2>1, <2>2, <2>3, Constants DEF LockInv, LinkInv, InviterIsMember, MembersOf
  <2>5. HoldsUser(z, session[z].me)
    BY <1>6 DEF HoldsUser, At
  <2>6. session[y].at = "delete"
    BY <1>3, <2>2, <2>4, <2>5 DEF LockInv, OneHolderOfMembers, HoldsRelationship
  <2>7. WaitsFor(y, z)
    BY <1>3, <2>4, <2>5, <2>6 DEF WaitsFor, RelationshipHolders
  <2>8. session[z].ended = {}
    BY <1>4, <1>6 DEF Sound, SoundEnded
  <2> QED
    BY <1>1, <2>1, <2>6, <2>7, <2>8 DEF At
<1> QED
  BY <1>5, <1>6 DEF Cascading

\* Somebody in a deadlock has taken rows for a DELETE: whoever waits for
\* invites waits for a leave, and the leave for somebody who has.
LEMMA StuckCascade ==
  ASSUME IInv, NEW S, Stuck(S)
  PROVE  \E z \in S : session[z].at \in Cascading
<1>1. PICK p \in S : TRUE
  BY DEF Stuck
<1>2. PICK q \in S : WaitsFor(p, q)
  BY DEF Stuck
<1>3. PICK z \in S : WaitsFor(q, z)
  BY DEF Stuck
<1>4. p \in Request /\ q \in Request /\ z \in Request
  BY DEF Stuck
<1>5. CASE session[q].at \in Cascading
  BY <1>5
<1>6. CASE session[q].ended # {} /\ session[q].at \notin Cascading
  <2>1. session[q].at = "delete"
    BY <1>3, <1>4, <1>6, InviteHolderWaits DEF Cascading
  <2>2. z \in RelationshipHolders(q, session[q].rel)
    BY <1>3, <2>1 DEF WaitsFor
  <2>3. session[z].at \in Cascading
    BY <2>2 DEF RelationshipHolders, HoldsRelationship, HoldsUser, At, Cascading
  <2> QED
    BY <2>3
<1>7. session[q].ended # {} \/ session[q].at \in Cascading
  BY <1>2, <1>4
  DEF WaitsFor, RelationshipHolders, UserHolders, HoldsRelationship, HoldsUser, At, Cascading
<1> QED
  BY <1>5, <1>6, <1>7

\* PostgreSQL's detector need only look at pairs, and one of the two is a
\* leave between its UPDATE and its DELETE.
THEOREM DeadlocksArePairwise == Spec => []DeadlocksArePairs
<1>1. IInv /\ LockInv => DeadlocksArePairs
  <2> SUFFICES ASSUME IInv, LockInv, NEW S \in SUBSET Request, Stuck(S)
               PROVE  \E p, q \in S : /\ WaitsFor(p, q) /\ WaitsFor(q, p)
                                      /\ At(p, "delete") /\ session[p].ended # {}
                                      /\ session[q].ended = {}
    BY DEF DeadlocksArePairs, Stuck
  <2>1. PICK z \in S : session[z].at \in Cascading
    BY StuckCascade
  <2> QED
    BY <2>1, CascadeIsInAPair
<1> QED
  BY <1>1, Invariance, LocksAreExclusive, PTL

-----------------------------------------------------------------------------
(* Checks that do not see each other's writes.                             *)

\* Requests on their way to insert an invite of u, and one from u to a.
Counted(u) == {p \in Request : session[p].at \in Admitted /\ session[p].me = u}
Adding(u, a) ==
  {p \in Request : /\ session[p].at = "addInvite"
                   /\ session[p].me = u /\ session[p].to = a}

\* The rows in A and the requests in B that may each add one are fewer than m.
Few(A, B, m) ==
  IsFiniteSet(A) /\ IsFiniteSet(B) /\ Cardinality(A) + Cardinality(B) < m

RaceInv ==
  /\ \A u \in User :
       Few(RecentPending(u), Counted(u), RateLimitMax + Cardinality(Request))
  /\ \A u \in User, a \in Address :
       Few(PendingFromTo(u, a), Adding(u, a), 1 + Cardinality(Request))

LEMMA FewerStill ==
  ASSUME NEW A, NEW B, NEW m \in Nat, Few(A, B, m), NEW C \in SUBSET A, NEW D \in SUBSET B
  PROVE  Few(C, D, m)
<1>1. IsFiniteSet(A) /\ IsFiniteSet(B) /\ Cardinality(A) + Cardinality(B) < m
  BY DEF Few
<1>2. IsFiniteSet(C) /\ Cardinality(C) <= Cardinality(A)
  BY <1>1, FS_Subset
<1>3. IsFiniteSet(D) /\ Cardinality(D) <= Cardinality(B)
  BY <1>1, FS_Subset
<1>4. /\ Cardinality(A) \in Nat /\ Cardinality(B) \in Nat
      /\ Cardinality(C) \in Nat /\ Cardinality(D) \in Nat
  BY <1>1, <1>2, <1>3, FS_CardinalityType
<1> QED
  BY <1>1, <1>2, <1>3, <1>4 DEF Few

\* A request on its way inserts.
LEMMA OneInserted ==
  ASSUME NEW A, NEW B, NEW m \in Nat, Few(A, B, m), NEW x, NEW b \in B
  PROVE  Few(A \cup {x}, B \ {b}, m)
<1>1. IsFiniteSet(A) /\ IsFiniteSet(B) /\ Cardinality(A) + Cardinality(B) < m
  BY DEF Few
<1>2. /\ IsFiniteSet(A \cup {x})
      /\ Cardinality(A \cup {x}) = IF x \in A THEN Cardinality(A) ELSE Cardinality(A) + 1
  BY <1>1, FS_AddElement
<1>3. IsFiniteSet(B \ {b}) /\ Cardinality(B \ {b}) = Cardinality(B) - 1
  BY <1>1, FS_RemoveElement
<1>4. Cardinality(A) \in Nat /\ Cardinality(B) \in Nat
  BY <1>1, FS_CardinalityType
<1> QED
  BY <1>1, <1>2, <1>3, <1>4 DEF Few

\* However many are on their way: the one that has just looked found few rows.
LEMMA FewFound ==
  ASSUME NEW A, NEW B \in SUBSET Request, NEW k \in Nat,
         IsFiniteSet(A), Cardinality(A) < k, IsFiniteSet(Request)
  PROVE  Few(A, B, k + Cardinality(Request))
<1>1. IsFiniteSet(B) /\ Cardinality(B) <= Cardinality(Request)
  BY FS_Subset
<1>2. Cardinality(A) \in Nat /\ Cardinality(B) \in Nat /\ Cardinality(Request) \in Nat
  BY <1>1, FS_CardinalityType
<1> QED
  BY <1>1, <1>2 DEF Few

\* The rows alone.
LEMMA FewFree ==
  ASSUME NEW A, NEW B, NEW m, Few(A, B, m), m \in Nat
  PROVE  Cardinality(A) < m
<1>1. Cardinality(A) \in Nat /\ Cardinality(B) \in Nat
  BY FS_CardinalityType DEF Few
<1> QED
  BY <1>1 DEF Few

\* Steps after which nobody has more pending invites or is nearer to another.
LEMMA NoMoreRaces ==
  ASSUME RaceInv, IsFiniteSet(Request), NoNewPending,
         \A u \in User : Counted(u)' \subseteq Counted(u),
         \A u \in User, a \in Address : Adding(u, a)' \subseteq Adding(u, a)
  PROVE  RaceInv'
<1>1. RateLimitMax + Cardinality(Request) \in Nat /\ 1 + Cardinality(Request) \in Nat
  BY FS_CardinalityType, InvitesAssumption DEF InvitesAssumption
<1>2. ASSUME NEW u \in User
      PROVE  Few(RecentPending(u)', Counted(u)', RateLimitMax + Cardinality(Request))
  <2>1. RecentPending(u)' \subseteq RecentPending(u)
    BY Constants DEF NoNewPending, RecentPending
  <2> QED
    BY <1>1, <2>1, FewerStill DEF RaceInv
<1>3. ASSUME NEW u \in User, NEW a \in Address
      PROVE  Few(PendingFromTo(u, a)', Adding(u, a)', 1 + Cardinality(Request))
  <2>1. PendingFromTo(u, a)' \subseteq PendingFromTo(u, a)
    BY Constants DEF NoNewPending, PendingFromTo
  <2> QED
    BY <1>1, <2>1, FewerStill DEF RaceInv
<1> QED
  BY <1>2, <1>3 DEF RaceInv, Few

\* Any number of requests may have counted before: this one found room.
LEMMA CountRaces ==
  ASSUME IInv, RaceInv, IsFiniteSet(Request), NEW p \in Request, CountRecent(p)
  PROVE  RaceInv'
<1>1. PICK u \in User : u = session[p].me /\ session[p].at = "count"
  BY Running DEF CountRecent, At, Sound, SoundCaller, Registering
<1>2. /\ UNCHANGED invites
      /\ \A q \in Request \ {p} : session'[q] = session[q]
      /\ session'[p].at = "idle" \/ (session'[p].at = "duplicate" /\ session'[p].me = u)
  BY <1>1, ChecksAdmit DEF tables
<1>3. \A v \in User : RecentPending(v)' = RecentPending(v)
  BY <1>2 DEF RecentPending
<1>4. \A v \in User, a \in Address :
        PendingFromTo(v, a)' = PendingFromTo(v, a) /\ Adding(v, a)' \subseteq Adding(v, a)
  BY <1>2 DEF PendingFromTo, Adding
<1>5. \A v \in User \ {u} : Counted(v)' \subseteq Counted(v)
  BY <1>2 DEF Counted, Admitted
<1>6. CASE Counted(u)' \subseteq Counted(u)
  <2>1. NoNewPending
    BY <1>2 DEF NoNewPending
  <2> QED
    BY <1>4, <1>5, <1>6, <2>1, NoMoreRaces
<1>7. CASE ~RateLimited(u)
  <2>1. IsFiniteSet(RecentPending(u)) /\ Cardinality(RecentPending(u)) \in Nat
    BY <1>1, FS_CardinalityType DEF RaceInv, Few
  <2>2. Cardinality(RecentPending(u)) < RateLimitMax /\ RateLimitMax \in Nat
    BY <1>7, <2>1, InvitesAssumption DEF RateLimited, InvitesAssumption
  <2>3. Counted(u)' \in SUBSET Request
    BY DEF Counted
  <2>4. Few(RecentPending(u), Counted(u)', RateLimitMax + Cardinality(Request))
    BY <2>1, <2>2, <2>3, FewFound
  <2>5. RateLimitMax + Cardinality(Request) \in Nat /\ 1 + Cardinality(Request) \in Nat
    BY <2>2, FS_CardinalityType
  <2>6. ASSUME NEW v \in User
        PROVE  Few(RecentPending(v)', Counted(v)', RateLimitMax + Cardinality(Request))
    BY <1>3, <1>5, <2>4, <2>5, <2>6, FewerStill DEF RaceInv
  <2>7. ASSUME NEW v \in User, NEW a \in Address
        PROVE  Few(PendingFromTo(v, a)', Adding(v, a)', 1 + Cardinality(Request))
    BY <1>4, <2>5, <2>7, FewerStill DEF RaceInv
  <2> QED
    BY <2>6, <2>7 DEF RaceInv, Few
<1>8. ASSUME RateLimited(u) PROVE Counted(u)' \subseteq Counted(u)
  <2>1. session'[p].at = "idle"
    BY <1>1, <1>8 DEF CountRecent, Reply, Move, Idle, IInv, TypeOK
  <2> QED
    BY <1>2, <2>1 DEF Counted, Admitted
<1> QED
  BY <1>6, <1>7, <1>8

\* Any number of requests may have looked before: this one found none.
LEMMA DuplicateRaces ==
  ASSUME IInv, RaceInv, IsFiniteSet(Request), NEW p \in Request, CheckDuplicate(p)
  PROVE  RaceInv'
<1>1. PICK u \in User, a \in Address :
           u = session[p].me /\ a = session[p].to /\ session[p].at = "duplicate"
  BY Running DEF CheckDuplicate, At, Sound, SoundCaller, Registering, Inviting
<1>2. /\ UNCHANGED invites
      /\ \A q \in Request \ {p} : session'[q] = session[q]
      /\ \/ session'[p].at = "idle"
         \/ session'[p].at = "addInvite" /\ session'[p].me = u /\ session'[p].to = a
  BY <1>1, ChecksAdmit DEF tables
<1>3. \A v \in User : RecentPending(v)' = RecentPending(v) /\ Counted(v)' \subseteq Counted(v)
  BY <1>1, <1>2 DEF RecentPending, Counted, Admitted
<1>4. \A v \in User, b \in Address :
        /\ PendingFromTo(v, b)' = PendingFromTo(v, b)
        /\ <<v, b>> # <<u, a>> => Adding(v, b)' \subseteq Adding(v, b)
  BY <1>2 DEF PendingFromTo, Adding
<1>5. CASE Adding(u, a)' \subseteq Adding(u, a)
  <2>1. NoNewPending
    BY <1>2 DEF NoNewPending
  <2> QED
    BY <1>3, <1>4, <1>5, <2>1, NoMoreRaces
<1>6. CASE ~Duplicate(u, a)
  <2>1. /\ PendingFromTo(u, a) = {} /\ IsFiniteSet(PendingFromTo(u, a))
        /\ Cardinality(PendingFromTo(u, a)) < 1
    BY <1>6, FS_EmptySet DEF Duplicate
  <2>2. Adding(u, a)' \in SUBSET Request
    BY DEF Adding
  <2>3. Few(PendingFromTo(u, a), Adding(u, a)', 1 + Cardinality(Request))
    BY <2>1, <2>2, FewFound
  <2>4. RateLimitMax + Cardinality(Request) \in Nat /\ 1 + Cardinality(Request) \in Nat
    BY FS_CardinalityType, InvitesAssumption DEF InvitesAssumption
  <2>5. ASSUME NEW v \in User
        PROVE  Few(RecentPending(v)', Counted(v)', RateLimitMax + Cardinality(Request))
    BY <1>3, <2>4, <2>5, FewerStill DEF RaceInv
  <2>6. ASSUME NEW v \in User, NEW b \in Address
        PROVE  Few(PendingFromTo(v, b)', Adding(v, b)', 1 + Cardinality(Request))
    <3>1. CASE v = u /\ b = a
      BY <1>4, <2>3, <3>1
    <3>2. CASE <<v, b>> # <<u, a>>
      BY <1>4, <2>4, <2>6, <3>2, FewerStill DEF RaceInv
    <3> QED
      BY <3>1, <3>2
  <2> QED
    BY <2>5, <2>6 DEF RaceInv, Few
<1>7. ASSUME Duplicate(u, a) PROVE Adding(u, a)' \subseteq Adding(u, a)
  <2>1. session'[p].at = "idle"
    BY <1>1, <1>7 DEF CheckDuplicate, Reply, Move, Idle, IInv, TypeOK
  <2> QED
    BY <1>2, <2>1 DEF Adding
<1> QED
  BY <1>5, <1>6, <1>7

\* The one that inserts is on its way no longer.
LEMMA AddInviteRaces ==
  ASSUME IInv, RaceInv, IsFiniteSet(Request), NEW p \in Request, AddInvite(p)
  PROVE  RaceInv'
<1>1. PICK u \in User, a \in Address :
           u = session[p].me /\ a = session[p].to /\ session[p].at = "addInvite"
  BY Running DEF AddInvite, At, Sound, SoundCaller, Registering, Inviting
<1>2. session'[p].at = "idle" /\ \A q \in Request \ {p} : session'[q] = session[q]
  BY <1>1 DEF AddInvite, Reply, Move, Idle, IInv, TypeOK
<1>3. /\ \A v \in User : Counted(v)' = Counted(v) \ {p}
      /\ \A v \in User, b \in Address : Adding(v, b)' = Adding(v, b) \ {p}
  BY <1>2 DEF Counted, Adding, Admitted
<1>4. CASE UNCHANGED invites
  <2>1. NoNewPending
    BY <1>4 DEF NoNewPending
  <2> QED
    BY <1>3, <2>1, NoMoreRaces
<1>5. CASE \E i \in Invite : invites' = [invites EXCEPT ![i] = NewInvite(u, a)]
  <2>1. PICK i \in Invite : invites' = [invites EXCEPT ![i] = NewInvite(u, a)]
    BY <1>5
  <2>2. /\ invites'[i].inviter = u /\ invites'[i].to = a
        /\ \A j \in Invite \ {i} : invites'[j] = invites[j]
    BY <1>1, <2>1 DEF IInv, TypeOK, NewInvite
  <2>3. RateLimitMax + Cardinality(Request) \in Nat /\ 1 + Cardinality(Request) \in Nat
    BY FS_CardinalityType, InvitesAssumption DEF InvitesAssumption
  <2>4. ASSUME NEW v \in User
        PROVE  Few(RecentPending(v)', Counted(v)', RateLimitMax + Cardinality(Request))
    <3>1. Few(RecentPending(v), Counted(v), RateLimitMax + Cardinality(Request))
      BY DEF RaceInv
    <3>2. CASE v = u
      <4>1. p \in Counted(u) /\ RecentPending(u)' \subseteq RecentPending(u) \cup {i}
        BY <1>1, <2>2 DEF Counted, Admitted, RecentPending
      <4>2. Few(RecentPending(u) \cup {i}, Counted(u) \ {p}, RateLimitMax + Cardinality(Request))
        BY <2>3, <3>1, <3>2, <4>1, OneInserted
      <4> QED
        BY <1>3, <2>3, <3>2, <4>1, <4>2, FewerStill
    <3>3. CASE v # u
      <4>1. RecentPending(v)' \subseteq RecentPending(v)
        BY <2>2, <3>3 DEF RecentPending
      <4> QED
        BY <1>3, <2>3, <3>1, <4>1, FewerStill
    <3> QED
      BY <3>2, <3>3
  <2>5. ASSUME NEW v \in User, NEW b \in Address
        PROVE  Few(PendingFromTo(v, b)', Adding(v, b)', 1 + Cardinality(Request))
    <3>1. Few(PendingFromTo(v, b), Adding(v, b), 1 + Cardinality(Request))
      BY DEF RaceInv
    <3>2. CASE v = u /\ b = a
      <4>1. p \in Adding(u, a) /\ PendingFromTo(u, a)' \subseteq PendingFromTo(u, a) \cup {i}
        BY <1>1, <2>2 DEF Adding, PendingFromTo
      <4>2. Few(PendingFromTo(u, a) \cup {i}, Adding(u, a) \ {p}, 1 + Cardinality(Request))
        BY <2>3, <3>1, <3>2, <4>1, OneInserted
      <4> QED
        BY <1>3, <2>3, <3>2, <4>1, <4>2, FewerStill
    <3>3. CASE v # u \/ b # a
      <4>1. PendingFromTo(v, b)' \subseteq PendingFromTo(v, b)
        BY <2>2, <3>3 DEF PendingFromTo
      <4> QED
        BY <1>3, <2>3, <3>1, <4>1, FewerStill
    <3> QED
      BY <3>2, <3>3
  <2> QED
    BY <2>4, <2>5 DEF RaceInv, Few
<1> QED
  BY <1>1, <1>4, <1>5 DEF AddInvite

\* Nothing but create makes an invite pending.
LEMMA OnlyAddInviteAdds ==
  ASSUME IInv, NEW p \in Request, Begin(p) \/ Handle(p) \/ Fail(p), ~AddInvite(p)
  PROVE  NoNewPending
<1>1. TypeOK
  BY DEF IInv
<1>2. CASE UNCHANGED invites
  BY <1>2 DEF NoNewPending
<1>3. CASE MarkExpired(p)
  BY <1>1, <1>3 DEF MarkExpired, NoNewPending, TypeOK, InviteRow
<1>4. CASE MarkDeclined(p)
  BY <1>1, <1>4 DEF MarkDeclined, StatusWrite, NoNewPending, TypeOK, InviteRow
<1>5. ASSUME NEW r, MarkAccepted(session[p].inv, session[p].seen, r) PROVE NoNewPending
  BY <1>1, <1>5 DEF MarkAccepted, StatusWrite, NoNewPending, TypeOK, InviteRow
<1>6. CASE Pair(p)
  BY <1>2, <1>5, <1>6 DEF Pair
<1>7. CASE DeleteRelationship(p)
  <2>1. invites' = [i \in Invite |->
          [invites[i] EXCEPT !.rel = IF @ = session[p].rel THEN Null ELSE @,
                             !.status = IF i \in session[p].ended THEN "ended" ELSE @]]
    BY <1>7 DEF DeleteRelationship
  <2>2. \A i \in Invite :
          /\ invites'[i].inviter = invites[i].inviter /\ invites'[i].to = invites[i].to
          /\ invites'[i].age = invites[i].age
          /\ invites'[i].status = IF i \in session[p].ended THEN "ended" ELSE invites[i].status
    BY <1>1, <2>1 DEF TypeOK, InviteRow
  <2> QED
    BY <2>2 DEF NoNewPending
<1>8. CASE EraseUser(p)
  <2>1. invites' = [i \in Invite |->
          [invites[i] EXCEPT !.inviter = IF @ = session[p].me THEN Null ELSE @]]
    BY <1>8 DEF EraseUser
  <2> QED
    BY <1>1, <2>1 DEF NoNewPending, TypeOK, InviteRow
<1> QED
  BY <1>2, <1>3, <1>4, <1>6, <1>7, <1>8, StepsThatWrite
  DEF tables, Leave, EraseRelationship, AddUser

LEMMA NextRaces ==
  ASSUME IInv, RaceInv, IsFiniteSet(Request), [Next]_vars
  PROVE  RaceInv'
<1>1. ASSUME NEW p \in Request, Begin(p) \/ Handle(p) \/ Fail(p),
             ~CountRecent(p), ~CheckDuplicate(p), ~AddInvite(p)
      PROVE  RaceInv'
  <2>1. session'[p].at \notin Admitted /\ \A q \in Request \ {p} : session'[q] = session[q]
    <3>1. CASE LockToLeave(p) \/ LockToErase(p) \/ LockUser(p)
      <4>1. PICK next \in Cascading : Move(p, [session[p] EXCEPT !.at = next])
        BY <3>1 DEF LockToLeave, LockToErase, LockRelationship, LockUser, Cascading
      <4>2. session \in [Request -> Session] /\ session[p] \in Session
        BY DEF IInv, TypeOK
      <4> QED
        BY <4>1, <4>2 DEF Move, Session, Cascading, Admitted
    <3>2. CASE FindMyMember(p) \/ FindTheirMember(p) \/ FindCommon(p)
      BY <3>2, LookupsJoin DEF Admitted
    <3> QED
      BY <1>1, <3>1, <3>2, OnlyTheseEnter DEF Entered
  <2>2. /\ \A u \in User : Counted(u)' \subseteq Counted(u)
        /\ \A u \in User, a \in Address : Adding(u, a)' \subseteq Adding(u, a)
    BY <2>1 DEF Counted, Adding, Admitted
  <2> QED
    BY <1>1, <2>2, OnlyAddInviteAdds, NoMoreRaces
<1>2. CASE Environment \/ UNCHANGED vars
  <2>1. NoNewPending
    BY <1>2 DEF Environment, Elapse, SignUp, TokenExpires, vars, dbVars, NoNewPending,
                IInv, TypeOK, InviteRow
  <2>2. UNCHANGED session
    BY <1>2 DEF Environment, Elapse, SignUp, TokenExpires, vars, dbVars
  <2> QED
    BY <2>1, <2>2, NoMoreRaces DEF Counted, Adding
<1> QED
  BY <1>1, <1>2, CountRaces, DuplicateRaces, AddInviteRaces DEF Next

LEMMA InitRaces ==
  ASSUME IsFiniteSet(Request), Request # {}, Init
  PROVE  RaceInv
<1>1. Cardinality(Request) \in Nat /\ Cardinality(Request) # 0
  BY FS_CardinalityType, FS_EmptySet
<1>2. \A u \in User : RecentPending(u) = {} /\ Counted(u) = {}
  BY DEF Init, RecentPending, Counted, Admitted, NoInvite, Idle
<1>3. \A u \in User, a \in Address : PendingFromTo(u, a) = {} /\ Adding(u, a) = {}
  BY DEF Init, PendingFromTo, Adding, NoInvite, Idle
<1>4. ASSUME NEW m \in Nat, m > 0 PROVE Few({}, {}, m)
  BY <1>4, FS_EmptySet DEF Few
<1>5. /\ RateLimitMax + Cardinality(Request) \in Nat /\ RateLimitMax + Cardinality(Request) > 0
      /\ 1 + Cardinality(Request) \in Nat /\ 1 + Cardinality(Request) > 0
  BY <1>1, InvitesAssumption DEF InvitesAssumption
<1> QED
  BY <1>2, <1>3, <1>4, <1>5 DEF RaceInv

\* The rows a check has missed and the requests that may still add one are few.
THEOREM RacesAreBounded == IsFiniteSet(Request) /\ Request # {} => (Spec => []RaceInv)
<1> SUFFICES ASSUME IsFiniteSet(Request), Request # {} PROVE Spec => []RaceInv
  OBVIOUS
<1>1. Init => RaceInv
  BY InitRaces
<1>2. IInv /\ RaceInv /\ [Next]_vars => RaceInv'
  BY NextRaces
<1> QED
  BY <1>1, <1>2, Invariance, PTL DEF Spec

\* INVITE_RATE_LIMIT_MAX, whatever is in flight: each request that counts in time
\* adds one invite at most.
THEOREM RateLimitIsNearlyKept ==
  IsFiniteSet(Request) /\ Request # {} => (Spec => []RateLimitNearlyHolds)
<1> SUFFICES ASSUME IsFiniteSet(Request), Request # {} PROVE Spec => []RateLimitNearlyHolds
  OBVIOUS
<1>1. RaceInv => RateLimitNearlyHolds
  <2> SUFFICES ASSUME RaceInv, NEW u \in User
               PROVE  Cardinality(RecentPending(u)) < RateLimitMax + Cardinality(Request)
    BY DEF RateLimitNearlyHolds
  <2>1. RateLimitMax + Cardinality(Request) \in Nat
    BY FS_CardinalityType, InvitesAssumption DEF InvitesAssumption
  <2> QED
    BY <2>1, FewFree DEF RaceInv
<1> QED
  BY <1>1, RacesAreBounded, PTL

\* Twins of a pending invite, however many requests send it at once.
THEOREM TwinsAreFew ==
  IsFiniteSet(Request) /\ Request # {} => (Spec => []FewPendingTwins)
<1> SUFFICES ASSUME IsFiniteSet(Request), Request # {} PROVE Spec => []FewPendingTwins
  OBVIOUS
<1>1. RaceInv => FewPendingTwins
  <2> SUFFICES ASSUME RaceInv, NEW u \in User, NEW a \in Address
               PROVE  Cardinality(PendingFromTo(u, a)) <= Cardinality(Request)
    BY DEF FewPendingTwins
  <2>1. Few(PendingFromTo(u, a), Adding(u, a), 1 + Cardinality(Request))
    BY DEF RaceInv
  <2>2. Cardinality(Request) \in Nat /\ Cardinality(PendingFromTo(u, a)) \in Nat
    BY <2>1, FS_CardinalityType DEF Few
  <2>3. Cardinality(PendingFromTo(u, a)) < 1 + Cardinality(Request)
    BY <2>1, <2>2, FewFree
  <2> QED
    BY <2>2, <2>3
<1> QED
  BY <1>1, RacesAreBounded, PTL
-----------------------------------------------------------------------------
(* Accepts that do not see each other's relationships.                     *)

\* Accepts between two users that have found the caller's memberships.
Joining(u, v) ==
  {p \in Request : /\ session[p].at \in Comparing \cup {"pair"}
                   /\ {session[p].me, session[p].other} = {u, v}}

\* Those that will be refused while the relationship found is there.
Barred(R) == {p \in Request : session[p].at \in Comparing /\ session[p].rel \in R}

\* DELETE may let in all accepts that one relationship barred: hence any part
\* of what the two share, and not the whole alone.
BarInv ==
  \A u, v \in User : u # v =>
    \A R \in SUBSET Shared(u, v) : Few(R, Joining(u, v) \ Barred(R), 1 + Cardinality(Request))

\* Relationships of one couple at the same time: no more than requests in flight.
FewRelationshipsPerCouple ==
  \A u, v \in User : u # v => Cardinality(Shared(u, v)) <= Cardinality(Request)

\* Steps that bring nobody nearer to a relationship.
LEMMA NobodyJoins ==
  ASSUME BarInv, IsFiniteSet(Request), members' \subseteq members,
         NEW p \in Request, session'[p].at \notin Comparing \cup {"pair"},
         \A q \in Request \ {p} : session'[q] = session[q]
  PROVE  BarInv'
<1> SUFFICES ASSUME NEW u \in User, NEW v \in User, u # v, NEW R \in SUBSET Shared(u, v)'
             PROVE  Few(R, (Joining(u, v) \ Barred(R))', 1 + Cardinality(Request))
  BY DEF BarInv, Few
<1>1. 1 + Cardinality(Request) \in Nat
  BY FS_CardinalityType
<1>2. R \in SUBSET Shared(u, v)
  BY DEF Shared, RelationshipsOf
<1>3. (Joining(u, v) \ Barred(R))' \subseteq Joining(u, v) \ Barred(R)
  BY DEF Joining, Barred
<1> QED
  BY <1>1, <1>2, <1>3, FewerStill DEF BarInv

\* A lookup admits an accept only while the two share nothing, or bars it.
LEMMA LookupsBar ==
  ASSUME IInv, BarInv, IsFiniteSet(Request), NEW p \in Request,
         FindMyMember(p) \/ FindTheirMember(p) \/ FindCommon(p)
  PROVE  BarInv'
<1>1. UNCHANGED tables /\ \A q \in Request \ {p} : session'[q] = session[q]
  BY LookupsJoin
<1>2. CASE session'[p].at = "idle"
  BY <1>1, <1>2, NobodyJoins DEF Comparing, tables
<1>3. CASE session'[p].at # "idle"
  <2> SUFFICES ASSUME NEW u \in User, NEW v \in User, u # v, NEW R \in SUBSET Shared(u, v)'
               PROVE  Few(R, (Joining(u, v) \ Barred(R))', 1 + Cardinality(Request))
    BY DEF BarInv, Few
  <2>1. 1 + Cardinality(Request) \in Nat
    BY FS_CardinalityType
  <2>2. R \in SUBSET Shared(u, v)
    BY <1>1 DEF Shared, RelationshipsOf, tables
  <2>3. session'[p].me = session[p].me /\ session'[p].other = session[p].other
    BY <1>3, LookupsJoin
  <2>4. CASE {session[p].me, session[p].other} # {u, v}
    <3>1. (Joining(u, v) \ Barred(R))' \subseteq Joining(u, v) \ Barred(R)
      BY <1>1, <2>3, <2>4 DEF Joining, Barred
    <3> QED
      BY <2>1, <2>2, <3>1, FewerStill DEF BarInv
  <2>5. CASE {session[p].me, session[p].other} = {u, v} /\ session[p].at \in Comparing
    <3>1. \/ session'[p].at = "common" /\ session'[p].rel = session[p].rel
          \/ session'[p].at = "pair" /\ session[p].rel \notin Shared(u, v)
      <4>1. Shared(session[p].me, session[p].other) = Shared(u, v)
        BY <2>5 DEF Shared
      <4> QED
        BY <1>3, <2>5, <4>1, LookupsJoin DEF Comparing
    <3>2. (Joining(u, v) \ Barred(R))' \subseteq Joining(u, v) \ Barred(R)
      BY <1>1, <2>2, <2>3, <2>5, <3>1 DEF Joining, Barred, Comparing
    <3> QED
      BY <2>1, <2>2, <3>2, FewerStill DEF BarInv
  <2>6. CASE {session[p].me, session[p].other} = {u, v} /\ session[p].at = "myMember"
    <3>1. (Joining(u, v) \ Barred(R))' \in SUBSET Request
      BY DEF Joining
    <3>2. CASE R = {}
      <4>1. IsFiniteSet(R) /\ Cardinality(R) < 1
        BY <3>2, FS_EmptySet
      <4> QED
        BY <3>1, <4>1, FewFound
    <3>3. CASE R # {}
      <4>1. Shared(u, v) \subseteq RelationshipsOf(session[p].me)
        BY <2>6 DEF Shared
      <4>2. /\ session'[p].at = "theirMember"
            /\ RelationshipsOf(session[p].me) = {session'[p].rel}
        BY <1>3, <2>2, <2>6, <3>3, <4>1, LookupsJoin DEF Comparing
      <4>3. R = {} \cup {session'[p].rel}
        BY <2>2, <3>3, <4>1, <4>2
      <4>4. p \in Barred(R)'
        BY <4>2, <4>3 DEF Barred, Comparing
      <4>5. (Joining(u, v) \ Barred(R))' \subseteq Request \ {p}
        BY <4>4 DEF Joining
      <4>6. Few({}, Request, 1 + Cardinality(Request))
        <5>1. IsFiniteSet({}) /\ Cardinality({}) < 1
          BY FS_EmptySet
        <5> QED
          BY <5>1, FewFound
      <4>7. Few({} \cup {session'[p].rel}, Request \ {p}, 1 + Cardinality(Request))
        BY <2>1, <4>6, OneInserted
      <4> QED
        BY <2>1, <4>3, <4>5, <4>7, FewerStill
    <3> QED
      BY <3>2, <3>3
  <2> QED
    BY <2>4, <2>5, <2>6 DEF FindMyMember, FindTheirMember, FindCommon, At, Comparing
<1> QED
  BY <1>2, <1>3

\* The accept that pairs is on its way no longer.
LEMMA PairBars ==
  ASSUME IInv, BarInv, IsFiniteSet(Request), NEW p \in Request, Pair(p)
  PROVE  BarInv'
<1>1. session'[p].at = "idle" /\ \A q \in Request \ {p} : session'[q] = session[q]
  BY DEF Pair, Reply, Move, Idle, IInv, TypeOK
<1>2. CASE UNCHANGED members
  BY <1>1, <1>2, NobodyJoins DEF Comparing
<1>3. CASE \E r \in Relationship :
             /\ relationships[r] = "absent"
             /\ members' = members \cup {<<r, session[p].me>>, <<r, session[p].other>>}
  <2>1. PICK r \in Relationship :
               /\ relationships[r] = "absent"
               /\ members' = members \cup {<<r, session[p].me>>, <<r, session[p].other>>}
    BY <1>3
  <2>2. \A w \in User : <<r, w>> \notin members
    BY <2>1 DEF IInv, TableInv, NoDanglingReference
  <2> SUFFICES ASSUME NEW u \in User, NEW v \in User, u # v, NEW R \in SUBSET Shared(u, v)'
               PROVE  Few(R, (Joining(u, v) \ Barred(R))', 1 + Cardinality(Request))
    BY DEF BarInv, Few
  <2>3. 1 + Cardinality(Request) \in Nat
    BY FS_CardinalityType
  <2>4. R \ {r} \in SUBSET Shared(u, v)
    BY <2>1 DEF Shared, RelationshipsOf
  <2>5. Few(R \ {r}, Joining(u, v) \ Barred(R \ {r}), 1 + Cardinality(Request))
    BY <2>4 DEF BarInv
  <2>6. (Joining(u, v) \ Barred(R))' \subseteq (Joining(u, v) \ Barred(R \ {r})) \ {p}
    BY <1>1 DEF Joining, Barred, Comparing
  <2>7. CASE r \notin R
    BY <2>3, <2>5, <2>6, <2>7, FewerStill
  <2>8. CASE r \in R
    <3>1. <<r, u>> \in members' /\ <<r, v>> \in members'
      BY <2>8 DEF Shared, RelationshipsOf
    <3>2. {session[p].me, session[p].other} = {u, v}
      BY <2>1, <2>2, <3>1
    <3>3. p \in Joining(u, v) \ Barred(R \ {r})
      BY <3>2 DEF Pair, At, Joining, Barred, Comparing
    <3>4. Few((R \ {r}) \cup {r}, (Joining(u, v) \ Barred(R \ {r})) \ {p}, 1 + Cardinality(Request))
      BY <2>3, <2>5, <3>3, OneInserted
    <3>5. (R \ {r}) \cup {r} = R
      BY <2>8
    <3>6. Few(R, (Joining(u, v) \ Barred(R \ {r})) \ {p}, 1 + Cardinality(Request))
      BY <3>4, <3>5
    <3> QED
      BY <2>3, <2>6, <3>6, FewerStill
  <2> QED
    BY <2>7, <2>8
<1> QED
  BY <1>2, <1>3 DEF Pair

\* Members join in Pair only.
LEMMA OnlyPairJoins ==
  ASSUME IInv, NEW p \in Request, Begin(p) \/ Handle(p) \/ Fail(p), ~Pair(p)
  PROVE  members' \subseteq members
BY StepsThatWrite
DEF tables, MarkExpired, MarkDeclined, AddInvite, Leave, EraseRelationship,
    DeleteRelationship, AddUser, EraseUser

LEMMA NextBars ==
  ASSUME IInv, BarInv, IsFiniteSet(Request), [Next]_vars
  PROVE  BarInv'
<1>1. ASSUME NEW p \in Request, Begin(p) \/ Handle(p) \/ Fail(p),
             ~FindMyMember(p), ~FindTheirMember(p), ~FindCommon(p), ~Pair(p)
      PROVE  BarInv'
  <2>1. /\ session'[p].at \notin Comparing \cup {"pair"}
        /\ \A q \in Request \ {p} : session'[q] = session[q]
    <3>1. CASE LockToLeave(p) \/ LockToErase(p) \/ LockUser(p)
      <4>1. PICK next \in Cascading : Move(p, [session[p] EXCEPT !.at = next])
        BY <3>1 DEF LockToLeave, LockToErase, LockRelationship, LockUser, Cascading
      <4>2. session \in [Request -> Session] /\ session[p] \in Session
        BY DEF IInv, TypeOK
      <4> QED
        BY <4>1, <4>2 DEF Move, Session, Cascading, Comparing
    <3>2. CASE CountRecent(p) \/ CheckDuplicate(p)
      BY <3>2, ChecksAdmit DEF Comparing
    <3> QED
      BY <1>1, <3>1, <3>2, OnlyTheseEnter DEF Entered
  <2>2. members' \subseteq members
    BY <1>1, OnlyPairJoins
  <2> QED
    BY <1>1, <2>1, <2>2, NobodyJoins
<1>2. CASE Environment \/ UNCHANGED vars
  <2>1. UNCHANGED <<members, session>>
    BY <1>2 DEF Environment, Elapse, SignUp, TokenExpires, vars, dbVars
  <2> SUFFICES ASSUME NEW u \in User, NEW v \in User, u # v, NEW R \in SUBSET Shared(u, v)'
               PROVE  Few(R, (Joining(u, v) \ Barred(R))', 1 + Cardinality(Request))
    BY DEF BarInv, Few
  <2>2. R \in SUBSET Shared(u, v)
    BY <2>1 DEF Shared, RelationshipsOf
  <2>3. (Joining(u, v) \ Barred(R))' = Joining(u, v) \ Barred(R)
    BY <2>1 DEF Joining, Barred
  <2> QED
    BY <2>2, <2>3 DEF BarInv
<1> QED
  BY <1>1, <1>2, LookupsBar, PairBars DEF Next

LEMMA InitBars ==
  ASSUME IsFiniteSet(Request), Request # {}, Init
  PROVE  BarInv
<1> SUFFICES ASSUME NEW u \in User, NEW v \in User, NEW R \in SUBSET Shared(u, v)
             PROVE  Few(R, Joining(u, v) \ Barred(R), 1 + Cardinality(Request))
  BY DEF BarInv
<1>1. R = {}
  BY DEF Init, Shared, RelationshipsOf
<1>2. IsFiniteSet(R) /\ Cardinality(R) < 1
  BY <1>1, FS_EmptySet
<1>3. Joining(u, v) \ Barred(R) \in SUBSET Request
  BY DEF Joining
<1> QED
  BY <1>2, <1>3, FewFound

\* However many accepts of the invites between two users race, and however many
\* relationships end meanwhile, the two share no more than there are requests.
THEOREM CouplesAreFew ==
  IsFiniteSet(Request) /\ Request # {} => (Spec => []FewRelationshipsPerCouple)
<1> SUFFICES ASSUME IsFiniteSet(Request), Request # {} PROVE Spec => []FewRelationshipsPerCouple
  OBVIOUS
<1>1. Init => BarInv
  BY InitBars
<1>2. IInv /\ BarInv /\ [Next]_vars => BarInv'
  BY NextBars
<1>3. BarInv => FewRelationshipsPerCouple
  <2> SUFFICES ASSUME BarInv, NEW u \in User, NEW v \in User, u # v
               PROVE  Cardinality(Shared(u, v)) <= Cardinality(Request)
    BY DEF FewRelationshipsPerCouple
  <2>1. Few(Shared(u, v), Joining(u, v) \ Barred(Shared(u, v)), 1 + Cardinality(Request))
    BY DEF BarInv
  <2>2. Cardinality(Request) \in Nat /\ Cardinality(Shared(u, v)) \in Nat
    BY <2>1, FS_CardinalityType DEF Few
  <2>3. Cardinality(Shared(u, v)) < 1 + Cardinality(Request)
    BY <2>1, <2>2, FewFree
  <2> QED
    BY <2>2, <2>3
<1> QED
  BY <1>1, <1>2, <1>3, Invariance, PTL DEF Spec
=============================================================================
