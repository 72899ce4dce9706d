--------------------------- MODULE CouplesProofs ---------------------------
(***************************************************************************)
(* Backend implements Couples: under the mapping of Promise, every step of *)
(* a handler is a step of Couples or none.                                 *)
(***************************************************************************)
EXTENDS BackendProofs

\* The mapping of Backend's INSTANCE, by name.
Invited == {<<invites[i].from, invites[i].to>> : i \in {j \in Invite : invites[j].status # "absent"}}
Coupled == [r \in Relationship |-> MembersOf(r)]
Left == {u \in User : users[u] = "gone"}

\* Nothing happens, as far as Couples can tell.
Stutters ==
  Invited' = Invited /\ relationships' = relationships /\ Coupled' = Coupled /\ Left' = Left

LEMMA StutterIsAllowed ==
  ASSUME Stutters PROVE [Promise!Next]_(Promise!vars)
BY DEF Stutters, Invited, Coupled, Left, Promise!vars

\* Changes of an invite that leave its addresses alone are no invitation.
LEMMA SameInvitations ==
  ASSUME \A i \in Invite : /\ invites'[i].from = invites[i].from
                           /\ invites'[i].to = invites[i].to
                           /\ invites'[i].status = "absent" <=> invites[i].status = "absent"
  PROVE  Invited' = Invited
<1>1. {j \in Invite : invites'[j].status # "absent"} = {j \in Invite : invites[j].status # "absent"}
  OBVIOUS
<1> QED
  BY <1>1 DEF Invited

LEMMA OnlyInvitesChange ==
  ASSUME UNCHANGED <<users, relationships, members>>, Invited' = Invited
  PROVE  Stutters
BY DEF Stutters, Coupled, Left, MembersOf

LEMMA ReadsStutter ==
  ASSUME UNCHANGED tables PROVE Stutters
BY DEF tables, Stutters, Invited, Coupled, Left, MembersOf

-----------------------------------------------------------------------------
(* The steps that write.                                                   *)

LEMMA MarkStutters ==
  ASSUME IInv, NEW p \in Request, MarkExpired(p) \/ MarkDeclined(p)
  PROVE  Stutters
<1> DEFINE i == session[p].inv
<1>1. TypeOK /\ Sound(session[p])
  BY Running DEF IInv
<1>2. i \in Invite /\ invites[i].status # "absent"
  BY <1>1 DEF MarkExpired, MarkDeclined, At, Sound, SoundInvite, Answering
<1>3. PICK status \in InviteStatus : invites' = [invites EXCEPT ![i].status = status]
  <2>1. StatusWrite(i, session[p].seen, "declined") \in InviteStatus
    BY <1>1, <1>2 DEF StatusWrite, TypeOK, InviteRow, InviteStatus
  <2>2. "expired" \in InviteStatus
    BY DEF InviteStatus
  <2> QED
    BY <2>1, <2>2 DEF MarkExpired, MarkDeclined
<1>4. \A j \in Invite : /\ invites'[j].from = invites[j].from
                        /\ invites'[j].to = invites[j].to
                        /\ invites'[j].status = "absent" <=> invites[j].status = "absent"
  BY <1>1, <1>2, <1>3 DEF TypeOK, InviteRow, InviteStatus
<1> QED
  BY <1>4, SameInvitations, OnlyInvitesChange DEF MarkExpired, MarkDeclined

LEMMA AddInviteInvites ==
  ASSUME IInv, NEW p \in Request, AddInvite(p)
  PROVE  Stutters \/ \E u \in User, a \in Address : Promise!Ask(u, a)
<1>1. TypeOK /\ Sound(session[p])
  BY Running DEF IInv
<1>2. PICK u \in User, a \in Address : u = session[p].me /\ a = session[p].to
  BY <1>1 DEF AddInvite, At, Sound, SoundCaller, Inviting, Registering
<1>3. CASE UNCHANGED invites
  BY <1>3, ReadsStutter DEF AddInvite, tables
<1>4. CASE \E i \in Invite : /\ invites[i].status = "absent"
                             /\ invites' = [invites EXCEPT ![i] = NewInvite(u, a)]
  <2>1. PICK i \in Invite : /\ invites[i].status = "absent"
                            /\ invites' = [invites EXCEPT ![i] = NewInvite(u, a)]
    BY <1>4
  <2>2. /\ invites'[i].from = MailOf(u) /\ invites'[i].to = a /\ invites'[i].status = "pending"
        /\ \A j \in Invite \ {i} : invites'[j] = invites[j]
    BY <1>1, <2>1 DEF TypeOK, NewInvite
  <2>3. Invited' = Invited \cup {<<MailOf(u), a>>}
    <3>1. {j \in Invite : invites'[j].status # "absent"}
          = {j \in Invite : invites[j].status # "absent"} \cup {i}
      BY <2>1, <2>2
    <3>2. i \notin {j \in Invite : invites[j].status # "absent"}
      BY <2>1
    <3> QED
      BY <2>2, <3>1, <3>2 DEF Invited
  <2>4. relationships' = relationships /\ Coupled' = Coupled /\ Left' = Left
    BY DEF AddInvite, Coupled, Left, MembersOf
  <2>5. Promise!Ask(u, a)
    BY <2>3, <2>4 DEF Promise!Ask, Invited, Coupled, Left
  <2> QED
    BY <2>5
<1> QED
  BY <1>2, <1>3, <1>4 DEF AddInvite

\* The couple is made by one transaction, of two rows that are still there,
\* upon an invite that is what it was when it was loaded four awaits before.
LEMMA PairPairs ==
  ASSUME IInv, NEW p \in Request, Pair(p)
  PROVE  \/ Stutters
         \/ \E r \in Relationship, u, v \in User :
              u = session[p].me /\ v = session[p].other /\ Promise!Pair(r, u, v)
<1> DEFINE s == session[p]
           i == s.inv
<1>1. TypeOK /\ TableInv /\ Sound(s)
  BY Running DEF IInv
<1>2. CASE UNCHANGED <<relationships, members, invites>>
  BY <1>2, ReadsStutter DEF Pair, tables
<1>3. CASE /\ BothExist(p)
           /\ \E r \in Relationship :
                /\ relationships[r] = "absent"
                /\ relationships' = [relationships EXCEPT ![r] = "live"]
                /\ members' = members \cup {<<r, s.me>>, <<r, s.other>>}
                /\ MarkAccepted(i, s.seen, r)
  <2>1. PICK r \in Relationship :
          /\ relationships[r] = "absent"
          /\ relationships' = [relationships EXCEPT ![r] = "live"]
          /\ members' = members \cup {<<r, s.me>>, <<r, s.other>>}
          /\ MarkAccepted(i, s.seen, r)
    BY <1>3
  <2>2. /\ s.me \in User /\ s.other \in User /\ i \in Invite /\ s.me # s.other
        /\ users[s.me] = "live" /\ users[s.other] = "live"
        /\ MailOf(s.other) = invites[i].from /\ MailOf(s.me) = invites[i].to
        /\ invites[i].status # "absent"
    BY <1>1, <1>3 DEF Pair, At, BothExist, Sound, SoundCaller, SoundInvite, SoundPair,
                      Registering, Answering, Pairing
  <2>3. \A m \in members : m[1] # r
    BY <1>1, <2>1 DEF TableInv, NoDanglingReference
  <2>4. Invited' = Invited
    <3> DEFINE status == StatusWrite(i, s.seen, "accepted")
    <3>1. status # "absent"
      BY <2>2 DEF StatusWrite
    <3>2. invites' = [invites EXCEPT ![i].status = status, ![i].rel = r]
      BY <2>1 DEF MarkAccepted
    <3> HIDE DEF status
    <3>3. \A j \in Invite : /\ invites'[j].from = invites[j].from
                            /\ invites'[j].to = invites[j].to
                            /\ invites'[j].status = "absent" <=> invites[j].status = "absent"
      BY <1>1, <2>2, <3>1, <3>2 DEF TypeOK, InviteRow
    <3> QED
      BY <3>3, SameInvitations
  <2>5. <<MailOf(s.other), MailOf(s.me)>> \in Invited
    BY <2>2 DEF Invited
  <2>6. Coupled' = [Coupled EXCEPT ![r] = {s.me, s.other}]
    <3>1. {u \in User : <<r, u>> \in members'} = {s.me, s.other}
      BY <2>1, <2>2, <2>3
    <3>2. \A q \in Relationship \ {r} :
            {u \in User : <<q, u>> \in members'} = {u \in User : <<q, u>> \in members}
      BY <2>1
    <3> QED
      BY <3>1, <3>2 DEF Coupled, MembersOf
  <2>7. Left' = Left
    BY DEF Pair, Left
  <2>8. s.me \notin Left /\ s.other \notin Left
    BY <2>2 DEF Left
  <2>9. PICK u \in User, v \in User : u = s.me /\ v = s.other
    BY <2>2
  <2>10. Promise!Pair(r, u, v)
    BY <2>1, <2>2, <2>4, <2>5, <2>6, <2>7, <2>8, <2>9 DEF Promise!Pair, Invited, Coupled, Left
  <2> QED
    BY <2>9, <2>10
<1> QED
  BY <1>2, <1>3 DEF Pair

\* The relationship is the one that was found three awaits before: it lives
\* and is deleted with both members, or it is gone already.
LEMMA DeleteParts ==
  ASSUME IInv, NEW p \in Request, DeleteRelationship(p),
         session[p].rel \in Relationship, relationships[session[p].rel] # "absent"
  PROVE  Stutters \/ \E r \in Relationship : Promise!Part(r)
<1>0. PICK d \in Relationship : d = session[p].rel
  OBVIOUS
<1>1. TypeOK /\ TableInv /\ Sound(session[p])
  BY Running DEF IInv
<1>2. Invited' = Invited
  <2>1. \A i \in session[p].ended : invites[i].status = "accepted"
    BY <1>1 DEF Sound, SoundEnded
  <2>2. invites' = [j \in Invite |->
          [invites[j] EXCEPT !.rel = IF @ = d THEN Null ELSE @,
                             !.status = IF j \in session[p].ended THEN "ended" ELSE @]]
    BY <1>0 DEF DeleteRelationship
  <2>3. \A j \in Invite : /\ invites'[j].from = invites[j].from
                          /\ invites'[j].to = invites[j].to
                          /\ invites'[j].status
                             = IF j \in session[p].ended THEN "ended" ELSE invites[j].status
    BY <1>1, <2>2 DEF TypeOK, InviteRow
  <2> QED
    BY <2>1, <2>3, SameInvitations
<1>3. members' = {m \in members : m[1] # d} /\ Left' = Left
  BY <1>0 DEF DeleteRelationship, Left
<1>4. Coupled' = [Coupled EXCEPT ![d] = {}]
  <2>1. {u \in User : <<d, u>> \in members'} = {}
    BY <1>3
  <2>2. \A q \in Relationship \ {d} :
          {u \in User : <<q, u>> \in members'} = {u \in User : <<q, u>> \in members}
    BY <1>3
  <2> QED
    BY <2>1, <2>2 DEF Coupled, MembersOf
<1>5. relationships' = [relationships EXCEPT ![d] = "gone"]
  BY <1>0 DEF DeleteRelationship
<1>6. CASE relationships[d] = "live"
  <2>1. Promise!Part(d)
    BY <1>2, <1>3, <1>4, <1>5, <1>6 DEF Promise!Part, Invited, Coupled, Left
  <2> QED
    BY <2>1
<1>7. CASE relationships[d] = "gone"
  <2>1. relationships' = relationships
    BY <1>1, <1>5, <1>7 DEF TypeOK
  <2>2. MembersOf(d) = {}
    BY <1>1, <1>7 DEF TableInv, NoDanglingReference, MembersOf
  <2>3. Coupled' = Coupled
    BY <1>4, <2>2 DEF Coupled
  <2> QED
    BY <1>2, <1>3, <2>1, <2>3 DEF Stutters
<1> QED
  BY <1>0, <1>1, <1>6, <1>7 DEF TypeOK, RowLife

LEMMA AddUserStutters ==
  ASSUME IInv, NEW p \in Request, AddUser(p)
  PROVE  Stutters
<1>1. TypeOK
  BY DEF IInv
<1>2. Left' = Left
  BY <1>1 DEF AddUser, FreeRows, Left, TypeOK, RowLife
<1> QED
  BY <1>2 DEF AddUser, Stutters, Invited, Coupled, MembersOf

LEMMA EraseUserErases ==
  ASSUME IInv, NEW p \in Request, EraseUser(p)
  PROVE  \E u \in User : u = session[p].me /\ Promise!Erase(u)
<1>1. TypeOK /\ Sound(session[p])
  BY Running DEF IInv
<1>2. PICK u \in User : u = session[p].me
  BY <1>1 DEF EraseUser, At, Sound, SoundCaller, Registering
<1>3. Left' = Left \cup {u}
  BY <1>1, <1>2 DEF EraseUser, Left, TypeOK
<1>4. Coupled' = [r \in Relationship |-> Coupled[r] \ {u}]
  <2>1. \A r \in Relationship :
          {v \in User : <<r, v>> \in members'} = {v \in User : <<r, v>> \in members} \ {u}
    BY <1>2 DEF EraseUser
  <2> QED
    BY <2>1 DEF Coupled, MembersOf
<1>5. Invited' = Invited
  <2>1. invites' = [i \in Invite |-> [invites[i] EXCEPT !.inviter = IF @ = u THEN Null ELSE @]]
    BY <1>2 DEF EraseUser
  <2>2. \A j \in Invite : /\ invites'[j].from = invites[j].from
                          /\ invites'[j].to = invites[j].to
                          /\ invites'[j].status = invites[j].status
    BY <1>1, <2>1 DEF TypeOK, InviteRow
  <2> QED
    BY <2>2, SameInvitations
<1>6. Promise!Erase(u)
  BY <1>3, <1>4, <1>5 DEF EraseUser, Promise!Erase, Invited, Coupled, Left
<1> QED
  BY <1>2, <1>6

LEMMA ElapseStutters ==
  ASSUME IInv, NEW i \in Invite, Elapse(i)
  PROVE  Stutters
<1>1. \A j \in Invite : /\ invites'[j].from = invites[j].from
                        /\ invites'[j].to = invites[j].to
                        /\ invites'[j].status = invites[j].status
  BY DEF Elapse, IInv, TypeOK, InviteRow
<1> QED
  BY <1>1, SameInvitations, OnlyInvitesChange DEF Elapse

-----------------------------------------------------------------------------
(* The refinement.                                                         *)

LEMMA InitIsPromised == Init => Promise!Init
<1> SUFFICES ASSUME Init PROVE Promise!Init
  OBVIOUS
<1>1. Invited = {}
  BY DEF Init, Invited, NoInvite
<1>2. Coupled = [r \in Relationship |-> {}]
  BY DEF Init, Coupled, MembersOf
<1>3. Left = {}
  BY DEF Init, Left
<1> QED
  BY <1>1, <1>2, <1>3 DEF Init, Promise!Init, Invited, Coupled, Left

\* What a step of a request is to Couples.
LEMMA RequestStepPromises ==
  ASSUME IInv, NEW p \in Request, Begin(p) \/ Handle(p) \/ Fail(p)
  PROVE  \/ Stutters
         \/ \E u \in User, a \in Address : Promise!Ask(u, a)
         \/ \E r \in Relationship : Promise!Part(r)
         \/ /\ session[p].at = "pair"
            /\ \E r \in Relationship, u, v \in User :
                 u = session[p].me /\ v = session[p].other /\ Promise!Pair(r, u, v)
         \/ /\ session[p].at = "userCascade"
            /\ \E u \in User : u = session[p].me /\ Promise!Erase(u)
<1>1. CASE UNCHANGED tables
  BY <1>1, ReadsStutter
<1>2. CASE MarkExpired(p) \/ MarkDeclined(p)
  BY <1>2, MarkStutters
<1>3. CASE AddInvite(p)
  BY <1>3, AddInviteInvites
<1>4. CASE Pair(p)
  BY <1>4, PairPairs DEF Pair, At
<1>5. CASE Leave(p) \/ EraseRelationship(p)
  <2>1. session[p].rel \in Relationship /\ relationships[session[p].rel] # "absent"
    BY <1>5, Running DEF Leave, EraseRelationship, At, Sound, SoundRelationship, Leaving
  <2> QED
    BY <1>5, <2>1, DeleteParts DEF Leave, EraseRelationship
<1>6. CASE AddUser(p)
  BY <1>6, AddUserStutters
<1>7. CASE EraseUser(p)
  BY <1>7, EraseUserErases DEF EraseUser, At
<1> QED
  BY <1>1, <1>2, <1>3, <1>4, <1>5, <1>6, <1>7, StepsThatWrite

\* Clocks and Supabase change nothing Couples knows of.
LEMMA OthersStutter ==
  ASSUME IInv, Environment \/ UNCHANGED vars PROVE Stutters
<1>1. CASE UNCHANGED dbVars
  BY <1>1, ReadsStutter DEF dbVars, tables
<1> QED
  BY <1>1, ElapseStutters DEF Environment, SignUp, TokenExpires, vars

LEMMA StepIsPromised ==
  ASSUME IInv, [Next]_vars PROVE [Promise!Next]_(Promise!vars)
<1>1. CASE \E p \in Request : Begin(p) \/ Handle(p) \/ Fail(p)
  BY <1>1, RequestStepPromises, StutterIsAllowed DEF Promise!Next
<1>2. CASE Environment \/ UNCHANGED vars
  BY <1>2, OthersStutter, StutterIsAllowed
<1> QED
  BY <1>1, <1>2 DEF Next

\* However the statements of POST and DELETE /relationships and of DELETE
\* /users/me interleave and wherever they stop, what becomes of the couples is
\* a behaviour of Couples.
THEOREM BackendImplementsCouples == Spec => CouplesAsPromised
<1>1. Init => Promise!Init
  BY InitIsPromised
<1>2. IInv /\ [Next]_vars => [Promise!Next]_(Promise!vars)
  BY StepIsPromised
<1> QED
  BY <1>1, <1>2, Invariance, PTL DEF Spec, CouplesAsPromised, Promise!Spec
=============================================================================
