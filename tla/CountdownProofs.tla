-------------------------- MODULE CountdownProofs --------------------------
(***************************************************************************)
(* The promises of Countdown for any tokens, dates and requests in flight. *)
(***************************************************************************)
EXTENDS Countdown, SequenceTheorems, TLAPS

\* What a call has learnt by the step it is at.
Knows(c) ==
  /\ c.at # "idle" => c.me \in User
  /\ c.at \in {"lookup", "insert", "update", "unregister"} => c.tok \in Token
  /\ c.at \in {"tokens", "expo"} => c.to \in User
  /\ c.at \in {"preference", "optOut"} => c.todo # <<>>
  /\ c.at \in {"find", "write", "refresh", "partner", "optOuts"} =>
       c.to = Other(c.me) /\ c.want \in Date

CallsKnow == \A p \in Request : Knows(call[p])

\* Whoever has not been told is about to be, by a call that found, or will
\* find, the date other than it was.
SomeoneOwes == \A y \in unaware : \E p \in Request : Owes(p) /\ call[p].to = y

\* A call that asks for the devices of the partner has found him not opted out.
FoundLoud ==
  \A p \in Request :
    call[p].at \in {"tokens", "expo"} /\ call[p].to # call[p].me => p \in loud

\* Nobody is told of a relationship that is over.
NothingLeft == ~live => unaware = {}

CountdownInv ==
  CountdownTypeOK /\ CallsKnow /\ SomeoneOwes /\ FoundLoud /\ NothingLeft /\ NothingOfTheErased

-----------------------------------------------------------------------------
LEMMA TwoMembers ==
  ASSUME NEW u \in User
  PROVE  Other(u) \in User /\ Other(u) # u /\ (\A v \in User : v # u => v = Other(u))
<1>1. PICK a \in User, b \in User : a # b /\ User = {a, b}
  BY PushAssumption
<1>2. \E v \in User : v # u
  BY <1>1
<1>3. Other(u) \in User /\ Other(u) # u
  BY <1>2 DEF Other
<1> QED
  BY <1>1, <1>3

LEMMA IdleCall == NoCall \in Call /\ Knows(NoCall)
BY DEF NoCall, Call, CallStep, Knows

\* A step of p: p goes on as c, and of the other calls none moves; they may
\* find the row they loaded gone.
Moves(p, c) ==
  /\ call' \in [Request -> Call]
  /\ call'[p] = c
  /\ \A q \in Request \ {p} :
       call'[q] = call[q] \/ call'[q] = [call[q] EXCEPT !.seen = Null]

LEMMA ProceedMoves ==
  ASSUME CountdownTypeOK, NEW p \in Request, NEW c \in Call, Proceed(p, c)
  PROVE  Moves(p, c)
BY DEF CountdownTypeOK, Proceed, Moves

LEMMA RespondMoves ==
  ASSUME CountdownTypeOK, NEW p \in Request, Respond(p)
  PROVE  Moves(p, NoCall)
BY ProceedMoves, IdleCall DEF Respond

LEMMA DeleteMoves ==
  ASSUME CountdownTypeOK, NEW p \in Request, NEW T, DeleteTokens(p, T)
  PROVE  Moves(p, NoCall) /\ owner' \in [Token -> User \cup {Null}]
<1>1. \A q \in Request : [call[q] EXCEPT !.seen = Null] \in Call
  BY DEF CountdownTypeOK, Call
<1> QED
  BY <1>1, IdleCall DEF CountdownTypeOK, DeleteTokens, Missing, Without, Moves

LEMMA MovesKeepsKnowledge ==
  ASSUME CountdownTypeOK, CallsKnow, NEW p \in Request, NEW c, Moves(p, c), Knows(c)
  PROVE  CallsKnow'
<1> SUFFICES ASSUME NEW q \in Request PROVE Knows(call'[q])
  BY DEF CallsKnow, Knows
<1>1. CASE q = p
  BY <1>1 DEF Moves
<1>2. CASE q # p
  <2>1. Knows(call[q]) /\ call[q] \in Call
    BY DEF CallsKnow, CountdownTypeOK
  <2>2. Knows([call[q] EXCEPT !.seen = Null])
    BY <2>1 DEF Knows, Call
  <2> QED
    BY <1>2, <2>1, <2>2 DEF Moves
<1> QED
  BY <1>1, <1>2

LEMMA TypeByMove ==
  ASSUME CountdownTypeOK, CallsKnow, Listen, Watch,
         NEW p \in Request, NEW c, Moves(p, c), Knows(c),
         owner' \in [Token -> User \cup {Null}], optOuts' \subseteq User \X Key,
         date' \in Date, live' \in BOOLEAN, unaware' \subseteq User, gone' \subseteq User
  PROVE  CountdownTypeOK' /\ CallsKnow'
<1>1. CallsKnow'
  BY MovesKeepsKnowledge
<1>2. loud' \subseteq Request /\ rivalled' \subseteq Request
  BY DEF Listen, Watch
<1> QED
  BY <1>1, <1>2 DEF CountdownTypeOK, Moves

-----------------------------------------------------------------------------
(* What the steps do to the call that takes them.                          *)

LEMMA PreferenceTyped ==
  ASSUME NEW k \in Key, NEW v \in BOOLEAN PROVE [key |-> k, on |-> v] \in Preference
BY DEF Preference

LEMMA OneOrTwo ==
  ASSUME NEW S, NEW x \in S, NEW y \in S
  PROVE  <<x>> \in Seq(S) /\ <<x, y>> \in Seq(S) /\ <<x>> # <<>> /\ <<x, y>> # <<>>
OBVIOUS

LEMMA BodiesTyped ==
  ASSUME NEW body \in Bodies PROVE body \in Seq(Preference) /\ body # <<>>
<1>1. CASE \E k \in Key, v \in BOOLEAN : body = <<[key |-> k, on |-> v]>>
  <2>1. PICK k \in Key, v \in BOOLEAN : body = <<[key |-> k, on |-> v]>>
    BY <1>1
  <2> DEFINE x == [key |-> k, on |-> v]
  <2>2. x \in Preference
    BY PreferenceTyped
  <2> HIDE DEF x
  <2>3. <<x>> \in Seq(Preference) /\ <<x>> # <<>>
    BY <2>2, OneOrTwo
  <2> QED
    BY <2>1, <2>3 DEF x
<1>2. CASE \E v \in BOOLEAN, w \in BOOLEAN :
             body = <<[key |-> "overlap_opening", on |-> v],
                      [key |-> "countdown_updated", on |-> w]>>
  <2>1. PICK v \in BOOLEAN, w \in BOOLEAN :
          body = <<[key |-> "overlap_opening", on |-> v],
                   [key |-> "countdown_updated", on |-> w]>>
    BY <1>2
  <2> DEFINE x == [key |-> "overlap_opening", on |-> v]
             y == [key |-> "countdown_updated", on |-> w]
  <2>2. x \in Preference /\ y \in Preference
    BY PreferenceTyped DEF Key
  <2> HIDE DEF x, y
  <2>3. <<x, y>> \in Seq(Preference) /\ <<x, y>> # <<>>
    BY <2>2, OneOrTwo
  <2> QED
    BY <2>1, <2>3 DEF x, y
<1> QED
  BY <1>1, <1>2, SMT DEF Bodies

LEMMA BeginMoves ==
  ASSUME CountdownTypeOK, NEW p \in Request, BeginCall(p)
  PROVE  /\ \E c \in Call : /\ Moves(p, c) /\ Knows(c)
                            /\ c.at \in {"tokens", "expo"} => c.to = c.me
         /\ UNCHANGED <<owner, optOuts, Relationship, unaware>>
<1>1. PICK u \in User :
        \/ BeginTokenCall(p, u) /\ UNCHANGED <<optOuts, Relationship, unaware>>
        \/ BeginPreferences(p, u) /\ UNCHANGED <<Relationship, unaware>>
        \/ BeginUpdate(p, u)
  BY DEF BeginCall
<1>2. UNCHANGED <<owner, optOuts, Relationship, unaware>>
  BY <1>1 DEF BeginTokenCall, BeginPreferences, BeginUpdate, Relationship
<1>3. CASE BeginTokenCall(p, u)
  <2>1. CASE \E t \in Token, step \in {"lookup", "unregister"} :
               Proceed(p, [NoCall EXCEPT !.at = step, !.me = u, !.tok = t])
    <3>1. PICK t \in Token, step \in {"lookup", "unregister"} :
            Proceed(p, [NoCall EXCEPT !.at = step, !.me = u, !.tok = t])
      BY <2>1
    <3> DEFINE c == [NoCall EXCEPT !.at = step, !.me = u, !.tok = t]
    <3>2. c \in Call /\ Knows(c) /\ c.at \notin {"tokens", "expo"}
      BY IdleCall DEF Call, CallStep, Knows
    <3> QED
      BY <1>2, <3>1, <3>2, ProceedMoves
  <2>2. CASE Proceed(p, [NoCall EXCEPT !.at = "tokens", !.me = u, !.to = u])
    <3> DEFINE c == [NoCall EXCEPT !.at = "tokens", !.me = u, !.to = u]
    <3>1. c \in Call /\ Knows(c) /\ c.to = c.me
      BY IdleCall DEF Call, CallStep, Knows
    <3> QED
      BY <1>2, <2>2, <3>1, ProceedMoves
  <2> QED
    BY <1>3, <2>1, <2>2 DEF BeginTokenCall
<1>4. CASE BeginPreferences(p, u)
  <2>1. PICK body \in Bodies :
          Proceed(p, [NoCall EXCEPT !.at = "preference", !.me = u, !.todo = body])
    BY <1>4 DEF BeginPreferences
  <2>2. body \in Seq(Preference) /\ body # <<>>
    BY BodiesTyped
  <2> DEFINE c == [NoCall EXCEPT !.at = "preference", !.me = u, !.todo = body]
  <2>3. c \in Call /\ Knows(c) /\ c.at \notin {"tokens", "expo"}
    BY IdleCall, <2>2 DEF Call, CallStep, Knows
  <2> QED
    BY <1>2, <2>1, <2>3, ProceedMoves
<1>5. CASE BeginUpdate(p, u)
  <2>1. PICK d \in Date :
          Proceed(p, [NoCall EXCEPT !.at = "find", !.me = u, !.to = Other(u), !.want = d])
    BY <1>5 DEF BeginUpdate
  <2> DEFINE c == [NoCall EXCEPT !.at = "find", !.me = u, !.to = Other(u), !.want = d]
  <2>2. Other(u) \in User
    BY TwoMembers
  <2>3. c \in Call /\ Knows(c) /\ c.at \notin {"tokens", "expo"}
    BY IdleCall, <2>2 DEF Call, CallStep, Knows
  <2> QED
    BY <1>2, <2>1, <2>3, ProceedMoves
<1> QED
  BY <1>1, <1>3, <1>4, <1>5

LEMMA TokenCallMoves ==
  ASSUME CountdownTypeOK, CallsKnow, NEW p \in Request, TokenCall(p)
  PROVE  /\ \E c \in Call : /\ Moves(p, c) /\ Knows(c)
                            /\ c.at \notin {"tokens", "expo"}
         /\ ~Owes(p)
         /\ owner' \in [Token -> User \cup {Null}]
         /\ UNCHANGED <<optOuts, Relationship, unaware>>
<1>1. UNCHANGED <<optOuts, Relationship, unaware>>
  BY DEF TokenCall
<1>2. call[p] \in Call /\ Knows(call[p]) /\ owner \in [Token -> User \cup {Null}]
  BY DEF CountdownTypeOK, CallsKnow
<1>3. ~Owes(p)
  BY DEF TokenCall, Owes, Lookup, InsertToken, UpdateToken, Unregister, Prune, CallAt
<1>4. CASE Lookup(p)
  <2> DEFINE holder == owner[call[p].tok]
             c == [call[p] EXCEPT !.at = IF holder = Null THEN "insert" ELSE "update",
                                  !.seen = holder]
  <2>1. call[p].tok \in Token /\ call[p].me \in User
    BY <1>2, <1>4 DEF Lookup, CallAt, Knows
  <2>2. c \in Call /\ Knows(c) /\ c.at \notin {"tokens", "expo"}
    BY <1>2, <2>1 DEF Call, CallStep, Knows
  <2>3. Proceed(p, c) /\ owner' = owner
    BY <1>4 DEF Lookup
  <2> QED
    BY <1>1, <1>2, <1>3, <2>2, <2>3, ProceedMoves
<1>5. CASE InsertToken(p) \/ UpdateToken(p)
  <2>1. call[p].me \in User
    BY <1>2, <1>5 DEF InsertToken, UpdateToken, CallAt, Knows
  <2>2. call[p].tok \in Token
    BY <1>2, <1>5 DEF InsertToken, UpdateToken, CallAt, Knows
  <2>3. owner' \in [Token -> User \cup {Null}]
    BY <1>2, <1>5, <2>1, <2>2 DEF InsertToken, UpdateToken, Written
  <2>4. Respond(p)
    BY <1>5 DEF InsertToken, UpdateToken
  <2> QED
    BY <1>1, <1>3, <2>3, <2>4, RespondMoves, IdleCall DEF NoCall
<1>6. CASE Unregister(p) \/ Prune(p)
  <2>1. PICK T : DeleteTokens(p, T)
    BY <1>6 DEF Unregister, Prune
  <2> QED
    BY <1>1, <1>3, <2>1, DeleteMoves, IdleCall DEF NoCall
<1> QED
  BY <1>4, <1>5, <1>6 DEF TokenCall

LEMMA TailOf ==
  ASSUME NEW S, NEW s \in Seq(S), s # <<>>, Len(s) # 1
  PROVE  Tail(s) \in Seq(S) /\ Tail(s) # <<>>
<1>1. Tail(s) \in Seq(S) /\ Len(Tail(s)) = Len(s) - 1
  BY HeadTailProperties
<1> DEFINE rest == Tail(s)
<1>2. rest \in Seq(S) /\ Len(rest) = Len(s) - 1
  BY <1>1
<1> HIDE DEF rest
<1>3. rest # <<>>
  BY <1>2
<1> QED
  BY <1>2, <1>3 DEF rest

LEMMA WithRest ==
  ASSUME NEW c \in Call, c.me \in User, NEW rest \in Seq(Preference), rest # <<>>
  PROVE  LET d == [c EXCEPT !.at = "preference", !.todo = rest]
         IN  d \in Call /\ Knows(d) /\ d.at \notin {"tokens", "expo"}
BY DEF Call, CallStep, Knows

LEMMA PreferenceMoves ==
  ASSUME CountdownTypeOK, CallsKnow, NEW p \in Request, PreferenceStep(p)
  PROVE  /\ \E c \in Call : /\ Moves(p, c) /\ Knows(c)
                            /\ c.at \notin {"tokens", "expo"}
         /\ ~Owes(p)
         /\ owner' = owner
         /\ optOuts' \subseteq User \X Key
<1>1. call[p] \in Call /\ Knows(call[p]) /\ optOuts \subseteq User \X Key
  BY DEF CountdownTypeOK, CallsKnow
<1>2. call[p].at \in {"preference", "optOut"} /\ owner' = owner
  BY DEF PreferenceStep, Enable, FindOptOut, AddOptOut, CallAt
<1>3. ~Owes(p)
  BY <1>2 DEF Owes, CallAt
<1>4. call[p].me \in User /\ call[p].todo \in Seq(Preference) /\ call[p].todo # <<>>
  BY <1>1, <1>2 DEF Knows, Call
<1>5. Row(p) \in User \X Key
  <2>1. Head(call[p].todo) \in Preference
    BY <1>4
  <2>2. Head(call[p].todo).key \in Key
    BY <2>1 DEF Preference
  <2> QED
    BY <1>4, <2>2 DEF Row
<1>6. optOuts' \subseteq User \X Key
  BY <1>1, <1>5 DEF PreferenceStep, Enable, FindOptOut, AddOptOut
<1>7. CASE Respond(p)
  BY <1>3, <1>2, <1>6, <1>7, RespondMoves, IdleCall DEF NoCall
<1>8. CASE Onwards(p) /\ ~Respond(p)
  <2> DEFINE c == [call[p] EXCEPT !.at = "preference", !.todo = Tail(@)]
  <2>1. Tail(call[p].todo) \in Seq(Preference) /\ Tail(call[p].todo) # <<>>
    <3>1. Len(call[p].todo) # 1
      BY <1>8 DEF Onwards
    <3> QED
      BY <1>4, <3>1, TailOf
  <2>2. c \in Call /\ Knows(c) /\ c.at \notin {"tokens", "expo"}
    BY <1>1, <1>4, <2>1, WithRest
  <2>3. Proceed(p, c)
    BY <1>8 DEF Onwards
  <2> QED
    BY <1>3, <1>2, <1>6, <2>2, <2>3, ProceedMoves
<1>9. CASE Proceed(p, [call[p] EXCEPT !.at = "optOut"])
  <2> DEFINE c == [call[p] EXCEPT !.at = "optOut"]
  <2>1. c \in Call /\ Knows(c) /\ c.at \notin {"tokens", "expo"}
    BY <1>1, <1>4 DEF Call, CallStep, Knows
  <2> QED
    BY <1>3, <1>2, <1>6, <1>9, <2>1, ProceedMoves
<1> QED
  BY <1>7, <1>8, <1>9 DEF PreferenceStep, Enable, FindOptOut, AddOptOut

\* Nothing of a member who is gone comes back.
LEMMA TokenCallErased ==
  ASSUME CountdownInv, NEW p \in Request, TokenCall(p), gone' = gone
  PROVE  NothingOfTheErased'
<1> SUFFICES ASSUME NEW u \in gone, NEW t \in Token
             PROVE  owner'[t] # u /\ \A row \in optOuts' : row[1] # u
  BY DEF NothingOfTheErased, TokensOf, TokenCall, CountdownInv
<1>1. u \in User /\ u # Null /\ owner \in [Token -> User \cup {Null}] /\ owner[t] # u
  BY PushAssumption DEF CountdownInv, CountdownTypeOK, NothingOfTheErased, TokensOf
<1>2. \A row \in optOuts' : row[1] # u
  BY DEF CountdownInv, NothingOfTheErased, TokenCall
<1>3. \A tok \in Token : owner[tok] # u
  BY DEF CountdownInv, NothingOfTheErased, TokensOf
<1>4. Knows(call[p])
  BY DEF CountdownInv, CallsKnow
<1>5. CASE Lookup(p)
  BY <1>1, <1>2, <1>5 DEF Lookup
<1>6. CASE InsertToken(p)
  BY <1>1, <1>2, <1>6 DEF InsertToken, Insertable
<1>7. CASE UpdateToken(p)
  <2>1. call[p].tok \in Token
    BY <1>4, <1>7 DEF Knows, UpdateToken, CallAt
  <2>2. Updatable(p) => Written(p) # u
    BY <1>3, <2>1 DEF Updatable, Written
  <2> QED
    BY <1>1, <1>2, <1>7, <2>2 DEF UpdateToken
<1>8. CASE Unregister(p) \/ Prune(p)
  BY <1>1, <1>2, <1>8 DEF Unregister, Prune, DeleteTokens, Without
<1> QED
  BY <1>5, <1>6, <1>7, <1>8 DEF TokenCall

LEMMA PreferenceErased ==
  ASSUME CountdownInv, NEW p \in Request, PreferenceStep(p), gone' = gone
  PROVE  NothingOfTheErased'
<1>1. owner' = owner
  BY DEF PreferenceStep, Enable, FindOptOut, AddOptOut
<1>2. \A row \in optOuts' : row \in optOuts \/ row[1] \notin gone
  BY DEF PreferenceStep, Enable, FindOptOut, AddOptOut, Row
<1> QED
  BY <1>1, <1>2 DEF CountdownInv, NothingOfTheErased, TokensOf

-----------------------------------------------------------------------------
(* What a step owes to the invariant, and that it is enough.               *)

\* p asks for the devices of the partner only having found him not opted out.
Heard(p, c) ==
  c.at \in {"tokens", "expo"} /\ c.to # c.me =>
    \/ <<c.to, Notified>> \notin optOuts'
    \/ call[p].at \in {"tokens", "expo"} /\ call[p].to # call[p].me

\* If p was to tell somebody, it still is, or nobody needs to any more.
Pays(p, c) ==
  Owes(p) => (Owes(p)' /\ c.to = call[p].to) \/ call[p].to \notin unaware'

LEMMA OthersStay ==
  ASSUME CountdownTypeOK, NEW p \in Request, NEW c, Moves(p, c), NEW q \in Request, q # p
  PROVE  /\ call'[q].at = call[q].at /\ call'[q].to = call[q].to
         /\ call'[q].me = call[q].me /\ call'[q].old = call[q].old
<1>1. call[q] \in Call /\ call' \in [Request -> Call]
  BY DEF CountdownTypeOK, Moves
<1> QED
  BY <1>1 DEF Moves, Call

LEMMA OthersStillOwe ==
  ASSUME CountdownTypeOK, NEW p \in Request, NEW c, Moves(p, c), date' = date,
         NEW q \in Request, q # p, Owes(q)
  PROVE  Owes(q)' /\ call'[q].to = call[q].to
BY OthersStay DEF Owes, CallAt

LEMMA StepKeepsInv ==
  ASSUME CountdownInv, Listen, Watch,
         NEW p \in Request, NEW c \in Call, Moves(p, c), Knows(c), Heard(p, c), Pays(p, c),
         owner' \in [Token -> User \cup {Null}], optOuts' \subseteq User \X Key,
         date' = date, live' = live, unaware' \subseteq unaware,
         gone' = gone, NothingOfTheErased'
  PROVE  CountdownInv'
<1> USE DEF CountdownInv
<1>1. CountdownTypeOK' /\ CallsKnow'
  <2>1. date' \in Date /\ live' \in BOOLEAN /\ unaware' \subseteq User /\ gone' \subseteq User
    BY DEF CountdownTypeOK
  <2> QED
    BY <2>1, TypeByMove
<1>2. SomeoneOwes'
  <2> SUFFICES ASSUME NEW y \in unaware' PROVE \E q \in Request : Owes(q)' /\ call'[q].to = y
    BY DEF SomeoneOwes
  <2>1. PICK q \in Request : Owes(q) /\ call[q].to = y
    BY DEF SomeoneOwes
  <2>2. CASE q = p
    BY <2>1, <2>2 DEF Pays, Moves
  <2>3. CASE q # p
    BY <2>1, <2>3, OthersStillOwe
  <2> QED
    BY <2>2, <2>3
<1>3. FoundLoud'
  <2> SUFFICES ASSUME NEW q \in Request,
                      call'[q].at \in {"tokens", "expo"}, call'[q].to # call'[q].me
               PROVE  q \in loud'
    BY DEF FoundLoud
  <2>1. call'[q].to \in User
    BY <1>1 DEF CallsKnow, Knows
  <2>2. CASE q = p
    <3>1. \/ <<call'[q].to, Notified>> \notin optOuts'
          \/ q \in loud
      BY <2>2 DEF Heard, Moves, FoundLoud
    <3> QED
      BY <2>1, <3>1 DEF Listen
  <2>3. CASE q # p
    <3>1. call[q].at = call'[q].at /\ call[q].to = call'[q].to /\ call[q].me = call'[q].me
      BY <2>3, OthersStay
    <3>2. q \in loud
      BY <3>1 DEF FoundLoud
    <3> QED
      BY <2>1, <3>2 DEF Listen
  <2> QED
    BY <2>2, <2>3
<1>4. NothingLeft'
  BY DEF NothingLeft
<1> QED
  BY <1>1, <1>2, <1>3, <1>4

-----------------------------------------------------------------------------
(* The steps of an update.                                                 *)

\* Past Find, the call of p still addresses the other member.
LEMMA UpdateKnows ==
  ASSUME CountdownInv, NEW p \in Request,
         call[p].at \in {"find", "write", "refresh", "partner", "optOuts"}
  PROVE  /\ call[p] \in Call /\ call[p].me \in User /\ call[p].want \in Date
         /\ call[p].to = Other(call[p].me) /\ call[p].to \in User /\ call[p].to # call[p].me
<1>1. call[p] \in Call /\ Knows(call[p])
  BY DEF CountdownInv, CountdownTypeOK, CallsKnow
<1>2. call[p].me \in User /\ call[p].to = Other(call[p].me) /\ call[p].want \in Date
  BY <1>1 DEF Knows
<1> QED
  BY <1>1, <1>2, TwoMembers

\* A step that only moves the call of p, to a step c that is not silent about a
\* debt, keeps the invariant.
LEMMA QuietKeepsInv ==
  ASSUME CountdownInv, Listen, Watch, NEW p \in Request,
         NEW c \in Call, Proceed(p, c), Knows(c), Heard(p, c), Pays(p, c),
         UNCHANGED <<owner, gone, optOuts, Relationship>>, unaware' \subseteq unaware
  PROVE  CountdownInv'
<1>1. Moves(p, c)
  BY ProceedMoves DEF CountdownInv
<1>2. owner' \in [Token -> User \cup {Null}] /\ optOuts' \subseteq User \X Key
  BY DEF CountdownInv, CountdownTypeOK
<1>3. NothingOfTheErased'
  BY DEF CountdownInv, NothingOfTheErased, TokensOf
<1> QED
  BY <1>1, <1>2, <1>3, StepKeepsInv DEF Relationship

LEMMA IdleIsQuiet ==
  ASSUME NEW p \in Request
  PROVE  Heard(p, NoCall)
BY DEF Heard, NoCall

LEMMA FindKeepsInv ==
  ASSUME CountdownInv, Listen, Watch, NEW p \in Request, Find(p), gone' = gone PROVE CountdownInv'
<1>1. /\ call[p].at = "find"
      /\ UNCHANGED <<owner, optOuts, Relationship>> /\ unaware' = unaware
  BY DEF Find, CallAt
<1>2. \A c : Pays(p, c)
  BY <1>1 DEF Pays, Owes, CallAt
<1>3. CASE live
  <2> DEFINE c == [call[p] EXCEPT !.at = "write", !.old = date]
  <2>1. date \in Date
    BY DEF CountdownInv, CountdownTypeOK
  <2>2. c \in Call /\ Knows(c) /\ c.at = "write"
    BY <1>1, <2>1, UpdateKnows DEF Call, CallStep, Knows
  <2>3. Proceed(p, c)
    BY <1>3 DEF Find
  <2> QED
    BY <1>1, <1>2, <2>2, <2>3, QuietKeepsInv DEF Heard
<1>4. CASE ~live
  BY <1>1, <1>2, <1>4, QuietKeepsInv, IdleIsQuiet, IdleCall DEF Find, Respond
<1> QED
  BY <1>3, <1>4

LEMMA WriteKeepsInv ==
  ASSUME CountdownInv, Listen, Watch, NEW p \in Request, Write(p), gone' = gone PROVE CountdownInv'
<1> DEFINE c == [call[p] EXCEPT !.at = "refresh"]
<1>1. /\ call[p].at = "write"
      /\ UNCHANGED <<owner, optOuts, live>>
  BY DEF Write, CallAt
<1>2. \A d : Pays(p, d)
  BY <1>1 DEF Pays, Owes, CallAt
<1>3. /\ c \in Call /\ Knows(c) /\ c.at = "refresh" /\ c.to = call[p].to
      /\ c.me = call[p].me /\ c.old = call[p].old /\ Heard(p, c)
  BY <1>1, UpdateKnows DEF Call, CallStep, Knows, Heard
<1>4. CASE live /\ call[p].want # call[p].old /\ date' = call[p].want
           /\ unaware' = (unaware \ {call[p].me}) \cup {call[p].to} /\ Proceed(p, c)
  <2>1. Moves(p, c)
    BY <1>3, <1>4, ProceedMoves DEF CountdownInv
  <2>2. unaware \subseteq User /\ date' \in Date
    BY <1>1, <1>4, UpdateKnows DEF CountdownInv, CountdownTypeOK
  <2>3. unaware' = {call[p].to}
    BY <1>1, <1>4, <2>2, UpdateKnows, TwoMembers
  <2>4. call'[p] = c
    BY <2>1 DEF Moves
  <2>5. Owes(p)'
    BY <1>1, <1>3, <1>4, <2>4, UpdateKnows DEF Owes, CallAt
  <2>6. SomeoneOwes'
    BY <1>3, <2>3, <2>4, <2>5 DEF SomeoneOwes
  <2>7. CountdownTypeOK' /\ CallsKnow'
    <3>1. /\ owner' \in [Token -> User \cup {Null}] /\ optOuts' \subseteq User \X Key
          /\ live' \in BOOLEAN /\ unaware' \subseteq User /\ gone' \subseteq User
      BY <1>1, <2>3, UpdateKnows DEF CountdownInv, CountdownTypeOK
    <3> QED
      BY <1>3, <2>1, <2>2, <3>1, TypeByMove DEF CountdownInv
  <2>8. FoundLoud'
    <3> SUFFICES ASSUME NEW q \in Request,
                        call'[q].at \in {"tokens", "expo"}, call'[q].to # call'[q].me
                 PROVE  q \in loud'
      BY DEF FoundLoud
    <3>1. q # p
      BY <1>3, <2>4
    <3>2. call[q].at = call'[q].at /\ call[q].to = call'[q].to /\ call[q].me = call'[q].me
      BY <2>1, <3>1, OthersStay DEF CountdownInv
    <3>3. q \in loud
      BY <3>2 DEF CountdownInv, FoundLoud
    <3>4. call'[q].to \in User
      BY <2>7 DEF CallsKnow, Knows
    <3> QED
      BY <3>3, <3>4 DEF Listen
  <2> QED
    BY <1>1, <1>4, <2>6, <2>7, <2>8 DEF CountdownInv, NothingLeft, NothingOfTheErased, TokensOf
<1>5. CASE Proceed(p, c) /\ UNCHANGED <<date, unaware>>
  BY <1>1, <1>2, <1>3, <1>5, QuietKeepsInv DEF Relationship
<1>6. CASE Respond(p) /\ UNCHANGED <<date, unaware>>
  BY <1>1, <1>2, <1>6, QuietKeepsInv, IdleIsQuiet, IdleCall DEF Respond, Relationship
<1> QED
  BY <1>4, <1>5, <1>6 DEF Write

LEMMA RefreshKeepsInv ==
  ASSUME CountdownInv, Listen, Watch, NEW p \in Request, Refresh(p), gone' = gone PROVE CountdownInv'
<1>1. /\ call[p].at = "refresh"
      /\ UNCHANGED <<owner, optOuts, Relationship>> /\ unaware' = unaware
  BY DEF Refresh, CallAt
<1>2. CASE live /\ Changed(p)
  <2> DEFINE c == [call[p] EXCEPT !.at = "partner"]
  <2>1. c \in Call /\ Knows(c) /\ c.at = "partner" /\ c.to = call[p].to /\ c.me = call[p].me
    BY <1>1, UpdateKnows DEF Call, CallStep, Knows
  <2>2. Proceed(p, c)
    BY <1>2 DEF Refresh
  <2>3. Pays(p, c)
    <3>1. call'[p] = c
      BY <2>2 DEF Proceed, CountdownInv, CountdownTypeOK
    <3> QED
      BY <2>1, <3>1 DEF Pays, Owes, CallAt
  <2> QED
    BY <1>1, <2>1, <2>2, <2>3, QuietKeepsInv DEF Heard
<1>3. CASE ~live /\ Respond(p)
  <2>1. Pays(p, NoCall)
    BY <1>1, <1>3 DEF Pays, CountdownInv, NothingLeft
  <2> QED
    BY <1>1, <1>3, <2>1, QuietKeepsInv, IdleIsQuiet, IdleCall DEF Respond
<1>4. CASE ~Changed(p) /\ Respond(p)
  <2>1. Pays(p, NoCall)
    BY <1>1, <1>4 DEF Pays, Owes, CallAt, Changed
  <2> QED
    BY <1>1, <1>4, <2>1, QuietKeepsInv, IdleIsQuiet, IdleCall DEF Respond
<1> QED
  BY <1>2, <1>3, <1>4 DEF Refresh

LEMMA PartnerKeepsInv ==
  ASSUME CountdownInv, Listen, Watch, NEW p \in Request, FindPartner(p) \/ LoadOptOuts(p), gone' = gone
  PROVE  CountdownInv'
<1>1. /\ call[p].at \in {"partner", "optOuts"}
      /\ UNCHANGED <<owner, optOuts, Relationship>>
  BY DEF FindPartner, LoadOptOuts, CallAt
<1>2. CASE Respond(p) /\ Excused(p)
  <2>1. Pays(p, NoCall)
    BY <1>1, <1>2, UpdateKnows DEF Pays, Excused
  <2>2. unaware' \subseteq unaware
    BY <1>2 DEF Excused
  <2> QED
    BY <1>1, <1>2, <2>1, <2>2, QuietKeepsInv, IdleIsQuiet, IdleCall DEF Respond
<1>3. CASE Proceed(p, [call[p] EXCEPT !.at = "optOuts"]) /\ UNCHANGED unaware
  <2> DEFINE c == [call[p] EXCEPT !.at = "optOuts"]
  <2>1. c \in Call /\ Knows(c) /\ c.at = "optOuts" /\ c.to = call[p].to /\ c.me = call[p].me
    BY <1>1, UpdateKnows DEF Call, CallStep, Knows
  <2>2. Pays(p, c)
    <3>1. call'[p] = c
      BY <1>3 DEF Proceed, CountdownInv, CountdownTypeOK
    <3> QED
      BY <2>1, <3>1 DEF Pays, Owes, CallAt
  <2> QED
    BY <1>1, <1>3, <2>1, <2>2, QuietKeepsInv DEF Heard
<1>4. CASE ~Silenced(p) /\ Proceed(p, [call[p] EXCEPT !.at = "tokens"]) /\ UNCHANGED unaware
  <2> DEFINE c == [call[p] EXCEPT !.at = "tokens"]
  <2>1. c \in Call /\ Knows(c) /\ c.at = "tokens" /\ c.to = call[p].to /\ c.me = call[p].me
    BY <1>1, UpdateKnows DEF Call, CallStep, Knows
  <2>2. Pays(p, c)
    <3>1. call'[p] = c
      BY <1>4 DEF Proceed, CountdownInv, CountdownTypeOK
    <3> QED
      BY <2>1, <3>1 DEF Pays, Owes, CallAt
  <2>3. Heard(p, c)
    BY <1>1, <1>4, <2>1 DEF Heard, Silenced, OptedOut
  <2> QED
    BY <1>1, <1>4, <2>1, <2>2, <2>3, QuietKeepsInv
<1> QED
  BY <1>2, <1>3, <1>4 DEF FindPartner, LoadOptOuts

LEMMA DeliverKeepsInv ==
  ASSUME CountdownInv, Listen, Watch, NEW p \in Request, Deliver(p), gone' = gone PROVE CountdownInv'
<1>1. /\ call[p].at \in {"tokens", "expo"}
      /\ UNCHANGED <<owner, optOuts, Relationship>> /\ unaware' \subseteq unaware
  BY DEF Deliver, ListTokens, Expo, CallAt, Excused
<1>2. call[p] \in Call /\ call[p].me \in User /\ call[p].to \in User
  BY <1>1 DEF CountdownInv, CountdownTypeOK, CallsKnow, Knows
<1>3. PICK c \in Call : /\ Proceed(p, c) /\ c.at \in {"idle", "expo", "prune"}
                        /\ c.at # "idle" => c.to = call[p].to /\ c.me = call[p].me
  <2>1. CASE Respond(p)
    BY <2>1, IdleCall DEF Respond, NoCall
  <2>2. CASE Proceed(p, [call[p] EXCEPT !.at = "expo", !.batch = TokensOf(call[p].to)])
    <3> DEFINE c == [call[p] EXCEPT !.at = "expo", !.batch = TokensOf(call[p].to)]
    <3>1. c \in Call /\ c.at = "expo" /\ c.to = call[p].to /\ c.me = call[p].me
      BY <1>2 DEF Call, CallStep, TokensOf
    <3> QED
      BY <2>2, <3>1
  <2>3. CASE \E dead \in SUBSET call[p].batch \ {{}} :
               Proceed(p, [call[p] EXCEPT !.at = "prune", !.batch = dead])
    <3>1. PICK dead \in SUBSET call[p].batch :
            Proceed(p, [call[p] EXCEPT !.at = "prune", !.batch = dead])
      BY <2>3
    <3> DEFINE c == [call[p] EXCEPT !.at = "prune", !.batch = dead]
    <3>2. c \in Call /\ c.at = "prune" /\ c.to = call[p].to /\ c.me = call[p].me
      BY <1>2 DEF Call, CallStep
    <3> QED
      BY <3>1, <3>2
  <2> QED
    BY <2>1, <2>2, <2>3 DEF Deliver, ListTokens, Expo
<1>4. call'[p] = c
  BY <1>3 DEF Proceed, CountdownInv, CountdownTypeOK
<1>5. Knows(c)
  BY <1>2, <1>3 DEF Knows
<1>6. Heard(p, c)
  BY <1>1, <1>3 DEF Heard
<1>7. Pays(p, c)
  <2>1. CASE Owes(p) /\ c.at = "expo"
    BY <1>3, <1>4, <2>1 DEF Pays, Owes, CallAt
  <2>2. CASE Owes(p) /\ c.at # "expo"
    <3>1. call[p].to = Other(call[p].me) /\ call[p].to # call[p].me
      BY <1>2, <2>2, TwoMembers DEF Owes
    <3> QED
      BY <1>4, <2>2, <3>1 DEF Deliver, Excused, Pays
  <2> QED
    BY <2>1, <2>2 DEF Pays
<1> QED
  BY <1>1, <1>3, <1>5, <1>6, <1>7, QuietKeepsInv

LEMMA FailKeepsInv ==
  ASSUME CountdownInv, Listen, Watch, NEW p \in Request, FailCall(p), gone' = gone PROVE CountdownInv'
<1>1. /\ UNCHANGED <<owner, optOuts, Relationship>> /\ unaware' \subseteq unaware
      /\ Proceed(p, NoCall)
  BY DEF FailCall, Excused, Respond
<1>2. Pays(p, NoCall)
  BY DEF FailCall, Pays, Owes, Excused
<1> QED
  BY <1>1, <1>2, QuietKeepsInv, IdleIsQuiet, IdleCall

LEMMA EraseKeepsInv ==
  ASSUME CountdownInv, Listen, Watch, NEW u \in User, EraseMember(u) PROVE CountdownInv'
<1>1. \A q \in Request : call[q] \in Call /\ Knows(call[q])
  BY DEF CountdownInv, CountdownTypeOK, CallsKnow
<1>2. \A q \in Request : call'[q] = call[q] \/ call'[q] = [call[q] EXCEPT !.seen = Null]
  BY DEF EraseMember, Missing
<1>3. \A q \in Request : [call[q] EXCEPT !.seen = Null] \in Call
                         /\ Knows([call[q] EXCEPT !.seen = Null])
  BY <1>1 DEF Call, Knows
<1>4. call' \in [Request -> Call] /\ CallsKnow'
  BY <1>1, <1>2, <1>3 DEF EraseMember, CallsKnow, Knows
<1>5. \A q \in Request : call'[q].at = call[q].at /\ call'[q].to = call[q].to
                         /\ call'[q].me = call[q].me
  BY <1>1, <1>2 DEF Call
<1>6. FoundLoud'
  <2>1. \A q \in Request : call[q].at \in {"tokens", "expo"} => call[q].to \in User
    BY <1>1 DEF Knows
  <2> QED
    BY <1>5, <2>1 DEF CountdownInv, FoundLoud, Listen
<1>7. CountdownTypeOK'
  BY <1>4 DEF CountdownInv, CountdownTypeOK, EraseMember, Without, Listen, Watch
<1>8. NothingOfTheErased'
  <2> SUFFICES ASSUME NEW v \in gone'
               PROVE  (\A t \in Token : owner'[t] # v) /\ \A row \in optOuts' : row[1] # v
    BY DEF NothingOfTheErased, TokensOf
  <2>1. v \in User /\ Null \notin User
    BY PushAssumption DEF EraseMember, CountdownInv, CountdownTypeOK
  <2>2. CASE v = u
    BY <2>1, <2>2 DEF EraseMember, Without, TokensOf
  <2>3. CASE v # u
    BY <2>1, <2>3 DEF EraseMember, Without, TokensOf, CountdownInv, NothingOfTheErased
  <2> QED
    BY <2>2, <2>3
<1> QED
  BY <1>4, <1>6, <1>7, <1>8 DEF CountdownInv, SomeoneOwes, NothingLeft, EraseMember

LEMMA EndKeepsInv ==
  ASSUME CountdownInv, Listen, Watch, EndRelationship PROVE CountdownInv'
<1>1. CountdownTypeOK'
  BY DEF CountdownInv, CountdownTypeOK, EndRelationship, Listen, Watch
<1>2. CallsKnow'
  BY DEF CountdownInv, CallsKnow, Knows, EndRelationship
<1>3. FoundLoud'
  <2>1. \A q \in Request : call[q].at \in {"tokens", "expo"} => call[q].to \in User
    BY DEF CountdownInv, CallsKnow, Knows
  <2> QED
    BY <2>1 DEF CountdownInv, FoundLoud, EndRelationship, Listen
<1> QED
  BY <1>1, <1>2, <1>3
     DEF CountdownInv, SomeoneOwes, NothingLeft, NothingOfTheErased, TokensOf, EndRelationship

-----------------------------------------------------------------------------
(* The theorems.                                                           *)

LEMMA InitHasCountdownInv == Init => CountdownInv
<1> SUFFICES ASSUME Init PROVE CountdownInv
  OBVIOUS
<1>1. CountdownTypeOK /\ CallsKnow
  BY IdleCall DEF Init, CountdownTypeOK, CallsKnow
<1>2. FoundLoud
  BY DEF Init, FoundLoud, NoCall
<1> QED
  BY <1>1, <1>2 DEF Init, CountdownInv, SomeoneOwes, NothingLeft, NothingOfTheErased

LEMMA NextKeepsCountdownInv == CountdownInv /\ [Next]_vars => CountdownInv'
<1> SUFFICES ASSUME CountdownInv, [Next]_vars PROVE CountdownInv'
  OBVIOUS
<1>1. CASE UNCHANGED vars
  BY <1>1 DEF vars, CountdownInv, CountdownTypeOK, CallsKnow, Knows, SomeoneOwes, Owes, CallAt,
              FoundLoud, NothingLeft, NothingOfTheErased, TokensOf
<1>2. CASE EndRelationship /\ Listen /\ Watch
  BY <1>2, EndKeepsInv
<1>3. ASSUME NEW p \in Request, Listen, Watch, BeginCall(p), gone' = gone PROVE CountdownInv'
  <2>1. PICK c \in Call : /\ Moves(p, c) /\ Knows(c)
                          /\ c.at \in {"tokens", "expo"} => c.to = c.me
    BY <1>3, BeginMoves DEF CountdownInv
  <2>2. UNCHANGED <<owner, optOuts, Relationship, unaware>>
    BY <1>3, BeginMoves DEF CountdownInv
  <2>3. call[p].at = "idle"
    BY <1>3 DEF BeginCall, BeginTokenCall, BeginPreferences, BeginUpdate, CallAt
  <2>4. Heard(p, c) /\ Pays(p, c)
    BY <2>1, <2>3 DEF Heard, Pays, Owes, CallAt
  <2>5. owner' \in [Token -> User \cup {Null}] /\ optOuts' \subseteq User \X Key
    BY <2>2 DEF CountdownInv, CountdownTypeOK
  <2>6. NothingOfTheErased'
    BY <1>3, <2>2 DEF CountdownInv, NothingOfTheErased, TokensOf
  <2> QED
    BY <1>3, <2>1, <2>2, <2>4, <2>5, <2>6, StepKeepsInv DEF Relationship
<1>4. ASSUME NEW p \in Request, Listen, Watch, TokenCall(p), gone' = gone PROVE CountdownInv'
  <2>1. PICK c \in Call : Moves(p, c) /\ Knows(c) /\ c.at \notin {"tokens", "expo"}
    BY <1>4, TokenCallMoves DEF CountdownInv
  <2>2. /\ ~Owes(p) /\ owner' \in [Token -> User \cup {Null}]
        /\ UNCHANGED <<optOuts, Relationship, unaware>>
    BY <1>4, TokenCallMoves DEF CountdownInv
  <2>3. optOuts' \subseteq User \X Key
    BY <2>2 DEF CountdownInv, CountdownTypeOK
  <2>4. Heard(p, c) /\ Pays(p, c)
    BY <2>1, <2>2 DEF Heard, Pays
  <2> QED
    BY <1>4, <2>1, <2>2, <2>3, <2>4, TokenCallErased, StepKeepsInv DEF Relationship
<1>5. ASSUME NEW p \in Request, Listen, Watch, PreferenceStep(p), UNCHANGED <<gone, Relationship, unaware>>
      PROVE  CountdownInv'
  <2>1. PICK c \in Call : Moves(p, c) /\ Knows(c) /\ c.at \notin {"tokens", "expo"}
    BY <1>5, PreferenceMoves DEF CountdownInv
  <2>2. ~Owes(p) /\ owner' = owner /\ optOuts' \subseteq User \X Key
    BY <1>5, PreferenceMoves DEF CountdownInv
  <2>3. owner' \in [Token -> User \cup {Null}]
    BY <2>2 DEF CountdownInv, CountdownTypeOK
  <2>4. Heard(p, c) /\ Pays(p, c)
    BY <2>1, <2>2 DEF Heard, Pays
  <2> QED
    BY <1>5, <2>1, <2>2, <2>3, <2>4, PreferenceErased, StepKeepsInv DEF Relationship
<1>6. ASSUME NEW p \in Request, Listen, Watch, UpdateStep(p), gone' = gone PROVE CountdownInv'
  BY <1>6, FindKeepsInv, WriteKeepsInv, RefreshKeepsInv, PartnerKeepsInv, DeliverKeepsInv
     DEF UpdateStep
<1>7. ASSUME NEW p \in Request, Listen, Watch, FailCall(p), gone' = gone PROVE CountdownInv'
  BY <1>7, FailKeepsInv
<1>8. ASSUME NEW u \in User, Listen, Watch, EraseMember(u) PROVE CountdownInv'
  BY <1>8, EraseKeepsInv
<1> QED
  BY <1>1, <1>2, <1>3, <1>4, <1>5, <1>6, <1>7, <1>8 DEF Next, Handle

LEMMA CountdownInvariance == Spec => []CountdownInv
BY InitHasCountdownInv, NextKeepsCountdownInv, PTL DEF Spec

\* Tokens, calls, opt-outs and the date hold only what the schema and the
\* handlers of the notification routes allow, for any number of requests.
THEOREM CountdownTypeCorrect == Spec => []CountdownTypeOK
<1>1. CountdownInv => CountdownTypeOK
  BY DEF CountdownInv
<1> QED
  BY <1>1, CountdownInvariance, PTL

\* With nothing in flight nobody is left to be told of a new date, however many
\* updates RelationshipsService.update has interleaved.
THEOREM PartnersHear == Spec => []PartnerHears
<1>1. CountdownInv => PartnerHears
  BY DEF CountdownInv, SomeoneOwes, PartnerHears, Owes, CallAt
<1> QED
  BY <1>1, CountdownInvariance, PTL

\* A partner who stays opted out of countdown_updated from before the update is
\* not sent its push by _notify_partner_of_countdown_update.
THEOREM OptOutsAreKept == Spec => []OptOutIsKept
<1>1. CountdownInv => OptOutIsKept
  BY DEF CountdownInv, FoundLoud, OptOutIsKept, CallAt
<1> QED
  BY <1>1, CountdownInvariance, PTL

\* No device and no preference outlives the users row it refers to, and none is
\* written after it, whatever the calls in flight were about to write.
THEOREM ErasedLeaveNothing == Spec => []NothingOfTheErased
<1>1. CountdownInv => NothingOfTheErased
  BY DEF CountdownInv
<1> QED
  BY <1>1, CountdownInvariance, PTL

-----------------------------------------------------------------------------
(* Registrations.                                                          *)

Waiting == {"insert", "update"}

\* What a registration knows of its row while nobody has interfered.
Stands(q) ==
  LET c == call[q] IN
  /\ c.at = "insert" => owner[c.tok] \in {Null, c.me}
  /\ c.at = "update" => owner[c.tok] \in {c.seen, c.me} /\ c.seen # Null

RegistrationInv == \A q \in Request \ rivalled : Stands(q)

\* A call comes to wait for its write in Lookup only.
LEMMA StepOfCall ==
  ASSUME CountdownInv, NEW p \in Request, BeginCall(p) \/ Handle(p) \/ FailCall(p)
  PROVE  \/ Lookup(p)
         \/ \E c : Proceed(p, c) /\ c.at \notin Waiting
         \/ \E T : DeleteTokens(p, T)
<1> USE DEF Waiting
<1>1. call[p] \in Call
  BY DEF CountdownInv, CountdownTypeOK
<1>2. ASSUME Respond(p) PROVE \E c : Proceed(p, c) /\ c.at \notin Waiting
  BY <1>2 DEF Respond, NoCall
<1>3. ASSUME NEW step, step \notin Waiting, Proceed(p, [call[p] EXCEPT !.at = step])
      PROVE  \E c : Proceed(p, c) /\ c.at \notin Waiting
  BY <1>1, <1>3 DEF Call
<1>3a. ASSUME NEW old, Proceed(p, [call[p] EXCEPT !.at = "write", !.old = old])
       PROVE  \E c : Proceed(p, c) /\ c.at \notin Waiting
  <2> DEFINE c == [call[p] EXCEPT !.at = "write", !.old = old]
  <2>1. Proceed(p, c) /\ c.at \notin Waiting
    BY <1>1, <1>3a DEF Call
  <2> QED
    BY <2>1
<1>3b. ASSUME NEW step, step \notin Waiting, NEW todo,
              Proceed(p, [call[p] EXCEPT !.at = step, !.todo = todo])
       PROVE  \E c : Proceed(p, c) /\ c.at \notin Waiting
  <2> DEFINE c == [call[p] EXCEPT !.at = step, !.todo = todo]
  <2>1. Proceed(p, c) /\ c.at \notin Waiting
    BY <1>1, <1>3b DEF Call
  <2> QED
    BY <2>1
<1>3c. ASSUME NEW step, step \notin Waiting, NEW batch,
              Proceed(p, [call[p] EXCEPT !.at = step, !.batch = batch])
       PROVE  \E c : Proceed(p, c) /\ c.at \notin Waiting
  <2> DEFINE c == [call[p] EXCEPT !.at = step, !.batch = batch]
  <2>1. Proceed(p, c) /\ c.at \notin Waiting
    BY <1>1, <1>3c DEF Call
  <2> QED
    BY <2>1
<1>4. CASE BeginCall(p)
  <2>1. PICK c : Proceed(p, c) /\ c.at \notin Waiting
    <3>1. ASSUME NEW u \in User, NEW t \in Token, NEW step \in {"lookup", "unregister"},
                 Proceed(p, [NoCall EXCEPT !.at = step, !.me = u, !.tok = t])
          PROVE  \E c : Proceed(p, c) /\ c.at \notin Waiting
      <4> DEFINE c == [NoCall EXCEPT !.at = step, !.me = u, !.tok = t]
      <4>1. Proceed(p, c) /\ c.at \notin Waiting
        BY <3>1 DEF NoCall
      <4> QED
        BY <4>1
    <3>2. ASSUME NEW u \in User,
                 Proceed(p, [NoCall EXCEPT !.at = "tokens", !.me = u, !.to = u])
          PROVE  \E c : Proceed(p, c) /\ c.at \notin Waiting
      <4> DEFINE c == [NoCall EXCEPT !.at = "tokens", !.me = u, !.to = u]
      <4>1. Proceed(p, c) /\ c.at \notin Waiting
        BY <3>2 DEF NoCall
      <4> QED
        BY <4>1
    <3>3. ASSUME NEW u \in User, NEW body,
                 Proceed(p, [NoCall EXCEPT !.at = "preference", !.me = u, !.todo = body])
          PROVE  \E c : Proceed(p, c) /\ c.at \notin Waiting
      <4> DEFINE c == [NoCall EXCEPT !.at = "preference", !.me = u, !.todo = body]
      <4>1. Proceed(p, c) /\ c.at \notin Waiting
        BY <3>3 DEF NoCall
      <4> QED
        BY <4>1
    <3>4. ASSUME NEW u \in User, NEW d \in Date,
                 Proceed(p, [NoCall EXCEPT !.at = "find", !.me = u, !.to = Other(u), !.want = d])
          PROVE  \E c : Proceed(p, c) /\ c.at \notin Waiting
      <4> DEFINE c == [NoCall EXCEPT !.at = "find", !.me = u, !.to = Other(u), !.want = d]
      <4>1. Proceed(p, c) /\ c.at \notin Waiting
        BY <3>4 DEF NoCall
      <4> QED
        BY <4>1
    <3> QED
      BY <1>4, <3>1, <3>2, <3>3, <3>4
         DEF BeginCall, BeginTokenCall, BeginPreferences, BeginUpdate
  <2> QED
    BY <2>1
<1>5. CASE TokenCall(p)
  BY <1>2, <1>5 DEF TokenCall, InsertToken, UpdateToken, Unregister, Prune
<1>6. CASE PreferenceStep(p)
  <2>1. ASSUME Onwards(p) PROVE \E c : Proceed(p, c) /\ c.at \notin Waiting
    BY <1>2, <1>3b, <2>1 DEF Onwards
  <2> QED
    BY <1>2, <1>3, <1>6, <2>1 DEF PreferenceStep, Enable, FindOptOut, AddOptOut
<1>7. CASE UpdateStep(p)
  <2>1. CASE Find(p)
    BY <1>2, <1>3a, <2>1 DEF Find
  <2>2. CASE Write(p)
    <3>1. Proceed(p, [call[p] EXCEPT !.at = "refresh"]) \/ Respond(p)
      BY <2>2 DEF Write
    <3> QED
      BY <1>2, <1>3, <3>1
  <2>3. CASE Refresh(p)
    <3>1. Proceed(p, [call[p] EXCEPT !.at = "partner"]) \/ Respond(p)
      BY <2>3 DEF Refresh
    <3> QED
      BY <1>2, <1>3, <3>1
  <2>4. CASE FindPartner(p) \/ LoadOptOuts(p)
    BY <1>2, <1>3, <2>4 DEF FindPartner, LoadOptOuts
  <2>5. CASE Deliver(p)
    BY <1>2, <1>3, <1>3c, <2>5 DEF Deliver, ListTokens, Expo
  <2> QED
    BY <1>7, <2>1, <2>2, <2>3, <2>4, <2>5 DEF UpdateStep
<1>8. CASE FailCall(p)
  BY <1>2, <1>8 DEF FailCall
<1> QED
  BY <1>4, <1>5, <1>6, <1>7, <1>8 DEF Handle

\* A registration waits to write because it has just looked, or as before, or as
\* before but for the row it had loaded, which is deleted.
LEMMA WhyWaiting ==
  ASSUME CountdownInv, [Next]_vars, NEW q \in Request, call'[q].at \in Waiting
  PROVE  \/ Lookup(q)
         \/ call'[q] = call[q]
         \/ \E T : owner' = Without(T) /\ call'[q] = Missing(q, T)
<1>1. ASSUME NEW p \in Request, BeginCall(p) \/ Handle(p) \/ FailCall(p)
      PROVE  \/ Lookup(q)
             \/ call'[q] = call[q]
             \/ \E T : owner' = Without(T) /\ call'[q] = Missing(q, T)
  <2>1. CASE Lookup(p)
    BY <2>1 DEF Lookup, Proceed, CountdownInv, CountdownTypeOK
  <2>2. CASE \E c : Proceed(p, c) /\ c.at \notin Waiting
    BY <2>2 DEF Proceed, CountdownInv, CountdownTypeOK
  <2>3. CASE \E T : DeleteTokens(p, T)
    BY <2>3 DEF DeleteTokens, NoCall, Waiting
  <2> QED
    BY <1>1, <2>1, <2>2, <2>3, StepOfCall
<1>2. ASSUME NEW u \in User, EraseMember(u)
      PROVE  \E T : owner' = Without(T) /\ call'[q] = Missing(q, T)
  BY <1>2 DEF EraseMember
<1>3. CASE EndRelationship \/ UNCHANGED vars
  BY <1>3 DEF EndRelationship, vars
<1> QED
  BY <1>1, <1>2, <1>3 DEF Next

LEMMA NextKeepsRegistrationInv ==
  ASSUME CountdownInv, RegistrationInv, [Next]_vars
  PROVE  RegistrationInv'
<1>1. CASE UNCHANGED vars
  BY <1>1 DEF vars, RegistrationInv, Stands
<1>2. CASE Watch
  <2> SUFFICES ASSUME NEW q \in Request, q \notin rivalled', call'[q].at \in Waiting
               PROVE  Stands(q)'
    BY DEF RegistrationInv, Stands, Waiting
  <2>1. /\ call[q] \in Call /\ Knows(call[q])
        /\ owner \in [Token -> User \cup {Null}] /\ Null \notin User
    BY PushAssumption DEF CountdownInv, CountdownTypeOK, CallsKnow
  <2>2. CASE Lookup(q)
    <3>1. call[q].tok \in Token
      BY <2>1, <2>2 DEF Lookup, CallAt, Knows
    <3>2. /\ call'[q].tok = call[q].tok /\ call'[q].seen = owner[call[q].tok]
          /\ call'[q].at = IF owner[call[q].tok] = Null THEN "insert" ELSE "update"
      BY <2>1, <2>2 DEF Lookup, Proceed, CountdownInv, CountdownTypeOK, Call
    <3>3. owner' = owner
      BY <2>2 DEF Lookup
    <3> QED
      BY <3>2, <3>3 DEF Stands
  <2>3. ASSUME call[q].at \in Waiting
        PROVE  /\ call[q].tok \in Token /\ call[q].me \in User
               /\ Stands(q)
               /\ owner'[call[q].tok] \in {owner[call[q].tok], call[q].me}
    BY <1>2, <2>1, <2>3 DEF Watch, RegistrationInv, Waiting, Knows
  <2>4. CASE call'[q] = call[q]
    BY <2>3, <2>4 DEF Stands, Waiting
  <2>5. CASE \E T : owner' = Without(T) /\ call'[q] = Missing(q, T) /\ call'[q] # call[q]
    <3>1. PICK T : owner' = Without(T) /\ call'[q] = Missing(q, T) /\ call'[q] # call[q]
      BY <2>5
    <3>2. call[q].tok \in T /\ call'[q] = [call[q] EXCEPT !.seen = Null]
      BY <3>1 DEF Missing
    <3>3. call'[q].at = call[q].at /\ call'[q].tok = call[q].tok /\ call'[q].me = call[q].me
      BY <2>1, <3>2 DEF Call
    <3>4. owner'[call[q].tok] = Null
      BY <2>3, <3>1, <3>2, <3>3 DEF Without
    <3>5. owner[call[q].tok] = Null
      BY <2>1, <2>3, <3>3, <3>4
    <3>6. call[q].at = "insert"
      BY <2>1, <2>3, <3>3, <3>5 DEF Stands, Waiting
    <3> QED
      BY <3>3, <3>4, <3>6 DEF Stands
  <2> QED
    BY <2>2, <2>4, <2>5, WhyWaiting
<1> QED
  BY <1>1, <1>2 DEF Next

\* A registration that nobody interferes with holds, for any number of calls:
\* DeviceTokenRepository.upsert inserts or rewrites the row, is refused where the
\* row is its user's already, and leaves user_id out only there.
THEOREM RegistrationsStick == Spec => RegistrationSticks
<1>1. Init => RegistrationInv
  BY DEF Init, RegistrationInv, Stands, NoCall
<1>2. CountdownInv /\ RegistrationInv /\ [Next]_vars => RegistrationInv'
  BY NextKeepsRegistrationInv
<1>3. CountdownInv /\ RegistrationInv /\ [Next]_vars =>
        [\A p \in Request \ rivalled :
           (InsertToken(p) \/ UpdateToken(p)) /\ call[p].me \notin gone =>
             owner'[call[p].tok] = call[p].me]_vars
  <2> SUFFICES ASSUME CountdownInv, RegistrationInv, NEW p \in Request, p \notin rivalled,
                      InsertToken(p) \/ UpdateToken(p), call[p].me \notin gone
               PROVE  owner'[call[p].tok] = call[p].me
    OBVIOUS
  <2>1. call[p].tok \in Token /\ owner \in [Token -> User \cup {Null}] /\ Stands(p)
    BY DEF CountdownInv, CountdownTypeOK, CallsKnow, Knows, RegistrationInv, InsertToken, UpdateToken, CallAt
  <2>2. CASE InsertToken(p)
    BY <2>1, <2>2 DEF InsertToken, CallAt, Stands, Insertable
  <2>3. CASE UpdateToken(p)
    BY <2>1, <2>3 DEF UpdateToken, CallAt, Stands, Updatable, Written
  <2> QED
    BY <2>2, <2>3
<1> QED
  BY <1>1, <1>2, <1>3, CountdownInvariance, PTL DEF Spec, RegistrationSticks

=============================================================================
