----------------------------- MODULE PushTokens -----------------------------
(***************************************************************************)
(* Device tokens: PushNotificationsService, DeviceTokenRepository and the  *)
(* client of Expo (POST and DELETE /me/push-tokens, POST                   *)
(* /me/push-tokens/test), and the calls in flight of all notification      *)
(* routes.  As in Database, a handler is a sequence of atomic steps, one   *)
(* SELECT or one committed write each.                                     *)
(***************************************************************************)
EXTENDS Sequences, FiniteSets, Naturals

CONSTANTS
  User,     \* the two members of a relationship
  Token,    \* Expo push tokens
  Date,     \* values of next_meet_at, NULL being one of them
  Request,  \* the requests that may be in flight together
  Null      \* Python None

VARIABLES
  owner,    \* device_tokens: the user_id of each token's row, Null without one
  gone,     \* users whose row is deleted
  call      \* what each request in flight has read, and where it is

ASSUME PushAssumption ==
  /\ \E a, b \in User : a # b /\ User = {a, b}
  /\ Null \notin User \cup Token

\* Mutant: nobody but oneself is found in the relationship.
Nobody(u) == Null

Other(u) == CHOOSE v \in User : v # u

Key == {"overlap_opening", "countdown_updated"}
Preference == [key : Key, on : BOOLEAN]

CallStep ==
  {"idle",
   "lookup", "insert", "update", "unregister",              \* tokens
   "tokens", "expo", "prune",                               \* send_to_user
   "preference", "optOut",                                  \* preferences
   "find", "write", "refresh", "partner", "optOuts"}        \* countdown

Call ==
  [at : CallStep,
   me : User \cup {Null},     \* current_user
   to : User \cup {Null},     \* whom send_to_user addresses
   tok : Token \cup {Null},   \* the token of the body
   seen : User \cup {Null},   \* user_id of its row when loaded, Null once deleted
   batch : SUBSET Token,      \* tokens listed; after the answer, those to delete
   todo : Seq(Preference),    \* preferences of the body not yet set
   want : Date \cup {Null},   \* next_meet_at of the body
   old : Date \cup {Null}]    \* next_meet_at when the relationship was loaded

NoCall ==
  [at |-> "idle", me |-> Null, to |-> Null, tok |-> Null, seen |-> Null,
   batch |-> {}, todo |-> <<>>, want |-> Null, old |-> Null]

CallAt(p, step) == call[p].at = step
Proceed(p, c) == call' = [call EXCEPT ![p] = c]
Respond(p) == Proceed(p, NoCall)

-----------------------------------------------------------------------------
(* POST /me/push-tokens                                                    *)

BeginTokenCall(p, u) ==
  /\ CallAt(p, "idle") /\ u \notin gone
  /\ \/ \E t \in Token, step \in {"lookup", "unregister"} :
          Proceed(p, [NoCall EXCEPT !.at = step, !.me = u, !.tok = t])
     \/ Proceed(p, [NoCall EXCEPT !.at = "tokens", !.me = u, !.to = u])  \* test
  /\ UNCHANGED owner

Lookup(p) ==
  LET holder == owner[call[p].tok] IN
  /\ CallAt(p, "lookup")
  /\ Proceed(p, [call[p] EXCEPT !.at = IF holder = Null THEN "insert" ELSE "update",
                                !.seen = holder])
  /\ UNCHANGED owner

\* Mutant: no foreign key.
Unclaimed(p) == owner[call[p].tok] = Null

\* The unique constraint refuses a second row of the token, the foreign key a
\* row of a user who is gone.
Insertable(p) == owner[call[p].tok] = Null /\ call[p].me \notin gone

\* Mutant: a registration found to exist is only touched.
Untouched(p) == owner[call[p].tok]

\* The ORM leaves user_id out of the UPDATE when it loaded that very value.
Written(p) == IF call[p].seen = call[p].me THEN owner[call[p].tok] ELSE call[p].me

\* The row loaded is still there, and the user it is to be given to as well.
Updatable(p) ==
  call[p].seen # Null /\ (call[p].seen = call[p].me \/ call[p].me \notin gone)

InsertToken(p) ==
  /\ CallAt(p, "insert")
  /\ IF Insertable(p)
     THEN owner' = [owner EXCEPT ![call[p].tok] = call[p].me]
     ELSE UNCHANGED owner
  /\ Respond(p)

UpdateToken(p) ==
  /\ CallAt(p, "update")
  /\ IF Updatable(p)
     THEN owner' = [owner EXCEPT ![call[p].tok] = Written(p)]
     ELSE UNCHANGED owner
  /\ Respond(p)

-----------------------------------------------------------------------------
(* DELETE /me/push-tokens/{token}, and the deletion of dead tokens         *)

Without(T) == [t \in Token |-> IF t \in T THEN Null ELSE owner[t]]

\* The call of q once the rows of T are deleted.
Missing(q, T) == IF call[q].tok \in T THEN [call[q] EXCEPT !.seen = Null] ELSE call[q]

\* The rows of T go, by value, whoever holds them; p is answered.
DeleteTokens(p, T) ==
  /\ owner' = Without(T)
  /\ call' = [q \in Request |-> IF q = p THEN NoCall ELSE Missing(q, T)]

Unregister(p) == CallAt(p, "unregister") /\ DeleteTokens(p, {call[p].tok})

-----------------------------------------------------------------------------
(* send_to_user                                                            *)

TokensOf(u) == {t \in Token : owner[t] = u}

\* send_push returns at once for an empty list.
ListTokens(p) ==
  LET mine == TokensOf(call[p].to) IN
  /\ CallAt(p, "tokens")
  /\ IF mine = {} THEN Respond(p)
     ELSE Proceed(p, [call[p] EXCEPT !.at = "expo", !.batch = mine])
  /\ UNCHANGED owner

\* The answer of Expo, or none (PushDeliveryError): any of the tokens may be dead.
Expo(p) ==
  /\ CallAt(p, "expo")
  /\ \/ Respond(p)
     \/ \E dead \in SUBSET call[p].batch \ {{}} :
          Proceed(p, [call[p] EXCEPT !.at = "prune", !.batch = dead])
  /\ UNCHANGED owner

Prune(p) == CallAt(p, "prune") /\ DeleteTokens(p, call[p].batch)

TokenStep(p) ==
  \/ Lookup(p) \/ InsertToken(p) \/ UpdateToken(p) \/ Unregister(p)
  \/ ListTokens(p) \/ Expo(p) \/ Prune(p)

=============================================================================
