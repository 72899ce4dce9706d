------------------------------ MODULE Couples ------------------------------
(***************************************************************************)
(* What the API promises about who is with whom, without tokens, requests, *)
(* accounts or time: an invitation is never taken back, two people become  *)
(* a couple in one step and only upon an invitation between their          *)
(* addresses, they part in one step, and who has left for good never       *)
(* comes back.  Backend implements it (MCBackend, CouplesProofs).          *)
(***************************************************************************)
CONSTANTS
  User, Relationship,
  Address,   \* whatever an invitation can be sent to
  Mail       \* the address of each user, for ever

VARIABLES
  invited,   \* <<from, to>>: the addresses an invitation was sent between
  life,      \* of each relationship: absent, live, gone
  couple,    \* the users in each relationship
  left       \* users who erased their account

vars == <<invited, life, couple, left>>

Init ==
  /\ invited = {}
  /\ life = [r \in Relationship |-> "absent"]
  /\ couple = [r \in Relationship |-> {}]
  /\ left = {}

Ask(u, to) ==
  /\ invited' = invited \cup {<<Mail[u], to>>}
  /\ UNCHANGED <<life, couple, left>>

\* The one who accepts, u, was invited by v.
Pair(r, u, v) ==
  /\ u # v /\ u \notin left /\ v \notin left
  /\ <<Mail[v], Mail[u]>> \in invited
  /\ life[r] = "absent"
  /\ life' = [life EXCEPT ![r] = "live"]
  /\ couple' = [couple EXCEPT ![r] = {u, v}]
  /\ UNCHANGED <<invited, left>>

Part(r) ==
  /\ life[r] = "live"
  /\ life' = [life EXCEPT ![r] = "gone"]
  /\ couple' = [couple EXCEPT ![r] = {}]
  /\ UNCHANGED <<invited, left>>

Erase(u) ==
  /\ left' = left \cup {u}
  /\ couple' = [r \in Relationship |-> couple[r] \ {u}]
  /\ UNCHANGED <<invited, life>>

Next ==
  \/ \E u \in User, to \in Address : Ask(u, to)
  \/ \E u \in User : Erase(u)
  \/ \E r \in Relationship : Part(r) \/ \E u, v \in User : Pair(r, u, v)

Spec == Init /\ [][Next]_vars

-----------------------------------------------------------------------------
(* Stricter: two people are a couple once at a time, and nobody erases the *)
(* account out of a relationship and leaves the partner in it alone.       *)

StrictNext ==
  \/ \E u \in User, to \in Address : Ask(u, to)
  \/ \E u \in User : Erase(u) /\ \A r \in Relationship : u \notin couple[r]
  \/ \E r \in Relationship :
       \/ Part(r)
       \/ \E u, v \in User :
            Pair(r, u, v) /\ \A q \in Relationship : ~({u, v} \subseteq couple[q])

StrictSpec == Init /\ [][StrictNext]_vars
=============================================================================
