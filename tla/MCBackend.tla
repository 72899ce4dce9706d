----------------------------- MODULE MCBackend -----------------------------
(***************************************************************************)
(* Instances of Backend for TLC: which users rows there may be, whose they *)
(* are, and which values are interchangeable.                              *)
(***************************************************************************)
EXTENDS Backend, TLC

CONSTANTS u1, u2, u3, u4, s1, s2, s3, e1, e2, e3

\* Two people, one users row each.
TwoSubOf == u1 :> s1 @@ u2 :> s2
TwoEmailOf == s1 :> e1 @@ s2 :> e2

\* Three people, one users row each.
ThreeSubOf == u1 :> s1 @@ u2 :> s2 @@ u3 :> s3
ThreeEmailOf == s1 :> e1 @@ s2 :> e2 @@ s3 :> e3

\* Two people; the first may register once more with a new Supabase account, or
\* with the token of the old one.
RenewedSubOf == u1 :> s1 @@ u2 :> s2 @@ u3 :> s3 @@ u4 :> s1
RenewedEmailOf == s1 :> e1 @@ s2 :> e2 @@ s3 :> e1

\* Ids are drawn from sequences and compared for equality only; the requests
\* run the same code.
Interchangeable ==
  Permutations(Request) \cup Permutations(Invite) \cup Permutations(Relationship)

\* So are the three people: each with the own row, account and address.
Renaming(f) ==
  LET person(x) == CHOOSE n \in 1..3 : x \in {<<u1, u2, u3>>[n], <<s1, s2, s3>>[n], <<e1, e2, e3>>[n]}
  IN  [x \in {u1, u2, u3} |-> <<u1, u2, u3>>[f[person(x)]]]
      @@ [x \in {s1, s2, s3} |-> <<s1, s2, s3>>[f[person(x)]]]
      @@ [x \in {e1, e2, e3} |-> <<e1, e2, e3>>[f[person(x)]]]

PeopleToo == Interchangeable \cup {Renaming(f) : f \in Permutations(1..3)}

\* Bound: at most one person deletes the account.
OneErasure == Cardinality({s \in Sub : accounts[s] \in {"deleted", "expired"}}) <= 1

\* Bound: at most the first of two people deletes the account, and the token
\* that is left does not expire.
FirstErasure == accounts[s2] = "active" /\ accounts[s1] # "expired"

\* Bound: a third invite is only sent while nobody is in a relationship or about
\* to be.
ThirdWhileSending ==
  (\A i \in Invite : invites[i].status # "absent") =>
    /\ \A r \in Relationship : relationships[r] = "absent"
    /\ \A p \in Request : session[p].at \in {"idle", "count", "duplicate", "addInvite"}

=============================================================================
