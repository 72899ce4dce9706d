---------------------------- MODULE MCCountdown ----------------------------
(***************************************************************************)
(* Countdown for TLC: the two members, their tokens, the dates other than  *)
(* the two named ones and the requests are interchangeable.                *)
(***************************************************************************)
EXTENDS Countdown, TLC

Interchangeable ==
  Permutations(User) \cup Permutations(Token) \cup Permutations(Request) \cup Permutations(Date)

=============================================================================
