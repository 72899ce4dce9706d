-------------------------- MODULE NotificationPrefs --------------------------
(***************************************************************************)
(* The preferences of a user: rows of notification_opt_outs, one per key   *)
(* switched off (PATCH /me/notification-preferences).                      *)
(***************************************************************************)
EXTENDS PushTokens

VARIABLE optOuts   \* notification_opt_outs: <<user_id, key>> pairs

\* The preferences a body names, in the order of the model's fields.  A null
\* is not left out (exclude_unset) and disables like false.
Bodies ==
  {<<[key |-> k, on |-> v]>> : k \in Key, v \in BOOLEAN}
  \cup {<<[key |-> "overlap_opening", on |-> v], [key |-> "countdown_updated", on |-> w]>> :
          v \in BOOLEAN, w \in BOOLEAN}

BeginPreferences(p, u) ==
  /\ CallAt(p, "idle") /\ u \notin gone
  /\ \E body \in Bodies :
       Proceed(p, [NoCall EXCEPT !.at = "preference", !.me = u, !.todo = body])
  /\ UNCHANGED <<owner, optOuts>>

Row(p) == <<call[p].me, Head(call[p].todo).key>>

\* The next key of the body, or the answer.
Onwards(p) ==
  IF Len(call[p].todo) = 1
  THEN Respond(p)
  ELSE Proceed(p, [call[p] EXCEPT !.at = "preference", !.todo = Tail(@)])

\* set_enabled(True): DELETE and commit.
Enable(p) ==
  /\ CallAt(p, "preference")
  /\ Head(call[p].todo).on
  /\ optOuts' = optOuts \ {Row(p)}
  /\ Onwards(p)
  /\ UNCHANGED owner

\* set_enabled(False): SELECT, then INSERT and commit.
FindOptOut(p) ==
  /\ CallAt(p, "preference")
  /\ ~Head(call[p].todo).on
  /\ IF Row(p) \in optOuts
     THEN Onwards(p)
     ELSE Proceed(p, [call[p] EXCEPT !.at = "optOut"])
  /\ UNCHANGED <<owner, optOuts>>

\* A second row is refused, and one of a user who is gone: an error, and the
\* rest of the body is not applied.
AddOptOut(p) ==
  /\ CallAt(p, "optOut")
  /\ IF Row(p) \in optOuts \/ call[p].me \in gone
     THEN Respond(p) /\ UNCHANGED optOuts
     ELSE Onwards(p) /\ optOuts' = optOuts \cup {Row(p)}
  /\ UNCHANGED owner

PreferenceStep(p) == Enable(p) \/ FindOptOut(p) \/ AddOptOut(p)

OptedOut(u, k) == <<u, k>> \in optOuts

=============================================================================
