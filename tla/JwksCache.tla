------------------------------ MODULE JwksCache ------------------------------
(***************************************************************************)
(* The signing keys of Supabase as core/security.py caches them, and what  *)
(* verify_access_token says of a token while the keys are rotated and      *)
(* Supabase may not answer.  The fetch blocks the event loop: a call is    *)
(* one step.                                                               *)
(***************************************************************************)
EXTENDS Naturals

CONSTANTS
  Kid,    \* key ids
  TTL     \* _JWKS_TTL, in minutes; ages count no further

VARIABLES
  published,   \* Supabase: the keys of the JWKS document
  since,       \* Supabase: age of the last change of each key, published or retired
  cache,       \* _JWKS_CACHE: no document or one, the set of its key ids
  age,         \* time.time() - _JWKS_CACHE_TIME
  verdict      \* the last answer, until anything changes: none or one

vars == <<published, since, cache, age, verdict>>

ASSUME JwksAssumption == TTL \in Nat \ {0}

Age == 0..TTL
Answer == {"verified", "refused", "unknown kid", "unavailable"}
Verdict == [kid : Kid, answer : Answer, failed : BOOLEAN]

Init ==
  /\ published \in SUBSET Kid
  /\ since = [k \in Kid |-> TTL]
  /\ cache = {}
  /\ age = TTL
  /\ verdict = {}

-----------------------------------------------------------------------------
(* Supabase, the clock, and a restart of the process.                      *)

Fresh == cache # {} /\ age < TTL

Older(n) == IF n < TTL THEN n + 1 ELSE TTL

Rotate(k) ==
  /\ published' = IF k \in published THEN published \ {k} ELSE published \cup {k}
  /\ since' = [since EXCEPT ![k] = 0]
  /\ verdict' = {}
  /\ UNCHANGED <<cache, age>>

Minute ==
  /\ since' = [k \in Kid |-> Older(since[k])]
  /\ age' = Older(age)
  /\ verdict' = {}
  /\ UNCHANGED <<published, cache>>

Restart ==
  /\ cache' = {}
  /\ age' = TTL
  /\ verdict' = {}
  /\ UNCHANGED <<published, since>>

-----------------------------------------------------------------------------
(* fetch_jwks_with_retry, as far as the keys it leaves in the cache.       *)

UseCache ==
  /\ Fresh
  /\ UNCHANGED <<cache, age>>

\* Mutants: the documents fetched pile up, or their keys do.
FetchOneMore ==
  /\ ~Fresh
  /\ cache' = cache \cup {published}
  /\ age' = 0

FetchMoreKeys ==
  /\ ~Fresh
  /\ cache' = {published \cup UNION cache}
  /\ age' = 0

\* One of the three attempts is answered.
Fetch ==
  /\ ~Fresh
  /\ cache' = {published}
  /\ age' = 0

\* Mutant: a failed fetch counts as one.
ServeStaleAsNew ==
  /\ ~Fresh
  /\ age' = 0
  /\ UNCHANGED cache

\* All of them fail: the old keys are served, and stay as old as they are.
ServeStale ==
  /\ ~Fresh
  /\ UNCHANGED <<cache, age>>

\* The answer for a token of key k; `good` when signature, algorithm, issuer,
\* audience, subject and expiry are all in order.
Says(k, good) ==
  IF cache' = {} THEN "unavailable"
  ELSE IF k \notin UNION cache' THEN "unknown kid"
  ELSE IF good THEN "verified" ELSE "refused"

\* verify_access_token: the keys come first, the token is looked at with them.
Verify(k) ==
  /\ \E good, failed \in BOOLEAN :
       /\ IF failed THEN ServeStale ELSE UseCache \/ Fetch
       /\ verdict' = {[kid |-> k, answer |-> Says(k, good), failed |-> failed]}
  /\ UNCHANGED <<published, since>>

Next ==
  \/ Minute \/ Restart
  \/ \E k \in Kid : Rotate(k) \/ Verify(k)

Spec == Init /\ [][Next]_vars

-----------------------------------------------------------------------------
(* Properties.                                                             *)

\* Ages stay within the TTL, keys are keys, answers are answers.
JwksTypeOK ==
  /\ published \subseteq Kid
  /\ since \in [Kid -> Age]
  /\ cache \subseteq SUBSET Kid
  /\ \A doc, other \in cache : doc = other
  /\ age \in Age
  /\ verdict \subseteq Verdict

\* A token is only refused for an unknown key, although its key is published,
\* within the TTL after the rotation or in a call that could not reach Supabase:
\* a failed fetch must not make the old keys look new.
PublishedKeyIsKnown ==
  \A v \in verdict :
    v.answer = "unknown kid" /\ ~v.failed /\ v.kid \in published => since[v.kid] < TTL

\* A token is only verified with a key that was retired within the TTL after
\* the rotation or in a call that could not reach Supabase.
RetiredKeyIsForgotten ==
  \A v \in verdict :
    v.answer = "verified" /\ ~v.failed /\ v.kid \notin published => since[v.kid] < TTL

=============================================================================
