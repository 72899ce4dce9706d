-------------------------- MODULE JwksCacheProofs --------------------------
(***************************************************************************)
(* The bounds on how long a rotation of the keys goes unnoticed, for any   *)
(* set of keys and any TTL.                                                *)
(***************************************************************************)
EXTENDS JwksCache, TLAPS

\* Where the document held differs from the published one, it is because a key
\* was rotated after it was fetched.
DiffersByRotation ==
  \A doc \in cache : \A k \in Kid :
    (k \in doc /\ k \notin published) \/ (k \notin doc /\ k \in published) => since[k] <= age

\* An answer given without a failure was read off a fresh document, still there.
VerdictIsFresh ==
  \A v \in verdict : ~v.failed =>
    \E doc \in cache :
      /\ age < TTL
      /\ v.answer = "unknown kid" => v.kid \notin doc
      /\ v.answer = "verified" => v.kid \in doc

KeysInv == JwksTypeOK /\ DiffersByRotation /\ VerdictIsFresh

LEMMA OlderKeepsOrder ==
  ASSUME NEW m \in Age, NEW n \in Age, m <= n
  PROVE  Older(m) \in Age /\ Older(n) \in Age /\ Older(m) <= Older(n)
BY JwksAssumption DEF Age, Older

LEMMA InitHasKeysInv == Init => KeysInv
BY JwksAssumption DEF Init, KeysInv, JwksTypeOK, DiffersByRotation, VerdictIsFresh, Age

LEMMA RotateKeepsInv ==
  ASSUME KeysInv, NEW k \in Kid, Rotate(k) PROVE KeysInv'
<1>1. JwksTypeOK'
  BY JwksAssumption DEF KeysInv, JwksTypeOK, Rotate, Age
<1>2. DiffersByRotation'
  <2> SUFFICES ASSUME NEW doc \in cache, NEW j \in Kid,
                      (j \in doc /\ j \notin published') \/ (j \notin doc /\ j \in published')
               PROVE  since'[j] <= age
    BY DEF DiffersByRotation, Rotate
  <2>1. CASE j = k
    BY <2>1, JwksAssumption DEF KeysInv, JwksTypeOK, Rotate, Age
  <2>2. CASE j # k
    BY <2>2 DEF KeysInv, JwksTypeOK, DiffersByRotation, Rotate
  <2> QED
    BY <2>1, <2>2
<1>3. VerdictIsFresh'
  BY DEF Rotate, VerdictIsFresh
<1> QED
  BY <1>1, <1>2, <1>3 DEF KeysInv

LEMMA MinuteKeepsInv ==
  ASSUME KeysInv, Minute PROVE KeysInv'
<1>1. \A k \in Kid : since[k] \in Age /\ since'[k] = Older(since[k])
  BY DEF KeysInv, JwksTypeOK, Minute
<1>2. age \in Age /\ age' = Older(age) /\ cache' = cache /\ published' = published
  BY DEF KeysInv, JwksTypeOK, Minute
<1>3. \A k \in Kid : Older(since[k]) \in Age
  BY <1>1, JwksAssumption DEF Older, Age
<1>4. JwksTypeOK'
  BY <1>2, <1>3, JwksAssumption DEF KeysInv, JwksTypeOK, Minute, Older, Age
<1>5. DiffersByRotation'
  <2> SUFFICES ASSUME NEW doc \in cache, NEW j \in Kid,
                      (j \in doc /\ j \notin published) \/ (j \notin doc /\ j \in published)
               PROVE  since'[j] <= age'
    BY <1>2 DEF DiffersByRotation
  <2>1. since[j] <= age
    BY DEF KeysInv, DiffersByRotation
  <2> QED
    BY <1>1, <1>2, <2>1, OlderKeepsOrder
<1>6. VerdictIsFresh'
  BY DEF Minute, VerdictIsFresh
<1> QED
  BY <1>4, <1>5, <1>6 DEF KeysInv

LEMMA RestartKeepsInv ==
  ASSUME KeysInv, Restart PROVE KeysInv'
<1>1. JwksTypeOK'
  BY JwksAssumption DEF KeysInv, JwksTypeOK, Restart, Age
<1>2. DiffersByRotation' /\ VerdictIsFresh'
  BY DEF Restart, DiffersByRotation, VerdictIsFresh
<1> QED
  BY <1>1, <1>2 DEF KeysInv

LEMMA VerifyKeepsInv ==
  ASSUME KeysInv, NEW k \in Kid, Verify(k) PROVE KeysInv'
<1>1. PICK good \in BOOLEAN, failed \in BOOLEAN :
        /\ IF failed THEN ServeStale ELSE UseCache \/ Fetch
        /\ verdict' = {[kid |-> k, answer |-> Says(k, good), failed |-> failed]}
  BY DEF Verify
<1>2. published' = published /\ since' = since
  BY DEF Verify
<1>3. Says(k, good) \in Answer
  BY DEF Says, Answer
<1>4. /\ cache' \subseteq SUBSET Kid /\ age' \in Age
      /\ \A doc, other \in cache' : doc = other
  <2>1. CASE Fetch
    BY <2>1, JwksAssumption DEF KeysInv, JwksTypeOK, Fetch, Age
  <2>2. CASE ServeStale \/ UseCache
    BY <2>2 DEF KeysInv, JwksTypeOK, ServeStale, UseCache
  <2> QED
    BY <1>1, <2>1, <2>2
<1>5. JwksTypeOK'
  <2>1. verdict' \subseteq Verdict
    BY <1>1, <1>3 DEF Verdict
  <2> QED
    BY <1>2, <1>4, <2>1 DEF KeysInv, JwksTypeOK
<1>6. DiffersByRotation'
  <2>1. CASE Fetch
    BY <1>2, <2>1 DEF DiffersByRotation, Fetch
  <2>2. CASE ServeStale \/ UseCache
    BY <1>2, <2>2 DEF KeysInv, DiffersByRotation, ServeStale, UseCache
  <2> QED
    BY <1>1, <2>1, <2>2
<1>7. VerdictIsFresh'
  <2> SUFFICES ASSUME NEW v \in verdict', ~v.failed
               PROVE  \E doc \in cache' :
                        /\ age' < TTL
                        /\ v.answer = "unknown kid" => v.kid \notin doc
                        /\ v.answer = "verified" => v.kid \in doc
    BY DEF VerdictIsFresh
  <2>1. v = [kid |-> k, answer |-> Says(k, good), failed |-> failed]
    BY <1>1
  <2>2. v.kid = k /\ v.answer = Says(k, good) /\ ~failed
    BY <2>1
  <2>3. cache' # {} /\ age' < TTL
    BY <1>1, <2>2, JwksAssumption DEF UseCache, Fetch, Fresh
  <2>4. PICK doc \in cache' : cache' = {doc}
    BY <1>4, <2>3
  <2>5. UNION cache' = doc
    BY <2>4
  <2>6. /\ Says(k, good) = "unknown kid" => k \notin doc
        /\ Says(k, good) = "verified" => k \in doc
    BY <2>3, <2>5 DEF Says
  <2> QED
    BY <2>2, <2>3, <2>6
<1> QED
  BY <1>5, <1>6, <1>7 DEF KeysInv

LEMMA StepKeepsKeysInv == KeysInv /\ [Next]_vars => KeysInv'
<1> SUFFICES ASSUME KeysInv, [Next]_vars PROVE KeysInv'
  OBVIOUS
<1>1. CASE UNCHANGED vars
  BY <1>1 DEF vars, KeysInv, JwksTypeOK, DiffersByRotation, VerdictIsFresh
<1> QED
  BY <1>1, RotateKeepsInv, MinuteKeepsInv, RestartKeepsInv, VerifyKeepsInv DEF Next

LEMMA KeysInvariance == Spec => []KeysInv
BY InitHasKeysInv, StepKeepsKeysInv, PTL DEF Spec

\* A fresh document misses only rotations within the TTL.
LEMMA FreshKnowsTheRotation ==
  ASSUME KeysInv, NEW k \in Kid, NEW doc \in cache, age < TTL,
         (k \in doc /\ k \notin published) \/ (k \notin doc /\ k \in published)
  PROVE  since[k] < TTL
<1>1. since[k] <= age
  BY DEF KeysInv, DiffersByRotation
<1>2. since[k] \in Nat /\ age \in Nat /\ TTL \in Nat
  BY JwksAssumption DEF KeysInv, JwksTypeOK, Age
<1> QED
  BY <1>1, <1>2

\* Ages stay within the TTL and there is at most one document.
THEOREM KeysTypeCorrect == Spec => []JwksTypeOK
<1>1. KeysInv => JwksTypeOK
  BY DEF KeysInv
<1> QED
  BY KeysInvariance, <1>1, PTL

\* fetch_jwks_with_retry: a new key is unknown for less than the TTL, unless
\* Supabase could not be reached in that very call.
THEOREM NewKeysBecomeKnown == Spec => []PublishedKeyIsKnown
<1>1. KeysInv => PublishedKeyIsKnown
  <2> SUFFICES ASSUME KeysInv, NEW v \in verdict,
                      v.answer = "unknown kid", ~v.failed, v.kid \in published
               PROVE  since[v.kid] < TTL
    BY DEF PublishedKeyIsKnown
  <2>1. v.kid \in Kid
    BY DEF KeysInv, JwksTypeOK, Verdict
  <2>2. PICK doc \in cache : age < TTL /\ v.kid \notin doc
    BY DEF KeysInv, VerdictIsFresh
  <2> QED
    BY <2>1, <2>2, FreshKnowsTheRotation
<1> QED
  BY KeysInvariance, <1>1, PTL

\* A retired key verifies tokens for less than the TTL, unless Supabase could
\* not be reached in that very call.
THEOREM OldKeysAreForgotten == Spec => []RetiredKeyIsForgotten
<1>1. KeysInv => RetiredKeyIsForgotten
  <2> SUFFICES ASSUME KeysInv, NEW v \in verdict,
                      v.answer = "verified", ~v.failed, v.kid \notin published
               PROVE  since[v.kid] < TTL
    BY DEF RetiredKeyIsForgotten
  <2>1. v.kid \in Kid
    BY DEF KeysInv, JwksTypeOK, Verdict
  <2>2. PICK doc \in cache : age < TTL /\ v.kid \in doc
    BY DEF KeysInv, VerdictIsFresh
  <2> QED
    BY <2>1, <2>2, FreshKnowsTheRotation
<1> QED
  BY KeysInvariance, <1>1, PTL
=============================================================================
