-------------------------- MODULE JwksCacheProofs ---------------------------
(***************************************************************************)
(* For any number of coroutines, any keys and any durations, the verdicts  *)
(* of the key lookup are about the recent past of the user pool.  The      *)
(* reason is DatedRight: an answer is dated before it is asked for, so it  *)
(* is never older than its date, wherever it is kept.                      *)
(***************************************************************************)
EXTENDS JwksCache, TLAPS

USE JwksAssumption DEF JwksAssumption

Invariant == TypeOK /\ DatedRight

LEMMA InitInvariant == Init => Invariant
<1> SUFFICES ASSUME Init PROVE Invariant
  OBVIOUS
<1>1. TypeOK
  BY DEF Init, TypeOK, Since
<1>2. DatedRight
  BY DEF Init, DatedRight, Dated, Since, Waiting
<1> QED
  BY <1>1, <1>2 DEF Invariant

-----------------------------------------------------------------------------
\* Sightings only move forward, and never beyond the present: what was
\* dated right stays so.
LEMMA PoolMovesOn ==
    ASSUME Invariant, Rotate \/ Tick
    PROVE  Invariant'
<1> USE DEF Invariant, TypeOK, DatedRight, Dated, Waiting
<1>1. CASE Rotate
  <2>1. /\ lastSeen' = Sightings(lastSeen, published', clock)
        /\ lastMissing' = Sightings(lastMissing, Kids \ published', clock)
        /\ published' \subseteq Kids
        /\ clock' = clock /\ cache' = cache /\ pc' = pc
        /\ kid' = kid /\ now' = now /\ keys' = keys
    BY <1>1 DEF Rotate
  <2>2. lastSeen' \in [Kids -> Nat] /\ lastMissing' \in [Kids -> Nat]
    BY <2>1 DEF Sightings
  <2>3. \A k \in Kids : /\ lastSeen[k] <= lastSeen'[k] /\ lastSeen'[k] <= clock
                        /\ lastMissing[k] <= lastMissing'[k] /\ lastMissing'[k] <= clock
                        /\ k \in published' => lastSeen'[k] = clock
                        /\ k \notin published' => lastMissing'[k] = clock
    BY <2>1 DEF Sightings
  <2>4. TypeOK'
    BY <2>1, <2>2
  <2>5. \A set \in SUBSET Kids, t \in Nat : Dated(set, t) =>
           \A k \in Kids : IF k \in set THEN lastSeen'[k] >= t ELSE lastMissing'[k] >= t
    BY <2>2, <2>3
  <2>6. DatedRight'
    BY <2>1, <2>2, <2>3, <2>5
  <2> QED
    BY <2>4, <2>6
<1>2. CASE Tick
  <2>1. /\ lastSeen' = Sightings(lastSeen, published, clock + 1)
        /\ lastMissing' = Sightings(lastMissing, Kids \ published, clock + 1)
        /\ published' = published
        /\ clock' = clock + 1 /\ cache' = cache /\ pc' = pc
        /\ kid' = kid /\ now' = now /\ keys' = keys
        /\ \A c \in Coroutines : Waiting(c) => clock < now[c] + FetchSeconds
    BY <1>2 DEF Tick
  <2>2. lastSeen' \in [Kids -> Nat] /\ lastMissing' \in [Kids -> Nat]
    BY <2>1 DEF Sightings
  <2>3. \A k \in Kids : /\ lastSeen[k] <= lastSeen'[k] /\ lastSeen'[k] <= clock'
                        /\ lastMissing[k] <= lastMissing'[k] /\ lastMissing'[k] <= clock'
                        /\ k \in published => lastSeen'[k] = clock'
                        /\ k \notin published => lastMissing'[k] = clock'
    BY <2>1 DEF Sightings
  <2>4. TypeOK'
    <3>1. clock' \in Nat
      BY <2>1
    <3> QED
      BY <2>1, <2>2, <3>1
  <2>5. \A set \in SUBSET Kids, t \in Nat : Dated(set, t) =>
           \A k \in Kids : IF k \in set THEN lastSeen'[k] >= t ELSE lastMissing'[k] >= t
    BY <2>2, <2>3
  <2>6. DatedRight'
    <3>1. \A k \in Kids : IF k \in cache.keys THEN lastSeen'[k] >= cache.fetched_at
                                              ELSE lastMissing'[k] >= cache.fetched_at
      BY <2>5
    <3>2. ASSUME NEW c \in Coroutines, pc[c] = "answered"
          PROVE  \A k \in Kids : IF k \in keys[c] THEN lastSeen'[k] >= now[c]
                                                 ELSE lastMissing'[k] >= now[c]
      <4>1. keys[c] \in SUBSET Kids /\ now[c] \in Nat
        OBVIOUS
      <4>2. Dated(keys[c], now[c])
        BY <3>2
      <4> QED
        BY <2>5, <4>1, <4>2
    <3>3. cache.fetched_at <= clock' /\ \A c \in Coroutines : now[c] <= clock'
      BY <2>1
    <3>4. \A c \in Coroutines : Waiting(c) => clock' <= now[c] + FetchSeconds
      BY <2>1
    <3> QED
      BY <2>1, <2>3, <3>1, <3>2, <3>3, <3>4
  <2> QED
    BY <2>4, <2>6
<1> QED
  BY <1>1, <1>2

\* An answer is dated before it is asked for, and stored under its date.
LEMMA CoroutineStep ==
    ASSUME Invariant, NEW c \in Coroutines, Authenticate(c)
    PROVE  Invariant'
<1> USE DEF Invariant, TypeOK, DatedRight, Dated, Waiting, Verdict, pool
<1>1. CASE Arrive(c)
  BY <1>1 DEF Arrive
<1>2. CASE Serve(c)
  <2>1. /\ keys' = [keys EXCEPT ![c] = published]
        /\ pc' = [pc EXCEPT ![c] = "answered"]
        /\ pc[c] = "fetching"
    BY <1>2 DEF Serve
  <2>2. TypeOK'
    BY <1>2, <2>1 DEF Serve
  <2>3. \A k \in Kids : IF k \in published THEN lastSeen[k] >= now[c]
                                           ELSE lastMissing[k] >= now[c]
    OBVIOUS
  <2>4. DatedRight'
    BY <1>2, <2>1, <2>3 DEF Serve
  <2> QED
    BY <2>2, <2>4
<1>3. CASE Store(c)
  <2>1. /\ cache' = [fetched_at |-> now[c], keys |-> keys[c]]
        /\ pc' = [pc EXCEPT ![c] = Verdict(kid[c], keys[c])]
        /\ keys' = [keys EXCEPT ![c] = {}]
        /\ pc[c] = "answered"
    BY <1>3 DEF Store
  <2>2. TypeOK'
    BY <1>3, <2>1 DEF Store
  <2>3. DatedRight'
    BY <1>3, <2>1 DEF Store
  <2> QED
    BY <2>2, <2>3
<1>4. CASE Fail(c)
  BY <1>4 DEF Fail
<1>5. CASE Leave(c)
  BY <1>5 DEF Leave
<1> QED
  BY <1>1, <1>2, <1>3, <1>4, <1>5 DEF Authenticate

LEMMA InvariantHolds == Spec => []Invariant
<1>1. Invariant /\ [Next]_vars => Invariant'
  <2> SUFFICES ASSUME Invariant, [Next]_vars PROVE Invariant'
    OBVIOUS
  <2>1. CASE Rotate \/ Tick
    BY <2>1, PoolMovesOn
  <2>2. CASE \E c \in Coroutines : Authenticate(c)
    BY <2>2, CoroutineStep
  <2>3. CASE UNCHANGED vars
    BY <2>3 DEF vars, Invariant, TypeOK, DatedRight, Dated, Waiting
  <2> QED
    BY <2>1, <2>2, <2>3 DEF Next
<1> QED
  BY <1>1, InitInvariant, PTL DEF Spec

-----------------------------------------------------------------------------
\* A verdict is reached on the fresh cache or on the answer just received.
LEMMA Decision ==
    ASSUME Invariant, [Next]_vars, NEW c \in Coroutines,
           NEW verdict \in {"trusted", "unknown"}, Decides(c, verdict)
    PROVE  \E set \in SUBSET Kids, t \in Nat :
              /\ Dated(set, t)
              /\ t >= clock - Window
              /\ verdict = Verdict(kid'[c], set)
<1> USE DEF Invariant, TypeOK, DatedRight, Waiting, Decides, Window
<1>1. PICK d \in Coroutines : Arrive(d) \/ Store(d)
  BY DEF Next, Authenticate, Rotate, Tick, Serve, Fail, Leave, vars
<1>2. d = c
  BY <1>1 DEF Arrive, Store
<1>3. CASE Arrive(c)
  <2>1. Fresh /\ verdict = Verdict(kid'[c], cache.keys)
    BY <1>3 DEF Arrive, Verdict
  <2>2. cache.keys \in SUBSET Kids /\ cache.fetched_at \in Nat
    OBVIOUS
  <2>3. cache.fetched_at >= clock - Window
    BY <2>1, <2>2 DEF Fresh
  <2> QED
    BY <2>1, <2>2, <2>3
<1>4. CASE Store(c)
  <2>1. kid' = kid /\ verdict = Verdict(kid'[c], keys[c])
    BY <1>4 DEF Store
  <2>2. now[c] >= clock - Window
    BY <1>4 DEF Store
  <2>3. Dated(keys[c], now[c]) /\ keys[c] \in SUBSET Kids /\ now[c] \in Nat
    BY <1>4 DEF Store
  <2> QED
    BY <2>1, <2>2, <2>3
<1> QED
  BY <1>1, <1>2, <1>3, <1>4

\* The key a coroutine decides about is one of Kids.
LEMMA KidType ==
    ASSUME Invariant, Invariant', NEW c \in Coroutines
    PROVE  kid'[c] \in Kids
BY DEF Invariant, TypeOK

\* No withdrawn key is trusted for longer than the window, however many
\* requests overlap.
THEOREM WithdrawnKeysExpire == Spec => TrustIsRecent
<1> DEFINE A == \A c \in Coroutines :
                   Decides(c, "trusted") => lastSeen[kid'[c]] >= clock - Window
<1>1. Invariant /\ Invariant' /\ [Next]_vars => [A]_vars
  <2> SUFFICES ASSUME Invariant, Invariant', [Next]_vars,
                      NEW c \in Coroutines, Decides(c, "trusted")
               PROVE  lastSeen[kid'[c]] >= clock - Window
    OBVIOUS
  <2>1. PICK set \in SUBSET Kids, t \in Nat :
           /\ Dated(set, t)
           /\ t >= clock - Window
           /\ "trusted" = Verdict(kid'[c], set)
    BY Decision
  <2>2. kid'[c] \in Kids
    BY KidType
  <2>3. lastSeen[kid'[c]] >= t
    BY <2>1, <2>2 DEF Dated, Verdict
  <2>4. lastSeen[kid'[c]] \in Nat /\ clock \in Nat /\ Window \in Nat
    BY <2>2 DEF Invariant, TypeOK, Window
  <2> QED
    BY <2>1, <2>3, <2>4
<1> QED
  BY <1>1, InvariantHolds, PTL DEF Spec, TrustIsRecent

\* A token is rejected for an unknown key only if its key was missing within
\* the window.
THEOREM RotationsAreNoticed == Spec => RejectionIsRecent
<1> DEFINE A == \A c \in Coroutines :
                   Decides(c, "unknown") => lastMissing[kid'[c]] >= clock - Window
<1>1. Invariant /\ Invariant' /\ [Next]_vars => [A]_vars
  <2> SUFFICES ASSUME Invariant, Invariant', [Next]_vars,
                      NEW c \in Coroutines, Decides(c, "unknown")
               PROVE  lastMissing[kid'[c]] >= clock - Window
    OBVIOUS
  <2>1. PICK set \in SUBSET Kids, t \in Nat :
           /\ Dated(set, t)
           /\ t >= clock - Window
           /\ "unknown" = Verdict(kid'[c], set)
    BY Decision
  <2>2. kid'[c] \in Kids
    BY KidType
  <2>3. lastMissing[kid'[c]] >= t
    BY <2>1, <2>2 DEF Dated, Verdict
  <2>4. lastMissing[kid'[c]] \in Nat /\ clock \in Nat /\ Window \in Nat
    BY <2>2 DEF Invariant, TypeOK, Window
  <2> QED
    BY <2>1, <2>3, <2>4
<1> QED
  BY <1>1, InvariantHolds, PTL DEF Spec, RejectionIsRecent

\* An older answer replaces a newer one by no more than one request's time.
THEOREM CacheRegressBounded == Spec => RegressBounded
<1>1. Invariant /\ [Next]_vars =>
         [cache'.fetched_at >= cache.fetched_at - FetchSeconds]_vars
  <2> SUFFICES ASSUME Invariant, Next
               PROVE  cache'.fetched_at >= cache.fetched_at - FetchSeconds
    OBVIOUS
  <2> USE DEF Invariant, TypeOK, DatedRight, Waiting
  <2>1. CASE \E c \in Coroutines : Store(c)
    BY <2>1 DEF Store
  <2>2. CASE cache' = cache
    BY <2>2
  <2> QED
    BY <2>1, <2>2 DEF Next, Authenticate, Rotate, Tick, Arrive, Serve, Fail, Leave
<1> QED
  BY <1>1, InvariantHolds, PTL DEF Spec, RegressBounded

\* The cache, the provider and the requests in flight keep their types.
THEOREM CacheTypeCorrect == Spec => []TypeOK
<1>1. Invariant => TypeOK
  BY DEF Invariant
<1> QED
  BY <1>1, InvariantHolds, PTL

\* What the cache and every answer on its way hold was published, and what
\* they lack was missing, at some moment since the time they are dated.
THEOREM CacheDatedRight == Spec => []DatedRight
<1>1. Invariant => DatedRight
  BY DEF Invariant
<1> QED
  BY <1>1, InvariantHolds, PTL
================================================================================
