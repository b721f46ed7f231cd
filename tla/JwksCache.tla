----------------------------- MODULE JwksCache ------------------------------
(***************************************************************************)
(* The key cache of core/security.py: _load_jwks, shared by the coroutines *)
(* of one process, and the lookup _cognito_principal makes in what it      *)
(* returns.  Between the await of the request to the user pool and the     *)
(* update of the cache the other coroutines run, and the pool may publish  *)
(* other keys.  Time is counted in seconds.                                *)
(***************************************************************************)
EXTENDS Integers

CONSTANTS
    Coroutines,     \* requests being authenticated in the process
    Kids,           \* key ids
    Ttl,            \* the 600 seconds of _load_jwks
    FetchSeconds,   \* the longest a request for the keys takes
    Epoch,          \* the clock when the process starts
    Horizon         \* bound: the last second that is explored

\* The clock reads seconds since 1970: time 0 is long out of date.
ASSUME JwksAssumption ==
    /\ Ttl \in Nat
    /\ FetchSeconds \in Nat
    /\ Epoch \in Nat
    /\ Epoch > Ttl
    /\ Epoch > FetchSeconds
    /\ Horizon \in Nat

VARIABLES
    clock,         \* time.time()
    published,     \* the keys the user pool publishes
    lastSeen,      \* history: when each key was published last, 0 if never
    lastMissing,   \* history: when each key was last not published, or 0
    cache,         \* _jwks_cache
    pc,            \* where each coroutine is
    kid,           \* the key its token names
    now,           \* when it entered _load_jwks
    keys           \* the answer it got

vars == <<clock, published, lastSeen, lastMissing, cache, pc, kid, now, keys>>

pool == <<published, lastSeen, lastMissing>>

TypeOK ==
    /\ clock       \in Nat
    /\ published   \subseteq Kids
    /\ lastSeen    \in [Kids -> Nat]
    /\ lastMissing \in [Kids -> Nat]
    /\ cache       \in [fetched_at : Nat, keys : SUBSET Kids]
    /\ pc          \in [Coroutines -> {"idle", "fetching", "answered", "trusted", "unknown"}]
    /\ kid         \in [Coroutines -> Kids]
    /\ now         \in [Coroutines -> Nat]
    /\ keys        \in [Coroutines -> SUBSET Kids]

Since(S) == [k \in Kids |-> IF k \in S THEN clock ELSE 0]

Init ==
    /\ clock = Epoch
    /\ published \in SUBSET Kids
    /\ lastSeen = Since(published)
    /\ lastMissing = Since(Kids \ published)
    /\ cache = [fetched_at |-> 0, keys |-> {}]
    /\ pc  = [c \in Coroutines |-> "idle"]
    /\ kid \in [Coroutines -> Kids]
    /\ now  = [c \in Coroutines |-> Epoch]
    /\ keys = [c \in Coroutines |-> {}]

-----------------------------------------------------------------------------
(* The user pool and the clock                                             *)

Waiting(c) == pc[c] \in {"fetching", "answered"}

\* The history with the keys in S sighted at time t.
Sightings(old, S, t) == [k \in Kids |-> IF k \in S THEN t ELSE old[k]]

Rotate ==
    /\ published' \in SUBSET Kids \ {published}
    /\ lastSeen'    = Sightings(lastSeen, published', clock)
    /\ lastMissing' = Sightings(lastMissing, Kids \ published', clock)
    /\ UNCHANGED <<clock, cache, pc, kid, now, keys>>

\* A request that takes longer is given up.
Tick ==
    /\ clock < Horizon
    /\ \A c \in Coroutines : Waiting(c) => clock < now[c] + FetchSeconds
    /\ clock' = clock + 1
    /\ lastSeen'    = Sightings(lastSeen, published, clock + 1)
    /\ lastMissing' = Sightings(lastMissing, Kids \ published, clock + 1)
    /\ UNCHANGED <<published, cache, pc, kid, now, keys>>

-----------------------------------------------------------------------------
(* Authentication of one request                                           *)

\* Faulty variant: the cache never expires.
FreshForever == cache.keys # {}

Fresh == cache.keys # {} /\ clock - cache.fetched_at < Ttl

Verdict(k, set) == IF k \in set THEN "trusted" ELSE "unknown"

\* From the entry of _load_jwks to the await, or to its return.
Arrive(c) ==
    /\ pc[c] = "idle"
    /\ \E k \in Kids :
         /\ kid' = [kid EXCEPT ![c] = k]
         /\ pc' = [pc EXCEPT ![c] = IF Fresh THEN Verdict(k, cache.keys) ELSE "fetching"]
    /\ now' = [now EXCEPT ![c] = clock]
    /\ UNCHANGED <<clock, pool, cache, keys>>

\* The pool answers with the keys of the moment; the answer travels.
Serve(c) ==
    /\ pc[c] = "fetching"
    /\ keys' = [keys EXCEPT ![c] = published]
    /\ pc' = [pc EXCEPT ![c] = "answered"]
    /\ UNCHANGED <<clock, pool, cache, kid, now>>

\* Faulty variant: the answer is stamped with the time it arrives.
StoreStampedLate(c) ==
    /\ pc[c] = "answered"
    /\ cache' = [fetched_at |-> clock, keys |-> keys[c]]
    /\ pc' = [pc EXCEPT ![c] = Verdict(kid[c], keys[c])]
    /\ keys' = [keys EXCEPT ![c] = {}]
    /\ UNCHANGED <<clock, pool, kid, now>>

\* Faulty variant: the whole answer is cached in place of its keys.
StoreWhole(c) ==
    /\ pc[c] = "answered"
    /\ cache' = [fetched_at |-> now[c], keys |-> {keys[c]}]
    /\ pc' = [pc EXCEPT ![c] = Verdict(kid[c], keys[c])]
    /\ keys' = [keys EXCEPT ![c] = {}]
    /\ UNCHANGED <<clock, pool, kid, now>>

\* After the await: the cache is overwritten, whatever it holds by now.
Store(c) ==
    /\ pc[c] = "answered"
    /\ cache' = [fetched_at |-> now[c], keys |-> keys[c]]
    /\ pc' = [pc EXCEPT ![c] = Verdict(kid[c], keys[c])]
    /\ keys' = [keys EXCEPT ![c] = {}]
    /\ UNCHANGED <<clock, pool, kid, now>>

\* Faulty variant: an error empties the cache.
FailForgetting(c) ==
    /\ Waiting(c)
    /\ pc' = [pc EXCEPT ![c] = "idle"]
    /\ keys' = [keys EXCEPT ![c] = {}]
    /\ cache' = [fetched_at |-> 0, keys |-> {}]
    /\ UNCHANGED <<clock, pool, kid, now>>

\* A time-out or an error status reaches the client; the cache stays.
Fail(c) ==
    /\ Waiting(c)
    /\ pc' = [pc EXCEPT ![c] = "idle"]
    /\ keys' = [keys EXCEPT ![c] = {}]
    /\ UNCHANGED <<clock, pool, cache, kid, now>>

\* The request goes on with its principal, or was answered 401.
Leave(c) ==
    /\ pc[c] \in {"trusted", "unknown"}
    /\ pc' = [pc EXCEPT ![c] = "idle"]
    /\ UNCHANGED <<clock, pool, cache, kid, now, keys>>

Authenticate(c) == Arrive(c) \/ Serve(c) \/ Store(c) \/ Fail(c) \/ Leave(c)

Next == Rotate \/ Tick \/ \E c \in Coroutines : Authenticate(c)

Spec == Init /\ [][Next]_vars

-----------------------------------------------------------------------------
\* How old what the lookup sees may be.
Window == IF Ttl > FetchSeconds THEN Ttl ELSE FetchSeconds

Decides(c, verdict) == pc[c] # verdict /\ pc'[c] = verdict

\* A key is only trusted if the pool published it within the window: no
\* order of overlapping requests makes a withdrawn key live longer than the
\* time to live, although the cache is written after an await.
TrustIsRecent ==
    [][\A c \in Coroutines :
          Decides(c, "trusted") => lastSeen[kid'[c]] >= clock - Window]_vars

\* A token is only rejected as signed by an unknown key if the key was
\* missing within the window: a rotation is noticed in time although an
\* unknown key id does not refresh the cache.
RejectionIsRecent ==
    [][\A c \in Coroutines :
          Decides(c, "unknown") => lastMissing[kid'[c]] >= clock - Window]_vars

\* A slow answer may replace a newer one, but the cache goes back in time
\* by no more than one request takes.
RegressBounded ==
    [][cache'.fetched_at >= cache.fetched_at - FetchSeconds]_vars

\* What the cache and the answers on their way hold was published, and what
\* they lack was missing, at some moment since the time they are dated.
Dated(set, t) ==
    \A k \in Kids : IF k \in set THEN lastSeen[k] >= t ELSE lastMissing[k] >= t

DatedRight ==
    /\ Dated(cache.keys, cache.fetched_at)
    /\ cache.fetched_at <= clock
    /\ \A c \in Coroutines :
          /\ now[c] <= clock
          /\ pc[c] = "answered" => Dated(keys[c], now[c])
          /\ Waiting(c) => clock <= now[c] + FetchSeconds
    /\ \A k \in Kids : /\ lastSeen[k] <= clock /\ lastMissing[k] <= clock
                       /\ IF k \in published THEN lastSeen[k] = clock
                                             ELSE lastMissing[k] = clock
=============================================================================
