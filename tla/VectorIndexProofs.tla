------------------------- MODULE VectorIndexProofs --------------------------
(***************************************************************************)
(* For any tenants, documents, callers and sizes: what an acknowledged     *)
(* deletion found never comes back, and Qdrant's points change as those of *)
(* PointStore do.  The reason is who may still write: a document has one   *)
(* upsert, and nothing of it is stored, searched or found by a deletion    *)
(* before the handler makes that call.                                     *)
(***************************************************************************)
EXTENDS VectorIndex, FiniteSetTheorems, TLAPS

\* The document's one upsert has not returned.
Pending(c) == call[c].pc \in {"create", "run"} /\ call[c].op = "index"

\* Nor can it have taken effect: only OpenSearch's is sent again.
Unwritten(c) == Pending(c) /\ (call[c].pc = "create" \/ ~Lagging)

Found(c) == IF call[c] = Idle THEN {} ELSE call[c].found

OnlyIndexedDocs ==
    /\ \A p \in points \cup visible \cup swept : p.doc \in indexed
    /\ \A c \in Callers : /\ \A p \in Found(c) : p.doc \in indexed
                          /\ Pending(c) => call[c].doc \in indexed

OneUpsert ==
    \A b, c \in Callers :
        (Pending(b) /\ Pending(c) /\ call[b].doc = call[c].doc) => b = c

NotYetThere ==
    \A c \in Callers : Unwritten(c) =>
        /\ \A p \in points \cup visible : p.doc # call[c].doc
        /\ \A b \in Callers : \A p \in Found(b) : p.doc # call[c].doc

PendingNotSwept ==
    \A c \in Callers : Pending(c) => PointsOf(call[c]) \cap swept = {}

Synchronous ==
    ~Lagging => /\ visible = points
                /\ \A c \in Callers : call[c].pc # "sweep"

Inv == /\ TypeOK
       /\ OnlyIndexedDocs
       /\ OneUpsert
       /\ NotYetThere
       /\ PendingNotSwept
       /\ NothingComesBack
       /\ Synchronous

-----------------------------------------------------------------------------
LEMMA PointsOfType ==
    ASSUME NEW r \in Call
    PROVE  /\ PointsOf(r) \subseteq Point
           /\ \A p \in PointsOf(r) : p.doc = r.doc /\ p.tenant = r.tenant
  BY VectorIndexAssumption DEF VectorIndexAssumption, PointsOf, Call, Point

LEMMA CallFields ==
    ASSUME TypeOK, NEW c \in Callers, call[c].pc # "idle"
    PROVE  call[c] \in Call
  BY DEF TypeOK, Idle

\* The fields a call does not use.
LEMMA Unused == AnyDoc \in Docs /\ AnyTenant \in Tenants
<1>1. PICK d : d \in Docs
  BY VectorIndexAssumption DEF VectorIndexAssumption
<1>2. Owner[d] \in Tenants
  BY <1>1, VectorIndexAssumption DEF VectorIndexAssumption
<1> QED
  BY <1>1, <1>2 DEF AnyDoc, AnyTenant

LEMMA NewCallType ==
    ASSUME NEW op \in {"index", "delete", "search", "health"}, NEW t \in Tenants,
           NEW d \in Docs, NEW n \in 1..MaxChunks, NEW pc \in {"create", "run"}
    PROVE  [pc |-> pc, op |-> op, tenant |-> t, doc |-> d, size |-> n, found |-> {}] \in Call
  BY DEF Call

LEMMA HitsAreVisible == \A t \in Tenants : \A hits \in Hits(t) : hits \subseteq visible
  BY DEF Hits, Best

-----------------------------------------------------------------------------
LEMMA TypeStep == TypeOK /\ [Next]_vars => TypeOK'
<1> SUFFICES ASSUME TypeOK, [Next]_vars PROVE TypeOK'
  OBVIOUS
<1> USE DEF TypeOK
<1>0. 1 \in 1..MaxChunks
  BY VectorIndexAssumption DEF VectorIndexAssumption
<1>1. CASE Refresh
  BY <1>1 DEF Refresh
<1> SUFFICES ASSUME NEW c \in Callers,
                    Index(c) \/ Delete(c) \/ Query(c) \/ Health(c)
                    \/ Create(c) \/ Named(c) \/ Upsert(c)
                    \/ DeleteAtOnce(c) \/ Scan(c) \/ Sweep(c) \/ SweepStops(c)
                    \/ Search(c) \/ Retrieved(c) \/ Fail(c)
             PROVE  TypeOK'
  BY <1>1 DEF Next, vars
<1>2. ASSUME NEW op \in {"index", "delete", "search", "health"}, NEW t \in Tenants,
             NEW d \in Docs, NEW n \in 1..MaxChunks, Construct(c, op, t, d, n),
             indexed' \subseteq Docs
      PROVE  TypeOK'
  BY <1>2, NewCallType DEF Construct
<1>3. CASE Index(c)
  BY <1>2, <1>3, VectorIndexAssumption DEF Index, VectorIndexAssumption
<1>4. CASE Delete(c)
  BY <1>0, <1>2, <1>4 DEF Delete
<1>5. CASE Query(c)
  BY <1>0, <1>2, <1>5, Unused DEF Query
<1>6. CASE Health(c)
  BY <1>0, <1>2, <1>6, Unused DEF Health
<1>7. CASE Create(c)
  BY <1>7, CallFields DEF Create, Return, Call, Idle
<1>8. CASE Named(c) \/ Retrieved(c) \/ Fail(c)
  BY <1>8 DEF Named, Retrieved, Fail, Return
<1>9. CASE Upsert(c)
  <2>1. call[c] \in Call
    BY <1>9, CallFields DEF Upsert, Running
  <2>2. \A S \in {PointsOf(call[c])} \cup SUBSET PointsOf(call[c]) : S \subseteq Point
    BY <2>1, PointsOfType
  <2> QED
    BY <1>9, <2>2 DEF Upsert, Settle, Return
<1>10. CASE DeleteAtOnce(c)
  BY <1>10 DEF DeleteAtOnce, Return, Matching
<1>11. CASE Scan(c)
  BY <1>11, CallFields DEF Scan, Running, Matching, Call
<1>12. CASE Sweep(c)
  <2>1. call[c] \in Call
    BY <1>12, CallFields DEF Sweep
  <2> QED
    BY <1>12, <2>1 DEF Sweep, Return, Call
<1>13. CASE SweepStops(c)
  BY <1>13 DEF SweepStops, Return
<1>14. CASE Search(c)
  <2>1. call[c] \in Call
    BY <1>14, CallFields DEF Search, Running
  <2>2. PICK hits \in Hits(call[c].tenant) :
           call' = [call EXCEPT ![c].pc = "answered", ![c].found = hits]
    BY <1>14 DEF Search
  <2>3. hits \subseteq Point
    BY <2>1, HitsAreVisible DEF Call
  <2>4. [call[c] EXCEPT !.pc = "answered", !.found = hits] \in Call
    BY <2>1, <2>3 DEF Call
  <2>5. call' \in [Callers -> Call \cup {Idle}]
    BY <2>2, <2>4
  <2> QED
    BY <1>14, <2>5 DEF Search
<1> QED
  BY <1>3, <1>4, <1>5, <1>6, <1>7, <1>8, <1>9, <1>10, <1>11, <1>12, <1>13, <1>14

-----------------------------------------------------------------------------
\* A call that asks for no upsert, or moves on without touching the points,
\* and finds only what is searchable.
LEMMA CallMovesOn ==
    ASSUME Inv, TypeOK', NEW c \in Callers, NEW r \in Call \cup {Idle},
           call' = [call EXCEPT ![c] = r],
           r.pc = "sweep" => Lagging,
           \/ r = Idle
           \/ r.op # "index" /\ r.found \subseteq visible
           \/ call[c].pc = "create" /\ r = [call[c] EXCEPT !.pc = "run"],
           UNCHANGED <<adapter, points, visible, indexed, swept>>
    PROVE  Inv'
<1> USE DEF Inv, TypeOK
<1>1. \A b \in Callers : b # c => call'[b] = call[b]
  OBVIOUS
<1>2. call'[c] = r
  OBVIOUS
<1>3. \A b \in Callers : Found(b)' \subseteq Found(b) \cup visible
  BY <1>1, <1>2 DEF Found, Idle, Call, Pending
<1>4. \A b \in Callers : Pending(b)' => Pending(b) /\ PointsOf(call[b])' = PointsOf(call[b])
                                      /\ call'[b].doc = call[b].doc
  BY <1>1, <1>2 DEF Pending, PointsOf, Idle, Call
<1>5. \A b \in Callers : Unwritten(b)' => Unwritten(b)
  BY <1>1, <1>2, <1>4 DEF Unwritten, Pending, Idle, Call, Lagging
<1>6. OnlyIndexedDocs'
  BY <1>3, <1>4 DEF OnlyIndexedDocs
<1>7. OneUpsert'
  BY <1>4 DEF OneUpsert
<1>8. NotYetThere'
  BY <1>3, <1>4, <1>5 DEF NotYetThere, Unwritten
<1>9. PendingNotSwept'
  BY <1>4 DEF PendingNotSwept
<1>10. NothingComesBack' /\ Synchronous'
  BY <1>1, <1>2 DEF NothingComesBack, Synchronous, Lagging
<1> QED
  BY <1>6, <1>7, <1>8, <1>9, <1>10

\* The document of an upload that starts was not heard of before.
LEMMA IndexStarts == ASSUME Inv, TypeOK', NEW c \in Callers, Index(c) PROVE Inv'
<1> USE DEF Inv, TypeOK
<1>1. PICK d \in Docs \ indexed, n \in 1..MaxChunks :
         /\ Construct(c, "index", Owner[d], d, n)
         /\ indexed' = indexed \cup {d}
  BY DEF Index
<1>2. /\ call'[c].doc = d /\ call'[c].op = "index" /\ call'[c].found = {}
      /\ \A b \in Callers : b # c => call'[b] = call[b]
      /\ UNCHANGED <<adapter, points, visible, swept>>
  BY <1>1 DEF Construct
<1>3. call'[c] \in Call
  <2>1. call'[c] \in Call \cup {Idle} /\ call'[c].pc # "idle"
    BY <1>1 DEF Construct
  <2> QED
    BY <2>1 DEF Idle
<1>4. \A b \in Callers : Found(b)' \subseteq Found(b)
  BY <1>2, <1>3 DEF Found
<1>5. \A b \in Callers : Pending(b)' /\ b # c =>
         Pending(b) /\ PointsOf(call[b])' = PointsOf(call[b]) /\ call'[b].doc = call[b].doc
  BY <1>2 DEF Pending, PointsOf
<1>6. \A b \in Callers : Unwritten(b)' /\ b # c => Unwritten(b)
  BY <1>2, <1>5 DEF Unwritten, Pending, Lagging
<1>7. OnlyIndexedDocs'
  BY <1>1, <1>2, <1>4, <1>5 DEF OnlyIndexedDocs
<1>8. OneUpsert'
  BY <1>1, <1>2, <1>5 DEF OneUpsert, OnlyIndexedDocs
<1>9. NotYetThere'
  <2>1. \A p \in points' \cup visible' : p.doc # d
    BY <1>1, <1>2 DEF OnlyIndexedDocs
  <2>2. \A b \in Callers : \A p \in Found(b)' : p.doc # d
    BY <1>1, <1>4 DEF OnlyIndexedDocs
  <2> QED
    BY <1>2, <1>4, <1>5, <1>6, <2>1, <2>2 DEF NotYetThere, Unwritten
<1>10. PendingNotSwept'
  <2>1. \A p \in PointsOf(call'[c]) : p.doc = d
    BY <1>2, <1>3, PointsOfType
  <2>2. PointsOf(call[c])' = PointsOf(call'[c])
    BY DEF PointsOf
  <2>3. PointsOf(call[c])' \cap swept = {}
    BY <1>1, <2>1, <2>2 DEF OnlyIndexedDocs
  <2> QED
    BY <1>2, <1>5, <2>3 DEF PendingNotSwept
<1>11. NothingComesBack' /\ Synchronous'
  BY <1>1, <1>2 DEF Construct, NothingComesBack, Synchronous, Lagging
<1> QED
  BY <1>7, <1>8, <1>9, <1>10, <1>11

\* What is written is of the caller's document: of no other upsert, and not
\* swept.
LEMMA UpsertWrites == ASSUME Inv, TypeOK', NEW c \in Callers, Upsert(c) PROVE Inv'
<1> USE DEF Inv, TypeOK
<1>1. PICK S \in {PointsOf(call[c])} \cup SUBSET PointsOf(call[c]) :
         /\ points' = points \cup S
         /\ visible' = IF Lagging THEN visible ELSE visible \cup S
  BY DEF Upsert
<1>2. /\ call[c] \in Call /\ call[c].pc = "run" /\ Pending(c)
      /\ UNCHANGED <<adapter, indexed, swept>>
  BY CallFields DEF Upsert, Running, Pending
<1>3. \A p \in S : p.doc = call[c].doc /\ p \notin swept
  BY <1>1, <1>2, PointsOfType DEF PendingNotSwept
<1>4. \/ call' = [call EXCEPT ![c] = Idle]
      \/ Lagging /\ call' = call
  BY DEF Upsert, Settle, Return
<1>5. \A b \in Callers : /\ Found(b)' \subseteq Found(b)
                         /\ Pending(b)' => /\ Pending(b)
                                           /\ PointsOf(call[b])' = PointsOf(call[b])
                                           /\ call'[b].doc = call[b].doc
                         /\ Unwritten(b)' => Unwritten(b) /\ b # c
  BY <1>2, <1>4 DEF Found, Pending, Unwritten, PointsOf, Idle, Lagging
<1>6. OnlyIndexedDocs'
  BY <1>1, <1>2, <1>3, <1>5 DEF OnlyIndexedDocs
<1>7. OneUpsert'
  BY <1>5 DEF OneUpsert
<1>8. NotYetThere'
  <2>1. \A b \in Callers : Unwritten(b)' => call[b].doc # call[c].doc
    BY <1>2, <1>5 DEF OneUpsert, Unwritten
  <2>2. \A p \in (points \cup visible)' : p \in points \cup visible \/ p.doc = call[c].doc
    BY <1>1, <1>3
  <2> QED
    BY <1>5, <2>1, <2>2 DEF NotYetThere, Unwritten
<1>9. PendingNotSwept'
  BY <1>2, <1>5 DEF PendingNotSwept
<1>10. NothingComesBack'
  BY <1>1, <1>2, <1>3 DEF NothingComesBack
<1>11. Synchronous'
  BY <1>1, <1>2, <1>4 DEF Synchronous, Lagging, Idle
<1> QED
  BY <1>6, <1>7, <1>8, <1>9, <1>10, <1>11

\* A deletion, done or broken off, only takes points away, and what it sweeps
\* was stored and is of no upsert under way.
LEMMA DeletionTakesAway ==
    ASSUME Inv, TypeOK', NEW c \in Callers, call' = [call EXCEPT ![c] = Idle],
           UNCHANGED <<adapter, indexed>>,
           points' \subseteq points,
           visible' \subseteq points \cup visible,
           swept' \cap (points' \cup visible') = {},
           swept' \subseteq swept \cup points \cup Found(c),
           \A b \in Callers \ {c} :
               Pending(b) => PointsOf(call[b]) \cap (swept' \ swept) = {},
           ~Lagging => visible' = points'
    PROVE  Inv'
<1> USE DEF Inv, TypeOK
<1>1. \A b \in Callers : /\ Found(b)' \subseteq Found(b)
                         /\ Pending(b)' => /\ Pending(b) /\ b # c
                                           /\ PointsOf(call[b])' = PointsOf(call[b])
                                           /\ call'[b].doc = call[b].doc
                         /\ Unwritten(b)' => Unwritten(b)
  BY DEF Found, Pending, Unwritten, PointsOf, Idle, Lagging
<1>2. OnlyIndexedDocs'
  BY <1>1 DEF OnlyIndexedDocs
<1>3. OneUpsert'
  BY <1>1 DEF OneUpsert
<1>4. NotYetThere'
  BY <1>1 DEF NotYetThere, Unwritten
<1>5. PendingNotSwept'
  BY <1>1 DEF PendingNotSwept
<1>6. NothingComesBack'
  BY DEF NothingComesBack
<1>7. \A b \in Callers : call'[b] = call[b] \/ call'[b].pc = "idle"
  BY DEF Idle
<1>8. Synchronous'
  <2>1. ~Lagging' => ~Lagging
    BY DEF Lagging
  <2>2. ~Lagging => \A b \in Callers : call'[b].pc # "sweep"
    BY <1>7 DEF Synchronous
  <2> QED
    BY <2>1, <2>2 DEF Synchronous
<1> QED
  BY <1>2, <1>3, <1>4, <1>5, <1>6, <1>8


-----------------------------------------------------------------------------
LEMMA InitInv == Init => Inv
<1> SUFFICES ASSUME Init PROVE Inv
  OBVIOUS
<1>1. TypeOK
  BY DEF Init, TypeOK, Idle
<1>2. \A c \in Callers : call[c].pc = "idle" /\ ~Pending(c) /\ Found(c) = {}
  BY DEF Init, Pending, Found, Idle
<1> QED
  BY <1>1, <1>2 DEF Init, Inv, OnlyIndexedDocs, OneUpsert, NotYetThere, Unwritten,
                    PendingNotSwept, NothingComesBack, Synchronous

LEMMA InvStep == Inv /\ [Next]_vars => Inv'
<1> SUFFICES ASSUME Inv, [Next]_vars PROVE Inv'
  OBVIOUS
<1> USE DEF Inv
<1>1. TypeOK'
  BY TypeStep
<1>2. CASE UNCHANGED vars
  BY <1>2 DEF vars, TypeOK, OnlyIndexedDocs, OneUpsert, NotYetThere, Unwritten, Pending,
              Found, PendingNotSwept, PointsOf, NothingComesBack, Synchronous, Lagging
<1>3. CASE Refresh
  <2>1. visible' = points' /\ UNCHANGED <<adapter, points, indexed, call, swept>>
    BY <1>3 DEF Refresh
  <2> QED
    BY <1>1, <2>1 DEF OnlyIndexedDocs, OneUpsert, NotYetThere, Unwritten, Pending,
                      Found, PendingNotSwept, PointsOf, NothingComesBack, Synchronous, Lagging
<1> SUFFICES ASSUME NEW c \in Callers,
                    Index(c) \/ Delete(c) \/ Query(c) \/ Health(c)
                    \/ Create(c) \/ Named(c) \/ Upsert(c)
                    \/ DeleteAtOnce(c) \/ Scan(c) \/ Sweep(c) \/ SweepStops(c)
                    \/ Search(c) \/ Retrieved(c) \/ Fail(c)
             PROVE  Inv'
  BY <1>2, <1>3 DEF Next
<1>4. CASE Index(c)
  BY <1>1, <1>4, IndexStarts
<1>5. CASE Upsert(c)
  BY <1>1, <1>5, UpsertWrites
<1>6. ASSUME NEW op \in {"delete", "search", "health"}, NEW t \in Tenants, NEW d \in Docs,
             Construct(c, op, t, d, 1), UNCHANGED indexed
      PROVE  Inv'
  <2> DEFINE r == [pc |-> IF collection THEN "run" ELSE "create", op |-> op,
                   tenant |-> t, doc |-> d, size |-> 1, found |-> {}]
  <2>1. r \in Call
    BY VectorIndexAssumption DEF VectorIndexAssumption, Call
  <2>2. r.op # "index" /\ r.found = {} /\ r.pc # "sweep"
    OBVIOUS
  <2>3. call' = [call EXCEPT ![c] = r] /\ UNCHANGED <<adapter, points, visible, swept>>
    BY <1>6 DEF Construct
  <2> HIDE DEF r
  <2> QED
    BY <1>1, <1>6, <2>1, <2>2, <2>3, CallMovesOn
<1>7. CASE Delete(c) \/ Query(c) \/ Health(c)
  BY <1>6, <1>7, Unused DEF Delete, Query, Health
<1>8. ASSUME Return(c), UNCHANGED <<adapter, points, visible, indexed, swept>>
      PROVE  Inv'
  BY <1>1, <1>8, CallMovesOn DEF Return, Idle
<1>9. CASE Named(c) \/ Retrieved(c) \/ Fail(c)
  BY <1>8, <1>9 DEF Named, Retrieved, Fail
<1>10. CASE Create(c)
  <2>1. CASE collection
    BY <1>8, <1>10, <2>1 DEF Create
  <2>2. CASE ~collection
    <3> DEFINE r == [call[c] EXCEPT !.pc = "run"]
    <3>1. call[c] \in Call /\ call[c].pc = "create"
      BY <1>10, CallFields DEF Create
    <3>2. r \in Call /\ r.pc = "run"
      BY <3>1 DEF Call
    <3>3. call' = [call EXCEPT ![c] = r] /\ UNCHANGED <<adapter, points, visible, indexed, swept>>
      BY <1>10, <2>2 DEF Create
    <3> QED
      BY <1>1, <3>1, <3>2, <3>3, CallMovesOn
  <2> QED
    BY <2>1, <2>2
<1>11. CASE Scan(c)
  <2> DEFINE r == [call[c] EXCEPT !.pc = "sweep", !.found = Matching(visible, call[c])]
  <2>1. call[c] \in Call /\ call[c].op = "delete"
    BY <1>11, CallFields DEF Scan, Running
  <2>2. Matching(visible, call[c]) \subseteq visible
    BY DEF Matching
  <2>3. r \in Call /\ r.op # "index" /\ r.found \subseteq visible
    BY <2>1, <2>2 DEF Call, TypeOK
  <2>4. /\ call' = [call EXCEPT ![c] = r]
        /\ Lagging /\ UNCHANGED <<adapter, points, visible, indexed, swept>>
    BY <1>11 DEF Scan
  <2> HIDE DEF r
  <2> QED
    BY <1>1, <2>3, <2>4, CallMovesOn
<1>12. CASE Search(c)
  <2>1. call[c] \in Call /\ call[c].op = "search"
    BY <1>12, CallFields DEF Search, Running
  <2>2. PICK hits \in Hits(call[c].tenant) :
           call' = [call EXCEPT ![c].pc = "answered", ![c].found = hits]
    BY <1>12 DEF Search
  <2> DEFINE r == [call[c] EXCEPT !.pc = "answered", !.found = hits]
  <2>3. hits \subseteq visible
    BY <2>1, HitsAreVisible DEF Call
  <2>4. r \in Call /\ r.op # "index" /\ r.found \subseteq visible /\ r.pc = "answered"
    BY <2>1, <2>3 DEF Call, TypeOK
  <2>5. call' = [call EXCEPT ![c] = r] /\ UNCHANGED <<adapter, points, visible, indexed, swept>>
    BY <1>12, <2>2 DEF Search
  <2> HIDE DEF r
  <2> QED
    BY <1>1, <2>4, <2>5, CallMovesOn
<1>13. CASE DeleteAtOnce(c)
  <2> DEFINE gone == Matching(points, call[c])
  <2>1. /\ points' = points \ gone /\ visible' = visible \ gone /\ swept' = swept \cup gone
        /\ ~Lagging /\ UNCHANGED <<adapter, indexed>>
        /\ call' = [call EXCEPT ![c] = Idle]
    BY <1>13 DEF DeleteAtOnce, Return
  <2>2. gone \subseteq points
    BY DEF Matching
  <2>3. \A b \in Callers : Pending(b) => PointsOf(call[b]) \cap gone = {}
    <3> SUFFICES ASSUME NEW b \in Callers, Pending(b) PROVE PointsOf(call[b]) \cap gone = {}
      OBVIOUS
    <3>1. call[b] \in Call
      BY CallFields DEF Pending
    <3> QED
      BY <2>1, <2>2, <3>1, PointsOfType DEF NotYetThere, Unwritten
  <2> HIDE DEF gone
  <2>4. swept' \cap (points' \cup visible') = {}
    BY <2>1 DEF NothingComesBack
  <2>5. \A b \in Callers \ {c} :
           Pending(b) => PointsOf(call[b]) \cap (swept' \ swept) = {}
    BY <2>1, <2>3
  <2>6. visible' = points' /\ points' \subseteq points /\ visible' \subseteq points \cup visible
    BY <2>1 DEF Synchronous
  <2>7. swept' \subseteq swept \cup points \cup Found(c)
    BY <2>1, <2>2
  <2> QED
    BY <1>1, <2>1, <2>4, <2>5, <2>6, <2>7, DeletionTakesAway
<1>14. CASE Sweep(c)
  <2>1. call[c] \in Call /\ call[c].pc = "sweep"
    BY <1>14, CallFields DEF Sweep
  <2>2. Found(c) = call[c].found
    BY <2>1 DEF Found, Idle
  <2>3. /\ points' = points \ Found(c) /\ visible' = points'
        /\ swept' = swept \cup (Found(c) \ InFlight)
        /\ UNCHANGED <<adapter, indexed>>
        /\ call' = [call EXCEPT ![c] = Idle]
    BY <1>14, <2>2 DEF Sweep, Return
  <2>4. \A b \in Callers : Pending(b) => PointsOf(call[b]) \cap (Found(c) \ InFlight) = {}
    <3> SUFFICES ASSUME NEW b \in Callers, Pending(b)
                 PROVE  PointsOf(call[b]) \cap (Found(c) \ InFlight) = {}
      OBVIOUS
    <3>1. call[b] \in Call
      BY CallFields DEF Pending
    <3>2. CASE call[b].pc = "run"
      <4>1. PointsOf(call[b]) \subseteq InFlight
        BY <3>2 DEF InFlight, Running, Pending
      <4> QED
        BY <4>1
    <3>3. CASE call[b].pc = "create"
      BY <3>1, <3>3, PointsOfType DEF NotYetThere, Unwritten
    <3> QED
      BY <3>2, <3>3 DEF Pending
  <2>5. swept' \cap (points' \cup visible') = {}
    BY <2>3 DEF NothingComesBack
  <2>6. \A b \in Callers \ {c} :
           Pending(b) => PointsOf(call[b]) \cap (swept' \ swept) = {}
    BY <2>3, <2>4
  <2> QED
    BY <1>1, <2>3, <2>5, <2>6, DeletionTakesAway
<1>15. CASE SweepStops(c)
  <2>1. call[c] \in Call
    BY <1>15, CallFields DEF SweepStops
  <2>2. /\ points' \subseteq points
        /\ UNCHANGED <<adapter, visible, indexed, swept>>
        /\ call' = [call EXCEPT ![c] = Idle]
    BY <1>15 DEF SweepStops, Return
  <2>3. Lagging
    BY <1>15 DEF SweepStops, Synchronous
  <2> QED
    BY <1>1, <2>2, <2>3, DeletionTakesAway DEF NothingComesBack
<1> QED
  BY <1>4, <1>5, <1>7, <1>9, <1>10, <1>11, <1>12, <1>13, <1>14, <1>15


LEMMA Invariance == Spec => []Inv
<1>1. Init => Inv
  BY InitInv
<1>2. Inv /\ [Next]_vars => Inv'
  BY InvStep
<1> QED
  BY <1>1, <1>2, PTL DEF Spec

\* Every reachable state of the adapters is well typed.
THEOREM TypeCorrect == Spec => []TypeOK
<1>1. Inv => TypeOK
  BY DEF Inv
<1> QED
  BY <1>1, Invariance, PTL

\* However many handlers upsert, delete and repeat: a point that a deletion
\* found and removed is never stored or searchable again.
THEOREM SweptIsGone == Spec => []NothingComesBack
<1>1. Inv => NothingComesBack
  BY DEF Inv
<1> QED
  BY <1>1, Invariance, PTL

-----------------------------------------------------------------------------
\* Of Qdrant's steps only an upsert and a deletion touch the points, and each
\* does what the abstract operation of that name does.
LEMMA StepMaps ==
    ASSUME Inv, Inv', [Next]_vars, ~Lagging
    PROVE  [Atomic!Next]_points /\ visible' = points'
<1> USE DEF Inv
<1>1. visible' = points'
  <2>1. adapter' = adapter
    BY DEF Next, vars, Refresh, Index, Delete, Query, Health, Construct, Create, Named,
           Upsert, DeleteAtOnce, Scan, Sweep, SweepStops, Search, Retrieved, Fail
  <2> QED
    BY <2>1 DEF Synchronous, Lagging
<1>2. ASSUME NEW c \in Callers, Upsert(c) PROVE [Atomic!Next]_points
  <2>1. call[c] \in Call
    BY <1>2, CallFields DEF Upsert, Running
  <2>2. points' = points \cup PointsOf(call[c])
    BY <1>2 DEF Upsert
  <2>3. PointsOf(call[c]) = Atomic!PointsOf(call[c].tenant, call[c].doc, call[c].size)
    BY DEF PointsOf, Atomic!PointsOf
  <2>4. Atomic!Add(call[c].tenant, call[c].doc, call[c].size)
    BY <2>2, <2>3 DEF Atomic!Add
  <2>5. call[c].tenant \in Tenants /\ call[c].doc \in Docs /\ call[c].size \in 1..MaxChunks
    BY <2>1 DEF Call
  <2> QED
    BY <2>4, <2>5 DEF Atomic!Next
<1>3. ASSUME NEW c \in Callers, DeleteAtOnce(c) PROVE [Atomic!Next]_points
  <2>1. call[c] \in Call
    BY <1>3, CallFields DEF DeleteAtOnce, Running
  <2>2. Atomic!Remove(call[c].tenant, call[c].doc)
    BY <1>3 DEF DeleteAtOnce, Matching, Atomic!Remove
  <2>3. call[c].tenant \in Tenants /\ call[c].doc \in Docs
    BY <2>1 DEF Call
  <2> QED
    BY <2>2, <2>3 DEF Atomic!Next
<1>4. ASSUME NEW c \in Callers, Sweep(c) \/ SweepStops(c) PROVE FALSE
  <2>1. call[c].pc = "sweep"
    BY <1>4 DEF Sweep, SweepStops
  <2> QED
    BY <2>1 DEF Synchronous
<1>5. CASE UNCHANGED points
  BY <1>1, <1>5
<1>6. CASE ~UNCHANGED points
  <2>1. PICK c \in Callers : Upsert(c) \/ DeleteAtOnce(c) \/ Sweep(c) \/ SweepStops(c)
    <3>1. \A c \in Callers :
             \/ Index(c) \/ Delete(c) \/ Query(c) \/ Health(c) \/ Create(c)
             \/ Named(c) \/ Scan(c) \/ Search(c) \/ Retrieved(c) \/ Fail(c)
             => UNCHANGED points
      BY DEF Index, Delete, Query, Health, Construct, Create, Named, Scan, Search,
             Retrieved, Fail
    <3>2. ~UNCHANGED vars /\ ~Refresh
      BY <1>6 DEF vars, Refresh
    <3> QED
      BY <1>6, <3>1, <3>2 DEF Next
  <2> QED
    BY <1>1, <1>2, <1>3, <1>4, <2>1
<1> QED
  BY <1>5, <1>6

\* If one Qdrant call is all or nothing, its points change and are searched as
\* those of PointStore: any number of handlers, tenants and failed calls.
THEOREM QdrantIsAtomic == Spec => ImplementsPointStore
<1>1. Inv /\ Inv' /\ [Next]_vars => [~Lagging => [Atomic!Next]_points /\ visible' = points']_vars
  BY StepMaps
<1> QED
  BY <1>1, Invariance, PTL DEF Spec, ImplementsPointStore


-----------------------------------------------------------------------------
FiniteStores == IsFiniteSet(points) /\ IsFiniteSet(visible)

LEMMA PointsOfFinite == ASSUME NEW r \in Call PROVE IsFiniteSet(PointsOf(r))
<1> DEFINE f == [i \in 1..r.size |-> [doc |-> r.doc, n |-> i, tenant |-> r.tenant]]
<1>1. r.size \in Nat
  BY VectorIndexAssumption DEF VectorIndexAssumption, Call
<1>2. IsFiniteSet(1..r.size)
  BY <1>1, FS_Interval
<1>3. f \in Surjection(1..r.size, PointsOf(r))
  BY DEF PointsOf, Surjection
<1> QED
  BY <1>2, <1>3, FS_Surjection

LEMMA FiniteStep == Inv /\ FiniteStores /\ [Next]_vars => FiniteStores'
<1> SUFFICES ASSUME Inv, FiniteStores, [Next]_vars PROVE FiniteStores'
  OBVIOUS
<1> USE DEF FiniteStores
<1>1. ASSUME NEW c \in Callers, Upsert(c) PROVE FiniteStores'
  <2>1. IsFiniteSet(PointsOf(call[c]))
    BY <1>1, CallFields, PointsOfFinite DEF Inv, Upsert, Running
  <2>2. PICK S : /\ S \subseteq PointsOf(call[c]) /\ points' = points \cup S
                 /\ visible' = visible \/ visible' = visible \cup S
    BY <1>1 DEF Upsert
  <2>3. IsFiniteSet(S)
    BY <2>1, <2>2, FS_Subset
  <2> QED
    BY <2>2, <2>3, FS_Union
<1>2. CASE \A c \in Callers : ~Upsert(c)
  <2>1. points' \subseteq points /\ visible' \subseteq points \cup visible
    <3>1. CASE Refresh \/ UNCHANGED vars
      BY <3>1 DEF Refresh, vars
    <3>2. \A c \in Callers :
             \/ Index(c) \/ Delete(c) \/ Query(c) \/ Health(c) \/ Create(c)
             \/ Named(c) \/ Scan(c) \/ Search(c) \/ Retrieved(c) \/ Fail(c)
             => UNCHANGED <<points, visible>>
      BY DEF Index, Delete, Query, Health, Construct, Create, Named, Scan, Search,
             Retrieved, Fail
    <3>3. \A c \in Callers :
             DeleteAtOnce(c) \/ Sweep(c) \/ SweepStops(c) =>
                points' \subseteq points /\ visible' \subseteq points \cup visible
      BY DEF DeleteAtOnce, Sweep, SweepStops
    <3> QED
      BY <1>2, <3>1, <3>2, <3>3 DEF Next
  <2>2. IsFiniteSet(points \cup visible)
    BY FS_Union
  <2> QED
    BY <2>1, <2>2, FS_Subset
<1> QED
  BY <1>1, <1>2

\* Only a search turns a call that runs into one that is answered.
LEMMA OnlySearchAnswers ==
    ASSUME TypeOK, [Next]_vars, NEW c \in Callers,
           call[c].pc = "run", call'[c].pc = "answered"
    PROVE  Search(c)
<1> USE DEF TypeOK, Idle
<1>1. ~Refresh /\ ~UNCHANGED vars
  BY DEF Refresh, vars
<1>2. \A b \in Callers : ~Index(b) /\ ~Delete(b) /\ ~Query(b) /\ ~Health(b)
  BY DEF Index, Delete, Query, Health, Construct
<1>3. \A b \in Callers : ~Create(b) /\ ~Named(b) /\ ~Retrieved(b) /\ ~Fail(b)
  BY DEF Create, Named, Retrieved, Fail, Return
<1>4. \A b \in Callers : ~Upsert(b) /\ ~DeleteAtOnce(b) /\ ~Scan(b) /\ ~Sweep(b) /\ ~SweepStops(b)
  <2>1. \A b \in Callers : ~Return(b) /\ ~UNCHANGED call
    BY DEF Return
  <2>2. ASSUME NEW b \in Callers, Scan(b) PROVE FALSE
    <3>1. call' = [call EXCEPT ![b].pc = "sweep", ![b].found = Matching(visible, call[b])]
      BY <2>2 DEF Scan
    <3>2. CASE b # c
      BY <3>1, <3>2
    <3>3. CASE b = c
      <4>1. call[c] \in Call
        BY CallFields
      <4>2. call'[c].pc = "sweep"
        BY <3>1, <3>3, <4>1 DEF Call
      <4> QED
        BY <4>2
    <3> QED
      BY <3>2, <3>3
  <2> QED
    BY <2>1, <2>2 DEF Upsert, Settle, DeleteAtOnce, Sweep, SweepStops
<1>5. \A b \in Callers : Search(b) => b = c
  BY DEF Search
<1> QED
  BY <1>1, <1>2, <1>3, <1>4, <1>5 DEF Next

\* The arithmetic of a search that filters after it chose the nearest.
LEMMA FilteredNearest ==
    ASSUME NEW V, IsFiniteSet(V), NEW M \in SUBSET V, NEW k \in Nat,
           NEW near \in Best(V, k)
    PROVE  /\ Cardinality(near \cap M) <= k
           /\ \/ Cardinality(near \cap M) = Smaller(k, Cardinality(M))
              \/ Cardinality(near \cap M) + Cardinality(V \ M) >= k
<1>1. near \subseteq V /\ Cardinality(near) = Smaller(k, Cardinality(V))
  BY DEF Best
<1>2. /\ IsFiniteSet(near) /\ IsFiniteSet(M) /\ IsFiniteSet(V \ M)
      /\ IsFiniteSet(near \cap M) /\ IsFiniteSet(near \ M)
  <2>1. IsFiniteSet(near) /\ IsFiniteSet(M)
    BY <1>1, FS_Subset
  <2> QED
    BY <2>1, FS_Difference, FS_Intersection
<1>3. /\ Cardinality(V) \in Nat /\ Cardinality(near) \in Nat /\ Cardinality(M) \in Nat
      /\ Cardinality(V \ M) \in Nat /\ Cardinality(near \cap M) \in Nat
      /\ Cardinality(near \ M) \in Nat
  BY <1>2, FS_CardinalityType
<1>4. Cardinality(near \cap M) <= Cardinality(near)
  BY <1>2, FS_Intersection
<1>5. Cardinality(near \ M) = Cardinality(near) - Cardinality(near \cap M)
  BY <1>2, FS_Difference
<1>6. Cardinality(near \ M) <= Cardinality(V \ M)
  BY <1>1, <1>2, FS_Subset
<1>7. CASE Cardinality(V) >= k
  <2>1. Cardinality(near) = k
    BY <1>1, <1>3, <1>7 DEF Smaller
  <2> QED
    BY <1>3, <1>4, <1>5, <1>6, <2>1
<1>8. CASE Cardinality(V) < k
  <2>1. Cardinality(near) = Cardinality(V)
    BY <1>1, <1>3, <1>8 DEF Smaller
  <2>2. near = V
    BY <1>1, <2>1, FS_Subset
  <2>3. near \cap M = M
    BY <2>2
  <2>4. Cardinality(M) <= Cardinality(V)
    BY FS_Subset
  <2> QED
    BY <1>3, <1>4, <1>8, <2>1, <2>3, <2>4 DEF Smaller
<1> QED
  BY <1>3, <1>7, <1>8

LEMMA SearchStep ==
    ASSUME Inv, FiniteStores, [Next]_vars, NEW c \in Callers,
           call[c].pc = "run", call'[c].pc = "answered"
    PROVE  LET mine == {p \in visible : p.tenant = call[c].tenant}
               hits == call'[c].found
           IN  /\ hits \subseteq mine
               /\ Cardinality(hits) <= TopK
               /\ \/ Cardinality(hits) = Smaller(TopK, Cardinality(mine))
                  \/ /\ Lagging
                     /\ Cardinality(hits) + Cardinality(visible \ mine) >= TopK
<1> DEFINE mine == {p \in visible : p.tenant = call[c].tenant}
<1>1. PICK hits \in Hits(call[c].tenant) : call'[c].found = hits
  <2>1. Search(c)
    BY OnlySearchAnswers DEF Inv
  <2>2. call[c] \in Call
    BY <2>1, CallFields DEF Inv, Search, Running
  <2>3. PICK hits \in Hits(call[c].tenant) :
           call' = [call EXCEPT ![c].pc = "answered", ![c].found = hits]
    BY <2>1 DEF Search
  <2>4. call'[c].found = hits
    BY <2>2, <2>3 DEF Inv, TypeOK, Call
  <2> QED
    BY <2>4
<1>2. TopK \in Nat
  BY VectorIndexAssumption DEF VectorIndexAssumption
<1>3. IsFiniteSet(visible) /\ mine \subseteq visible
  BY DEF FiniteStores
<1>4. IsFiniteSet(mine) /\ Cardinality(mine) \in Nat
  BY <1>3, FS_Subset, FS_CardinalityType
<1>5. CASE ~Lagging
  <2>1. hits \in Best(mine, TopK)
    BY <1>1, <1>5 DEF Hits
  <2>2. hits \subseteq mine /\ Cardinality(hits) = Smaller(TopK, Cardinality(mine))
    BY <2>1 DEF Best
  <2>3. Cardinality(hits) <= TopK
    BY <1>2, <1>4, <2>2 DEF Smaller
  <2> QED
    BY <1>1, <2>2, <2>3
<1>6. CASE Lagging
  <2>1. PICK near \in Best(visible, TopK) : hits = {p \in near : p.tenant = call[c].tenant}
    BY <1>1, <1>6 DEF Hits
  <2>2. near \subseteq visible
    BY DEF Best
  <2>3. hits = near \cap mine
    BY <2>1, <2>2
  <2>4. /\ Cardinality(hits) <= TopK
        /\ \/ Cardinality(hits) = Smaller(TopK, Cardinality(mine))
           \/ Cardinality(hits) + Cardinality(visible \ mine) >= TopK
    BY <1>2, <1>3, <2>3, FilteredNearest
  <2> QED
    BY <1>1, <1>6, <2>3, <2>4
<1> QED
  BY <1>5, <1>6

\* Whatever is stored and whoever asks: a search returns the best points of
\* its tenant and no other's, and falls short of TopK only where the points
\* of other tenants that OpenSearch ranks with them take their places.
THEOREM SearchesAreExact == Spec => SearchIsExact
<1>1. Init => Inv /\ FiniteStores
  BY InitInv, FS_EmptySet DEF Init, FiniteStores
<1>2. (Inv /\ FiniteStores) /\ [Next]_vars => (Inv /\ FiniteStores)'
  BY InvStep, FiniteStep
<1>3. (Inv /\ FiniteStores) /\ [Next]_vars =>
         [\A c \in Callers :
            (call[c].pc = "run" /\ call'[c].pc = "answered") =>
              LET mine == {p \in visible : p.tenant = call[c].tenant}
                  hits == call'[c].found
              IN  /\ hits \subseteq mine
                  /\ Cardinality(hits) <= TopK
                  /\ \/ Cardinality(hits) = Smaller(TopK, Cardinality(mine))
                     \/ /\ Lagging
                        /\ Cardinality(hits) + Cardinality(visible \ mine) >= TopK]_vars
  BY SearchStep
<1> QED
  BY <1>1, <1>2, <1>3, PTL DEF Spec, SearchIsExact


=============================================================================
