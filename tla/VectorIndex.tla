---------------------------- MODULE VectorIndex -----------------------------
(***************************************************************************)
(* The two remote adapters of services/rag/vector_store.py.  Every handler *)
(* that needs the store constructs an adapter of its own                   *)
(* (get_vector_store), whose constructor creates the collection if it is   *)
(* missing, and then makes one call: the upsert of a document's points, a  *)
(* deletion, a search, or none (the health check).                         *)
(*                                                                         *)
(* Qdrant answers a write when it is searchable (wait=True).  OpenSearch   *)
(* searches a snapshot that is behind the index until the next refresh;    *)
(* its delete_by_query finds what it deletes by such a search.  The        *)
(* OpenSearch client sends a request again when the connection fails.      *)
(***************************************************************************)
EXTENDS Naturals, FiniteSets

CONSTANTS
    Tenants,      \* tenant ids
    Docs,         \* document ids; each is indexed once, being a fresh UUID
    Owner,        \* the tenant that uploads each document
    MaxChunks,    \* bound: points of one document
    TopK,         \* top_k of a search
    Callers,      \* handlers that may use the store at the same time
    Adapters,     \* the adapters settings.vector_store may choose
    Faulty        \* whether calls may fail or lose their reply

ASSUME VectorIndexAssumption ==
    /\ MaxChunks \in Nat \ {0}
    /\ TopK \in Nat \ {0}
    /\ Docs # {}
    /\ Owner \in [Docs -> Tenants]
    /\ Adapters \subseteq {"qdrant", "opensearch"}
    /\ Faulty \in BOOLEAN

VARIABLES
    adapter,     \* the adapter of this deployment
    collection,  \* whether the collection, or index, exists
    points,      \* the points written
    visible,     \* the points a search looks at
    indexed,     \* the documents some upsert was made for
    call,        \* what each caller is doing
    swept        \* history: points that a completed deletion found

vars == <<adapter, collection, points, visible, indexed, call, swept>>

Point == [doc : Docs, n : 1..MaxChunks, tenant : Tenants]

\* found: the points a deletion is about to remove, or the hits of a search.
Idle == [pc |-> "idle"]
Call == [pc : {"create", "run", "sweep", "answered"},
         op : {"index", "delete", "search", "health"}, tenant : Tenants,
         doc : Docs, size : 1..MaxChunks, found : SUBSET Point]

TypeOK ==
    /\ adapter    \in Adapters
    /\ collection \in BOOLEAN
    /\ points     \subseteq Point
    /\ visible    \subseteq Point
    /\ indexed    \subseteq Docs
    /\ call       \in [Callers -> Call \cup {Idle}]
    /\ swept      \subseteq Point

Init ==
    /\ adapter \in Adapters
    /\ collection = FALSE
    /\ points  = {}
    /\ visible = {}
    /\ indexed = {}
    /\ call    = [c \in Callers |-> Idle]
    /\ swept   = {}

Lagging == adapter = "opensearch"

Running(c, op) == call[c].pc = "run" /\ call[c].op = op

\* Faulty variant: one chunk too many.
PointsOfFromZero(r) == {[doc |-> r.doc, n |-> i, tenant |-> r.tenant] : i \in 0..r.size}

PointsOf(r) == {[doc |-> r.doc, n |-> i, tenant |-> r.tenant] : i \in 1..r.size}

\* Points whose upsert has not returned: it may be sent again.
InFlight == UNION {PointsOf(call[c]) : c \in {c \in Callers : Running(c, "index")}}

Matching(S, r) == {p \in S : p.tenant = r.tenant /\ p.doc = r.doc}

Return(c) == call' = [call EXCEPT ![c] = Idle]

-----------------------------------------------------------------------------
(* Construction                                                            *)

\* Stands in the fields a call does not use.
AnyDoc    == CHOOSE d \in Docs : TRUE
AnyTenant == CHOOSE t \in Tenants : TRUE

\* The constructor looks for the collection.
Construct(c, op, t, d, n) ==
    /\ call[c] = Idle
    /\ call' = [call EXCEPT ![c] =
                  [pc |-> IF collection THEN "run" ELSE "create", op |-> op,
                   tenant |-> t, doc |-> d, size |-> n, found |-> {}]]
    /\ UNCHANGED <<adapter, collection, points, visible, swept>>

\* The handlers that ask for a store: the upload, with the chunks of a new
\* document, the deletion, the query and the health check.
Index(c) ==
    \E d \in Docs \ indexed, n \in 1..MaxChunks :
        /\ Construct(c, "index", Owner[d], d, n)
        /\ indexed' = indexed \cup {d}
Delete(c) ==
    \E t \in Tenants, d \in Docs :
        Construct(c, "delete", t, d, 1) /\ UNCHANGED indexed
Query(c) ==
    \E t \in Tenants :
        Construct(c, "search", t, AnyDoc, 1) /\ UNCHANGED indexed
Health(c) == Construct(c, "health", AnyTenant, AnyDoc, 1) /\ UNCHANGED indexed

\* It was missing; by now another handler may have created it, and then the
\* constructor raises.
Create(c) ==
    /\ call[c].pc = "create"
    /\ collection' = TRUE
    /\ IF collection THEN Return(c)
                     ELSE call' = [call EXCEPT ![c].pc = "run"]
    /\ UNCHANGED <<adapter, points, visible, indexed, swept>>

\* The health check only wants the adapter's name.
Named(c) ==
    /\ Running(c, "health")
    /\ Return(c)
    /\ UNCHANGED <<adapter, collection, points, visible, indexed, swept>>

-----------------------------------------------------------------------------
(* Upsert                                                                  *)

\* After an upsert took effect its caller goes on, with its result or with
\* the exception; or the client library sends the request once more.
Settle(c) == Return(c) \/ (Faulty /\ Lagging /\ UNCHANGED call)

\* One call writes its points together, and Qdrant all of them or none; of a
\* bulk request some items may fail, and the exception that follows takes
\* none back.
Upsert(c) ==
    /\ Running(c, "index")
    /\ LET mine == PointsOf(call[c])
       IN  \E S \in {mine} \cup (IF Faulty /\ Lagging THEN SUBSET mine ELSE {}) :
             /\ points'  = points \cup S
             /\ visible' = IF Lagging THEN visible ELSE visible \cup S
    /\ Settle(c)
    /\ UNCHANGED <<adapter, collection, indexed, swept>>

\* The index takes a new snapshot, once a second or so.
Refresh ==
    /\ Lagging
    /\ visible # points
    /\ visible' = points
    /\ UNCHANGED <<adapter, collection, points, indexed, call, swept>>

-----------------------------------------------------------------------------
(* delete_document                                                         *)

\* Faulty variant: the filter is left out.
DeleteUnfiltered(c) ==
    /\ Running(c, "delete")
    /\ ~Lagging
    /\ points'  = {}
    /\ visible' = {}
    /\ swept' = swept \cup points
    /\ Return(c)
    /\ UNCHANGED <<adapter, collection, indexed>>

\* Qdrant: one step.
DeleteAtOnce(c) ==
    /\ Running(c, "delete")
    /\ ~Lagging
    /\ points'  = points \ Matching(points, call[c])
    /\ visible' = visible \ Matching(points, call[c])
    /\ swept' = swept \cup Matching(points, call[c])
    /\ Return(c)
    /\ UNCHANGED <<adapter, collection, indexed>>

\* OpenSearch: delete_by_query first searches the snapshot ...
Scan(c) ==
    /\ Running(c, "delete")
    /\ Lagging
    /\ call' = [call EXCEPT ![c].pc = "sweep",
                            ![c].found = Matching(visible, call[c])]
    /\ UNCHANGED <<adapter, collection, points, visible, indexed, swept>>

\* Faulty variant: without refresh=True.
SweepUnrefreshed(c) ==
    /\ call[c].pc = "sweep"
    /\ call[c].found \subseteq points
    /\ points' = points \ call[c].found
    /\ swept' = swept \cup (call[c].found \ InFlight)
    /\ Return(c)
    /\ UNCHANGED <<adapter, collection, indexed, visible>>

\* ... then deletes what it found, and refreshes (refresh=True).
Sweep(c) ==
    /\ call[c].pc = "sweep"
    /\ call[c].found \subseteq points
    /\ points'  = points \ call[c].found
    /\ visible' = points'
    /\ swept' = swept \cup (call[c].found \ InFlight)
    /\ Return(c)
    /\ UNCHANGED <<adapter, collection, indexed>>

\* It stops at a conflict, when a hit is no longer there, or at a failure;
\* part of the hits are deleted then.  The handler swallows the exception.
SweepStops(c) ==
    /\ call[c].pc = "sweep"
    /\ Faulty \/ ~(call[c].found \subseteq points)
    /\ \E S \in SUBSET call[c].found : points' = points \ S
    /\ Return(c)
    /\ UNCHANGED <<adapter, collection, visible, indexed, swept>>

-----------------------------------------------------------------------------
(* search                                                                  *)

Smaller(m, n) == IF m < n THEN m ELSE n

\* The best k of a set: which ones are best is left open.
Best(S, k) == {h \in SUBSET S : Cardinality(h) = Smaller(k, Cardinality(S))}

\* Faulty variant: the search is not filtered.
HitsOfAnyTenant(t) == Best(visible, TopK)

\* Qdrant ranks the tenant's points; OpenSearch ranks the points of all
\* tenants and applies the filter to the best k of them.
Hits(t) ==
    LET OfTenant(S) == {p \in S : p.tenant = t}
    IN  IF Lagging THEN {OfTenant(near) : near \in Best(visible, TopK)}
                   ELSE Best(OfTenant(visible), TopK)

Search(c) ==
    /\ Running(c, "search")
    /\ \E hits \in Hits(call[c].tenant) :
         call' = [call EXCEPT ![c].pc = "answered", ![c].found = hits]
    /\ UNCHANGED <<adapter, collection, points, visible, indexed, swept>>

\* The retriever hands the hits to the generator.
Retrieved(c) ==
    /\ call[c].pc = "answered"
    /\ Return(c)
    /\ UNCHANGED <<adapter, collection, points, visible, indexed, swept>>

-----------------------------------------------------------------------------
\* Any call may fail without effect.
Fail(c) ==
    /\ Faulty
    /\ call[c].pc \in {"create", "run"}
    /\ Return(c)
    /\ UNCHANGED <<adapter, collection, points, visible, indexed, swept>>

Next ==
    \/ Refresh
    \/ \E c \in Callers :
         \/ Index(c) \/ Delete(c) \/ Query(c) \/ Health(c)
         \/ Create(c) \/ Named(c)
         \/ Upsert(c)
         \/ DeleteAtOnce(c) \/ Scan(c) \/ Sweep(c) \/ SweepStops(c)
         \/ Search(c) \/ Retrieved(c)
         \/ Fail(c)

Spec == Init /\ [][Next]_vars

-----------------------------------------------------------------------------
\* A search returns points of its tenant only, the best TopK of those that
\* are searchable.  Under OpenSearch it may return fewer, but only because
\* as many points of other tenants are nearer to the question.
SearchIsExact ==
    [][\A c \in Callers :
         (call[c].pc = "run" /\ call'[c].pc = "answered") =>
           LET mine == {p \in visible : p.tenant = call[c].tenant}
               hits == call'[c].found
           IN  /\ hits \subseteq mine
               /\ Cardinality(hits) <= TopK
               /\ \/ Cardinality(hits) = Smaller(TopK, Cardinality(mine))
                  \/ /\ Lagging
                     /\ Cardinality(hits) + Cardinality(visible \ mine) >= TopK]_vars

\* What an acknowledged deletion found is gone for good, from the index and
\* from what is searched: no upsert of another handler, no refresh, no second
\* deletion brings it back.  So what such a deletion misses is only what no
\* search could find when it ran, or what is still being upserted.
NothingComesBack == swept \cap (points \cup visible) = {}

\* That one Qdrant call is all or nothing is assumed (Upsert, DeleteAtOnce).
\* What the handlers build on it: callers that interleave, constructors that
\* race, deletions repeated or of another tenant's document, and calls that
\* fail change its points only as PointStore allows, by whole documents of the
\* tenant the call names, and every search looks at exactly these points.
Atomic == INSTANCE PointStore
ImplementsPointStore ==
    [][~Lagging => [Atomic!Next]_points /\ visible' = points']_vars

-----------------------------------------------------------------------------
(* What the documentation says of a deletion and the code does not do      *)

\* api/v1/documents.py: "Delete a document and its chunks + vector-store
\* points", of the call delete_document makes to the store: where no call
\* fails and no other handler is at work, it leaves no point of the document.
DeletionIsComplete ==
    [][\A c \in Callers :
         (DeleteAtOnce(c) \/ Sweep(c)) => Matching(points', call[c]) = {}]_vars
=============================================================================
