------------------------ MODULE DocumentServiceProofs -----------------------
(***************************************************************************)
(* Theorems about DocumentService, for any tenants, files and processes,   *)
(* any set of failing services and any number of requests and crashes.     *)
(***************************************************************************)
EXTENDS DocumentServiceInvariant, TLAPS

-----------------------------------------------------------------------------
(* Requests                                                                *)

\* A process that is not idle has a request of one of the handlers.
LEMMA BusyHasRequest ==
    ASSUME TypeOK, NEW p \in Processes, request[p] # Idle
    PROVE  request[p] \in Request
BY DEF TypeOK, WorkersTypeOK

\* Which handler runs follows from the call it is at.
LEMMA HandlerAt ==
    ASSUME TypeOK, NEW p \in Processes
    PROVE  /\ request[p].pc \in UploadCalls => request[p] \in UploadRequest
           /\ request[p].pc \in DeleteCalls => request[p] \in DeleteRequest
           /\ request[p].pc \in QueryCalls  => request[p] \in QueryRequest
           /\ request[p].pc \in ListCalls   => request[p] \in ListRequest
           /\ request[p].pc \in LastCalls   => request[p] \in Request
           /\ request[p].pc = "audit" => request[p] \notin ListRequest
<1>1. request[p] \in Request \cup {Idle}
  BY DEF TypeOK, WorkersTypeOK
<1> QED
  BY <1>1 DEF Idle, Request, UploadRequest, DeleteRequest, QueryRequest,
              ListRequest, UploadCalls, DeleteCalls, QueryCalls, ListCalls,
              LastCalls

\* A handler that goes on to a call of its own stays a request of its kind.
LEMMA GotoRequest ==
    ASSUME NEW r \in Request, NEW call
    PROVE  /\ (r \in UploadRequest /\ call \in UploadCalls \cup LastCalls) =>
                [r EXCEPT !.pc = call] \in UploadRequest
           /\ (r \in DeleteRequest /\ call \in DeleteCalls \cup LastCalls) =>
                [r EXCEPT !.pc = call] \in DeleteRequest
           /\ (r \in QueryRequest /\ call \in QueryCalls \cup LastCalls) =>
                [r EXCEPT !.pc = call] \in QueryRequest
           /\ call = "respond" => [r EXCEPT !.pc = call] \in Request
<1>1. r \in UploadRequest /\ call \in UploadCalls \cup LastCalls =>
        [r EXCEPT !.pc = call] \in UploadRequest
  BY DEF UploadRequest
<1>2. r \in DeleteRequest /\ call \in DeleteCalls \cup LastCalls =>
        [r EXCEPT !.pc = call] \in DeleteRequest
  BY DEF DeleteRequest
<1>3. r \in QueryRequest /\ call \in QueryCalls \cup LastCalls =>
        [r EXCEPT !.pc = call] \in QueryRequest
  BY DEF QueryRequest
<1>4. r \in ListRequest /\ call = "respond" =>
        [r EXCEPT !.pc = call] \in ListRequest
  BY DEF ListRequest, ListCalls, LastCalls
<1> QED
  BY <1>1, <1>2, <1>3, <1>4 DEF Request, LastCalls

\* Every request names what a reply and the history take from it.
LEMMA RequestFields ==
    ASSUME NEW r \in Request
    PROVE  /\ r.op \in Ops
           /\ r.tenant \in Tenants
           /\ r.doc \in DocIds \cup {NoDoc}
           /\ r.docs \subseteq DocIds
           /\ r.titled \subseteq DocIds
<1>1. CASE r \in UploadRequest
  BY <1>1 DEF UploadRequest, Ops, DocIds
<1>2. CASE r \in DeleteRequest
  BY <1>2 DEF DeleteRequest, Ops
<1>3. CASE r \in QueryRequest
  BY <1>3 DEF QueryRequest, Ops
<1>4. CASE r \in ListRequest
  BY <1>4 DEF ListRequest, Ops
<1> QED
  BY <1>1, <1>2, <1>3, <1>4 DEF Request

-----------------------------------------------------------------------------
(* Type correctness                                                        *)

\* What the control part of a step preserves.
Control ==
    /\ request'    \in [Processes -> Request \cup {Idle}]
    /\ replies'    \subseteq Reply
    /\ unfinished' \subseteq DocIds

\* Answering a request keeps the types.
LEMMA AnswerType ==
    ASSUME TypeOK, NEW p \in Processes, request[p] \in Request,
           NEW code \in {"ok", "not_found", "error"}, Answer(p, code)
    PROVE  /\ request' \in [Processes -> Request \cup {Idle}]
           /\ replies' \subseteq Reply
<1> DEFINE r == request[p]
           a == [op |-> r.op, tenant |-> r.tenant, doc |-> r.doc, code |-> code,
                 docs |-> r.docs, titled |-> r.titled]
<1>1. a \in Reply
  BY RequestFields DEF Reply
<1>2. replies' = replies \cup {a}
  BY DEF Answer
<1>3. request' = [request EXCEPT ![p] = Idle]
  BY DEF Answer
<1> QED
  BY <1>1, <1>2, <1>3 DEF TypeOK, WorkersTypeOK

\* So does raising out of the handler.
LEMMA ErrorType ==
    ASSUME TypeOK, NEW p \in Processes, request[p] \in Request, Error(p)
    PROVE  Control
<1>2. unfinished' \subseteq DocIds
  BY DEF Error, Abandon, TypeOK, WorkersTypeOK
<1> QED
  BY <1>2, AnswerType DEF Error, Control

\* And going on with one field or more changed.
LEMMA StayType ==
    ASSUME TypeOK, NEW p \in Processes, NEW r \in Request,
           request' = [request EXCEPT ![p] = r], UNCHANGED <<replies, unfinished>>
    PROVE  Control
BY DEF Control, TypeOK, WorkersTypeOK

\* And a call whose effect happened.
LEMMA ProceedType ==
    ASSUME TypeOK, NEW p \in Processes, request[p] \in Request,
           NEW service, NEW call, Proceed(p, service, call),
           [request[p] EXCEPT !.pc = call] \in Request
    PROVE  Control
<1>1. CASE Goto(p, call) /\ UNCHANGED <<replies, unfinished>>
  BY <1>1, StayType DEF Goto
<1>2. CASE Error(p)
  BY <1>2, ErrorType
<1> QED
  BY <1>1, <1>2 DEF Proceed

\* What is left to show of the processes after a handler's step.
LEMMA FrameType ==
    ASSUME TypeOK, Control, UNCHANGED <<received, accepted, crashed>>,
           stored' \subseteq DocIds \X Tenants
    PROVE  WorkersTypeOK'
BY DEF Control, TypeOK, WorkersTypeOK

\* The initial state is typed.
LEMMA InitType == Init => TypeOK
<1> SUFFICES ASSUME Init PROVE TypeOK
  OBVIOUS
<1>1. StoresTypeOK
  BY DEF Init, StoresInit, StoresTypeOK
<1>2. WorkersTypeOK
  BY WorkersAssumption DEF Init, WorkersInit, WorkersTypeOK
<1> QED
  BY <1>1, <1>2 DEF TypeOK

\* Accepting a request keeps the types.
LEMMA AcceptType ==
    ASSUME TypeOK, NEW p \in Processes, AcceptRequest(p)
    PROVE  TypeOK'
<1> DEFINE new(op, call, t, d) ==
             [pc |-> call, op |-> op, tenant |-> t, doc |-> d,
              size |-> 0, docs |-> {}, titled |-> {}]
<1>1. \E r \in Request : request' = [request EXCEPT ![p] = r]
  <2>1. PICK t \in Tenants : Upload(p, t) \/ Delete(p, t) \/ Query(p, t) \/ List(p, t)
    BY DEF AcceptRequest
  <2>2. CASE Upload(p, t)
    <3>1. PICK f \in Files : Accept(p, "upload", "put_raw", t, DocId(f))
      BY <2>2 DEF Upload
    <3>2. new("upload", "put_raw", t, DocId(f)) \in UploadRequest
      BY StoresAssumption DEF UploadRequest, UploadCalls, DocId
    <3> QED
      BY <3>1, <3>2 DEF Accept, Request
  <2>3. CASE Delete(p, t)
    <3>1. PICK d \in DocIds : Accept(p, "delete", "get_row", t, d)
      BY <2>3 DEF Delete
    <3>2. new("delete", "get_row", t, d) \in DeleteRequest
      BY DEF DeleteRequest, DeleteCalls
    <3> QED
      BY <3>1, <3>2 DEF Accept, Request
  <2>4. CASE Query(p, t)
    <3>1. new("query", "search", t, NoDoc) \in QueryRequest
      BY DEF QueryRequest, QueryCalls
    <3> QED
      BY <2>4, <3>1 DEF Query, Accept, Request
  <2>5. CASE List(p, t)
    <3>1. new("list", "list_rows", t, NoDoc) \in ListRequest
      BY DEF ListRequest, ListCalls
    <3> QED
      BY <2>5, <3>1 DEF List, Accept, Request
  <2> QED
    BY <2>1, <2>2, <2>3, <2>4, <2>5
<1>2. /\ accepted < MaxRequests /\ accepted' = accepted + 1
      /\ UNCHANGED <<stores, crashed, replies, stored, unfinished>>
      /\ received' \subseteq Files
  BY DEF AcceptRequest, Upload, Delete, Query, List, Accept, TypeOK, WorkersTypeOK
<1>3. accepted' \in 0..MaxRequests
  BY <1>2, WorkersAssumption DEF TypeOK, WorkersTypeOK
<1>4. StoresTypeOK'
  BY <1>2 DEF TypeOK, StoresTypeOK, stores
<1> QED
  BY <1>1, <1>2, <1>3, <1>4 DEF TypeOK, WorkersTypeOK

\* What an upload request carries.
LEMMA UploadFields ==
    ASSUME NEW r \in UploadRequest
    PROVE  /\ r.tenant \in Tenants
           /\ r.doc \in DocIds
           /\ r.doc[1] \in Files
           /\ r.doc = DocId(r.doc[1])
           /\ PlaceholderId(r.doc[1]) \in DocIds
           /\ r.size \in 0..MaxChunks
BY DEF UploadRequest, DocIds, DocId, PlaceholderId

\* However a call of an upload ends, the processes stay typed.
LEMMA UploadProceeds ==
    ASSUME TypeOK, NEW p \in Processes, request[p] \in UploadRequest
    PROVE  /\ \A service : \A call \in UploadCalls \cup LastCalls :
                Proceed(p, service, call) => Control
           /\ Error(p) => Control
<1>1. request[p] \in Request
  BY DEF Request
<1>2. ASSUME NEW service, NEW call \in UploadCalls \cup LastCalls,
             Proceed(p, service, call)
      PROVE  Control
  <2>1. [request[p] EXCEPT !.pc = call] \in Request
    BY <1>1, GotoRequest DEF Request
  <2> QED
    BY <1>1, <1>2, <2>1, ProceedType
<1> QED
  BY <1>1, <1>2, ErrorType

\* The points and rows of an upload are typed.
LEMMA ChunksOfType ==
    ASSUME NEW t \in Tenants, NEW d \in DocIds, NEW k \in 0..MaxChunks
    PROVE  ChunksOf(t, d, k) \subseteq Chunk
BY StoresAssumption DEF ChunksOf, Chunk

\* The steps of an upload keep the types.
LEMMA UploadType ==
    ASSUME TypeOK, NEW p \in Processes, UploadStep(p)
    PROVE  TypeOK'
<1> DEFINE r == request[p]
<1>1. CASE PutRaw(p)
  <2>1. r \in UploadRequest
    BY <1>1, HandlerAt DEF PutRaw, At, UploadCalls
  <2>2. StoresTypeOK'
    BY <1>1, <2>1, UploadFields DEF PutRaw, Put, Object, TypeOK, StoresTypeOK
  <2>3. Control
    BY <1>1, <2>1, UploadProceeds DEF PutRaw, UploadCalls, LastCalls
  <2>4. stored' \subseteq DocIds \X Tenants
    BY <1>1, <2>1, UploadFields DEF PutRaw, TypeOK, WorkersTypeOK
  <2>5. UNCHANGED <<received, accepted, crashed>>
    BY <1>1 DEF PutRaw
  <2> QED
    BY <2>2, <2>3, <2>4, <2>5, FrameType DEF TypeOK
<1>2. CASE PersistPending(p)
  <2>1. r \in UploadRequest
    BY <1>2, HandlerAt DEF PersistPending, At, UploadCalls
  <2>2. StoresTypeOK'
    BY <1>2, <2>1, UploadFields, StoresAssumption
       DEF PersistPending, Document, TypeOK, StoresTypeOK
  <2>3. Control
    BY <1>2, <2>1, UploadProceeds DEF PersistPending, UploadCalls, LastCalls
  <2>4. stored' \subseteq DocIds \X Tenants
    BY <1>2, <2>1, UploadFields DEF PersistPending, TypeOK, WorkersTypeOK
  <2>5. UNCHANGED <<received, accepted, crashed>>
    BY <1>2 DEF PersistPending
  <2> QED
    BY <2>2, <2>3, <2>4, <2>5, FrameType DEF TypeOK
<1>3. CASE PutOcr(p)
  <2>1. r \in UploadRequest
    BY <1>3, HandlerAt DEF PutOcr, At, UploadCalls
  <2>2. StoresTypeOK'
    BY <1>3, <2>1, UploadFields DEF PutOcr, Put, Object, TypeOK, StoresTypeOK
  <2>3. Control
    BY <1>3, <2>1, UploadProceeds DEF PutOcr, UploadCalls, LastCalls
  <2>4. stored' \subseteq DocIds \X Tenants
    BY <1>3, <2>1, UploadFields DEF PutOcr, TypeOK, WorkersTypeOK
  <2>5. UNCHANGED <<received, accepted, crashed>>
    BY <1>3 DEF PutOcr
  <2> QED
    BY <2>2, <2>3, <2>4, <2>5, FrameType DEF TypeOK
<1>4. CASE CommitReady(p)
  <2>1. r \in UploadRequest
    BY <1>4, HandlerAt DEF CommitReady, At, UploadCalls
  <2>2. StoresTypeOK'
    <3>1. PICK k \in 0..MaxEntities :
             /\ documents'  = documents \cup {ReadyRow(r, k)}
             /\ redactions' = redactions \cup RedactionsOf(r, k)
      BY <1>4 DEF CommitReady
    <3>2. ReadyRow(r, k) \in Document
      BY <2>1, UploadFields DEF ReadyRow, Document
    <3>3. RedactionsOf(r, k) \subseteq Redaction
      BY <2>1, UploadFields, StoresAssumption DEF RedactionsOf, Redaction
    <3> QED
      BY <1>4, <3>1, <3>2, <3>3 DEF CommitReady, TypeOK, StoresTypeOK
  <2>3. Control
    BY <1>4, <2>1, UploadProceeds DEF CommitReady, UploadCalls, LastCalls
  <2>4. stored' \subseteq DocIds \X Tenants
    BY <1>4, <2>1, UploadFields DEF CommitReady, TypeOK, WorkersTypeOK
  <2>5. UNCHANGED <<received, accepted, crashed>>
    BY <1>4 DEF CommitReady
  <2> QED
    BY <2>2, <2>3, <2>4, <2>5, FrameType DEF TypeOK
<1>5. CASE PutRedacted(p)
  <2>1. r \in UploadRequest
    BY <1>5, HandlerAt DEF PutRedacted, At, UploadCalls
  <2>2. StoresTypeOK'
    BY <1>5, <2>1, UploadFields DEF PutRedacted, Put, Object, TypeOK, StoresTypeOK
  <2>3. Control
    BY <1>5, <2>1, UploadProceeds DEF PutRedacted, UploadCalls, LastCalls
  <2>4. stored' \subseteq DocIds \X Tenants
    BY <1>5, <2>1, UploadFields DEF PutRedacted, TypeOK, WorkersTypeOK
  <2>5. UNCHANGED <<received, accepted, crashed>>
    BY <1>5 DEF PutRedacted
  <2> QED
    BY <2>2, <2>3, <2>4, <2>5, FrameType DEF TypeOK
<1>6. CASE IndexEmpty(p)
  <2>1. r \in UploadRequest
    BY <1>6, HandlerAt DEF IndexEmpty, At, UploadCalls
  <2>2. StoresTypeOK'
    BY <1>6 DEF IndexEmpty, TypeOK, StoresTypeOK, stores
  <2>3. [r EXCEPT !.pc = "audit"] \in Request
    BY <2>1, GotoRequest DEF Request, LastCalls
  <2>4. Control
    BY <1>6, <2>3, StayType DEF IndexEmpty, Goto
  <2> QED
    BY <1>6, <2>2, <2>4, FrameType DEF IndexEmpty, TypeOK, WorkersTypeOK
<1>7. CASE Upsert(p)
  <2>1. r \in UploadRequest
    BY <1>7, HandlerAt DEF Upsert, At, UploadCalls
  <2>2. PICK k \in 1..MaxChunks :
           \/ /\ points' = points \cup ChunksOf(r.tenant, r.doc, k)
              /\ request' = [request EXCEPT ![p].pc = "chunk_rows", ![p].size = k]
              /\ UNCHANGED <<replies, unfinished>>
           \/ /\ \E part \in SUBSET ChunksOf(r.tenant, r.doc, k) :
                   points' = points \cup part
              /\ Error(p)
    BY <1>7 DEF Upsert
  <2>3. k \in 0..MaxChunks
    BY StoresAssumption
  <2>4. ChunksOf(r.tenant, r.doc, k) \subseteq Chunk
    BY <2>1, <2>3, UploadFields, ChunksOfType
  <2>5. StoresTypeOK'
    BY <1>7, <2>2, <2>4 DEF Upsert, TypeOK, StoresTypeOK
  <2>6. Control
    <3>1. [r EXCEPT !.pc = "chunk_rows", !.size = k] \in Request
      BY <2>1, <2>3 DEF Request, UploadRequest, UploadCalls
    <3>2. request' = [request EXCEPT ![p].pc = "chunk_rows", ![p].size = k]
            => request' = [request EXCEPT ![p] = [r EXCEPT !.pc = "chunk_rows", !.size = k]]
      BY DEF TypeOK, WorkersTypeOK
    <3> QED
      BY <2>1, <2>2, <3>1, <3>2, StayType, UploadProceeds
  <2> QED
    BY <1>7, <2>5, <2>6, FrameType DEF Upsert, TypeOK, WorkersTypeOK
<1>8. CASE ChunkRows(p)
  <2>1. r \in UploadRequest
    BY <1>8, HandlerAt DEF ChunkRows, At, UploadCalls
  <2>2. ChunksOf(r.tenant, r.doc, r.size) \subseteq Chunk
    BY <2>1, UploadFields, ChunksOfType
  <2>3. StoresTypeOK'
    BY <1>8, <2>2 DEF ChunkRows, TypeOK, StoresTypeOK
  <2>4. Control
    BY <1>8, <2>1, UploadProceeds DEF ChunkRows, UploadCalls, LastCalls
  <2> QED
    BY <1>8, <2>3, <2>4, FrameType DEF ChunkRows, TypeOK, WorkersTypeOK
<1> QED
  BY <1>1, <1>2, <1>3, <1>4, <1>5, <1>6, <1>7, <1>8 DEF UploadStep

\* The steps of a deletion keep the types.
LEMMA DeleteType ==
    ASSUME TypeOK, NEW p \in Processes, DeleteStep(p)
    PROVE  TypeOK'
<1> DEFINE r == request[p]
<1>1. r \in DeleteRequest
  BY HandlerAt DEF DeleteStep, GetRow, CommitDelete, DeletePoints, At, DeleteCalls
<1>2. r \in Request /\ r.tenant \in Tenants /\ r.doc \in DocIds
  BY <1>1 DEF Request, DeleteRequest
<1>3. \A call \in DeleteCalls \cup LastCalls : [r EXCEPT !.pc = call] \in Request
  BY <1>1, <1>2, GotoRequest DEF Request
<1>4. CASE GetRow(p)
  <2>1. CASE Goto(p, "commit_delete") /\ UNCHANGED replies
    <3>1. Control
      BY <1>3, <1>4, <2>1, StayType DEF GetRow, Goto, DeleteCalls
    <3> QED
      BY <1>4, <3>1, FrameType DEF GetRow, TypeOK, StoresTypeOK, WorkersTypeOK, stores
  <2>2. CASE Answer(p, "not_found")
    <3>1. Control
      BY <1>2, <1>4, <2>2, AnswerType DEF GetRow, Control, TypeOK, WorkersTypeOK
    <3> QED
      BY <1>4, <3>1, FrameType DEF GetRow, TypeOK, StoresTypeOK, WorkersTypeOK, stores
  <2> QED
    BY <1>4, <2>1, <2>2 DEF GetRow
<1>5. CASE CommitDelete(p)
  <2>1. Control
    BY <1>2, <1>3, <1>5, ProceedType DEF CommitDelete, DeleteCalls
  <2>2. StoresTypeOK'
    BY <1>5 DEF CommitDelete, DeleteRow, TypeOK, StoresTypeOK
  <2> QED
    BY <1>5, <2>1, <2>2, FrameType DEF CommitDelete, TypeOK, WorkersTypeOK
<1>6. CASE DeletePoints(p)
  <2>1. unfinished' \subseteq DocIds
    BY <1>2, <1>6 DEF DeletePoints, TypeOK, WorkersTypeOK
  <2>2. request' \in [Processes -> Request \cup {Idle}]
    BY <1>3, <1>6 DEF DeletePoints, Goto, LastCalls, TypeOK, WorkersTypeOK
  <2>3. Control
    BY <1>6, <2>1, <2>2 DEF DeletePoints, Control, TypeOK, WorkersTypeOK
  <2>4. StoresTypeOK'
    BY <1>6 DEF DeletePoints, PointsWithout, TypeOK, StoresTypeOK
  <2> QED
    BY <1>6, <2>3, <2>4, FrameType DEF DeletePoints, TypeOK, WorkersTypeOK
<1> QED
  BY <1>4, <1>5, <1>6 DEF DeleteStep

\* The rows a tenant sees, and the points it finds, carry document ids.
LEMMA ReadsType ==
    ASSUME TypeOK, NEW t \in Tenants
    PROVE  /\ {row.id : row \in VisibleTo(t)} \subseteq DocIds
           /\ \A h \in SearchResults(t) : {q.doc : q \in h} \subseteq DocIds
BY DEF TypeOK, StoresTypeOK, VisibleTo, SearchResults, Document, Chunk

\* The steps of a query and of a listing keep the types.
LEMMA QueryType ==
    ASSUME TypeOK, NEW p \in Processes, QueryStep(p)
    PROVE  TypeOK'
<1> DEFINE r == request[p]
<1>1. UNCHANGED <<stores, received, accepted, crashed, replies, stored, unfinished>>
  BY DEF QueryStep, Search, ResolveTitles, ListRows
<1>2. \E n \in Request : request' = [request EXCEPT ![p] = n]
  <2>1. CASE Search(p)
    <3>1. r \in QueryRequest /\ r.tenant \in Tenants
      BY <2>1, HandlerAt DEF Search, At, QueryCalls, QueryRequest
    <3>2. PICK hits \in SearchResults(r.tenant) :
             request' = [request EXCEPT ![p].pc = "resolve_titles",
                                        ![p].docs = {h.doc : h \in hits}]
      BY <2>1 DEF Search
    <3>3. [r EXCEPT !.pc = "resolve_titles", !.docs = {h.doc : h \in hits}]
            \in QueryRequest
      BY <3>1, ReadsType DEF QueryRequest, QueryCalls
    <3> QED
      BY <3>2, <3>3 DEF Request, TypeOK, WorkersTypeOK
  <2>2. CASE ResolveTitles(p)
    <3>1. r \in QueryRequest
      BY <2>2, HandlerAt DEF ResolveTitles, At, QueryCalls
    <3>2. PICK titled \in SUBSET r.docs :
             request' = [request EXCEPT ![p].pc = "audit", ![p].titled = titled]
      BY <2>2 DEF ResolveTitles
    <3>3. [r EXCEPT !.pc = "audit", !.titled = titled] \in QueryRequest
      BY <3>1 DEF QueryRequest, LastCalls
    <3> QED
      BY <3>2, <3>3 DEF Request, TypeOK, WorkersTypeOK
  <2>3. CASE ListRows(p)
    <3> DEFINE shown == {row.id : row \in VisibleTo(r.tenant)}
    <3>1. r \in ListRequest /\ r.tenant \in Tenants
      BY <2>3, HandlerAt DEF ListRows, At, ListCalls, ListRequest
    <3>2. shown \subseteq DocIds
      BY <3>1, ReadsType
    <3>3. [r EXCEPT !.pc = "respond", !.docs = shown] \in ListRequest
      BY <3>1, <3>2 DEF ListRequest
    <3> HIDE DEF shown
    <3>4. request' = [request EXCEPT ![p].pc = "respond", ![p].docs = shown]
      BY <2>3 DEF ListRows, shown
    <3> QED
      BY <3>3, <3>4 DEF Request, TypeOK, WorkersTypeOK
  <2> QED
    BY <2>1, <2>2, <2>3 DEF QueryStep
<1>3. Control
  BY <1>1, <1>2, StayType
<1> QED
  BY <1>1, <1>3, FrameType DEF TypeOK, StoresTypeOK, WorkersTypeOK, stores

\* The last calls, failures and crashes keep the types.
LEMMA LastType ==
    ASSUME TypeOK, NEW p \in Processes,
           Audit(p) \/ Respond(p) \/ CallFails(p) \/ Crash(p)
    PROVE  TypeOK'
<1> DEFINE r == request[p]
<1>1. CASE Audit(p)
  <2>1. r \in Request /\ r \notin ListRequest /\ r.pc = "audit"
    BY <1>1, HandlerAt DEF Audit, At, LastCalls
  <2>2. Control
    <3>1. [r EXCEPT !.pc = "respond"] \in Request
      BY <2>1, GotoRequest
    <3> QED
      BY <1>1, <2>1, <3>1, ProceedType, ErrorType DEF Audit
  <2>3. audit_log' \in Seq(Entry)
    <3> DEFINE e == [action |-> r.op, tenant |-> r.tenant, docs |-> AuditDocs(r)]
    <3>1. e \in Entry
      BY <2>1 DEF Entry, AuditDocs, Request, UploadRequest, DeleteRequest,
                  QueryRequest, DocIds
    <3>2. audit_log' = Append(audit_log, e) \/ audit_log' = audit_log
      BY <1>1 DEF Audit
    <3> HIDE DEF e
    <3> QED
      BY <3>1, <3>2 DEF TypeOK, StoresTypeOK
  <2> QED
    BY <1>1, <2>2, <2>3, FrameType DEF Audit, TypeOK, StoresTypeOK, WorkersTypeOK
<1>2. CASE Respond(p)
  <2>1. r \in Request
    BY <1>2, HandlerAt DEF Respond, At, LastCalls
  <2>2. Control
    BY <1>2, <2>1, AnswerType DEF Respond, Control, TypeOK, WorkersTypeOK
  <2> QED
    BY <1>2, <2>2, FrameType
       DEF Respond, TypeOK, StoresTypeOK, WorkersTypeOK, stores
<1>3. CASE CallFails(p)
  <2>1. r \in Request
    BY <1>3, BusyHasRequest DEF CallFails
  <2>2. Control
    BY <1>3, <2>1, ErrorType DEF CallFails
  <2> QED
    BY <1>3, <2>2, FrameType
       DEF CallFails, TypeOK, StoresTypeOK, WorkersTypeOK, stores
<1>4. CASE Crash(p)
  <2>1. unfinished' \subseteq DocIds
    BY <1>4 DEF Crash, Abandon, TypeOK, WorkersTypeOK
  <2>2. crashed' \in 0..Crashes
    BY <1>4, WorkersAssumption DEF Crash, TypeOK, WorkersTypeOK
  <2> QED
    BY <1>4, <2>1, <2>2
       DEF Crash, TypeOK, StoresTypeOK, WorkersTypeOK, stores
<1> QED
  BY <1>1, <1>2, <1>3, <1>4

\* Every step keeps the types.
LEMMA NextType == TypeOK /\ [Next]_vars => TypeOK'
<1> SUFFICES ASSUME TypeOK, [Next]_vars PROVE TypeOK'
  OBVIOUS
<1>1. CASE UNCHANGED vars
  BY <1>1 DEF vars, stores, TypeOK, StoresTypeOK, WorkersTypeOK
<1>2. ASSUME NEW p \in Processes, AcceptRequest(p) \/ HandlerStep(p) \/ Crash(p)
      PROVE  TypeOK'
  BY <1>2, AcceptType, UploadType, DeleteType, QueryType, LastType DEF HandlerStep
<1> QED
  BY <1>1, <1>2 DEF Next, Quiet

\* The state of the stores and of the processes is always typed; with it,
\* every request runs only the calls of its own handler.
THEOREM TypeCorrect == Spec => []TypeOK
<1>1. Init => TypeOK
  BY InitType
<1>2. TypeOK /\ [Next]_vars => TypeOK'
  BY NextType
<1> QED
  BY <1>1, <1>2, PTL DEF Spec

-----------------------------------------------------------------------------
(* How requests move                                                       *)

\* The request of p becomes n; the others stay.
Becomes(p, n) == request' = [request EXCEPT ![p] = n]

\* A client is only shown what its request had collected.
RepliesOf(p) ==
    \A a \in replies' \ replies :
        /\ a.tenant = request[p].tenant
        /\ a.docs   = request[p].docs
        /\ a.titled = request[p].titled

\* Answering, raising and dying end the request.
LEMMA AnswerShape ==
    ASSUME TypeOK, NEW p \in Processes, NEW code, Answer(p, code)
    PROVE  Becomes(p, Idle) /\ RepliesOf(p)
BY DEF Answer, Becomes, RepliesOf

\* A call either goes on or ends the request.
LEMMA ProceedShape ==
    ASSUME TypeOK, NEW p \in Processes, NEW service, NEW call,
           Proceed(p, service, call)
    PROVE  /\ Becomes(p, Idle) \/ Becomes(p, [request[p] EXCEPT !.pc = call])
           /\ RepliesOf(p)
<1>1. CASE Goto(p, call) /\ UNCHANGED <<replies, unfinished>>
  BY <1>1 DEF Goto, Becomes, RepliesOf, TypeOK, WorkersTypeOK
<1>2. CASE Error(p)
  BY <1>2, AnswerShape DEF Error
<1> QED
  BY <1>1, <1>2 DEF Proceed

-----------------------------------------------------------------------------
(* Lineage, which needs no row-level security                              *)

\* n goes on with r: the same handler, tenant and document.  An upload stays
\* on its side of the commits; a deletion only goes past the lookup and the
\* commit of a document that was stored, and then removed.
Onward(n, r) ==
    /\ n # Idle /\ n.op = r.op /\ n.doc = r.doc /\ n.tenant = r.tenant
    /\ n.op = "upload" =>
          /\ n.pc \in BeforeReady <=> r.pc \in BeforeReady
          /\ n.pc \in BeforePending => r.pc \in BeforePending
    /\ n.op = "delete" =>
          /\ n.pc # "get_row" => \E t \in Tenants : Owns(t, n.doc)
          /\ n.pc \notin {"get_row", "commit_delete"} =>
                \A row \in documents' : row.id # n.doc

\* A step that stores no row.
Moves(p) ==
    /\ request[p] # Idle
    /\ \E n : Becomes(p, n) /\ (n = Idle \/ Onward(n, request[p]))
    /\ UNCHANGED <<stored, received>>
    /\ documents' \subseteq documents

\* An upload stores the row of one of its ids that was in no row before.
StoresRow(p, row, call) ==
    LET r == request[p]
    IN  /\ r \in UploadRequest /\ r # Idle
        /\ Becomes(p, Idle) \/ Becomes(p, [r EXCEPT !.pc = call])
        /\ documents' = documents \cup {row}
        /\ stored' = stored \cup {<<row.id, row.tenant>>}
        /\ UNCHANGED received
        /\ row.tenant = r.tenant /\ row.file = r.doc[1]
        /\ call \notin BeforePending /\ call # "idle" /\ r.pc \in BeforeReady
        /\ \/ row.status = "pending" /\ row.id = PlaceholderId(row.file)
              /\ call \in BeforeReady /\ r.pc \in BeforePending
           \/ row.status = "ready" /\ row.id = r.doc /\ call \notin BeforeReady

\* Every step of an upload does one or the other.
LEMMA UploadMoves ==
    ASSUME TypeOK, NEW p \in Processes, UploadStep(p)
    PROVE  Moves(p) \/ \E row, call : StoresRow(p, row, call)
<1> DEFINE r == request[p]
           next(call) == [r EXCEPT !.pc = call]
<1>1. r \in UploadRequest /\ r # Idle /\ r.op = "upload"
  BY HandlerAt DEF UploadStep, PutRaw, PersistPending, PutOcr, CommitReady, PutRedacted,
                   IndexEmpty, Upsert, ChunkRows, At, UploadCalls, Idle, UploadRequest
<1>2. ASSUME NEW call, NEW k, call # "idle",
             call \in BeforeReady <=> r.pc \in BeforeReady,
             call \in BeforePending => r.pc \in BeforePending
      PROVE  Onward(next(call), r) /\ Onward([r EXCEPT !.pc = call, !.size = k], r)
  BY <1>1, <1>2 DEF Onward, UploadRequest, Idle
<1>3. CASE PutRaw(p)
  <2>1. Becomes(p, Idle) \/ Becomes(p, next("persist_pending"))
    BY <1>3, ProceedShape DEF PutRaw
  <2>2. Onward(next("persist_pending"), r)
    BY <1>2, <1>3 DEF PutRaw, At, BeforeReady, BeforePending
  <2> QED
    BY <1>1, <1>3, <2>1, <2>2 DEF Moves, PutRaw
<1>4. CASE PersistPending(p) /\ PlainInsertAllowed
  <2> DEFINE row == [id |-> PlaceholderId(r.doc[1]), tenant |-> r.tenant,
                     file |-> r.doc[1], status |-> "pending", entities |-> 0]
  <2>1. Becomes(p, Idle) \/ Becomes(p, next("put_ocr"))
    BY <1>4, ProceedShape DEF PersistPending
  <2>2. StoresRow(p, row, "put_ocr")
    BY <1>1, <1>4, <2>1 DEF StoresRow, PersistPending, At, BeforeReady, BeforePending
  <2> QED
    BY <2>2
<1>5. CASE PersistPending(p) /\ ~PlainInsertAllowed
  <2>1. Becomes(p, Idle)
    BY <1>5, AnswerShape DEF PersistPending, Error
  <2> QED
    BY <1>1, <1>5, <2>1 DEF Moves, PersistPending
<1>6. CASE PutOcr(p)
  <2>1. Becomes(p, Idle) \/ Becomes(p, next("commit_ready"))
    BY <1>6, ProceedShape DEF PutOcr
  <2>2. Onward(next("commit_ready"), r)
    BY <1>2, <1>6 DEF PutOcr, At, BeforeReady, BeforePending
  <2> QED
    BY <1>1, <1>6, <2>1, <2>2 DEF Moves, PutOcr
<1>7. CASE CommitReady(p)
  <2>1. Becomes(p, Idle) \/ Becomes(p, next("put_redacted"))
    BY <1>7, ProceedShape DEF CommitReady
  <2>2. PICK k \in 0..MaxEntities : documents' = documents \cup {ReadyRow(r, k)}
    BY <1>7 DEF CommitReady
  <2>3. StoresRow(p, ReadyRow(r, k), "put_redacted")
    BY <1>1, <1>7, <2>1, <2>2
    DEF StoresRow, ReadyRow, CommitReady, At, BeforeReady, BeforePending
  <2> QED
    BY <2>3
<1>8. CASE PutRedacted(p)
  <2>1. Becomes(p, Idle) \/ Becomes(p, next("upsert"))
    BY <1>8, ProceedShape DEF PutRedacted
  <2>2. Onward(next("upsert"), r)
    BY <1>2, <1>8 DEF PutRedacted, At, BeforeReady, BeforePending
  <2> QED
    BY <1>1, <1>8, <2>1, <2>2 DEF Moves, PutRedacted
<1>9. CASE IndexEmpty(p)
  <2>1. Becomes(p, next("audit"))
    BY <1>9 DEF IndexEmpty, Goto, Becomes, TypeOK, WorkersTypeOK
  <2>2. Onward(next("audit"), r)
    BY <1>2, <1>9 DEF IndexEmpty, At, BeforeReady, BeforePending
  <2> QED
    BY <1>1, <1>9, <2>1, <2>2 DEF Moves, IndexEmpty, stores
<1>10. CASE Upsert(p)
  <2>1. Becomes(p, Idle) \/ \E k : Becomes(p, [r EXCEPT !.pc = "chunk_rows", !.size = k])
    BY <1>10, AnswerShape DEF Upsert, Error, Becomes, TypeOK, WorkersTypeOK
  <2>2. \A k : Onward([r EXCEPT !.pc = "chunk_rows", !.size = k], r)
    BY <1>2, <1>10 DEF Upsert, At, BeforeReady, BeforePending
  <2> QED
    BY <1>1, <1>10, <2>1, <2>2 DEF Moves, Upsert
<1>11. CASE ChunkRows(p)
  <2>1. Becomes(p, Idle) \/ Becomes(p, next("audit"))
    BY <1>11, ProceedShape, AnswerShape DEF ChunkRows, Error
  <2>2. Onward(next("audit"), r)
    BY <1>2, <1>11 DEF ChunkRows, At, BeforeReady, BeforePending
  <2> QED
    BY <1>1, <1>11, <2>1, <2>2 DEF Moves, ChunkRows
<1> QED
  BY <1>3, <1>4, <1>5, <1>6, <1>7, <1>8, <1>9, <1>10, <1>11 DEF UploadStep

\* The steps of the other handlers, failures and crashes store nothing.
LEMMA OthersMove ==
    ASSUME TypeOK, Lineage, NEW p \in Processes,
           DeleteStep(p) \/ QueryStep(p) \/ Audit(p) \/ Respond(p) \/ CallFails(p) \/ Crash(p)
    PROVE  Moves(p)
<1> DEFINE r == request[p]
           next(call) == [r EXCEPT !.pc = call]
<1>1. CASE DeleteStep(p)
  <2>1. r \in DeleteRequest /\ r # Idle /\ Busy(p, "delete")
    BY <1>1, HandlerAt DEF DeleteStep, GetRow, CommitDelete, DeletePoints, At, DeleteCalls,
                           Idle, Busy, DeleteRequest
  <2>2. \A call : next(call).pc = call /\ next(call).op = "delete"
           /\ next(call).doc = r.doc /\ next(call).tenant = r.tenant /\ r.op = "delete"
    BY <2>1 DEF DeleteRequest
  <2>3. CASE GetRow(p)
    <3>1. Becomes(p, Idle) \/ (/\ Becomes(p, next("commit_delete"))
                               /\ \E row \in VisibleTo(r.tenant) : row.id = r.doc)
      BY <2>3, AnswerShape DEF GetRow, Goto, Becomes, TypeOK, WorkersTypeOK
    <3>2. (\E row \in VisibleTo(r.tenant) : row.id = r.doc) => \E t \in Tenants : Owns(t, r.doc)
      BY DEF VisibleTo, Lineage, RowsStored, TypeOK, StoresTypeOK, Document
    <3>3. (\E t \in Tenants : Owns(t, r.doc)) => Onward(next("commit_delete"), r)
      BY <2>1, <2>2 DEF Onward, Idle
    <3> QED
      BY <2>1, <2>3, <3>1, <3>2, <3>3 DEF Moves, GetRow, stores
  <2>4. CASE CommitDelete(p)
    <3>1. Becomes(p, Idle) \/ Becomes(p, next("delete_points"))
      BY <2>4, ProceedShape DEF CommitDelete
    <3>2. \E t \in Tenants : Owns(t, r.doc)
      BY <2>1, <2>4 DEF Lineage, DeletesStored, CommitDelete, At
    <3>3. documents' = {row \in documents : row.id # r.doc}
      BY <2>4 DEF CommitDelete, DeleteRow
    <3>4. Onward(next("delete_points"), r)
      BY <2>1, <2>2, <3>2, <3>3 DEF Onward, Idle
    <3> QED
      BY <2>1, <2>4, <3>1, <3>3, <3>4 DEF Moves, CommitDelete
  <2>5. CASE DeletePoints(p)
    <3>1. Becomes(p, next("audit"))
      BY <2>5 DEF DeletePoints, Goto, Becomes, TypeOK, WorkersTypeOK
    <3>2. (\E t \in Tenants : Owns(t, r.doc)) /\ ~HasRow(r.doc)
      BY <2>1, <2>5 DEF Lineage, DeletesStored, DeletePoints, At
    <3>3. Onward(next("audit"), r)
      BY <2>1, <2>2, <2>5, <3>2 DEF Onward, DeletePoints, HasRow, Idle
    <3> QED
      BY <2>1, <2>5, <3>1, <3>3 DEF Moves, DeletePoints
  <2> QED
    BY <1>1, <2>3, <2>4, <2>5 DEF DeleteStep
<1>2. CASE QueryStep(p)
  <2>1. r # Idle /\ r \in QueryRequest \cup ListRequest
    BY <1>2, HandlerAt
    DEF QueryStep, Search, ResolveTitles, ListRows, At, QueryCalls, ListCalls, Idle
  <2>2. ASSUME NEW call, NEW docs, NEW titled
        PROVE  /\ Onward([r EXCEPT !.pc = call, !.docs = docs], r)
               /\ Onward([r EXCEPT !.pc = call, !.titled = titled], r)
    BY <2>1 DEF Onward, QueryRequest, ListRequest, Idle
  <2>3. \E call, docs, titled : \/ Becomes(p, [r EXCEPT !.pc = call, !.docs = docs])
                                \/ Becomes(p, [r EXCEPT !.pc = call, !.titled = titled])
    <3>1. \E call, docs, titled :
             \/ request' = [request EXCEPT ![p].pc = call, ![p].docs = docs]
             \/ request' = [request EXCEPT ![p].pc = call, ![p].titled = titled]
      <4>1. CASE Search(p)
        BY <4>1 DEF Search
      <4>2. CASE ResolveTitles(p)
        <5>1. \E titled : request' = [request EXCEPT ![p].pc = "audit", ![p].titled = titled]
          BY <4>2 DEF ResolveTitles
        <5> QED
          BY <5>1
      <4>3. CASE ListRows(p)
        BY <4>3 DEF ListRows
      <4> QED
        BY <1>2, <4>1, <4>2, <4>3 DEF QueryStep
    <3> QED
      BY <3>1 DEF Becomes, TypeOK, WorkersTypeOK
  <2> QED
    BY <1>2, <2>1, <2>2, <2>3 DEF Moves, QueryStep, Search, ResolveTitles, ListRows, stores
<1>3. CASE Audit(p)
  <2>1. r \in Request /\ r # Idle /\ r.pc = "audit"
    BY <1>3, HandlerAt DEF Audit, At, LastCalls, Idle
  <2>2. Becomes(p, Idle) \/ Becomes(p, next("respond"))
    BY <1>3, ProceedShape, AnswerShape DEF Audit, Error
  <2>3. /\ next("respond").pc = "respond" /\ next("respond").op = r.op
        /\ next("respond").tenant = r.tenant /\ next("respond").doc = r.doc
    BY <2>1 DEF Request, UploadRequest, DeleteRequest, QueryRequest, ListRequest
  <2>4. r.op = "delete" => (\E t \in Tenants : Owns(t, r.doc)) /\ ~HasRow(r.doc)
    BY <2>1 DEF Lineage, DeletesStored, Busy
  <2>5. Onward(next("respond"), r)
    BY <1>3, <2>1, <2>3, <2>4 DEF Onward, Audit, HasRow, Idle, BeforeReady, BeforePending
  <2> QED
    BY <1>3, <2>1, <2>2, <2>5 DEF Moves, Audit
<1>4. CASE Respond(p) \/ CallFails(p) \/ Crash(p)
  <2>1. r # Idle
    BY <1>4 DEF Respond, CallFails, Crash, At, Idle
  <2>2. Becomes(p, Idle)
    BY <1>4, AnswerShape DEF Respond, CallFails, Crash, Error, Becomes
  <2> QED
    BY <1>4, <2>1, <2>2 DEF Moves, Respond, CallFails, Crash, stores
<1> QED
  BY <1>1, <1>2, <1>3, <1>4

\* What stores no row keeps the lineage.
LEMMA MoveKeepsLineage ==
    ASSUME TypeOK, Lineage, NEW p \in Processes, Moves(p)
    PROVE  Lineage'
<1>1. PICK n : Becomes(p, n) /\ (n = Idle \/ Onward(n, request[p]))
  BY DEF Moves
<1>2. \A q \in Processes : request'[q] = IF q = p THEN n ELSE request[q]
  BY <1>1 DEF Becomes, TypeOK, WorkersTypeOK
<1>3. \A op : \A q \in Processes : Busy(q, op)' =>
         /\ Busy(q, op)
         /\ request'[q].doc = request[q].doc
         /\ request'[q].tenant = request[q].tenant
  BY <1>1, <1>2 DEF Busy, Onward, Moves
<1>4. UNCHANGED <<stored, received>> /\ documents' \subseteq documents
  BY DEF Moves
<1>5. OneUploadPerFile' /\ OneOwnerPerFile'
  BY <1>3, <1>4 DEF Lineage, OneUploadPerFile, OneOwnerPerFile
<1>6. UploadProgress'
  <2> SUFFICES ASSUME NEW q \in Processes, Busy(q, "upload")'
               PROVE  (IF request[q].pc \in BeforeReady
                         THEN \A x \in stored :
                                x[1][1] = request[q].doc[1] =>
                                   /\ x[1] # request[q].doc
                                   /\ request[q].pc \notin BeforePending
                         ELSE Owns(request[q].tenant, request[q].doc))'
    BY DEF UploadProgress
  <2>1. /\ Busy(q, "upload") /\ request'[q].doc = request[q].doc
        /\ request'[q].tenant = request[q].tenant
    BY <1>3
  <2>2. /\ request'[q].pc \in BeforeReady <=> request[q].pc \in BeforeReady
        /\ request'[q].pc \in BeforePending => request[q].pc \in BeforePending
    BY <1>1, <1>2 DEF Busy, Onward
  <2> QED
    BY <1>4, <2>1, <2>2 DEF Lineage, UploadProgress, Owns
<1>7. RowsStored'
  BY <1>4 DEF Lineage, RowsStored, Owns
<1>8. DeletesStored'
  BY <1>1, <1>2, <1>3, <1>4 DEF Lineage, DeletesStored, Onward, Owns, Busy, HasRow
<1> QED
  BY <1>5, <1>6, <1>7, <1>8 DEF Lineage

\* So does storing one, whose id is new to the history.
LEMMA StoreKeepsLineage ==
    ASSUME TypeOK, Lineage, NEW p \in Processes, NEW row, NEW call, StoresRow(p, row, call)
    PROVE  /\ Lineage'
           /\ \A x \in stored : x[1] # row.id
<1> USE DEF StoresRow
<1> DEFINE n == request'[p]
<1>1. /\ \A q \in Processes \ {p} : request'[q] = request[q]
      /\ n = Idle \/ n = [request[p] EXCEPT !.pc = call]
  BY DEF Becomes, TypeOK, WorkersTypeOK
<1>2. \A op : \A q \in Processes : Busy(q, op)' =>
         /\ Busy(q, op)
         /\ request'[q].doc = request[q].doc
         /\ request'[q].tenant = request[q].tenant
  BY <1>1 DEF Busy, UploadRequest
<1>3. Busy(p, "upload")
  BY DEF Busy, UploadRequest
<1>4. \A q \in Processes : Busy(q, "upload") =>
          request[q].doc = DocId(request[q].doc[1])
  BY DEF TypeOK, WorkersTypeOK, Request, UploadRequest, DeleteRequest,
         QueryRequest, ListRequest, Busy, DocId
<1>5. \A d, t : Owns(t, d) => Owns(t, d)'
  BY DEF Owns
<1>6. /\ row.id[1] = request[p].doc[1]
      /\ call \in BeforeReady => row.id # request[p].doc
      /\ row.id = IF row.status = "ready" THEN DocId(row.file) ELSE PlaceholderId(row.file)
  BY <1>3, <1>4 DEF PlaceholderId, DocId
<1>7. \A x \in stored : x[1] # row.id
  BY <1>3, <1>6 DEF Lineage, UploadProgress
<1>8. OneUploadPerFile'
  BY <1>2, <1>3, <1>6 DEF Lineage, OneUploadPerFile
<1>9. OneOwnerPerFile'
  <2>1. \A x \in stored : x[1][1] = row.id[1] => x[2] = row.tenant
    BY <1>3, <1>6 DEF Lineage, OneOwnerPerFile
  <2>2. \A q \in Processes : (Busy(q, "upload") /\ request[q].doc[1] = row.id[1])
           => request[q].tenant = row.tenant
    BY <1>3, <1>4, <1>6 DEF Lineage, OneUploadPerFile
  <2> QED
    BY <1>2, <2>1, <2>2 DEF Lineage, OneOwnerPerFile
<1>10. UploadProgress'
  <2> SUFFICES ASSUME NEW q \in Processes, Busy(q, "upload")'
               PROVE  (IF request[q].pc \in BeforeReady
                         THEN \A x \in stored :
                                x[1][1] = request[q].doc[1] =>
                                   /\ x[1] # request[q].doc
                                   /\ request[q].pc \notin BeforePending
                         ELSE Owns(request[q].tenant, request[q].doc))'
    BY DEF UploadProgress
  <2>1. CASE q = p
    <3>1. n = [request[p] EXCEPT !.pc = call]
      BY <1>1, <2>1 DEF Busy
    <3>2. n.pc = call /\ n.doc = request[p].doc /\ n.tenant = request[p].tenant
      BY <3>1 DEF UploadRequest
    <3> QED
      BY <1>3, <1>6, <2>1, <3>2 DEF Lineage, UploadProgress, Owns
  <2>2. CASE q # p
    <3>1. Busy(q, "upload") /\ request'[q] = request[q]
      BY <1>1, <1>2, <2>2
    <3>2. request[q].doc[1] # row.id[1]
      BY <1>3, <1>4, <1>6, <2>2, <3>1 DEF Lineage, OneUploadPerFile
    <3> QED
      BY <1>5, <3>1, <3>2 DEF Lineage, UploadProgress, Owns
  <2> QED
    BY <2>1, <2>2
<1>11. RowsStored'
  BY <1>5, <1>6 DEF Lineage, RowsStored, Owns
<1>12. DeletesStored'
  <2>1. \A q \in Processes : Busy(q, "delete")' => q # p /\ request'[q] = request[q]
    BY <1>1, <1>2, <1>3 DEF Busy
  <2>2. \A q \in Processes : Busy(q, "delete") /\ request[q].pc # "get_row"
           => request[q].doc # row.id
    BY <1>7 DEF Lineage, DeletesStored, Owns
  <2> QED
    BY <1>5, <2>1, <2>2 DEF Lineage, DeletesStored, Busy, HasRow
<1> QED
  BY <1>7, <1>8, <1>9, <1>10, <1>11, <1>12 DEF Lineage

\* A new request is of no stored file.
Accepts(p, n) ==
    /\ request[p] = Idle
    /\ Becomes(p, n) /\ n # Idle /\ n.docs = {} /\ n.titled = {}
    /\ n.op = "delete" => n.pc = "get_row"
    /\ \/ \E f \in Files \ received :
            /\ n.op = "upload" /\ n.pc = "put_raw" /\ n.doc = DocId(f)
            /\ received' = received \cup {f}
       \/ n.op # "upload" /\ received' = received
    /\ UNCHANGED <<stores, replies, stored, unfinished>>

\* Accepting any request has that shape.
LEMMA AcceptShape ==
    ASSUME NEW p \in Processes, AcceptRequest(p)
    PROVE  \E n : Accepts(p, n)
<1> DEFINE new(op, call, t, d) ==
             [pc |-> call, op |-> op, tenant |-> t, doc |-> d,
              size |-> 0, docs |-> {}, titled |-> {}]
<1>1. /\ request[p] = Idle
      /\ UNCHANGED <<stores, replies, stored, unfinished>>
  BY DEF AcceptRequest, Upload, Delete, Query, List, Accept
<1>2. PICK t \in Tenants :
         \/ \E f \in Files \ received :
              Becomes(p, new("upload", "put_raw", t, DocId(f)))
                /\ received' = received \cup {f}
         \/ \E d \in DocIds : Becomes(p, new("delete", "get_row", t, d))
                /\ received' = received
         \/ Becomes(p, new("query", "search", t, NoDoc)) /\ received' = received
         \/ Becomes(p, new("list", "list_rows", t, NoDoc)) /\ received' = received
  BY DEF AcceptRequest, Upload, Delete, Query, List, Accept, Becomes
<1>3. ASSUME NEW f \in Files \ received, received' = received \cup {f},
             Becomes(p, new("upload", "put_raw", t, DocId(f)))
      PROVE  Accepts(p, new("upload", "put_raw", t, DocId(f)))
  BY <1>1, <1>3 DEF Accepts, Idle
<1>4. ASSUME NEW d \in DocIds, received' = received,
             Becomes(p, new("delete", "get_row", t, d))
      PROVE  Accepts(p, new("delete", "get_row", t, d))
  BY <1>1, <1>4 DEF Accepts, Idle
<1>5. ASSUME received' = received, Becomes(p, new("query", "search", t, NoDoc))
      PROVE  Accepts(p, new("query", "search", t, NoDoc))
  BY <1>1, <1>5 DEF Accepts, Idle
<1>6. ASSUME received' = received, Becomes(p, new("list", "list_rows", t, NoDoc))
      PROVE  Accepts(p, new("list", "list_rows", t, NoDoc))
  BY <1>1, <1>6 DEF Accepts, Idle
<1> QED
  BY <1>2, <1>3, <1>4, <1>5, <1>6

\* It keeps the lineage, because a file is uploaded once.
LEMMA AcceptKeepsLineage ==
    ASSUME TypeOK, Lineage, NEW p \in Processes, NEW n, Accepts(p, n)
    PROVE  Lineage'
<1> USE DEF Accepts
<1>1. \A q \in Processes : request'[q] = IF q = p THEN n ELSE request[q]
  BY DEF Becomes, TypeOK, WorkersTypeOK
<1>2. \A q \in Processes : Busy(q, "upload") =>
        request[q].doc = DocId(request[q].doc[1])
  BY DEF TypeOK, WorkersTypeOK, Request, UploadRequest, DeleteRequest,
         QueryRequest, ListRequest, Busy, DocId
<1>3. OneUploadPerFile'
  BY <1>1, <1>2 DEF Lineage, OneUploadPerFile, Busy, DocId
<1>4. OneOwnerPerFile'
  BY <1>1 DEF Lineage, OneUploadPerFile, OneOwnerPerFile, Busy, DocId
<1>5. UploadProgress'
  BY <1>1 DEF Lineage, OneUploadPerFile, UploadProgress, Busy, DocId, Owns, BeforeReady
<1>6. RowsStored'
  BY DEF Lineage, RowsStored, Owns, stores
<1>7. DeletesStored'
  BY <1>1 DEF Lineage, DeletesStored, Busy, Owns, HasRow, stores
<1> QED
  BY <1>3, <1>4, <1>5, <1>6, <1>7 DEF Lineage

\* Lineage holds at the start: nothing is stored.
LEMMA InitLineage == Init => Lineage
BY DEF Init, StoresInit, WorkersInit, Lineage, OneUploadPerFile, OneOwnerPerFile,
       UploadProgress, RowsStored, DeletesStored, Busy, Idle

\* Every step keeps it.
LEMMA NextLineage ==
    ASSUME TypeOK, Lineage, [Next]_vars
    PROVE  Lineage'
<1>1. CASE UNCHANGED vars
  BY <1>1 DEF vars, stores, Lineage, OneUploadPerFile, OneOwnerPerFile,
              UploadProgress, RowsStored, DeletesStored, Busy, Owns, HasRow
<1>2. ASSUME NEW p \in Processes, AcceptRequest(p) \/ HandlerStep(p) \/ Crash(p)
      PROVE  Lineage'
  BY <1>2, AcceptShape, AcceptKeepsLineage, UploadMoves, OthersMove, MoveKeepsLineage,
     StoreKeepsLineage DEF HandlerStep
<1> QED
  BY <1>1, <1>2 DEF Next, Quiet

-----------------------------------------------------------------------------
(* Ownership: the steps that only move a request                           *)

\* A deletion goes past its lookup only with its own tenant's document.
Continues(n, r) ==
    /\ n # Idle /\ n.op = r.op /\ n.tenant = r.tenant /\ n.doc = r.doc
    /\ (n.op = "delete" /\ n.pc # "get_row") => Owns(n.tenant, n.doc)

\* A step that stores no row and no foreign point keeps all of the invariant
\* but what is about the audit log.
LEMMA MoveKeepsRest ==
    ASSUME TypeOK, Ownership, Lineage', NEW p \in Processes, request[p] # Idle,
           NEW n, Becomes(p, n), n = Idle \/ Continues(n, request[p]),
           n # Idle => \A d \in n.docs \cup n.titled : Owns(n.tenant, d),
           RepliesOf(p), UNCHANGED stored,
           \A q \in points' : Owns(q.tenant, q.doc)
    PROVE  DeletesOwn' /\ HoldingsOwned'
<1>1. \A q \in Processes : request'[q] = IF q = p THEN n ELSE request[q]
  BY DEF Becomes, TypeOK, WorkersTypeOK
<1>2. DeletesOwn'
  BY <1>1 DEF Ownership, DeletesOwn, Continues, Owns, Busy
<1>3. HoldingsOwned'
  <2>1. (\A q \in points : Owns(q.tenant, q.doc))'
    BY DEF Owns
  <2>2. (\A q \in Processes : request[q] # Idle =>
           \A d \in request[q].docs \cup request[q].titled :
               Owns(request[q].tenant, d))'
    BY <1>1 DEF Ownership, HoldingsOwned, Owns
  <2>3. (\A a \in replies : \A d \in a.docs \cup a.titled : Owns(a.tenant, d))'
    BY DEF Ownership, HoldingsOwned, Owns, RepliesOf
  <2> QED
    BY <2>1, <2>2, <2>3 DEF HoldingsOwned
<1> QED
  BY <1>2, <1>3

\* If it does not audit either, it keeps the whole invariant.
LEMMA MoveKeepsOwnership ==
    ASSUME TypeOK, Ownership, Lineage', NEW p \in Processes, request[p] # Idle,
           NEW n, Becomes(p, n), n = Idle \/ Continues(n, request[p]),
           n # Idle => \A d \in n.docs \cup n.titled : Owns(n.tenant, d),
           RepliesOf(p), UNCHANGED <<stored, audit_log>>,
           documents' \subseteq documents,
           \A q \in points' : Owns(q.tenant, q.doc)
    PROVE  Ownership'
<1>1. AuditTellsTruth'
  BY DEF Ownership, AuditTellsTruth, HasRow
<1> QED
  BY <1>1, MoveKeepsRest DEF Ownership

\* What a request in flight has collected is owned by its tenant.
LEMMA OwnsCollected ==
    ASSUME Ownership, NEW p \in Processes, request[p] # Idle, NEW call
    PROVE  \A d \in [request[p] EXCEPT !.pc = call].docs
                 \cup [request[p] EXCEPT !.pc = call].titled :
              Owns([request[p] EXCEPT !.pc = call].tenant, d)
BY DEF Ownership, HoldingsOwned

-----------------------------------------------------------------------------
(* Ownership: accepting requests                                           *)

\* A new request has collected nothing.
LEMMA AcceptOwnership ==
    ASSUME TypeOK, Ownership, Lineage', NEW p \in Processes, AcceptRequest(p)
    PROVE  Ownership'
<1>1. PICK n : Accepts(p, n)
  BY AcceptShape
<1>2. \A q \in Processes : request'[q] = IF q = p THEN n ELSE request[q]
  BY <1>1 DEF Accepts, Becomes, TypeOK, WorkersTypeOK
<1>3. DeletesOwn'
  BY <1>1, <1>2 DEF Accepts, Ownership, DeletesOwn, Busy, Owns
<1>4. HoldingsOwned'
  BY <1>1, <1>2 DEF Accepts, Ownership, HoldingsOwned, Owns, stores
<1>5. AuditTellsTruth'
  BY <1>1 DEF Accepts, Ownership, AuditTellsTruth, HasRow, stores
<1> QED
  BY <1>3, <1>4, <1>5 DEF Ownership

-----------------------------------------------------------------------------
(* Ownership: uploads                                                      *)

\* The row an upload stores has an id that was in no row before.
LEMMA StoreOwnership ==
    ASSUME TypeOK, Ownership, NEW p \in Processes, NEW row, NEW call,
           StoresRow(p, row, call), RepliesOf(p), UNCHANGED <<audit_log, points>>
    PROVE  Ownership'
<1>1. Lineage' /\ \A x \in stored : x[1] # row.id
  BY StoreKeepsLineage DEF Ownership
<1>2. /\ \A q \in Processes \ {p} : request'[q] = request[q]
      /\ request'[p] = Idle \/ request'[p] = [request[p] EXCEPT !.pc = call]
  BY DEF StoresRow, Becomes, TypeOK, WorkersTypeOK
<1>3. request[p] \in UploadRequest /\ documents' = documents \cup {row}
        /\ stored' = stored \cup {<<row.id, row.tenant>>}
  BY DEF StoresRow
<1>4. \A d, t : Owns(t, d) => Owns(t, d)'
  BY <1>3 DEF Owns
<1>5. DeletesOwn'
  BY <1>2, <1>3, <1>4 DEF Ownership, DeletesOwn, Busy, UploadRequest
<1>6. HoldingsOwned'
  <2>1. (\A q \in Processes : request[q] # Idle =>
           \A d \in request[q].docs \cup request[q].titled :
               Owns(request[q].tenant, d))'
    BY <1>2, <1>3, <1>4 DEF Ownership, HoldingsOwned, UploadRequest
  <2>2. (\A a \in replies : \A d \in a.docs \cup a.titled : Owns(a.tenant, d))'
    BY <1>3, <1>4 DEF Ownership, HoldingsOwned, RepliesOf, UploadRequest
  <2> QED
    BY <1>4, <2>1, <2>2 DEF Ownership, HoldingsOwned
<1>7. AuditTellsTruth'
  BY <1>1, <1>3 DEF Ownership, AuditTellsTruth, HasRow
<1> QED
  BY <1>1, <1>5, <1>6, <1>7 DEF Ownership

\* The steps of an upload keep the invariant: they show and record nothing,
\* and what they index belongs to the document they stored.
LEMMA UploadOwnership ==
    ASSUME TypeOK, Ownership, Lineage', TypeOK', NEW p \in Processes, UploadStep(p)
    PROVE  Ownership'
<1> DEFINE r == request[p]
<1>1. r \in UploadRequest /\ r # Idle /\ Busy(p, "upload")
  BY HandlerAt DEF UploadStep, PutRaw, PersistPending, PutOcr, CommitReady, PutRedacted,
                   IndexEmpty, Upsert, ChunkRows, At, UploadCalls, Idle, UploadRequest, Busy
<1>2. RepliesOf(p)
  <2>1. CASE IndexEmpty(p) \/ Upsert(p)
    <3>1. UNCHANGED replies \/ Error(p)
      BY <2>1 DEF IndexEmpty, Upsert
    <3> QED
      BY <3>1, AnswerShape DEF Error, RepliesOf
  <2> QED
    BY <2>1, ProceedShape, AnswerShape
       DEF UploadStep, PutRaw, PersistPending, PutOcr, CommitReady, PutRedacted,
           ChunkRows, Error
<1>3. UNCHANGED audit_log
  BY DEF UploadStep, PutRaw, PersistPending, PutOcr, CommitReady, PutRedacted,
         IndexEmpty, Upsert, ChunkRows, stores
<1>4. \A q \in points' : Owns(q.tenant, q.doc)
  <2>1. CASE Upsert(p)
    <3>1. Owns(r.tenant, r.doc)
      BY <1>1, <2>1 DEF Ownership, Lineage, UploadProgress, BeforeReady, Upsert, At
    <3>2. \A q \in points' : q \in points \/ (q.tenant = r.tenant /\ q.doc = r.doc)
      BY <2>1 DEF Upsert, ChunksOf
    <3> QED
      BY <3>1, <3>2 DEF Ownership, HoldingsOwned
  <2>2. CASE UNCHANGED points
    BY <2>2 DEF Ownership, HoldingsOwned
  <2> QED
    BY <2>1, <2>2
       DEF UploadStep, PutRaw, PersistPending, PutOcr, CommitReady, PutRedacted,
           IndexEmpty, ChunkRows, stores
<1>5. CASE Moves(p)
  <2>1. PICK n : Becomes(p, n) /\ (n = Idle \/ Onward(n, r))
    BY <1>5 DEF Moves
  <2>2. n # Idle => Continues(n, r)
    BY <1>1, <2>1 DEF Onward, Continues, UploadRequest
  <2>3. n # Idle => n.docs = {} /\ n.titled = {}
    <3>1. request'[p] = n
      BY <2>1 DEF Becomes, TypeOK, WorkersTypeOK
    <3>2. n # Idle => n \in Request /\ n.op = "upload"
      BY <1>1, <2>1, <3>1 DEF Onward, UploadRequest, TypeOK, WorkersTypeOK
    <3> QED
      BY <3>2 DEF Request, UploadRequest, DeleteRequest, QueryRequest, ListRequest
  <2> QED
    BY <1>1, <1>2, <1>3, <1>4, <1>5, <2>1, <2>2, <2>3, MoveKeepsOwnership DEF Moves, Owns
<1>6. ASSUME NEW row, NEW call, StoresRow(p, row, call)
      PROVE  Ownership'
  <2>1. UNCHANGED points
    BY <1>6 DEF UploadStep, PutRaw, PersistPending, PutOcr, CommitReady, PutRedacted,
                IndexEmpty, Upsert, ChunkRows, stores, StoresRow, At, BeforeReady
  <2> QED
    BY <1>2, <1>3, <1>6, <2>1, StoreOwnership
<1> QED
  BY <1>5, <1>6, UploadMoves

-----------------------------------------------------------------------------
(* Ownership: deletions, queries, listings                                 *)

\* The steps of a deletion keep the invariant if the policies apply: the
\* row it looked up is its tenant's.
LEMMA DeleteOwnership ==
    ASSUME TypeOK, Ownership, Lineage', RlsApplies, NEW p \in Processes, DeleteStep(p)
    PROVE  Ownership'
<1> DEFINE r == request[p]
           next(call) == [r EXCEPT !.pc = call]
<1>1. r \in DeleteRequest /\ r # Idle
  BY HandlerAt
     DEF DeleteStep, GetRow, CommitDelete, DeletePoints, At, DeleteCalls, Idle
<1>2. Busy(p, "delete")
  BY <1>1 DEF Busy, DeleteRequest
<1>3. \A call : next(call).pc = call /\ next(call).op = "delete"
         /\ next(call).doc = r.doc /\ next(call).tenant = r.tenant /\ r.op = "delete"
  BY <1>1 DEF DeleteRequest
<1>4. \A q \in points : Owns(q.tenant, q.doc)
  BY DEF Ownership, HoldingsOwned
<1>5. CASE GetRow(p)
  <2>1. UNCHANGED <<stored, received, audit_log, documents, points>>
    BY <1>5 DEF GetRow, stores
  <2>2. CASE \E row \in VisibleTo(r.tenant) : row.id = r.doc
    <3>1. Becomes(p, next("commit_delete")) /\ RepliesOf(p)
      BY <1>5, <2>2 DEF GetRow, Goto, Becomes, RepliesOf, TypeOK, WorkersTypeOK
    <3>2. Owns(r.tenant, r.doc)
      BY <2>2 DEF VisibleTo, Ownership, Lineage, RowsStored
    <3>3. Continues(next("commit_delete"), r)
      BY <1>1, <1>3, <3>2 DEF Continues, Idle
    <3> QED
      BY <1>1, <1>4, <2>1, <3>1, <3>3, MoveKeepsOwnership, OwnsCollected DEF Owns
  <2>3. CASE ~ \E row \in VisibleTo(r.tenant) : row.id = r.doc
    <3>1. Becomes(p, Idle) /\ RepliesOf(p)
      BY <1>5, <2>3, AnswerShape DEF GetRow
    <3> QED
      BY <1>1, <1>4, <2>1, <3>1, MoveKeepsOwnership DEF Owns
  <2> QED
    BY <2>2, <2>3
<1>6. CASE CommitDelete(p)
  <2>1. UNCHANGED <<stored, received, audit_log, points>>
    BY <1>6 DEF CommitDelete
  <2>2. documents' \subseteq documents /\ \A row \in documents' : row.id # r.doc
    BY <1>6 DEF CommitDelete, DeleteRow, HasRow
  <2>3. Owns(r.tenant, r.doc)
    BY <1>2, <1>6 DEF Ownership, DeletesOwn, CommitDelete, At
  <2>4. (Becomes(p, Idle) \/ Becomes(p, next("delete_points"))) /\ RepliesOf(p)
    BY <1>6, ProceedShape DEF CommitDelete
  <2>5. Continues(next("delete_points"), r)
    BY <1>1, <1>3, <2>2, <2>3 DEF Continues, Idle
  <2> QED
    BY <1>1, <1>4, <2>1, <2>2, <2>4, <2>5, MoveKeepsOwnership, OwnsCollected DEF Owns
<1>7. CASE DeletePoints(p)
  <2>1. UNCHANGED <<stored, received, audit_log, documents>>
    BY <1>7 DEF DeletePoints
  <2>2. points' \subseteq points
    BY <1>7 DEF DeletePoints, PointsWithout
  <2>3. Owns(r.tenant, r.doc)
    BY <1>2, <1>7 DEF Ownership, DeletesOwn, DeletePoints, At
  <2>4. Becomes(p, next("audit")) /\ RepliesOf(p)
    BY <1>7 DEF DeletePoints, Goto, Becomes, RepliesOf, TypeOK, WorkersTypeOK
  <2>5. Continues(next("audit"), r)
    BY <1>1, <1>3, <2>1, <2>3 DEF Continues, Idle, HasRow
  <2> QED
    BY <1>1, <1>4, <2>1, <2>2, <2>4, <2>5, MoveKeepsOwnership, OwnsCollected DEF Owns
<1> QED
  BY <1>5, <1>6, <1>7 DEF DeleteStep

\* Search finds points of the tenant, the title lookup and the listing see
\* its rows if the policies apply: what a read collects is the tenant's.
LEMMA QueryOwnership ==
    ASSUME TypeOK, Ownership, Lineage', RlsApplies, NEW p \in Processes, QueryStep(p)
    PROVE  Ownership'
<1> DEFINE r == request[p]
<1>1. UNCHANGED <<stored, received, audit_log, documents, points>> /\ RepliesOf(p)
  BY DEF QueryStep, Search, ResolveTitles, ListRows, stores, RepliesOf
<1>2. \A q \in points : Owns(q.tenant, q.doc)
  BY DEF Ownership, HoldingsOwned
<1>3. \A row \in VisibleTo(r.tenant) : Owns(r.tenant, row.id)
  BY DEF VisibleTo, Ownership, Lineage, RowsStored
<1>4. r # Idle /\ r \in QueryRequest \cup ListRequest
  BY HandlerAt
     DEF QueryStep, Search, ResolveTitles, ListRows, At, QueryCalls, ListCalls, Idle
<1>5. \A d \in r.docs \cup r.titled : Owns(r.tenant, d)
  BY <1>4 DEF Ownership, HoldingsOwned
<1>6. \E n : /\ Becomes(p, n) /\ Continues(n, r)
             /\ \A d \in n.docs \cup n.titled : Owns(n.tenant, d)
  <2>1. CASE Search(p)
    <3>1. PICK hits \in SearchResults(r.tenant) :
             request' = [request EXCEPT ![p].pc = "resolve_titles",
                                        ![p].docs = {h.doc : h \in hits}]
      BY <2>1 DEF Search
    <3> DEFINE found == {h.doc : h \in hits}
               n == [r EXCEPT !.pc = "resolve_titles", !.docs = found]
    <3>2. \A d \in found : Owns(r.tenant, d)
      BY <1>2 DEF SearchResults
    <3> HIDE DEF found
    <3>3. Becomes(p, n)
      BY <3>1 DEF Becomes, TypeOK, WorkersTypeOK, found
    <3>4. Continues(n, r) /\ n.docs = found /\ n.titled = r.titled /\ n.tenant = r.tenant
      BY <1>4 DEF Continues, QueryRequest, ListRequest, Idle
    <3> QED
      BY <1>5, <3>2, <3>3, <3>4
  <2>2. CASE ResolveTitles(p)
    <3>1. PICK titled \in SUBSET r.docs :
             request' = [request EXCEPT ![p].pc = "audit", ![p].titled = titled]
      BY <2>2 DEF ResolveTitles
    <3> DEFINE n == [r EXCEPT !.pc = "audit", !.titled = titled]
    <3>2. Becomes(p, n)
      BY <3>1 DEF Becomes, TypeOK, WorkersTypeOK
    <3>3. Continues(n, r) /\ n.docs = r.docs /\ n.titled = titled /\ n.tenant = r.tenant
      BY <1>4 DEF Continues, QueryRequest, ListRequest, Idle
    <3> QED
      BY <1>5, <3>1, <3>2, <3>3
  <2>3. CASE ListRows(p)
    <3> DEFINE shown == {row.id : row \in VisibleTo(r.tenant)}
               n == [r EXCEPT !.pc = "respond", !.docs = shown]
    <3>1. \A d \in shown : Owns(r.tenant, d)
      BY <1>3
    <3> HIDE DEF shown
    <3>2. Becomes(p, n)
      BY <2>3 DEF ListRows, Becomes, TypeOK, WorkersTypeOK, shown
    <3>3. Continues(n, r) /\ n.docs = shown /\ n.titled = r.titled /\ n.tenant = r.tenant
      BY <1>4 DEF Continues, QueryRequest, ListRequest, Idle
    <3> QED
      BY <1>5, <3>1, <3>2, <3>3
  <2> QED
    BY <2>1, <2>2, <2>3 DEF QueryStep
<1> QED
  BY <1>1, <1>2, <1>4, <1>6, MoveKeepsOwnership DEF Owns

\* The audit insert records what its request did, and the other ways a
\* request ends change no store.
LEMMA LastOwnership ==
    ASSUME TypeOK, Ownership, Lineage', NEW p \in Processes,
           Audit(p) \/ Respond(p) \/ CallFails(p) \/ Crash(p)
    PROVE  Ownership'
<1> DEFINE r == request[p]
<1>1. r \in Request /\ r # Idle
  BY HandlerAt, BusyHasRequest
     DEF Audit, Respond, CallFails, Crash, At, LastCalls, Idle
<1>2. \A q \in points : Owns(q.tenant, q.doc)
  BY DEF Ownership, HoldingsOwned
<1>3. CASE Respond(p) \/ CallFails(p) \/ Crash(p)
  <2>1. UNCHANGED <<stored, received, audit_log, documents, points>>
    BY <1>3 DEF Respond, CallFails, Crash, stores
  <2>2. Becomes(p, Idle) /\ RepliesOf(p)
    BY <1>3, AnswerShape DEF Respond, CallFails, Crash, Error, Becomes, RepliesOf
  <2> QED
    BY <1>1, <1>2, <2>1, <2>2, MoveKeepsOwnership DEF Owns
<1>4. CASE Audit(p)
  <2> DEFINE e == [action |-> r.op, tenant |-> r.tenant, docs |-> AuditDocs(r)]
             n == [r EXCEPT !.pc = "respond"]
  <2>1. r.pc = "audit" /\ r \notin ListRequest
    BY <1>4, HandlerAt DEF Audit, At
  <2>2. /\ audit_log' = Append(audit_log, e) \/ audit_log' = audit_log
        /\ UNCHANGED <<stored, received, documents, points>>
    BY <1>4 DEF Audit
  <2>3. (Becomes(p, Idle) \/ Becomes(p, n)) /\ RepliesOf(p)
    BY <1>4, ProceedShape, AnswerShape DEF Audit, Error
  <2>4. Continues(n, r)
    <3>1. n.pc = "respond" /\ n.op = r.op /\ n.tenant = r.tenant /\ n.doc = r.doc
      BY <1>1 DEF Request, UploadRequest, DeleteRequest, QueryRequest, ListRequest
    <3>2. r.op = "delete" => Owns(r.tenant, r.doc)
      BY <1>1, <2>1 DEF Ownership, DeletesOwn, Busy
    <3> QED
      BY <1>1, <2>1, <2>2, <3>1, <3>2
         DEF Continues, Idle
  <2>5. \A d \in e.docs :
           /\ <<d, e.tenant>> \in stored
           /\ e.action = "delete" => ~HasRow(d)
    <3>1. CASE r \in UploadRequest
      BY <1>1, <2>1, <3>1
         DEF Ownership, Lineage, UploadProgress, Busy, Owns, BeforeReady, UploadRequest,
             AuditDocs
    <3>2. CASE r \in DeleteRequest
      BY <1>1, <2>1, <3>2
         DEF Ownership, Lineage, DeletesStored, DeletesOwn, Busy, Owns, DeleteRequest,
             AuditDocs
    <3>3. CASE r \in QueryRequest
      BY <1>1, <3>3 DEF Ownership, HoldingsOwned, Owns, QueryRequest, AuditDocs
    <3> QED
      BY <1>1, <2>1, <3>1, <3>2, <3>3 DEF Request
  <2>6. AuditTellsTruth'
    <3> HIDE DEF e
    <3>1. \A i \in DOMAIN audit_log' :
             \/ i \in DOMAIN audit_log /\ audit_log'[i] = audit_log[i]
             \/ audit_log'[i] = e
      BY <2>2 DEF TypeOK, StoresTypeOK
    <3> QED
      BY <2>2, <2>5, <3>1 DEF Ownership, AuditTellsTruth, HasRow
  <2> HIDE DEF e
  <2>7. DeletesOwn' /\ HoldingsOwned'
    BY <1>1, <1>2, <2>2, <2>3, <2>4, MoveKeepsRest, OwnsCollected DEF Owns
  <2> QED
    BY <2>6, <2>7 DEF Ownership
<1> QED
  BY <1>3, <1>4

-----------------------------------------------------------------------------
(* The ownership theorems                                                  *)

\* Ownership holds at the start: nothing is stored.
LEMMA InitOwnership == Init => Ownership
BY InitLineage
   DEF Init, StoresInit, WorkersInit, Ownership, DeletesOwn, HoldingsOwned,
       AuditTellsTruth, Busy, Idle

\* Every step keeps it.
LEMMA NextOwnership ==
    ASSUME RlsApplies, TypeOK, Ownership, [Next]_vars
    PROVE  Ownership'
<1>1. Lineage' /\ TypeOK'
  BY NextLineage, NextType DEF Ownership
<1>2. CASE UNCHANGED vars
  BY <1>1, <1>2 DEF vars, stores, Ownership, DeletesOwn, HoldingsOwned,
                    AuditTellsTruth, Busy, Owns, HasRow
<1>3. ASSUME NEW p \in Processes, AcceptRequest(p) \/ HandlerStep(p) \/ Crash(p)
      PROVE  Ownership'
  BY <1>1, <1>3, AcceptOwnership, UploadOwnership, DeleteOwnership, QueryOwnership,
     LastOwnership DEF HandlerStep
<1> QED
  BY <1>2, <1>3 DEF Next, Quiet

\* Whatever the policies say, the ids of a file are stored by one tenant in
\* one upload, every row was stored by its tenant, and a document that is
\* past a deletion's commit has no row: it cannot come back.
THEOREM LineageHolds == Spec => []Lineage
<1>1. Init => TypeOK /\ Lineage
  BY InitType, InitLineage
<1>2. TypeOK /\ Lineage /\ [Next]_vars => (TypeOK /\ Lineage)'
  BY NextType, NextLineage
<1> QED
  BY <1>1, <1>2, PTL DEF Spec

\* With the row-level policies in force, the ids of a file have one owner,
\* and requests, points, rows and replies only hold what their tenant owns.
THEOREM OwnershipHolds ==
    ASSUME RlsApplies
    PROVE  Spec => []Ownership
<1>1. Init => TypeOK /\ Ownership
  BY InitType, InitOwnership
<1>2. TypeOK /\ Ownership /\ [Next]_vars => (TypeOK /\ Ownership)'
  BY NextType, NextOwnership
<1> QED
  BY <1>1, <1>2, PTL DEF Spec

\* The audit log never claims a deletion that did not happen, or a document
\* its tenant never stored.
THEOREM AuditLogTruthful ==
    ASSUME RlsApplies
    PROVE  Spec => []AuditTellsTruth
<1>1. Ownership => AuditTellsTruth
  BY DEF Ownership
<1> QED
  BY <1>1, OwnershipHolds, PTL

\* No reply shows a tenant a document another tenant stored.
THEOREM AnswersIsolated ==
    ASSUME RlsApplies
    PROVE  Spec => []AnswersStayInTenant
<1>1. Ownership => AnswersStayInTenant
  BY DEF Ownership, HoldingsOwned, Lineage, OneOwnerPerFile, Owns, AnswersStayInTenant
<1> QED
  BY <1>1, OwnershipHolds, PTL
=============================================================================
