------------------------ MODULE DocumentIntegrityProofs ------------------------
(***************************************************************************)
(* Theorems about what the tables, the bucket, the vector store and the    *)
(* audit log have in common although no transaction spans them: Integrity  *)
(* holds with or without row-level security; with it no orphan is left     *)
(* unaccounted for, requests change only what is their tenant's, and the   *)
(* handlers implement TenantLibrary.                                       *)
(***************************************************************************)
EXTENDS DocumentServiceProofs

-----------------------------------------------------------------------------
(* The steps of the service                                                *)

\* Everything a process does.
Step(p) == AcceptRequest(p) \/ HandlerStep(p) \/ Crash(p)

\* From one call of an upload to the next.
UploadGoesOn(p) ==
    LET r == request[p]
        n == request'[p]
    IN  /\ r \in UploadRequest /\ n \in UploadRequest
        /\ n.doc = r.doc /\ n.tenant = r.tenant
        /\ \/ PutRaw(p) /\ n.pc = "persist_pending"
           \/ PersistPending(p) /\ n.pc = "put_ocr"
           \/ PutOcr(p) /\ n.pc = "commit_ready"
           \/ CommitReady(p) /\ n.pc = "put_redacted"
           \/ PutRedacted(p) /\ n.pc = "upsert"
           \/ IndexEmpty(p) /\ n.pc = "audit"
           \/ /\ Upsert(p) /\ n.pc = "chunk_rows"
              /\ points' = points \cup ChunksOf(n.tenant, n.doc, n.size)
           \/ ChunkRows(p) /\ HasRow(r.doc) /\ n.pc = "audit"
           \/ Audit(p) /\ n.pc = "respond"

\* A request in flight keeps its operation, and the other processes theirs.
LEMMA OneMoves ==
    ASSUME TypeOK, Lineage, NEW p \in Processes, HandlerStep(p) \/ Crash(p)
    PROVE  /\ request[p] # Idle
           /\ request'[p] = Idle \/ request'[p].op = request[p].op
           /\ \A q \in Processes \ {p} : request'[q] = request[q]
<1>1. /\ request[p] # Idle
      /\ \E n : Becomes(p, n) /\ (n = Idle \/ n.op = request[p].op)
  <2>1. CASE Moves(p)
    BY <2>1 DEF Moves, Onward
  <2>2. ASSUME NEW row, NEW call, StoresRow(p, row, call)
        PROVE  /\ request[p] # Idle
               /\ \E n : Becomes(p, n) /\ (n = Idle \/ n.op = request[p].op)
    <3>1. [request[p] EXCEPT !.pc = call].op = request[p].op
      BY <2>2 DEF StoresRow, UploadRequest
    <3> QED
      BY <2>2, <3>1 DEF StoresRow
  <2> QED
    BY <2>1, <2>2, UploadMoves, OthersMove DEF HandlerStep
<1> QED
  BY <1>1 DEF Becomes, TypeOK, WorkersTypeOK

\* In any step of a process the others keep their requests.
LEMMA OthersWait ==
    ASSUME TypeOK, Lineage, NEW p \in Processes, Step(p)
    PROVE  \A q \in Processes \ {p} : request'[q] = request[q]
<1>1. AcceptRequest(p) => \A q \in Processes \ {p} : request'[q] = request[q]
  BY AcceptShape DEF Accepts, Becomes, TypeOK, WorkersTypeOK
<1> QED
  BY <1>1, OneMoves DEF Step

\* The calls of an upload are those.
LEMMA UploadOrder ==
    ASSUME TypeOK, TypeOK', NEW p \in Processes, HandlerStep(p) \/ Crash(p),
           Busy(p, "upload"), request'[p] # Idle
    PROVE  UploadGoesOn(p)
<1> DEFINE r == request[p]
           n == request'[p]
<1>1. r \in UploadRequest
  BY DEF Busy, TypeOK, WorkersTypeOK, Request, UploadRequest, DeleteRequest,
         QueryRequest, ListRequest
<1>2. \A code : ~Answer(p, code)
  BY DEF Answer, TypeOK, WorkersTypeOK
<1>3. \A service, call : Proceed(p, service, call) => n = [r EXCEPT !.pc = call]
  BY <1>2 DEF Proceed, Error, Goto, TypeOK, WorkersTypeOK
<1>4. ASSUME NEW call, n = [r EXCEPT !.pc = call]
      PROVE  n.pc = call /\ n.doc = r.doc /\ n.tenant = r.tenant /\ n.op = r.op
  BY <1>1, <1>4 DEF UploadRequest
<1>5. ASSUME n.op = "upload"
      PROVE  n \in UploadRequest
  BY <1>5 DEF TypeOK, WorkersTypeOK, Request, UploadRequest, DeleteRequest,
              QueryRequest, ListRequest
<1>6. ~Crash(p) /\ ~CallFails(p) /\ ~Respond(p)
  BY <1>2 DEF Crash, CallFails, Respond, Error, TypeOK, WorkersTypeOK
<1>7. ~QueryStep(p) /\ ~DeleteStep(p)
  BY <1>1, HandlerAt
     DEF QueryStep, Search, ResolveTitles, ListRows, DeleteStep, GetRow, CommitDelete,
         DeletePoints, At, UploadRequest, UploadCalls, LastCalls
<1>8. r.op = "upload"
  BY <1>1 DEF UploadRequest
<1>9. CASE Upsert(p)
  <2>1. PICK k \in 1..MaxChunks :
           /\ points' = points \cup ChunksOf(r.tenant, r.doc, k)
           /\ request' = [request EXCEPT ![p].pc = "chunk_rows", ![p].size = k]
    BY <1>2, <1>9 DEF Upsert, Error
  <2>2. n = [r EXCEPT !.pc = "chunk_rows", !.size = k]
    BY <2>1 DEF TypeOK, WorkersTypeOK
  <2>3. /\ n.pc = "chunk_rows" /\ n.doc = r.doc /\ n.tenant = r.tenant /\ n.op = r.op
        /\ n.size = k
    BY <1>1, <2>2 DEF UploadRequest
  <2> QED
    BY <1>1, <1>5, <1>8, <1>9, <2>1, <2>3 DEF UploadGoesOn
<1>10. CASE IndexEmpty(p)
  <2>1. n = [r EXCEPT !.pc = "audit"]
    BY <1>10 DEF IndexEmpty, Goto, TypeOK, WorkersTypeOK
  <2> QED
    BY <1>1, <1>4, <1>5, <1>8, <1>10, <2>1 DEF UploadGoesOn
<1>11. ASSUME NEW call, n = [r EXCEPT !.pc = call],
              \/ PutRaw(p) /\ call = "persist_pending"
              \/ PersistPending(p) /\ call = "put_ocr"
              \/ PutOcr(p) /\ call = "commit_ready"
              \/ CommitReady(p) /\ call = "put_redacted"
              \/ PutRedacted(p) /\ call = "upsert"
              \/ ChunkRows(p) /\ HasRow(r.doc) /\ call = "audit"
              \/ Audit(p) /\ call = "respond"
       PROVE  UploadGoesOn(p)
  BY <1>1, <1>4, <1>5, <1>8, <1>11 DEF UploadGoesOn
<1>12. CASE PutRaw(p) \/ PutOcr(p) \/ PutRedacted(p) \/ CommitReady(p)
  BY <1>3, <1>11, <1>12 DEF PutRaw, PutOcr, PutRedacted, CommitReady
<1>13. CASE PersistPending(p) \/ ChunkRows(p) \/ Audit(p)
  BY <1>2, <1>3, <1>11, <1>13 DEF PersistPending, ChunkRows, Audit, Error
<1> QED
  BY <1>6, <1>7, <1>9, <1>10, <1>12, <1>13 DEF HandlerStep, UploadStep

\* An upload in flight after a step of p is another process's, was just
\* accepted, or went on to its next call.
LEMMA UploadsAfter ==
    ASSUME TypeOK, TypeOK', Lineage, NEW p \in Processes, Step(p),
           NEW q \in Processes, Busy(q, "upload")'
    PROVE  \/ q # p /\ Busy(q, "upload") /\ request'[q] = request[q]
           \/ /\ q = p /\ UNCHANGED stores /\ request'[p].pc = "put_raw"
              /\ \E f \in Files \ received :
                    request'[p].doc = DocId(f) /\ received' = received \cup {f}
           \/ q = p /\ Busy(p, "upload") /\ UploadGoesOn(p)
<1>1. CASE AcceptRequest(p)
  <2>1. PICK n : Accepts(p, n)
    BY <1>1, AcceptShape
  <2>2. \A x \in Processes : request'[x] = IF x = p THEN n ELSE request[x]
    BY <2>1 DEF Accepts, Becomes, TypeOK, WorkersTypeOK
  <2> QED
    BY <2>1, <2>2 DEF Accepts, Busy
<1>2. CASE HandlerStep(p) \/ Crash(p)
  BY <1>2, OneMoves, UploadOrder DEF Busy
<1> QED
  BY <1>1, <1>2 DEF Step

\* The steps that touch a table.
LEMMA TableSteps ==
    ASSUME NEW p \in Processes, Step(p)
    PROVE  \/ UNCHANGED <<documents, chunks, redactions>>
           \/ PersistPending(p)
           \/ CommitReady(p)
           \/ ChunkRows(p) /\ HasRow(request[p].doc)
           \/ CommitDelete(p)
<1>1. AcceptRequest(p) => UNCHANGED stores
  BY AcceptShape DEF Accepts
<1> QED
  BY <1>1
     DEF Step, HandlerStep, UploadStep, PutRaw, PutOcr, PutRedacted, IndexEmpty, Upsert,
         ChunkRows, DeleteStep, GetRow, DeletePoints, QueryStep, Search, ResolveTitles,
         ListRows, Audit, Respond, CallFails, Crash, stores

\* The two commits of an upload add a row with an id that was in no row.
LEMMA PendingCommit ==
    ASSUME TypeOK, Lineage, NEW p \in Processes, PersistPending(p)
    PROVE  \/ UNCHANGED <<documents, stored>>
           \/ \E row : /\ documents' = documents \cup {row}
                       /\ stored' = stored \cup {<<row.id, row.tenant>>}
                       /\ row.id = PlaceholderId(row.file) /\ row.status = "pending"
                       /\ row.file = request[p].doc[1]
                       /\ row.tenant = request[p].tenant /\ row.entities = 0
                       /\ \A x \in stored : x[1] # row.id
<1> DEFINE r == request[p]
           row == [id |-> PlaceholderId(r.doc[1]), tenant |-> r.tenant,
                   file |-> r.doc[1], status |-> "pending", entities |-> 0]
<1>1. r \in UploadRequest /\ r.pc = "persist_pending" /\ Busy(p, "upload")
  BY HandlerAt DEF PersistPending, At, UploadCalls, UploadRequest, Busy, Idle
<1>2. \A x \in stored : x[1] # row.id
  BY <1>1, UploadFields
     DEF Lineage, UploadProgress, BeforeReady, BeforePending, PlaceholderId
<1>3. \/ UNCHANGED <<documents, stored>>
      \/ /\ documents' = documents \cup {row}
         /\ stored' = stored \cup {<<row.id, row.tenant>>}
  BY DEF PersistPending
<1> QED
  BY <1>2, <1>3

LEMMA ReadyCommit ==
    ASSUME TypeOK, Lineage, NEW p \in Processes, CommitReady(p)
    PROVE  \E k \in 0..MaxEntities :
             /\ documents' = documents \cup {ReadyRow(request[p], k)}
             /\ stored' = stored \cup {<<request[p].doc, request[p].tenant>>}
             /\ redactions' = redactions \cup RedactionsOf(request[p], k)
             /\ \A x \in stored : x[1] # request[p].doc
<1> DEFINE r == request[p]
<1>1. r \in UploadRequest /\ r.pc = "commit_ready" /\ Busy(p, "upload")
  BY HandlerAt DEF CommitReady, At, UploadCalls, UploadRequest, Busy, Idle
<1>2. \A x \in stored : x[1] # r.doc
  BY <1>1 DEF Lineage, UploadProgress, BeforeReady
<1> QED
  BY <1>2 DEF CommitReady

-----------------------------------------------------------------------------
(* Tables                                                                  *)

\* The rows of a document and their child rows stay together.
LEMMA TablesKept ==
    ASSUME TypeOK, Lineage, ChildRowsBelong, NEW p \in Processes, Step(p)
    PROVE  ChildRowsBelong'
<1> DEFINE r == request[p]
<1>1. \A row \in documents : Owns(row.tenant, row.id)
  BY DEF Lineage, RowsStored
<1>2. \A c \in chunks \cup redactions : \E row \in documents : row.id = c.doc
  BY DEF ChildRowsBelong
<1>3. CASE UNCHANGED <<documents, chunks, redactions>>
  BY <1>3 DEF ChildRowsBelong
<1>4. ASSUME NEW row, documents' = documents \cup {row},
             \A x \in stored : x[1] # row.id
      PROVE  /\ \A u, v \in documents' : u.id = v.id => u = v
             /\ \A u \in documents : u.id # row.id
             /\ \A c \in chunks \cup redactions : c.doc # row.id
  <2>1. \A u \in documents : u.id # row.id
    <3> SUFFICES ASSUME NEW u \in documents PROVE u.id # row.id
      OBVIOUS
    <3>1. <<u.id, u.tenant>> \in stored /\ <<u.id, u.tenant>>[1] = u.id
      BY <1>1 DEF Owns
    <3> QED
      BY <1>4, <3>1
  <2> QED
    BY <1>2, <1>4, <2>1 DEF ChildRowsBelong
<1>5. CASE PersistPending(p)
  <2>1. CASE UNCHANGED documents
    BY <1>5, <2>1 DEF PersistPending, ChildRowsBelong
  <2>2. ASSUME NEW row, documents' = documents \cup {row}, row.entities = 0,
               \A x \in stored : x[1] # row.id
        PROVE  ChildRowsBelong'
    <3>1. UNCHANGED <<chunks, redactions>>
      BY <1>5 DEF PersistPending
    <3>2. 1..0 = {}
      OBVIOUS
    <3>3. \A u \in documents' : {s.n : s \in {s \in redactions' : s.doc = u.id}} = 1..u.entities
      <4> SUFFICES ASSUME NEW u \in documents'
                   PROVE  {s.n : s \in {s \in redactions : s.doc = u.id}} = 1..u.entities
        BY <3>1
      <4>1. CASE u \in documents
        BY <4>1 DEF ChildRowsBelong
      <4>2. CASE u = row
        <5>1. {s \in redactions : s.doc = u.id} = {}
          BY <1>4, <2>2, <4>2
        <5> QED
          BY <2>2, <3>2, <4>2, <5>1
      <4> QED
        BY <2>2, <4>1, <4>2
    <3> QED
      BY <1>4, <2>2, <3>1, <3>3 DEF ChildRowsBelong
  <2> QED
    BY <1>5, <2>1, <2>2, PendingCommit
<1>6. CASE CommitReady(p)
  <2>1. PICK k \in 0..MaxEntities :
             /\ documents' = documents \cup {ReadyRow(r, k)}
             /\ redactions' = redactions \cup RedactionsOf(r, k)
             /\ \A x \in stored : x[1] # r.doc
    BY <1>6, ReadyCommit
  <2> DEFINE row == ReadyRow(r, k)
  <2>2. row.id = r.doc /\ row.tenant = r.tenant /\ row.status = "ready" /\ row.entities = k
    BY DEF ReadyRow
  <2>3. UNCHANGED chunks
    BY <1>6 DEF CommitReady
  <2> HIDE DEF row
  <2>4. /\ \A u, v \in documents' : u.id = v.id => u = v
        /\ \A u \in documents : u.id # r.doc
        /\ \A s \in redactions : s.doc # r.doc
    BY <1>4, <2>1, <2>2 DEF row
  <2>5. \A c \in (chunks \cup redactions)' : \E u \in documents' :
           u.id = c.doc /\ u.tenant = c.tenant /\ u.status = "ready"
    <3>1. \A c \in RedactionsOf(r, k) : c.doc = r.doc /\ c.tenant = r.tenant
      BY DEF RedactionsOf
    <3> QED
      BY <2>1, <2>2, <2>3, <3>1 DEF ChildRowsBelong, row
  <2>6. ASSUME NEW u \in documents'
        PROVE  {s.n : s \in {s \in redactions' : s.doc = u.id}} = 1..u.entities
    <3>1. CASE u = row
      <4>1. {s \in redactions' : s.doc = r.doc} = RedactionsOf(r, k)
        BY <2>1, <2>4 DEF RedactionsOf
      <4>2. {s.n : s \in RedactionsOf(r, k)} = 1..k
        <5>1. \A s \in RedactionsOf(r, k) : s.n \in 1..k
          BY DEF RedactionsOf
        <5>2. \A i \in 1..k : \E s \in RedactionsOf(r, k) : s.n = i
          <6> SUFFICES ASSUME NEW i \in 1..k
                       PROVE  \E s \in RedactionsOf(r, k) : s.n = i
            OBVIOUS
          <6> DEFINE s == [doc |-> r.doc, n |-> i, tenant |-> r.tenant]
          <6>1. s \in RedactionsOf(r, k) /\ s.n = i
            BY DEF RedactionsOf
          <6> QED
            BY <6>1
        <5> QED
          BY <5>1, <5>2
      <4> QED
        BY <2>2, <3>1, <4>1, <4>2
    <3>2. CASE u \in documents
      <4>1. u.id # r.doc
        BY <2>4, <3>2
      <4>2. {s \in redactions' : s.doc = u.id} = {s \in redactions : s.doc = u.id}
        BY <2>1, <4>1 DEF RedactionsOf
      <4> QED
        BY <3>2, <4>2 DEF ChildRowsBelong
    <3> QED
      BY <2>1, <3>1, <3>2 DEF row
  <2> QED
    BY <2>4, <2>5, <2>6 DEF ChildRowsBelong
<1>7. CASE ChunkRows(p) /\ HasRow(r.doc)
  <2>1. r \in UploadRequest /\ r.pc = "chunk_rows" /\ Busy(p, "upload")
    BY <1>7, HandlerAt DEF ChunkRows, At, UploadCalls, UploadRequest, Busy, Idle
  <2>2. PICK row \in documents : row.id = r.doc
    BY <1>7 DEF HasRow
  <2>3. row.tenant = r.tenant
    <3>1. /\ <<row.id, row.tenant>> \in stored
          /\ <<row.id, row.tenant>>[1][1] = r.doc[1] /\ <<row.id, row.tenant>>[2] = row.tenant
      BY <1>1, <2>2 DEF Owns
    <3> QED
      BY <2>1, <3>1 DEF Lineage, OneOwnerPerFile
  <2>4. row.status = "ready"
    <3>1. r.doc = <<r.doc[1], "document">>
      BY <2>1, UploadFields DEF DocId
    <3>2. row.status # "ready" => row.id = <<row.file, "placeholder">>
      BY DEF Lineage, RowsStored, PlaceholderId
    <3>3. \A u, v : <<u, "document">> # <<v, "placeholder">>
      OBVIOUS
    <3> QED
      BY <2>2, <3>1, <3>2, <3>3
  <2>5. \A c \in ChunksOf(r.tenant, r.doc, r.size) : c.doc = r.doc /\ c.tenant = r.tenant
    BY DEF ChunksOf
  <2>6. UNCHANGED <<documents, redactions>>
          /\ chunks' = chunks \cup ChunksOf(r.tenant, r.doc, r.size)
    BY <1>7 DEF ChunkRows
  <2> QED
    BY <2>2, <2>3, <2>4, <2>5, <2>6 DEF ChildRowsBelong
<1>8. CASE CommitDelete(p)
  <2>1. /\ documents'  = {row \in documents : row.id # r.doc}
        /\ chunks'     = {c \in chunks : c.doc # r.doc}
        /\ redactions' = {s \in redactions : s.doc # r.doc}
    BY <1>8 DEF CommitDelete, DeleteRow
  <2>2. \A d : d # r.doc =>
          {s \in redactions' : s.doc = d} = {s \in redactions : s.doc = d}
    BY <2>1
  <2> QED
    BY <2>1, <2>2 DEF ChildRowsBelong
<1> QED
  BY <1>3, <1>5, <1>6, <1>7, <1>8, TableSteps

-----------------------------------------------------------------------------
(* The bucket                                                              *)

\* Nothing removes an object.
LEMMA ObjectsGrow ==
    ASSUME NEW p \in Processes, Step(p)
    PROVE  objects \subseteq objects'
<1>1. AcceptRequest(p) => UNCHANGED stores
  BY AcceptShape DEF Accepts
<1> QED
  BY <1>1
     DEF Step, HandlerStep, UploadStep, PutRaw, PersistPending, PutOcr, CommitReady,
         PutRedacted, IndexEmpty, Upsert, ChunkRows, Put, DeleteStep, GetRow,
         CommitDelete, DeletePoints, QueryStep, Search, ResolveTitles, ListRows, Audit,
         Respond, CallFails, Crash, stores

\* An upload writes its objects before it goes on.
LEMMA ObjectsFirstKept ==
    ASSUME TypeOK, TypeOK', Lineage, ObjectsFirst, NEW p \in Processes, Step(p)
    PROVE  ObjectsFirst'
<1> SUFFICES ASSUME NEW q \in Processes, Busy(q, "upload")'
             PROVE  (/\ request[q].pc # "put_raw" =>
                          ObjectOf("uploads", request[q]) \in objects
                     /\ request[q].pc \notin {"put_raw", "persist_pending", "put_ocr"} =>
                          ObjectOf("ocr", request[q]) \in objects
                     /\ request[q].pc \in {"upsert", "chunk_rows"} \cup LastCalls =>
                          ObjectOf("redacted", request[q]) \in objects)'
  BY DEF ObjectsFirst
<1>1. CASE q # p /\ Busy(q, "upload") /\ request'[q] = request[q]
  BY <1>1, ObjectsGrow DEF ObjectsFirst, ObjectOf
<1>2. CASE q = p /\ request'[p].pc = "put_raw"
  BY <1>2 DEF LastCalls
<1>3. CASE q = p /\ Busy(p, "upload") /\ UploadGoesOn(p)
  <2> DEFINE r == request[p]
             n == request'[p]
  <2>1. \A prefix : ObjectOf(prefix, n) = ObjectOf(prefix, r)
    BY <1>3 DEF UploadGoesOn, ObjectOf
  <2>2. CASE PutRaw(p) /\ n.pc = "persist_pending"
    BY <1>3, <2>1, <2>2 DEF PutRaw, Put, ObjectOf, LastCalls
  <2>3. CASE PutOcr(p) /\ n.pc = "commit_ready"
    <3>1. ObjectOf("uploads", r) \in objects /\ ObjectOf("ocr", r) \in objects'
      BY <1>3, <2>3 DEF PutOcr, At, Put, ObjectOf, ObjectsFirst
    <3> QED
      BY <1>3, <2>1, <2>3, <3>1, ObjectsGrow DEF LastCalls
  <2>4. CASE PersistPending(p) /\ n.pc = "put_ocr"
    BY <1>3, <2>1, <2>4, ObjectsGrow DEF PersistPending, At, ObjectsFirst, LastCalls
  <2>5. ASSUME r.pc \notin {"put_raw", "persist_pending", "put_ocr"}
        PROVE  ObjectOf("uploads", n) \in objects' /\ ObjectOf("ocr", n) \in objects'
    BY <1>3, <2>1, <2>5, ObjectsGrow DEF ObjectsFirst
  <2>6. CASE CommitReady(p) /\ n.pc = "put_redacted"
    BY <1>3, <2>5, <2>6 DEF CommitReady, At, LastCalls
  <2>7. CASE PutRedacted(p) /\ n.pc = "upsert"
    <3>1. ObjectOf("redacted", r) \in objects'
      BY <2>7 DEF PutRedacted, Put, ObjectOf
    <3> QED
      BY <1>3, <2>1, <2>5, <2>7, <3>1 DEF PutRedacted, At
  <2>8. CASE r.pc \in {"upsert", "chunk_rows"} \cup LastCalls
    <3>1. ObjectOf("redacted", n) \in objects'
      BY <1>3, <2>1, <2>8, ObjectsGrow DEF ObjectsFirst
    <3> QED
      BY <1>3, <2>5, <2>8, <3>1 DEF LastCalls
  <2> QED
    BY <1>3, <2>2, <2>3, <2>4, <2>6, <2>7, <2>8
       DEF UploadGoesOn, IndexEmpty, Upsert, ChunkRows, Audit, At, LastCalls
<1> QED
  BY <1>1, <1>2, <1>3, UploadsAfter

\* A commit adds a row whose objects are there.
LEMMA RowsBacked ==
    ASSUME TypeOK, Lineage, ObjectsFirst, RowsHaveObjects, NEW p \in Processes, Step(p)
    PROVE  (\A row \in documents :
              /\ [prefix |-> "uploads", tenant |-> row.tenant, doc |-> DocId(row.file)]
                   \in objects
              /\ row.status = "ready" =>
                   [prefix |-> "ocr", tenant |-> row.tenant, doc |-> row.id] \in objects)'
<1> DEFINE r == request[p]
           Backed(row) ==
             /\ [prefix |-> "uploads", tenant |-> row.tenant, doc |-> DocId(row.file)]
                  \in objects'
             /\ row.status = "ready" =>
                  [prefix |-> "ocr", tenant |-> row.tenant, doc |-> row.id] \in objects'
<1>1. \A row \in documents : Backed(row)
  BY ObjectsGrow DEF RowsHaveObjects
<1>2. CASE documents' \subseteq documents
  BY <1>1, <1>2
<1>3. CASE PersistPending(p)
  <2>1. r \in UploadRequest /\ r.pc = "persist_pending" /\ Busy(p, "upload")
    BY <1>3, HandlerAt DEF PersistPending, At, UploadCalls, UploadRequest, Busy, Idle
  <2>2. ObjectOf("uploads", r) \in objects'
    BY <2>1, ObjectsGrow DEF ObjectsFirst
  <2>3. ASSUME NEW row, row.file = r.doc[1], row.tenant = r.tenant, row.status = "pending"
        PROVE  Backed(row)
    BY <2>1, <2>2, <2>3, UploadFields DEF ObjectOf
  <2> HIDE DEF Backed
  <2>4. \A row \in documents' : Backed(row)
    BY <1>1, <1>3, <2>3, PendingCommit
  <2> QED
    BY <2>4 DEF Backed
<1>4. CASE CommitReady(p)
  <2>1. r \in UploadRequest /\ r.pc = "commit_ready" /\ Busy(p, "upload")
    BY <1>4, HandlerAt DEF CommitReady, At, UploadCalls, UploadRequest, Busy, Idle
  <2>2. ObjectOf("uploads", r) \in objects' /\ ObjectOf("ocr", r) \in objects'
    BY <2>1, ObjectsGrow DEF ObjectsFirst
  <2>3. ASSUME NEW k
        PROVE  Backed(ReadyRow(r, k))
    BY <2>1, <2>2, UploadFields DEF ObjectOf, ReadyRow
  <2> HIDE DEF Backed
  <2>4. \A row \in documents' : Backed(row)
    BY <1>1, <1>4, <2>3, ReadyCommit
  <2> QED
    BY <2>4 DEF Backed
<1>5. ChunkRows(p) \/ CommitDelete(p) => documents' \subseteq documents
  BY DEF ChunkRows, CommitDelete, DeleteRow
<1> QED
  BY <1>2, <1>3, <1>4, <1>5, TableSteps

\* What is indexed is of an upload that stored the redacted text.
LEMMA IndexedBacked ==
    ASSUME TypeOK, ObjectsFirst, RowsHaveObjects, NEW p \in Processes, Step(p)
    PROVE  (\A c \in chunks \cup points :
              [prefix |-> "redacted", tenant |-> c.tenant, doc |-> c.doc] \in objects)'
<1> DEFINE r == request[p]
<1>1. CASE points' \subseteq points /\ chunks' \subseteq chunks
  BY <1>1, ObjectsGrow DEF RowsHaveObjects
<1>2. CASE Upsert(p) \/ ChunkRows(p)
  <2>1. r.pc \in {"upsert", "chunk_rows"} /\ Busy(p, "upload")
    BY <1>2, HandlerAt DEF Upsert, ChunkRows, At, UploadCalls, UploadRequest, Busy, Idle
  <2>2. ObjectOf("redacted", r) \in objects'
    BY <2>1, ObjectsGrow DEF ObjectsFirst
  <2>3. \A c \in (chunks \cup points)' :
           c \in chunks \cup points \/ (c.doc = r.doc /\ c.tenant = r.tenant)
    BY <1>2 DEF Upsert, ChunkRows, ChunksOf
  <2> QED
    BY <2>2, <2>3, ObjectsGrow DEF RowsHaveObjects, ObjectOf
<1>3. CommitDelete(p) \/ DeletePoints(p) => points' \subseteq points /\ chunks' \subseteq chunks
  BY DEF CommitDelete, DeleteRow, DeletePoints, PointsWithout
<1>4. AcceptRequest(p) => UNCHANGED stores
  BY AcceptShape DEF Accepts
<1> QED
  BY <1>1, <1>2, <1>3, <1>4
     DEF Step, HandlerStep, UploadStep, PutRaw, PersistPending, PutOcr, CommitReady,
         PutRedacted, IndexEmpty, DeleteStep, GetRow, QueryStep, Search, ResolveTitles,
         ListRows, Audit, Respond, CallFails, Crash, stores

\* So rows and indexed chunks keep their objects.
LEMMA RowsHaveObjectsKept ==
    ASSUME TypeOK, Lineage, ObjectsFirst, RowsHaveObjects, NEW p \in Processes, Step(p)
    PROVE  RowsHaveObjects'
BY RowsBacked, IndexedBacked DEF RowsHaveObjects

-----------------------------------------------------------------------------
(* The audit log                                                           *)

\* It only grows: an entry that is in it stays.
LEMMA EntriesStay ==
    ASSUME TypeOK, NEW p \in Processes, Step(p), NEW e,
           \E i \in DOMAIN audit_log : audit_log[i] = e
    PROVE  \E i \in DOMAIN audit_log' : audit_log'[i] = e
<1>1. CASE UNCHANGED audit_log
  BY <1>1
<1>2. CASE Audit(p) /\ PlainInsertAllowed
  <2>1. PICK i \in DOMAIN audit_log : audit_log[i] = e
    OBVIOUS
  <2>2. \E x : audit_log' = Append(audit_log, x)
    BY <1>2 DEF Audit
  <2>3. audit_log \in Seq(Entry)
    BY DEF TypeOK, StoresTypeOK
  <2>4. i \in DOMAIN audit_log' /\ audit_log'[i] = audit_log[i]
    BY <2>1, <2>2, <2>3
  <2> QED
    BY <2>1, <2>4
<1>3. AcceptRequest(p) => UNCHANGED stores
  BY AcceptShape DEF Accepts
<1> QED
  BY <1>1, <1>2, <1>3
     DEF Step, HandlerStep, UploadStep, PutRaw, PersistPending, PutOcr, CommitReady,
         PutRedacted, IndexEmpty, Upsert, ChunkRows, DeleteStep, GetRow, CommitDelete,
         DeletePoints, QueryStep, Search, ResolveTitles, ListRows, Audit, Respond,
         CallFails, Crash, stores

\* A request comes to its answer through the insert of its entry.
LEMMA AuditedFirstKept ==
    ASSUME TypeOK, TypeOK', Lineage, AuditedFirst, NEW p \in Processes, Step(p)
    PROVE  AuditedFirst'
<1> SUFFICES ASSUME NEW q \in Processes, request'[q].pc = "respond",
                    request'[q].op # "list"
             PROVE  Audited(request[q])'
  BY DEF AuditedFirst
<1>1. CASE request'[q] = request[q]
  BY <1>1, EntriesStay DEF AuditedFirst, Audited, EntryOf, AuditDocs
<1>2. CASE q = p /\ AcceptRequest(p)
  <2>1. request'[p].pc \in {"put_raw", "get_row", "search", "list_rows"}
    BY <1>2 DEF AcceptRequest, Upload, Delete, Query, List, Accept, TypeOK, WorkersTypeOK
  <2> QED
    BY <1>2, <2>1
<1>3. CASE q = p /\ (HandlerStep(p) \/ Crash(p))
  <2> DEFINE r == request[p]
             n == request'[p]
  <2>1. /\ request[p] # Idle /\ n # Idle /\ n.op = r.op /\ n \in Request
    BY <1>3, OneMoves DEF Idle, TypeOK, WorkersTypeOK
  <2>2. Audit(p) /\ PlainInsertAllowed /\ n = [r EXCEPT !.pc = "respond"]
    <3>1. CASE Busy(p, "upload")
      <4>1. UploadGoesOn(p)
        BY <1>3, <2>1, <3>1, UploadOrder
      <4>2. Audit(p) /\ ~Error(p)
        BY <1>3, <2>1, <4>1 DEF UploadGoesOn, Error, Answer, TypeOK, WorkersTypeOK
      <4> QED
        BY <4>2 DEF Audit, Proceed, Goto, TypeOK, WorkersTypeOK
    <3>2. CASE ~Busy(p, "upload")
      <4>1. \A code : ~Answer(p, code)
        BY <2>1 DEF Answer, TypeOK, WorkersTypeOK
      <4>2. ~UploadStep(p)
        BY <2>1, <3>2, HandlerAt
           DEF UploadStep, PutRaw, PersistPending, PutOcr, CommitReady, PutRedacted,
               IndexEmpty, Upsert, ChunkRows, At, UploadCalls, UploadRequest, Busy
      <4>3. ~DeleteStep(p)
        <5>1. ASSUME NEW call, Goto(p, call), r \in DeleteRequest
              PROVE  call = "respond"
          BY <1>3, <5>1 DEF Goto, DeleteRequest, TypeOK, WorkersTypeOK
        <5> QED
          BY <4>1, <5>1, HandlerAt
             DEF DeleteStep, GetRow, CommitDelete, DeletePoints, Proceed, Error, At,
                 DeleteCalls
      <4>4. ~QueryStep(p)
        <5>1. ~ListRows(p)
          <6>1. r.op # "list"
            BY <1>3, <2>1
          <6> QED
            BY <6>1, HandlerAt DEF ListRows, At, ListCalls, ListRequest
        <5>2. ASSUME NEW call, NEW docs, NEW titled, r \in QueryRequest,
                     \/ request' = [request EXCEPT ![p].pc = call, ![p].docs = docs]
                     \/ request' = [request EXCEPT ![p].pc = call, ![p].titled = titled]
              PROVE  call = "respond"
          BY <1>3, <5>2 DEF QueryRequest, TypeOK, WorkersTypeOK
        <5>3. ~Search(p)
          BY <5>2, HandlerAt DEF Search, At, QueryCalls
        <5>4. ~ResolveTitles(p)
          <6> SUFFICES ASSUME ResolveTitles(p) PROVE FALSE
            OBVIOUS
          <6>1. r \in QueryRequest
            BY HandlerAt DEF ResolveTitles, At, QueryCalls
          <6>2. PICK titled \in SUBSET r.docs :
                   request' = [request EXCEPT ![p].pc = "audit", ![p].titled = titled]
            BY DEF ResolveTitles
          <6> QED
            BY <5>2, <6>1, <6>2
        <5> QED
          BY <5>1, <5>3, <5>4 DEF QueryStep
      <4>5. ~Respond(p) /\ ~CallFails(p) /\ ~Crash(p)
        BY <2>1, <4>1 DEF Respond, CallFails, Crash, Error, TypeOK, WorkersTypeOK
      <4> QED
        BY <1>3, <4>1, <4>2, <4>3, <4>4, <4>5
           DEF HandlerStep, Audit, Proceed, Error, Goto, TypeOK, WorkersTypeOK
    <3> QED
      BY <3>1, <3>2
  <2>3. EntryOf(n) = EntryOf(r)
    <3>1. n.op = r.op /\ n.tenant = r.tenant /\ n.doc = r.doc /\ n.docs = r.docs
      <4>1. r \in Request
        BY <2>1, BusyHasRequest
      <4> QED
        BY <2>2, <4>1 DEF Request, UploadRequest, DeleteRequest, QueryRequest, ListRequest
    <3> QED
      BY <3>1 DEF EntryOf, AuditDocs
  <2>4. audit_log' = Append(audit_log, EntryOf(r))
    BY <2>2 DEF Audit, EntryOf
  <2>5. /\ Len(audit_log) + 1 \in DOMAIN audit_log'
        /\ audit_log'[Len(audit_log) + 1] = EntryOf(n)
    BY <2>3, <2>4 DEF TypeOK, StoresTypeOK
  <2> QED
    BY <1>3, <2>5 DEF Audited, EntryOf, AuditDocs
<1> QED
  BY <1>1, <1>2, <1>3, OthersWait DEF Step

\* Only the end of a handler tells a client that it succeeded.
LEMMA OnlyRespondSucceeds ==
    ASSUME NEW p \in Processes, Step(p), NEW a \in replies' \ replies, a.code = "ok"
    PROVE  /\ Respond(p)
           /\ a = [op |-> request[p].op, tenant |-> request[p].tenant,
                   doc |-> request[p].doc, code |-> "ok",
                   docs |-> request[p].docs, titled |-> request[p].titled]
<1>1. ~AcceptRequest(p)
  BY AcceptShape DEF Accepts
<1>2. \A code : Answer(p, code) => code = "ok"
  BY DEF Answer
<1>3. ~Error(p) /\ \A service, call : ~Proceed(p, service, call)
  BY <1>2 DEF Error, Proceed
<1>4. Respond(p)
  BY <1>1, <1>2, <1>3
     DEF Step, HandlerStep, UploadStep, PutRaw, PersistPending, PutOcr, CommitReady,
         PutRedacted, IndexEmpty, Upsert, ChunkRows, DeleteStep, GetRow, CommitDelete,
         DeletePoints, QueryStep, Search, ResolveTitles, ListRows, Audit, CallFails, Crash
<1> QED
  BY <1>4 DEF Respond, Answer

\* By then its entry is in the log.
LEMMA SuccessesKept ==
    ASSUME TypeOK, AuditedFirst, SuccessesAreAudited, NEW p \in Processes, Step(p)
    PROVE  SuccessesAreAudited'
<1> SUFFICES ASSUME NEW a \in replies', a.code = "ok", a.op # "list"
             PROVE  \E i \in DOMAIN audit_log' : audit_log'[i] = EntryOf(a)
  BY DEF SuccessesAreAudited, EntryOf, AuditDocs
<1>1. CASE a \in replies
  BY <1>1, EntriesStay DEF SuccessesAreAudited, EntryOf
<1>2. CASE a \notin replies
  <2>1. Respond(p) /\ a.op = request[p].op /\ EntryOf(a) = EntryOf(request[p])
    BY <1>2, OnlyRespondSucceeds DEF EntryOf, AuditDocs
  <2>2. Audited(request[p])
    BY <2>1 DEF AuditedFirst, Respond, At
  <2> QED
    BY <2>1, <2>2, EntriesStay DEF Audited
<1> QED
  BY <1>1, <1>2

-----------------------------------------------------------------------------
(* The index and the chunk rows                                            *)

\* A document that was stored gets no second row.
LEMMA NoRowReturns ==
    ASSUME TypeOK, Lineage, NEW p \in Processes, Step(p),
           NEW t, NEW d, Owns(t, d), HasRow(d)'
    PROVE  HasRow(d)
<1>1. \A row : (\A x \in stored : x[1] # row.id) => row.id # d
  BY DEF Owns
<1>2. CASE documents' \subseteq documents
  BY <1>2 DEF HasRow
<1>3. CASE PersistPending(p)
  BY <1>1, <1>3, PendingCommit DEF HasRow
<1>4. CASE CommitReady(p)
  BY <1>1, <1>4, ReadyCommit DEF HasRow, ReadyRow
<1>5. ChunkRows(p) \/ CommitDelete(p) => documents' \subseteq documents
  BY DEF ChunkRows, CommitDelete, DeleteRow
<1> QED
  BY <1>2, <1>3, <1>4, <1>5, TableSteps

\* A step touches the points and chunk rows of one document at most: that of
\* its upload, or one that has no row.
LEMMA WhoTouches ==
    ASSUME TypeOK, Lineage, NEW p \in Processes, Step(p), NEW d
    PROVE  \/ PointsAt(d)' = PointsAt(d) /\ ChunksAt(d)' = ChunksAt(d)
           \/ Busy(p, "upload") /\ request[p].doc = d /\ (Upsert(p) \/ ChunkRows(p))
           \/ /\ ~HasRow(d)'
              /\ PointsAt(d)' \subseteq PointsAt(d) /\ ChunksAt(d)' \subseteq ChunksAt(d)
<1> DEFINE r == request[p]
<1>1. CASE UNCHANGED <<points, chunks>>
  BY <1>1 DEF PointsAt, ChunksAt
<1>2. CASE Upsert(p) \/ ChunkRows(p)
  <2>1. r \in UploadRequest /\ Busy(p, "upload")
    BY <1>2, HandlerAt DEF Upsert, ChunkRows, At, UploadCalls, UploadRequest, Busy, Idle
  <2>2. /\ points \subseteq points' /\ chunks \subseteq chunks'
        /\ \A x \in points' : x \in points \/ x.doc = r.doc
        /\ \A x \in chunks' : x \in chunks \/ x.doc = r.doc
    BY <1>2 DEF Upsert, ChunkRows, ChunksOf
  <2> QED
    BY <1>2, <2>1, <2>2 DEF PointsAt, ChunksAt
<1>3. CASE CommitDelete(p)
  <2>1. /\ documents' = {row \in documents : row.id # r.doc}
        /\ chunks' = {c \in chunks : c.doc # r.doc}
        /\ UNCHANGED points
    BY <1>3 DEF CommitDelete, DeleteRow
  <2> QED
    BY <2>1 DEF PointsAt, ChunksAt, HasRow
<1>4. CASE DeletePoints(p)
  <2>1. r \in DeleteRequest /\ r.pc = "delete_points" /\ Busy(p, "delete")
    BY <1>4, HandlerAt DEF DeletePoints, At, DeleteCalls, DeleteRequest, Busy, Idle
  <2>2. ~HasRow(r.doc)
    BY <2>1 DEF Lineage, DeletesStored
  <2>3. UNCHANGED <<documents, chunks>>
    BY <1>4 DEF DeletePoints
  <2>4. points' \subseteq points /\ \A x \in points : x \in points' \/ x.doc = r.doc
    BY <1>4 DEF DeletePoints, PointsWithout
  <2> QED
    BY <2>2, <2>3, <2>4 DEF PointsAt, ChunksAt, HasRow
<1>5. AcceptRequest(p) => UNCHANGED stores
  BY AcceptShape DEF Accepts
<1> QED
  BY <1>1, <1>2, <1>3, <1>4, <1>5
     DEF Step, HandlerStep, UploadStep, PutRaw, PersistPending, PutOcr, CommitReady,
         PutRedacted, IndexEmpty, DeleteStep, GetRow, QueryStep, Search, ResolveTitles,
         ListRows, Audit, Respond, CallFails, Crash, stores

\* Uploads are recorded before they index anything.
LEMMA ReceivedGrows ==
    ASSUME NEW p \in Processes, Step(p)
    PROVE  received \subseteq received'
<1>1. AcceptRequest(p) => received \subseteq received'
  BY AcceptShape DEF Accepts
<1> QED
  BY <1>1
     DEF Step, HandlerStep, UploadStep, PutRaw, PersistPending, PutOcr, CommitReady,
         PutRedacted, IndexEmpty, Upsert, ChunkRows, DeleteStep, GetRow,
         CommitDelete, DeletePoints, QueryStep, Search, ResolveTitles, ListRows, Audit,
         Respond, CallFails, Crash

\* The index and the chunk rows follow the upload of their document.
LEMMA IndexProgressKept ==
    ASSUME TypeOK, TypeOK', Lineage, ChildRowsBelong, IndexProgress,
           NEW p \in Processes, Step(p)
    PROVE  IndexProgress'
<1> DEFINE r == request[p]
           n == request'[p]
<1>1. (\A q \in points : q.doc[1] \in received)'
  <2> SUFFICES ASSUME NEW q \in points' PROVE q.doc[1] \in received'
    OBVIOUS
  <2>1. CASE q \in points
    BY <2>1, ReceivedGrows DEF IndexProgress
  <2>2. CASE q \notin points
    <3>1. q \in PointsAt(q.doc)' /\ q \notin PointsAt(q.doc)
      BY <2>2 DEF PointsAt
    <3>2. Busy(p, "upload") /\ r.doc = q.doc
      BY <3>1, WhoTouches
    <3> QED
      BY <3>2, ReceivedGrows DEF Lineage, OneUploadPerFile
  <2> QED
    BY <2>1, <2>2
<1>2. ASSUME NEW q \in Processes, Busy(q, "upload")'
      PROVE  (/\ request[q].pc \in BeforeUpsert => PointsAt(request[q].doc) = {}
              /\ request[q].pc \in BeforeUpsert \cup {"chunk_rows"} =>
                    ChunksAt(request[q].doc) = {}
              /\ (request[q].pc = "chunk_rows" /\ HasRow(request[q].doc)) =>
                    PointsAt(request[q].doc) =
                      ChunksOf(request[q].tenant, request[q].doc, request[q].size)
              /\ (request[q].pc \in LastCalls /\ HasRow(request[q].doc)) =>
                    PointsAt(request[q].doc) = ChunksAt(request[q].doc))'
  <2>1. CASE q # p /\ Busy(q, "upload") /\ request'[q] = request[q]
    <3>0. PICK d : d = request[q].doc
      OBVIOUS
    <3>1. HasRow(d)' => HasRow(d) \/ request[q].pc \in BeforeReady
      BY <2>1, <3>0, NoRowReturns DEF Lineage, UploadProgress
    <3>2. \/ PointsAt(d)' = PointsAt(d) /\ ChunksAt(d)' = ChunksAt(d)
          \/ /\ ~HasRow(d)'
             /\ PointsAt(d)' \subseteq PointsAt(d) /\ ChunksAt(d)' \subseteq ChunksAt(d)
      <4>1. ~(Busy(p, "upload") /\ r.doc = d)
        BY <2>1, <3>0 DEF Lineage, OneUploadPerFile
      <4> QED
        BY <4>1, WhoTouches
    <3>3. "chunk_rows" \notin BeforeReady /\ LastCalls \cap BeforeReady = {}
      BY DEF BeforeReady, LastCalls
    <3>4. request'[q].doc = d /\ request'[q].pc = request[q].pc
             /\ request'[q].tenant = request[q].tenant /\ request'[q].size = request[q].size
      BY <2>1, <3>0
    <3>5. /\ request[q].pc \in BeforeUpsert => PointsAt(d) = {}
          /\ request[q].pc \in BeforeUpsert \cup {"chunk_rows"} => ChunksAt(d) = {}
          /\ (request[q].pc = "chunk_rows" /\ HasRow(d)) =>
                PointsAt(d) = ChunksOf(request[q].tenant, d, request[q].size)
          /\ (request[q].pc \in LastCalls /\ HasRow(d)) => PointsAt(d) = ChunksAt(d)
      BY <2>1, <3>0 DEF IndexProgress
    <3>6. /\ request[q].pc \in BeforeUpsert => PointsAt(d)' = {}
          /\ request[q].pc \in BeforeUpsert \cup {"chunk_rows"} => ChunksAt(d)' = {}
          /\ (request[q].pc = "chunk_rows" /\ HasRow(d)') =>
                PointsAt(d)' = ChunksOf(request[q].tenant, d, request[q].size)
          /\ (request[q].pc \in LastCalls /\ HasRow(d)') => PointsAt(d)' = ChunksAt(d)'
      BY <3>1, <3>2, <3>3, <3>5
    <3> QED
      BY <3>4, <3>6 DEF PointsAt, ChunksAt, HasRow
  <2>2. CASE q = p /\ UNCHANGED stores /\ n.pc = "put_raw"
                 /\ \E f \in Files \ received : n.doc = DocId(f)
    <3>1. n.doc[1] \notin received
      BY <2>2 DEF DocId
    <3>2. PointsAt(n.doc) = {}
      BY <3>1 DEF IndexProgress, PointsAt
    <3>3. ChunksAt(n.doc) = {}
      <4>1. \A c \in chunks : \E row \in documents : row.id = c.doc
        BY DEF ChildRowsBelong
      <4>2. \A row \in documents : row.id[1] \in received
        <5> SUFFICES ASSUME NEW row \in documents PROVE row.id[1] \in received
          OBVIOUS
        <5>1. <<row.id, row.tenant>> \in stored /\ <<row.id, row.tenant>>[1] = row.id
          BY DEF Lineage, RowsStored, Owns
        <5> QED
          BY <5>1 DEF Lineage, OneUploadPerFile
      <4> QED
        BY <3>1, <4>1, <4>2 DEF ChunksAt
    <3> QED
      BY <2>2, <3>2, <3>3 DEF PointsAt, ChunksAt, LastCalls, stores
  <2>3. CASE q = p /\ Busy(p, "upload") /\ UploadGoesOn(p)
    <3>0. PICK d : d = r.doc
      OBVIOUS
    <3>1. n.doc = d /\ n.tenant = r.tenant
      BY <2>3, <3>0 DEF UploadGoesOn
    <3>2. /\ r.pc \in BeforeUpsert => PointsAt(d) = {}
          /\ r.pc \in BeforeUpsert \cup {"chunk_rows"} => ChunksAt(d) = {}
          /\ (r.pc = "chunk_rows" /\ HasRow(d)) => PointsAt(d) = ChunksOf(r.tenant, d, r.size)
          /\ (r.pc \in LastCalls /\ HasRow(d)) => PointsAt(d) = ChunksAt(d)
      BY <2>3, <3>0 DEF IndexProgress
    <3>3. /\ n.pc \in BeforeUpsert => PointsAt(d)' = {}
          /\ n.pc \in BeforeUpsert \cup {"chunk_rows"} => ChunksAt(d)' = {}
          /\ (n.pc = "chunk_rows" /\ HasRow(d)') => PointsAt(d)' = ChunksOf(n.tenant, d, n.size)
          /\ (n.pc \in LastCalls /\ HasRow(d)') => PointsAt(d)' = ChunksAt(d)'
      <4>1. CASE Upsert(p) /\ n.pc = "chunk_rows"
                   /\ points' = points \cup ChunksOf(n.tenant, n.doc, n.size)
        <5>1. PointsAt(d) = {} /\ ChunksAt(d) = {} /\ UNCHANGED chunks
          BY <3>2, <4>1 DEF Upsert, At, BeforeUpsert
        <5>2. \A x \in ChunksOf(n.tenant, d, n.size) : x.doc = d
          BY DEF ChunksOf
        <5>3. PointsAt(d)' = ChunksOf(n.tenant, d, n.size) /\ ChunksAt(d)' = {}
          BY <3>1, <4>1, <5>1, <5>2 DEF PointsAt, ChunksAt
        <5> QED
          BY <4>1, <5>3 DEF BeforeUpsert, BeforeReady, LastCalls
      <4>2. CASE ChunkRows(p) /\ HasRow(d) /\ n.pc = "audit"
        <5>1. PointsAt(d) = ChunksOf(r.tenant, d, r.size) /\ ChunksAt(d) = {}
          BY <3>2, <4>2 DEF ChunkRows, At
        <5>2. UNCHANGED points /\ chunks' = chunks \cup ChunksOf(r.tenant, d, r.size)
          BY <3>0, <4>2 DEF ChunkRows
        <5>3. \A x \in ChunksOf(r.tenant, d, r.size) : x.doc = d
          BY DEF ChunksOf
        <5>4. PointsAt(d)' = ChunksAt(d)'
          BY <5>1, <5>2, <5>3 DEF PointsAt, ChunksAt
        <5> QED
          BY <4>2, <5>4 DEF BeforeUpsert, BeforeReady
      <4>3. CASE UNCHANGED <<points, chunks>> /\ r.pc \in BeforeUpsert /\ n.pc # "chunk_rows"
        BY <3>2, <4>3 DEF PointsAt, ChunksAt, BeforeUpsert
      <4>4. CASE UNCHANGED <<documents, points, chunks>> /\ r.pc \in LastCalls /\ n.pc = "respond"
        BY <3>2, <4>4 DEF PointsAt, ChunksAt, HasRow, BeforeUpsert, BeforeReady
      <4>5. \/ PutRaw(p) \/ PersistPending(p) \/ PutOcr(p) \/ CommitReady(p)
            \/ PutRedacted(p) \/ IndexEmpty(p)
            => UNCHANGED <<points, chunks>> /\ r.pc \in BeforeUpsert
        BY DEF PutRaw, PersistPending, PutOcr, CommitReady, PutRedacted, IndexEmpty,
               At, BeforeUpsert, BeforeReady, stores
      <4>6. Audit(p) => UNCHANGED <<documents, points, chunks>> /\ r.pc \in LastCalls
        BY DEF Audit, At, LastCalls
      <4> QED
        BY <2>3, <3>0, <4>1, <4>2, <4>3, <4>4, <4>5, <4>6 DEF UploadGoesOn
    <3> QED
      BY <2>3, <3>1, <3>3 DEF PointsAt, ChunksAt, HasRow
  <2> QED
    BY <1>2, <2>1, <2>2, <2>3, UploadsAfter
<1> QED
  BY <1>1, <1>2 DEF IndexProgress

\* The history only grows.
LEMMA StoredGrows ==
    ASSUME NEW p \in Processes, Step(p)
    PROVE  stored \subseteq stored'
<1>1. AcceptRequest(p) => UNCHANGED stored
  BY AcceptShape DEF Accepts
<1> QED
  BY <1>1
     DEF Step, HandlerStep, UploadStep, PutRaw, PersistPending, PutOcr, CommitReady,
         PutRedacted, IndexEmpty, Upsert, ChunkRows, DeleteStep, GetRow,
         CommitDelete, DeletePoints, QueryStep, Search, ResolveTitles, ListRows, Audit,
         Respond, CallFails, Crash

\* The upload a client was told of is at its end, with its document stored.
LEMMA Acknowledging ==
    ASSUME TypeOK, Lineage, NEW p \in Processes, Step(p),
           NEW a \in replies' \ replies, a.op = "upload", a.code = "ok"
    PROVE  /\ Busy(p, "upload") /\ request[p].pc = "respond" /\ Respond(p)
           /\ request[p].doc = a.doc /\ request[p].tenant = a.tenant
           /\ Owns(a.tenant, a.doc)
           /\ request'[p] = Idle
<1>1. Respond(p) /\ request[p].op = "upload" /\ request[p].doc = a.doc
         /\ request[p].tenant = a.tenant
  BY OnlyRespondSucceeds
<1>2. Busy(p, "upload") /\ request[p].pc = "respond"
  BY <1>1 DEF Respond, At, Busy, Idle
<1>3. Owns(a.tenant, a.doc)
  BY <1>1, <1>2 DEF Lineage, UploadProgress, BeforeReady
<1> QED
  BY <1>1, <1>2, <1>3 DEF Respond, Answer, TypeOK, WorkersTypeOK

\* After it no upload is of that document.
LEMMA AcknowledgedKept ==
    ASSUME TypeOK, TypeOK', Lineage, AcknowledgedIsOver, NEW p \in Processes, Step(p)
    PROVE  AcknowledgedIsOver'
<1> SUFFICES ASSUME NEW a \in replies', a.op = "upload", a.code = "ok"
             PROVE  /\ Owns(a.tenant, a.doc)'
                    /\ \A q \in Processes : Busy(q, "upload")' => request'[q].doc # a.doc
  BY DEF AcknowledgedIsOver
<1>1. Owns(a.tenant, a.doc)
  BY Acknowledging DEF AcknowledgedIsOver
<1>2. \A q \in Processes : Busy(q, "upload") /\ request[q].doc = a.doc
         => q = p /\ request'[p] = Idle
  <2>1. CASE a \in replies
    BY <2>1 DEF AcknowledgedIsOver
  <2>2. CASE a \notin replies
    BY <2>2, Acknowledging DEF Lineage, OneUploadPerFile
  <2> QED
    BY <2>1, <2>2
<1>3. a.doc[1] \in received
  BY <1>1 DEF Owns, Lineage, OneUploadPerFile
<1>4. ASSUME NEW q \in Processes, Busy(q, "upload")'
      PROVE  request'[q].doc # a.doc
  <2>1. CASE q # p /\ Busy(q, "upload") /\ request'[q] = request[q]
    BY <1>2, <2>1
  <2>2. CASE q = p /\ \E f \in Files \ received : request'[p].doc = DocId(f)
    BY <1>3, <2>2 DEF DocId
  <2>3. CASE q = p /\ Busy(p, "upload") /\ UploadGoesOn(p)
    BY <1>2, <1>4, <2>3 DEF UploadGoesOn, Busy
  <2> QED
    BY <1>4, <2>1, <2>2, <2>3, UploadsAfter
<1> QED
  BY <1>1, <1>4, StoredGrows DEF Owns

\* So what is indexed of an acknowledged document changes only once its row
\* is gone.
LEMMA IndexMatchesKept ==
    ASSUME TypeOK, TypeOK', Lineage, IndexProgress, AcknowledgedIsOver, IndexMatchesRows,
           NEW p \in Processes, Step(p)
    PROVE  IndexMatchesRows'
<1> SUFFICES ASSUME NEW a \in replies', NEW row \in documents',
                    a.op = "upload", a.code = "ok", a.doc = row.id
             PROVE  {q \in points' : q.doc = row.id} = {c \in chunks' : c.doc = row.id}
  BY DEF IndexMatchesRows
<1>1. PICK d : d = a.doc
  OBVIOUS
<1>2. HasRow(d)'
  BY <1>1 DEF HasRow
<1>3. Owns(a.tenant, d)
  BY <1>1, Acknowledging DEF AcknowledgedIsOver
<1>4. HasRow(d)
  BY <1>2, <1>3, NoRowReturns
<1>5. PointsAt(d) = ChunksAt(d)
  <2>1. CASE a \in replies
    BY <1>1, <1>4, <2>1 DEF IndexMatchesRows, HasRow, PointsAt, ChunksAt
  <2>2. CASE a \notin replies
    BY <1>1, <1>4, <2>2, Acknowledging DEF IndexProgress, LastCalls
  <2> QED
    BY <2>1, <2>2
<1>6. ~(Busy(p, "upload") /\ request[p].doc = d /\ (Upsert(p) \/ ChunkRows(p)))
  <2>1. CASE a \in replies
    BY <1>1, <2>1 DEF AcknowledgedIsOver
  <2>2. CASE a \notin replies
    BY <2>2, Acknowledging DEF Upsert, ChunkRows, At
  <2> QED
    BY <2>1, <2>2
<1>7. PointsAt(d)' = ChunksAt(d)'
  BY <1>2, <1>5, <1>6, WhoTouches
<1> QED
  BY <1>1, <1>7 DEF PointsAt, ChunksAt

-----------------------------------------------------------------------------
(* The integrity theorems                                                  *)

\* Integrity holds at the start: there is nothing.
LEMMA InitIntegrity == Init => Integrity
BY DEF Init, StoresInit, WorkersInit, Integrity, ChildRowsBelong, ObjectsFirst,
       RowsHaveObjects, AuditedFirst, SuccessesAreAudited, IndexProgress,
       AcknowledgedIsOver, IndexMatchesRows, Busy, Idle

\* Every step keeps it.
LEMMA NextIntegrity ==
    ASSUME TypeOK, Lineage, Integrity, [Next]_vars
    PROVE  Integrity'
<1>1. TypeOK'
  BY NextType
<1>2. CASE UNCHANGED vars
  <2> USE <1>2 DEF vars, stores, Integrity
  <2>1. ChildRowsBelong'
    BY DEF ChildRowsBelong
  <2>2. ObjectsFirst' /\ RowsHaveObjects'
    BY DEF ObjectsFirst, ObjectOf, RowsHaveObjects, Busy
  <2>3. AuditedFirst' /\ SuccessesAreAudited'
    BY DEF AuditedFirst, Audited, EntryOf, AuditDocs, SuccessesAreAudited
  <2>4. IndexProgress'
    BY DEF IndexProgress, PointsAt, ChunksAt, HasRow, Busy
  <2>5. AcknowledgedIsOver' /\ IndexMatchesRows'
    BY DEF AcknowledgedIsOver, IndexMatchesRows, Owns, Busy
  <2> QED
    BY <2>1, <2>2, <2>3, <2>4, <2>5
<1>3. ASSUME NEW p \in Processes, Step(p)
      PROVE  Integrity'
  BY <1>1, <1>3, TablesKept, ObjectsFirstKept, RowsHaveObjectsKept, AuditedFirstKept,
     SuccessesKept, IndexProgressKept, AcknowledgedKept, IndexMatchesKept DEF Integrity
<1> QED
  BY <1>2, <1>3 DEF Next, Quiet, Step

\* Tables, bucket, index and audit log agree in the ways Integrity lists, in
\* every deployment, whatever fails between the writes to two of them.
THEOREM IntegrityHolds == Spec => []Integrity
<1>1. Init => TypeOK /\ Lineage /\ Integrity
  BY InitType, InitLineage, InitIntegrity
<1>2. TypeOK /\ Lineage /\ Integrity /\ [Next]_vars => (TypeOK /\ Lineage /\ Integrity)'
  BY NextType, NextLineage, NextIntegrity
<1> QED
  BY <1>1, <1>2, PTL DEF Spec

\* Child rows belong to a ready document of their tenant, and a document
\* counts exactly its redaction records.
THEOREM ChildRowsIntact == Spec => []ChildRowsBelong
<1>1. Integrity => ChildRowsBelong
  BY DEF Integrity
<1> QED
  BY <1>1, IntegrityHolds, PTL

\* No row names an object that was never written, and nothing is indexed
\* whose redacted text was not.
THEOREM ObjectsBehindRows == Spec => []RowsHaveObjects
<1>1. Integrity => RowsHaveObjects
  BY DEF Integrity
<1> QED
  BY <1>1, IntegrityHolds, PTL

\* No client was told of a success that the audit log does not hold.
THEOREM NothingUnaudited == Spec => []SuccessesAreAudited
<1>1. Integrity => SuccessesAreAudited
  BY DEF Integrity
<1> QED
  BY <1>1, IntegrityHolds, PTL

\* A document whose upload was acknowledged and whose row is still there is
\* indexed exactly by its chunk rows.
THEOREM IndexAgrees == Spec => []IndexMatchesRows
<1>1. Integrity => IndexMatchesRows
  BY DEF Integrity
<1> QED
  BY <1>1, IntegrityHolds, PTL

-----------------------------------------------------------------------------
(* Tenancy, when the row-level policies apply                              *)

\* Everything on record of a document belongs to the tenant that deletes it.
LEMMA DeletesItsOwn ==
    ASSUME TypeOK, Ownership, ChildRowsBelong, NEW p \in Processes,
           CommitDelete(p) \/ DeletePoints(p)
    PROVE  /\ request[p] \in DeleteRequest /\ request[p] # Idle
           /\ Owns(request[p].tenant, request[p].doc)
           /\ \A x \in documents : x.id = request[p].doc => x.tenant = request[p].tenant
           /\ \A x \in chunks \cup redactions \cup points :
                x.doc = request[p].doc => x.tenant = request[p].tenant
<1> DEFINE r == request[p]
<1>1. r \in DeleteRequest /\ r # Idle /\ Busy(p, "delete") /\ r.pc # "get_row"
  BY HandlerAt DEF CommitDelete, DeletePoints, At, DeleteCalls, DeleteRequest, Busy, Idle
<1>2. Owns(r.tenant, r.doc)
  BY <1>1 DEF Ownership, DeletesOwn
<1>3. \A t, d : Owns(t, d) /\ d = r.doc => t = r.tenant
  <2> SUFFICES ASSUME NEW t, Owns(t, r.doc) PROVE t = r.tenant
    OBVIOUS
  <2>1. <<r.doc, t>> \in stored /\ <<r.doc, r.tenant>> \in stored
    BY <1>2 DEF Owns
  <2> QED
    BY <2>1 DEF Ownership, Lineage, OneOwnerPerFile
<1>4. \A x \in documents : x.id = r.doc => x.tenant = r.tenant
  BY <1>3 DEF Ownership, Lineage, RowsStored
<1>5. \A x \in points : x.doc = r.doc => x.tenant = r.tenant
  BY <1>3 DEF Ownership, HoldingsOwned
<1>6. \A x \in chunks \cup redactions : x.doc = r.doc => x.tenant = r.tenant
  BY <1>4 DEF ChildRowsBelong
<1> QED
  BY <1>1, <1>2, <1>4, <1>5, <1>6

\* A step changes the holdings of the tenant of its request only.
LEMMA StepsStayInTenant ==
    ASSUME TypeOK, TypeOK', Ownership, ChildRowsBelong, NEW p \in Processes, Step(p),
           NEW t
    PROVE  \/ Holdings(t)' = Holdings(t)
           \/ /\ request[p] # Idle /\ request[p].tenant = t
              /\ request'[p] # request[p]
<1> DEFINE r == request[p]
           n == request'[p]
<1>1. CASE UNCHANGED stores
  BY <1>1 DEF stores, Holdings
<1>2. CASE \/ PutRaw(p) \/ PersistPending(p) \/ PutOcr(p) \/ CommitReady(p)
           \/ PutRedacted(p) \/ Upsert(p) \/ ChunkRows(p)
  <2>1. r \in UploadRequest /\ Busy(p, "upload")
    BY <1>2, HandlerAt
       DEF PutRaw, PersistPending, PutOcr, CommitReady, PutRedacted, Upsert, ChunkRows,
           At, UploadCalls, UploadRequest, Busy, Idle
  <2>2. n # r
    <3>1. CASE n = Idle
      BY <2>1, <3>1 DEF Busy
    <3>2. CASE n # Idle
      BY <1>2, <2>1, <3>2, UploadOrder
         DEF HandlerStep, UploadStep, UploadGoesOn, PutRaw, PersistPending, PutOcr,
             CommitReady, PutRedacted, IndexEmpty, Upsert, ChunkRows, Audit, At
    <3> QED
      BY <3>1, <3>2
  <2>3. ASSUME r.tenant # t
        PROVE  Holdings(t)' = Holdings(t)
    <3>1. /\ \A x \in documents' : x \in documents \/ x.tenant = r.tenant
          /\ documents \subseteq documents'
      BY <1>2
         DEF PutRaw, PersistPending, PutOcr, CommitReady, PutRedacted, Upsert, ChunkRows,
             ReadyRow
    <3>2. /\ \A x \in chunks' : x \in chunks \/ x.tenant = r.tenant
          /\ chunks \subseteq chunks'
      BY <1>2
         DEF PutRaw, PersistPending, PutOcr, CommitReady, PutRedacted, Upsert, ChunkRows,
             ChunksOf
    <3>3. /\ \A x \in redactions' : x \in redactions \/ x.tenant = r.tenant
          /\ redactions \subseteq redactions'
      BY <1>2
         DEF PutRaw, PersistPending, PutOcr, CommitReady, PutRedacted, Upsert, ChunkRows,
             RedactionsOf
    <3>4. /\ \A x \in objects' : x \in objects \/ x.tenant = r.tenant
          /\ objects \subseteq objects'
      BY <1>2
         DEF PutRaw, PersistPending, PutOcr, CommitReady, PutRedacted, Upsert, ChunkRows,
             Put
    <3>5. /\ \A x \in points' : x \in points \/ x.tenant = r.tenant
          /\ points \subseteq points'
      BY <1>2
         DEF PutRaw, PersistPending, PutOcr, CommitReady, PutRedacted, Upsert, ChunkRows,
             ChunksOf
    <3> QED
      BY <2>3, <3>1, <3>2, <3>3, <3>4, <3>5 DEF Holdings
  <2> QED
    BY <2>1, <2>2, <2>3 DEF Busy
<1>3. CASE CommitDelete(p) \/ DeletePoints(p)
  <2>1. n # r
    <3>1. r \in DeleteRequest
      BY <1>3, DeletesItsOwn
    <3>2. \A call : r.pc # call => [r EXCEPT !.pc = call] # r
      BY <3>1 DEF DeleteRequest
    <3>3. n = Idle \/ \E call : r.pc # call /\ n = [r EXCEPT !.pc = call]
      <4>1. CASE CommitDelete(p)
        BY <4>1, ProceedShape DEF CommitDelete, At, Becomes, TypeOK, WorkersTypeOK
      <4>2. CASE DeletePoints(p)
        BY <4>2 DEF DeletePoints, At, Goto, TypeOK, WorkersTypeOK
      <4> QED
        BY <1>3, <4>1, <4>2
    <3> QED
      BY <1>3, <3>2, <3>3, DeletesItsOwn
  <2>2. ASSUME r.tenant # t
        PROVE  Holdings(t)' = Holdings(t)
    <3>1. /\ documents' \subseteq documents /\ chunks' \subseteq chunks
          /\ redactions' \subseteq redactions /\ points' \subseteq points
          /\ UNCHANGED objects
          /\ \A x \in documents : x \in documents' \/ x.id = r.doc
          /\ \A x \in chunks : x \in chunks' \/ x.doc = r.doc
          /\ \A x \in redactions : x \in redactions' \/ x.doc = r.doc
          /\ \A x \in points : x \in points' \/ x.doc = r.doc
      BY <1>3 DEF CommitDelete, DeleteRow, DeletePoints, PointsWithout
    <3> QED
      BY <1>3, <2>2, <3>1, DeletesItsOwn DEF Holdings
  <2> QED
    BY <1>3, <2>1, <2>2, DeletesItsOwn
<1>4. Audit(p) => Holdings(t)' = Holdings(t)
  BY DEF Audit, Holdings
<1>5. AcceptRequest(p) => UNCHANGED stores
  BY AcceptShape DEF Accepts
<1> QED
  BY <1>1, <1>2, <1>3, <1>4, <1>5
     DEF Step, HandlerStep, UploadStep, IndexEmpty, DeleteStep, GetRow, QueryStep, Search,
         ResolveTitles, ListRows, Respond, CallFails, Crash

\* With the policies in force, a tenant's rows, objects and points change
\* only by a step of a request of that tenant.
THEOREM TenantsUndisturbed ==
    ASSUME RlsApplies
    PROVE  Spec => OnlyOwnRequestsChange
<1> DEFINE Undisturbed ==
             \A t \in Tenants :
                Holdings(t)' # Holdings(t) =>
                  \E p \in Processes : /\ request[p] # Idle
                                       /\ request[p].tenant = t
                                       /\ request'[p] # request[p]
<1>1. TypeOK /\ TypeOK' /\ Ownership /\ Integrity /\ [Next]_vars => [Undisturbed]_vars
  <2> SUFFICES ASSUME TypeOK, TypeOK', Ownership, Integrity, Next
               PROVE  Undisturbed \/ UNCHANGED vars
    OBVIOUS
  <2>1. ASSUME NEW p \in Processes, Step(p)
        PROVE  Undisturbed
    BY <2>1, StepsStayInTenant DEF Integrity
  <2> HIDE DEF Undisturbed
  <2> QED
    BY <2>1 DEF Next, Quiet, Step
<1>2. Spec => [](TypeOK /\ Ownership /\ Integrity)
  BY TypeCorrect, OwnershipHolds, IntegrityHolds, PTL
<1> QED
  BY <1>1, <1>2, PTL DEF Spec, OnlyOwnRequestsChange

-----------------------------------------------------------------------------
(* Orphans                                                                 *)

\* A request left half-way stays on record.
LEMMA UnfinishedGrows ==
    ASSUME NEW p \in Processes, Step(p)
    PROVE  unfinished \subseteq unfinished'
<1>1. AcceptRequest(p) => UNCHANGED unfinished
  BY AcceptShape DEF Accepts
<1>2. \A service, call : Error(p) \/ Proceed(p, service, call) => unfinished \subseteq unfinished'
  BY DEF Error, Abandon, Proceed
<1> QED
  BY <1>1, <1>2
     DEF Step, HandlerStep, UploadStep, PutRaw, PersistPending, PutOcr, CommitReady,
         PutRedacted, IndexEmpty, Upsert, ChunkRows, DeleteStep, GetRow, CommitDelete,
         DeletePoints, QueryStep, Search, ResolveTitles, ListRows, Audit, Respond,
         CallFails, Crash, Abandon

\* A row goes only by a deletion, which then removes the points or is left
\* half-way.
LEMMA RowGoes ==
    ASSUME TypeOK, NEW p \in Processes, Step(p),
           NEW d \in DocIds, HasRow(d), ~HasRow(d)'
    PROVE  \/ Serving(p, d)' /\ request'[p].pc = "delete_points"
           \/ d \in unfinished'
<1> DEFINE r == request[p]
<1>1. CASE documents \subseteq documents'
  BY <1>1 DEF HasRow
<1>2. CASE CommitDelete(p)
  <2>1. d = r.doc
    BY <1>2 DEF CommitDelete, DeleteRow, HasRow
  <2>2. CASE Error(p)
    BY <1>2, <2>1, <2>2 DEF Error, Abandon, PointCalls, CommitDelete, At
  <2>3. CASE Goto(p, "delete_points")
    <3>1. r \in DeleteRequest
      BY <1>2, HandlerAt DEF CommitDelete, At, DeleteCalls
    <3>2. request'[p] = [r EXCEPT !.pc = "delete_points"]
      BY <2>3 DEF Goto, TypeOK, WorkersTypeOK
    <3>3. request'[p].pc = "delete_points" /\ request'[p].doc = d
      BY <2>1, <3>1, <3>2 DEF DeleteRequest
    <3> QED
      BY <3>3 DEF Serving, Idle
  <2> QED
    BY <1>2, <2>2, <2>3 DEF CommitDelete, Proceed
<1>3. PersistPending(p) \/ CommitReady(p) \/ ChunkRows(p) => documents \subseteq documents'
  BY DEF PersistPending, CommitReady, ChunkRows
<1> QED
  BY <1>1, <1>2, <1>3, TableSteps

\* A process that was about to remove a document's points, or to insert its
\* chunk rows, does so or leaves the document half-way.
LEMMA ServiceEnds ==
    ASSUME TypeOK, Ownership, ChildRowsBelong, NEW p \in Processes, Step(p),
           NEW x \in points, x \in points', Serving(p, x.doc),
           request[p].pc \in {"delete_points", "chunk_rows"}
    PROVE  HasRow(x.doc)' \/ x.doc \in unfinished'
<1> DEFINE r == request[p]
<1>1. r.doc = x.doc /\ x.doc \in DocIds /\ x.doc # NoDoc
  BY WorkersAssumption DEF Serving, TypeOK, StoresTypeOK, Chunk
<1>2. CASE Error(p)
  BY <1>1, <1>2 DEF Error, Abandon, PointCalls, HasRow
<1>3. CASE Crash(p)
  BY <1>1, <1>3 DEF Crash, Abandon, PointCalls, HasRow
<1>4. CASE DeletePoints(p)
  <2>1. x.tenant = r.tenant
    BY <1>1, <1>4, DeletesItsOwn
  <2>2. x \notin PointsWithout(r.tenant, r.doc)
    BY <1>1, <2>1 DEF PointsWithout
  <2> QED
    BY <1>1, <1>4, <2>2 DEF DeletePoints
<1>5. CASE ChunkRows(p)
  BY <1>1, <1>2, <1>5 DEF ChunkRows, HasRow
<1>6. ~AcceptRequest(p)
  BY AcceptShape DEF Accepts, Serving
<1> QED
  BY <1>2, <1>3, <1>4, <1>5, <1>6
     DEF Step, HandlerStep, UploadStep, PutRaw, PersistPending, PutOcr, CommitReady,
         PutRedacted, IndexEmpty, Upsert, DeleteStep, GetRow, CommitDelete, QueryStep,
         Search, ResolveTitles, ListRows, Audit, Respond, CallFails, At

\* Every orphan stays accounted for.
LEMMA OrphansKept ==
    ASSUME TypeOK, TypeOK', Ownership, ChildRowsBelong, OrphansAccountedFor,
           NEW p \in Processes, Step(p)
    PROVE  OrphansAccountedFor'
<1> SUFFICES ASSUME NEW x \in points', ~HasRow(x.doc)', x.doc \notin unfinished'
             PROVE  \E q \in Processes :
                      /\ Serving(q, x.doc)'
                      /\ request'[q].pc \in {"delete_points", "chunk_rows"}
  BY DEF OrphansAccountedFor, ServingAt, Serving
<1>1. CASE x \notin points
  <2> DEFINE r == request[p]
             n == request'[p]
  <2>1. Busy(p, "upload") /\ r.doc = x.doc /\ Upsert(p)
    <3>1. x \in PointsAt(x.doc)' /\ x \notin PointsAt(x.doc)
      BY <1>1 DEF PointsAt
    <3>2. Busy(p, "upload") /\ r.doc = x.doc /\ (Upsert(p) \/ ChunkRows(p))
      BY <3>1, WhoTouches DEF Ownership
    <3> QED
      BY <1>1, <3>2 DEF ChunkRows
  <2>2. ~Error(p)
    BY <2>1 DEF Error, Abandon, PointCalls, Upsert, At, HasRow, TypeOK, StoresTypeOK, Chunk
  <2>3. n.pc = "chunk_rows" /\ n.doc = x.doc
    <3>1. PICK k : request' = [request EXCEPT ![p].pc = "chunk_rows", ![p].size = k]
      BY <2>1, <2>2 DEF Upsert
    <3>2. r \in UploadRequest
      BY <2>1, HandlerAt DEF Upsert, At, UploadCalls
    <3> QED
      BY <2>1, <3>1, <3>2 DEF UploadRequest, TypeOK, WorkersTypeOK
  <2> QED
    BY <2>3 DEF Serving, Idle
<1>2. CASE x \in points /\ HasRow(x.doc)
  <2>1. x.doc \in DocIds
    BY <1>2 DEF TypeOK, StoresTypeOK, Chunk
  <2> QED
    BY <1>2, <2>1, RowGoes
<1>3. CASE x \in points /\ ~HasRow(x.doc)
  <2>1. PICK q \in Processes : /\ Serving(q, x.doc)
                               /\ request[q].pc \in {"delete_points", "chunk_rows"}
    BY <1>3, UnfinishedGrows DEF OrphansAccountedFor, ServingAt
  <2>2. q # p
    BY <1>3, <2>1, ServiceEnds
  <2>3. request'[q] = request[q]
    BY <2>2, OthersWait DEF Ownership
  <2> QED
    BY <2>1, <2>3 DEF Serving
<1> QED
  BY <1>1, <1>2, <1>3

\* With the policies in force, no point outlives its row unless somebody is
\* about to remove it or some request for the document was left half-way.
THEOREM OrphansExplained ==
    ASSUME RlsApplies
    PROVE  Spec => []OrphansAccountedFor
<1>1. Init => OrphansAccountedFor
  BY DEF Init, StoresInit, OrphansAccountedFor
<1>2. TypeOK /\ TypeOK' /\ Ownership /\ Integrity /\ OrphansAccountedFor /\ [Next]_vars
        => OrphansAccountedFor'
  <2> SUFFICES ASSUME TypeOK, TypeOK', Ownership, Integrity, OrphansAccountedFor,
                      [Next]_vars
               PROVE  OrphansAccountedFor'
    OBVIOUS
  <2>1. CASE UNCHANGED vars
    BY <2>1 DEF vars, stores, OrphansAccountedFor, ServingAt, Serving, HasRow
  <2>2. ASSUME NEW p \in Processes, Step(p)
        PROVE  OrphansAccountedFor'
    BY <2>2, OrphansKept DEF Integrity
  <2> QED
    BY <2>1, <2>2 DEF Next, Quiet, Step
<1>3. Spec => [](TypeOK /\ Ownership /\ Integrity)
  BY TypeCorrect, OwnershipHolds, IntegrityHolds, PTL
<1> QED
  BY <1>1, <1>2, <1>3, PTL DEF Spec

-----------------------------------------------------------------------------
(* The handlers implement the tenants' library                             *)

\* The shelf of a tenant: the ids of its rows.
ShelfOf(t) == {r.id : r \in {r \in documents : r.tenant = t}}
Shelves == [t \in Tenants |-> ShelfOf(t)]

\* The two commits of an upload shelve one of its ids.
LEMMA StoreShelves ==
    ASSUME TypeOK, Lineage, NEW p \in Processes, NEW row,
           documents' = documents \cup {row},
           stored' = stored \cup {<<row.id, row.tenant>>},
           \A x \in stored : x[1] # row.id,
           row.tenant \in Tenants, row.id \in DocIds, UNCHANGED audit_log
    PROVE  Library!Next
<1>1. \A u \in Tenants : <<row.id, u>> \notin stored
  OBVIOUS
<1>2. Shelves' = [Shelves EXCEPT ![row.tenant] = @ \cup {row.id}]
  <2>1. ASSUME NEW t \in Tenants
        PROVE  ShelfOf(t)' = IF t = row.tenant THEN ShelfOf(t) \cup {row.id} ELSE ShelfOf(t)
    BY DEF ShelfOf
  <2> HIDE DEF ShelfOf
  <2> QED
    BY <2>1 DEF Shelves
<1>3. Library!Shelve(row.tenant, row.id)
  BY <1>1, <1>2 DEF Library!Shelve, Shelves, ShelfOf
<1> QED
  BY <1>3 DEF Library!Next

\* The commit of a deletion withdraws the document from its tenant's shelf,
\* if it is still there.
LEMMA DeleteWithdraws ==
    ASSUME TypeOK, Ownership, ChildRowsBelong, NEW p \in Processes, CommitDelete(p)
    PROVE  Library!Next \/ UNCHANGED Library!libraryVars
<1> DEFINE r == request[p]
<1>1. /\ documents' = {row \in documents : row.id # r.doc}
      /\ UNCHANGED <<stored, audit_log>>
  BY DEF CommitDelete, DeleteRow
<1>2. r.tenant \in Tenants /\ r.doc \in DocIds
  BY DeletesItsOwn DEF DeleteRequest
<1>3. CASE HasRow(r.doc)
  <2>1. r.doc \in ShelfOf(r.tenant)
    BY <1>3, DeletesItsOwn DEF HasRow, ShelfOf
  <2>2. Shelves' = [Shelves EXCEPT ![r.tenant] = @ \ {r.doc}]
    <3>1. ASSUME NEW t \in Tenants
          PROVE  ShelfOf(t)' = IF t = r.tenant THEN ShelfOf(t) \ {r.doc} ELSE ShelfOf(t)
      <4>1. ShelfOf(t)' = ShelfOf(t) \ {r.doc}
        BY <1>1 DEF ShelfOf
      <4>2. t # r.tenant => r.doc \notin ShelfOf(t)
        BY DeletesItsOwn DEF ShelfOf
      <4> QED
        BY <4>1, <4>2
    <3> HIDE DEF ShelfOf
    <3> QED
      BY <1>2, <3>1 DEF Shelves
  <2>3. PICK t \in Tenants, d \in DocIds : t = r.tenant /\ d = r.doc
    BY <1>2
  <2>4. Library!Withdraw(t, d)
    BY <1>1, <2>1, <2>2, <2>3 DEF Library!Withdraw, Shelves, ShelfOf
  <2> QED
    BY <2>4 DEF Library!Next
<1>4. CASE ~HasRow(r.doc)
  <2>1. UNCHANGED documents
    BY <1>1, <1>4 DEF HasRow
  <2> QED
    BY <1>1, <2>1 DEF Library!libraryVars
<1> QED
  BY <1>3, <1>4

\* The audit insert records what is true of the shelf.
LEMMA AuditRecords ==
    ASSUME TypeOK, Ownership, Ownership', NEW p \in Processes, Audit(p), PlainInsertAllowed
    PROVE  Library!Next
<1> DEFINE r == request[p]
<1>1. r \in Request /\ r \notin ListRequest /\ r.pc = "audit"
  BY HandlerAt DEF Audit, At, LastCalls
<1>2. PICK docs : docs = AuditDocs(r)
  OBVIOUS
<1>3. /\ r.op \in {"upload", "delete", "query"} /\ r.tenant \in Tenants
      /\ docs \in SUBSET DocIds
  BY <1>1, <1>2 DEF Request, UploadRequest, DeleteRequest, QueryRequest, AuditDocs, DocIds
<1> DEFINE e == [action |-> r.op, tenant |-> r.tenant, docs |-> docs]
<1>4. /\ audit_log' = Append(audit_log, e)
      /\ UNCHANGED <<documents, stored>>
  BY <1>2 DEF Audit
<1>5. \A d \in docs : <<d, r.tenant>> \in stored /\ (r.op = "delete" => ~HasRow(d))
  <2>1. PICK i \in DOMAIN audit_log' : audit_log'[i] = e
    <3>1. audit_log \in Seq(Entry)
      BY DEF TypeOK, StoresTypeOK
    <3> HIDE DEF e
    <3>2. Len(audit_log) + 1 \in DOMAIN audit_log' /\ audit_log'[Len(audit_log) + 1] = e
      BY <1>4, <3>1
    <3> QED
      BY <3>2
  <2>2. audit_log'[i].docs = docs /\ audit_log'[i].tenant = r.tenant
          /\ audit_log'[i].action = r.op
    BY <2>1
  <2> QED
    BY <1>4, <2>2 DEF Ownership, AuditTellsTruth, HasRow
<1>6. r.op = "delete" => docs \cap Shelves[r.tenant] = {}
  BY <1>3, <1>5 DEF Shelves, ShelfOf, HasRow
<1>7. docs \X {r.tenant} \subseteq stored
  BY <1>5
<1>8. UNCHANGED Shelves
  BY <1>4 DEF Shelves, ShelfOf
<1>9. Library!Record(r.tenant, r.op, docs)
  BY <1>4, <1>6, <1>7, <1>8 DEF Library!Record, Shelves, ShelfOf
<1> QED
  BY <1>3, <1>9 DEF Library!Next

\* Every step is a step of the library, or one its readers do not see.
LEMMA StepsImplementLibrary ==
    ASSUME TypeOK, Ownership, Ownership', ChildRowsBelong, NEW p \in Processes, Step(p)
    PROVE  Library!Next \/ UNCHANGED Library!libraryVars
<1> DEFINE r == request[p]
<1>1. CASE UNCHANGED <<documents, stored, audit_log>>
  BY <1>1 DEF Library!libraryVars
<1>2. CASE PersistPending(p)
  <2>1. r \in UploadRequest /\ UNCHANGED audit_log
    BY <1>2, HandlerAt DEF PersistPending, At, UploadCalls
  <2> QED
    BY <1>1, <1>2, <2>1, PendingCommit, StoreShelves, UploadFields DEF Ownership
<1>3. CASE CommitReady(p)
  <2>1. r \in UploadRequest /\ UNCHANGED audit_log
    BY <1>3, HandlerAt DEF CommitReady, At, UploadCalls
  <2>2. PICK k \in 0..MaxEntities :
             /\ documents' = documents \cup {ReadyRow(r, k)}
             /\ stored' = stored \cup {<<r.doc, r.tenant>>}
             /\ \A x \in stored : x[1] # r.doc
    BY <1>3, ReadyCommit DEF Ownership
  <2>3. PICK row : row = ReadyRow(r, k)
    OBVIOUS
  <2>4. row.id = r.doc /\ row.tenant = r.tenant
    BY <2>3 DEF ReadyRow
  <2> QED
    BY <2>1, <2>2, <2>3, <2>4, StoreShelves, UploadFields DEF Ownership
<1>4. CASE CommitDelete(p)
  BY <1>4, DeleteWithdraws
<1>5. CASE Audit(p)
  BY <1>1, <1>5, AuditRecords DEF Audit
<1>6. AcceptRequest(p) => UNCHANGED <<stores, stored>>
  BY AcceptShape DEF Accepts
<1> QED
  BY <1>1, <1>2, <1>3, <1>4, <1>5, <1>6
     DEF Step, HandlerStep, UploadStep, PutRaw, PutOcr, PutRedacted, IndexEmpty, Upsert,
         ChunkRows, DeleteStep, GetRow, DeletePoints, QueryStep, Search, ResolveTitles,
         ListRows, Respond, CallFails, Crash, stores

\* With the policies in force, all that the tenants can see of the service,
\* with its processes, failures and crashes, is a library in which every
\* document has one shelf and the ledger is true.
THEOREM ServiceImplementsLibrary ==
    ASSUME RlsApplies
    PROVE  Spec => ImplementsLibrary
<1>1. Init => Library!Init
  BY DEF Init, StoresInit, WorkersInit, Library!Init
<1>2. TypeOK /\ Ownership /\ Ownership' /\ Integrity /\ [Next]_vars
        => [Library!Next]_(Library!libraryVars)
  <2> SUFFICES ASSUME TypeOK, Ownership, Ownership', Integrity, [Next]_vars
               PROVE  Library!Next \/ UNCHANGED Library!libraryVars
    OBVIOUS
  <2>1. CASE UNCHANGED vars
    BY <2>1 DEF vars, stores, Library!libraryVars
  <2>2. ASSUME NEW p \in Processes, Step(p)
        PROVE  Library!Next \/ UNCHANGED Library!libraryVars
    BY <2>2, StepsImplementLibrary DEF Integrity
  <2> QED
    BY <2>1, <2>2 DEF Next, Quiet, Step
<1>3. Spec => [](TypeOK /\ Ownership /\ Integrity)
  BY TypeCorrect, OwnershipHolds, IntegrityHolds, PTL
<1> QED
  BY <1>1, <1>2, <1>3, PTL DEF Spec, ImplementsLibrary, Library!Spec
================================================================================
