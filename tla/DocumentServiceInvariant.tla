---------------------- MODULE DocumentServiceInvariant ----------------------
(***************************************************************************)
(* The inductive invariants behind the theorems about the service.         *)
(* Lineage ties the requests in flight to the history of stored rows, with *)
(* or without row-level security.  On it stand Ownership, why the audit    *)
(* log tells the truth and answers stay in their tenant if the policies    *)
(* apply, and Integrity, why the tables, the bucket, the index and the     *)
(* audit log agree although no transaction spans them.                     *)
(***************************************************************************)
EXTENDS DocumentService

Busy(p, op) == request[p] # Idle /\ request[p].op = op

Owns(t, d) == <<d, t>> \in stored

\* Before CommitReady an upload has not stored its document; before
\* PersistPending it has stored nothing.
BeforeReady   == {"put_raw", "persist_pending", "put_ocr", "commit_ready"}
BeforePending == {"put_raw", "persist_pending"}

\* A file is uploaded by one request, once.
OneUploadPerFile ==
    /\ \A p \in Processes : Busy(p, "upload") =>
          /\ request[p].doc[1] \in received
          /\ \A q \in Processes :
                (Busy(q, "upload") /\ request[q].doc = request[p].doc) => q = p
    /\ \A x \in stored : x[1][1] \in received

\* The ids drawn for one file are stored by one tenant: that of its upload.
OneOwnerPerFile ==
    /\ \A x, y \in stored : x[1][1] = y[1][1] => x[2] = y[2]
    /\ \A x \in stored, p \in Processes :
          (Busy(p, "upload") /\ x[1][1] = request[p].doc[1]) =>
              x[2] = request[p].tenant

\* How far an upload is decides which of its ids are in the history.
UploadProgress ==
    \A p \in Processes : Busy(p, "upload") =>
        IF request[p].pc \in BeforeReady
          THEN \A x \in stored :
                 x[1][1] = request[p].doc[1] =>
                    /\ x[1] # request[p].doc
                    /\ request[p].pc \notin BeforePending
          ELSE Owns(request[p].tenant, request[p].doc)

\* A row was stored by its tenant; the two ids of a file are those of its
\* two rows.
RowsStored ==
    \A r \in documents :
        /\ Owns(r.tenant, r.id)
        /\ r.id = IF r.status = "ready" THEN DocId(r.file) ELSE PlaceholderId(r.file)

\* A deletion that got past the lookup is of a document some tenant stored,
\* which has no row any more once it got past the commit.
DeletesStored ==
    \A p \in Processes : Busy(p, "delete") =>
        /\ request[p].pc # "get_row" => \E t \in Tenants : Owns(t, request[p].doc)
        /\ request[p].pc \notin {"get_row", "commit_delete"} =>
              ~HasRow(request[p].doc)

Lineage ==
    /\ OneUploadPerFile
    /\ OneOwnerPerFile
    /\ UploadProgress
    /\ RowsStored
    /\ DeletesStored

-----------------------------------------------------------------------------
(* Ownership, when the row-level policies apply                            *)

\* A deletion that got past the lookup is of its own tenant's document.
DeletesOwn ==
    \A p \in Processes : (Busy(p, "delete") /\ request[p].pc # "get_row") =>
        Owns(request[p].tenant, request[p].doc)

\* What is indexed, being read or answered is owned by its tenant.
HoldingsOwned ==
    /\ \A q \in points : Owns(q.tenant, q.doc)
    /\ \A p \in Processes : request[p] # Idle =>
          \A d \in request[p].docs \cup request[p].titled :
              Owns(request[p].tenant, d)
    /\ \A a \in replies : \A d \in a.docs \cup a.titled : Owns(a.tenant, d)

Ownership ==
    /\ Lineage
    /\ DeletesOwn
    /\ HoldingsOwned
    /\ AuditTellsTruth

-----------------------------------------------------------------------------
(* Integrity, whether they do or not                                       *)

\* What an upload has put in the bucket by the time it makes each call.
ObjectOf(prefix, r) == [prefix |-> prefix, tenant |-> r.tenant, doc |-> r.doc]
ObjectsFirst ==
    \A p \in Processes : Busy(p, "upload") =>
        /\ request[p].pc # "put_raw" => ObjectOf("uploads", request[p]) \in objects
        /\ request[p].pc \notin {"put_raw", "persist_pending", "put_ocr"} =>
              ObjectOf("ocr", request[p]) \in objects
        /\ request[p].pc \in {"upsert", "chunk_rows"} \cup LastCalls =>
              ObjectOf("redacted", request[p]) \in objects

\* A request about to be answered, unless it is a listing, has its entry.
EntryOf(r) == [action |-> r.op, tenant |-> r.tenant, docs |-> AuditDocs(r)]
Audited(r) == \E i \in DOMAIN audit_log : audit_log[i] = EntryOf(r)
AuditedFirst ==
    \A p \in Processes :
        (request[p].pc = "respond" /\ request[p].op # "list") => Audited(request[p])

PointsAt(d) == {q \in points : q.doc = d}
ChunksAt(d) == {c \in chunks : c.doc = d}

\* The calls of an upload before it touches the index.
BeforeUpsert == BeforeReady \cup {"put_redacted", "upsert"}

\* Only an upload adds points and chunk rows, and only of its document; what
\* it has added by the time it makes each call, if its row is still there.
IndexProgress ==
    /\ \A q \in points : q.doc[1] \in received
    /\ \A p \in Processes : Busy(p, "upload") =>
          LET r == request[p]
          IN  /\ r.pc \in BeforeUpsert => PointsAt(r.doc) = {}
              /\ r.pc \in BeforeUpsert \cup {"chunk_rows"} => ChunksAt(r.doc) = {}
              /\ (r.pc = "chunk_rows" /\ HasRow(r.doc)) =>
                    PointsAt(r.doc) = ChunksOf(r.tenant, r.doc, r.size)
              /\ (r.pc \in LastCalls /\ HasRow(r.doc)) =>
                    PointsAt(r.doc) = ChunksAt(r.doc)

\* The upload that was acknowledged stored its document, and no other upload
\* is of that document.
AcknowledgedIsOver ==
    \A a \in replies : (a.op = "upload" /\ a.code = "ok") =>
        /\ Owns(a.tenant, a.doc)
        /\ \A p \in Processes : Busy(p, "upload") => request[p].doc # a.doc

Integrity ==
    /\ ChildRowsBelong
    /\ ObjectsFirst /\ RowsHaveObjects
    /\ AuditedFirst /\ SuccessesAreAudited
    /\ IndexProgress /\ AcknowledgedIsOver /\ IndexMatchesRows
=============================================================================
