--------------------------- MODULE UploadHandler ----------------------------
(***************************************************************************)
(* POST /documents/upload: upload_document of api/v1/documents.py with     *)
(* IngestionService (services/ingest/service.py) and DocumentIndexer       *)
(* (services/rag/indexer.py), which it calls in line.                      *)
(***************************************************************************)
EXTENDS Workers

\* The document id is drawn before anything is stored; ensure_bucket's
\* failure is swallowed.
Upload(p, t) ==
    \E f \in Files \ received :
        /\ Accept(p, "upload", "put_raw", t, DocId(f))
        /\ received' = received \cup {f}

PutRaw(p) ==
    LET r == request[p]
    IN  /\ At(p, "put_raw")
        /\ Put("uploads", r.tenant, r.doc)
        /\ Proceed(p, "s3", "persist_pending")
        /\ UNCHANGED <<documents, chunks, redactions, audit_log, points,
                       received, accepted, crashed, stored>>

\* persist_pending_document draws an id of its own, and the handler drops
\* the id it returns.
PersistPending(p) ==
    LET r   == request[p]
        row == [id |-> PlaceholderId(r.doc[1]), tenant |-> r.tenant,
                file |-> r.doc[1], status |-> "pending", entities |-> 0]
    IN  /\ At(p, "persist_pending")
        /\ IF PlainInsertAllowed
             THEN /\ documents' = documents \cup {row}
                  /\ stored' = stored \cup {<<row.id, row.tenant>>}
                  /\ Proceed(p, "postgres", "put_ocr")
             ELSE Error(p) /\ UNCHANGED <<documents, stored>>
        /\ UNCHANGED <<chunks, redactions, audit_log, objects, points,
                       received, accepted, crashed>>

\* The OCR text is written beside the raw object.
PutOcr(p) ==
    LET r == request[p]
    IN  /\ At(p, "put_ocr")
        /\ Put("ocr", r.tenant, r.doc)
        /\ Proceed(p, "s3", "commit_ready")
        /\ UNCHANGED <<documents, chunks, redactions, audit_log, points,
                       received, accepted, crashed, stored>>

\* One transaction: the document, already "ready", and one record per
\* redacted span.
ReadyRow(r, k) == [id |-> r.doc, tenant |-> r.tenant, file |-> r.doc[1],
                   status |-> "ready", entities |-> k]
\* Faulty variant: one record too many.
RedactionsFromZero(r, k) == {[doc |-> r.doc, n |-> i, tenant |-> r.tenant] : i \in 0..k}

RedactionsOf(r, k) == {[doc |-> r.doc, n |-> i, tenant |-> r.tenant] : i \in 1..k}
CommitReady(p) ==
    LET r == request[p]
    IN  /\ At(p, "commit_ready")
        /\ \E k \in 0..MaxEntities :
             /\ documents'  = documents \cup {ReadyRow(r, k)}
             /\ redactions' = redactions \cup RedactionsOf(r, k)
        /\ stored' = stored \cup {<<r.doc, r.tenant>>}
        /\ Proceed(p, "postgres", "put_redacted")
        /\ UNCHANGED <<chunks, audit_log, objects, points,
                       received, accepted, crashed>>

\* The redacted text is written after the commit.
PutRedacted(p) ==
    LET r == request[p]
    IN  /\ At(p, "put_redacted")
        /\ Put("redacted", r.tenant, r.doc)
        /\ Proceed(p, "s3", "upsert")
        /\ UNCHANGED <<documents, chunks, redactions, audit_log, points,
                       received, accepted, crashed, stored>>

\* index_document: a document without text gets no points and no rows;
\* otherwise all its points are upserted before its rows are inserted.  An
\* upsert whose request fails half-way may leave any of them.
IndexEmpty(p) ==
    /\ At(p, "upsert")
    /\ Goto(p, "audit")
    /\ UNCHANGED <<stores, replies, unfinished, received, accepted, crashed, stored>>
Upsert(p) ==
    LET r == request[p]
    IN  /\ At(p, "upsert")
        /\ UNCHANGED <<documents, chunks, redactions, audit_log, objects,
                       received, accepted, crashed, stored>>
        /\ \E k \in 1..MaxChunks :
             LET batch == ChunksOf(r.tenant, r.doc, k)
             IN  \/ /\ points' = points \cup batch
                    /\ request' = [request EXCEPT ![p].pc = "chunk_rows",
                                                  ![p].size = k]
                    /\ UNCHANGED <<replies, unfinished>>
                 \/ /\ "vectors" \in Faulty
                    /\ \E part \in SUBSET batch : points' = points \cup part
                    /\ Error(p)

\* Faulty variant: the insert waits for a row that never comes.
ForeignKeyWaits(p) ==
    LET r == request[p]
    IN  /\ At(p, "chunk_rows") /\ HasRow(r.doc)
        /\ UNCHANGED <<documents, redactions, audit_log, objects, points,
                       received, accepted, crashed, stored>>
        /\ chunks' = chunks \cup ChunksOf(r.tenant, r.doc, r.size)
        /\ Proceed(p, "postgres", "audit")

\* The rows reference the document: if it was deleted meanwhile the foreign
\* key rejects them and the upload fails.
ChunkRows(p) ==
    LET r == request[p]
    IN  /\ At(p, "chunk_rows")
        /\ UNCHANGED <<documents, redactions, audit_log, objects, points,
                       received, accepted, crashed, stored>>
        /\ IF HasRow(r.doc)
             THEN /\ chunks' = chunks \cup ChunksOf(r.tenant, r.doc, r.size)
                  /\ Proceed(p, "postgres", "audit")
             ELSE Error(p) /\ UNCHANGED chunks

UploadStep(p) ==
    \/ PutRaw(p)
    \/ PersistPending(p)
    \/ PutOcr(p)
    \/ CommitReady(p)
    \/ PutRedacted(p)
    \/ IndexEmpty(p)
    \/ Upsert(p)
    \/ ChunkRows(p)
=============================================================================
