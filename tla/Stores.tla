------------------------------- MODULE Stores -------------------------------
(***************************************************************************)
(* What the worker processes of the backend share: the Postgres tables     *)
(* (backend/app/models/orm.py, the schema of the initial migration), the   *)
(* S3 bucket (services/storage/s3.py) and the vector store                 *)
(* (services/rag/vector_store.py).  The operators are the statements and   *)
(* calls the handlers issue against them; each is atomic, as a committed   *)
(* transaction or one object or points request is.                         *)
(***************************************************************************)
EXTENDS Naturals, FiniteSets, Sequences

CONSTANTS
    Tenants,           \* tenant ids of authenticated principals
    Files,             \* the files that may be uploaded
    MaxChunks,         \* bound: chunks one document is split into
    MaxEntities,       \* bound: PII spans found in one document
    TopK,              \* top_k of a query
    EnableRls,         \* settings.enable_rls
    OwnerBypassesRls   \* the login role (edi_owner) is not subject to RLS

ASSUME StoresAssumption ==
    /\ MaxChunks \in Nat
    /\ MaxEntities \in Nat
    /\ TopK \in Nat \ {0}
    /\ EnableRls \in BOOLEAN
    /\ OwnerBypassesRls \in BOOLEAN

VARIABLES
    documents,     \* rows of documents
    chunks,        \* rows of document_chunks
    redactions,    \* rows of redaction_records
    audit_log,     \* rows of audit_log, in the order of their BIGSERIAL id
    objects,       \* the keys present in the bucket
    points         \* the points of the vector collection

stores == <<documents, chunks, redactions, audit_log, objects, points>>

\* Document ids are UUIDs, drawn at random.  Two are drawn for an uploaded
\* file: one by the handler, one by persist_pending_document.
DocId(f) == <<f, "document">>
PlaceholderId(f) == <<f, "placeholder">>
DocIds == Files \X {"document", "placeholder"}

\* `file` is the uploaded file the row's s3_key names.
Document  == [id: DocIds, tenant: Tenants, file: Files,
              status: {"pending", "ready"}, entities: 0..MaxEntities]
\* chunk_id is a fresh UUID per chunk: <<document, position>> names it.
Chunk     == [doc: DocIds, n: 1..MaxChunks, tenant: Tenants]
Redaction == [doc: DocIds, n: 1..MaxEntities, tenant: Tenants]
Entry     == [action: {"upload", "delete", "query"}, tenant: Tenants,
              docs: SUBSET DocIds]
Object    == [prefix: {"uploads", "ocr", "redacted"}, tenant: Tenants,
              doc: DocIds]

StoresInit ==
    /\ documents  = {}
    /\ chunks     = {}
    /\ redactions = {}
    /\ audit_log  = << >>
    /\ objects    = {}
    /\ points     = {}

StoresTypeOK ==
    /\ documents  \subseteq Document
    /\ chunks     \subseteq Chunk
    /\ redactions \subseteq Redaction
    /\ audit_log  \in Seq(Entry)
    /\ objects    \subseteq Object
    /\ points     \subseteq Chunk

-----------------------------------------------------------------------------
(* Row-level security                                                      *)

\* The rows a tenant_scoped_session of tenant t sees: its policy compares
\* tenant_id with the GUC set at the start of the transaction, under the
\* role edi_app, or under the owner if the policy is forced on it.
RlsApplies == EnableRls \/ ~OwnerBypassesRls

\* Faulty variant: the policy is missing.
VisibleToAnyTenant(t) == documents

VisibleTo(t) == {r \in documents : RlsApplies => r.tenant = t}

\* The plain sessions of ingestion and of the audit logger set no GUC, so
\* the forced policy rejects their inserts unless the role bypasses it.
PlainInsertAllowed == OwnerBypassesRls

-----------------------------------------------------------------------------
(* Postgres statements                                                     *)

HasRow(d) == \E r \in documents : r.id = d

\* Faulty variant: no cascade to the chunks.
DeleteRowKeepingChunks(d) ==
    /\ documents'  = {r \in documents : r.id # d}
    /\ redactions' = {s \in redactions : s.doc # d}
    /\ chunks'     = chunks

\* DELETE of one document; both child tables are ON DELETE CASCADE.
DeleteRow(d) ==
    /\ documents'  = {r \in documents : r.id # d}
    /\ chunks'     = {c \in chunks : c.doc # d}
    /\ redactions' = {s \in redactions : s.doc # d}

-----------------------------------------------------------------------------
(* Objects and points                                                      *)

\* Faulty variant: the object is never written.
PutSwallowed(prefix, t, d) == objects' = objects

Put(prefix, t, d) ==
    objects' = objects \cup {[prefix |-> prefix, tenant |-> t, doc |-> d]}

ChunksOf(t, d, n) == {[doc |-> d, n |-> i, tenant |-> t] : i \in 1..n}

\* Faulty variant: the filter forgets the document.
PointsOfTenantDropped(t, d) == {p \in points : p.tenant # t}

\* delete_document: the filter requires both payload fields to match.
PointsWithout(t, d) == {p \in points : ~(p.tenant = t /\ p.doc = d)}

\* Faulty variant: the filter forgets the tenant.
SearchAllTenants(t) == {h \in SUBSET points : Cardinality(h) <= TopK}

\* search: only points whose payload carries the tenant, the best TopK of
\* them by similarity.  Which ones are best is left open.
SearchResults(t) ==
    LET mine == {p \in points : p.tenant = t}
    IN  {h \in SUBSET mine : /\ Cardinality(h) <= TopK
                             /\ Cardinality(mine) <= TopK => h = mine}
=============================================================================
