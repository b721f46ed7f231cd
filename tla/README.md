# TLA+ models of the Document Intelligence & Compliance Assistant

The program (`src/backend`) is a multi-tenant document service: uploads are
OCR'd, stripped of personal data, chunked and indexed; tenants query, list and
delete their documents; everything that succeeds is audited. This directory
holds TLA+ modules translated from that code, the TLC configurations that check
them on small instances, and theorems about them that TLAPS checks for every
value of the constants. `PROJECT.json` lists the runs, the theorems, the source
lines each definition stands for, the hazards and the findings.

Contents: [1 Inventory](#1-inventory) · [2 Modules](#2-modules) ·
[3 Runs](#3-runs) · [4 Findings](#4-findings) · [5 Proofs](#5-proofs) ·
[6 Assumptions and bounds](#6-modelling-assumptions-and-bounds) ·
[7 Not modelled](#7-not-modelled) · [8 Plan](#8-plan)

## 1 Inventory

### How the parts interact

Two worker processes (`uvicorn --workers 2`, `Dockerfile.backend`) run the same
FastAPI application. They share three stores and nothing else: Postgres, one S3
bucket, one vector collection. Each process holds caches of its own (settings,
AWS clients, the JWKS).

The handlers of documents and queries are `async def` but, after reading the
request body, contain no `await`: every call to Postgres, S3, Textract,
Comprehend, Bedrock and the vector store blocks the event loop. So **inside one
process a handler runs alone; between any two of its calls the other process may
do anything.** No transaction spans two stores, and most handlers use several
transactions of Postgres as well. Most of what is hard in this system follows
from that.

Two parts do suspend: the key lookup, which awaits the user pool, and the event
source of a streamed answer, which gives way after every token. And two talk to
a party that does not wait for them: a stream's page may leave at any moment,
and OpenSearch answers from a snapshot that is behind its writes.

### Components

| Component (source under `backend/app`) | State | Operations | What is hard | What makes it correct |
|---|---|---|---|---|
| **Upload** `api/v1/documents.py`, `services/ingest/service.py`, `services/rag/indexer.py` | rows, objects, points of one document | put raw, persist pending, OCR, redact, commit ready, put redacted, upsert points, insert chunk rows, audit | eight effects, no common transaction; visible as `ready` before it is indexed; deletion by another process in between | child rows belong to their document; a row has its objects; index and rows agree; an error leaves only what it can account for |
| **Deletion** `api/v1/documents.py` | – | look up under RLS, delete with cascade, delete points (best effort), delete object, audit | the lookup and the commit are apart; the points are removed after the row; failures swallowed | only own documents; nothing deleted comes back; what is acknowledged is audited |
| **Query and listing** `services/generation/pipeline.py`, `services/rag/retriever.py` | – | search, generate, resolve titles, audit; list | documents vanish between search and title lookup | nothing of another tenant is ever shown |
| **Audit log** `services/audit/logger.py` | `audit_log` | one insert in a transaction of its own | comes last, after the effects | complete for what was answered, true for what it says |
| **Sessions and RLS** `db/session.py`, migration | role and GUC of a transaction | tenant-scoped and plain sessions | isolation rests on role switch, GUC and forced policy | a tenant's session sees only its rows |
| **Schema** `models/orm.py`, migration | `documents`, `document_chunks`, `redaction_records`, `audit_log` | insert, cascading delete | foreign keys meet concurrent deletion | referential integrity |
| **Object storage** `services/storage/s3.py` | keys in the bucket | put, delete of one key | no listing, no prefix deletion | objects follow their rows |
| **Vector store** `services/rag/vector_store.py`, `api/v1/health.py` | collection, points, the snapshot searched | create, upsert, filtered search, delete by filter | lost replies, partial upserts, repeated requests, refresh delay, racing creation | every operation names the tenant; what a deletion found stays gone |
| **OCR** `services/ingest/ocr.py` | job, token, deadline | start job, poll, collect answers | job and poller interleave; paging; deadline | whole result or an error, in bounded time |
| **PII redaction** `services/pii/service.py` | sorted spans, cursor | detect, drop overlaps, splice | overlaps, off-by-one, truncation | text outside the recorded spans, and nothing else, survives |
| **Chunker** `services/rag/chunker.py` | two nested buffers | pack paragraphs, pack sentences, overlap | carry-over between buffers, sizes, indexes | no sentence lost or repeated, bounded size |
| **Streaming** `api/v1/streaming.py`, `streaming_ws.py`, `stream` of the pipeline and of `services/generation/bedrock.py` | event generator | record, sources, tokens, final or error | disconnects, errors, audit before the first token | ordered events, one end, audited whatever becomes of it |
| **Browser client** `frontend/static/app.js` | what is read, what is shown | ask, read a piece, handle an event | pieces that are no whole events, a connection that breaks | a part of an answer never passes for the whole |
| **Authentication** `core/security.py` | JWKS cache with expiry | fetch, verify | the cache is read before an `await` and written after it | keys no older than their time to live |
| **Audit listing** `api/v1/audit.py`, `list_for_tenant` | – | one page, by offset | entries arrive, with older stamps, between two pages | a walk misses nothing it knows of |
| **Embeddings, whole answers** | – | pure or one remote call | – | – |
| **Shell, demo seeding, infrastructure, tests** | settings, clients | wiring | – | – |

`PROJECT.json` lists every component with its sources and status, and 38
hazards, each at the line where it bites, with the properties that would notice
it go wrong or the reason why there is none.

## 2 Modules

```
Stores ── Workers ──┬── UploadHandler ─┐
                    ├── DeleteHandler ─┼── DocumentService ── DocumentServiceInvariant ──┬── MCDocumentService
                    └── QueryHandler ──┘        │ INSTANCE                               └── DocumentServiceProofs
                                           TenantLibrary (abstract)                              │
                                                                                       DocumentIntegrityProofs

TextractPoll ── TextractPollProofs    Redaction ── RedactionProofs    Chunker ── ChunkerProofs

JwksCache ──┬── MCJwksCache
            └── JwksCacheProofs

VectorIndex ──┬── MCVectorIndex           AuditTrail ── Streaming ── StreamingProofs
   │ INSTANCE └── VectorIndexProofs
PointStore (abstract)
```

An edge is EXTENDS, left to right.

**Stores** – the shared state as sets of records: `documents`, `chunks`,
`redactions`, `audit_log` (a sequence, as its BIGSERIAL id orders it),
`objects`, `points`. Its operators are the statements the handlers issue:
`DeleteRow` with both cascades, `Put`, `PointsWithout` (delete by filter),
`SearchResults` (the tenant filter and `TopK`; which points score best is open),
`VisibleTo` (what a tenant-scoped session sees). A document id is a UUID and is
represented by the file it was drawn for; two are drawn per file, because
`persist_pending_document` draws its own. `EnableRls` and `OwnerBypassesRls` are
the setting and the privilege that decide whether the policies apply.

**Workers** – one request record per process. `pc` names *the call the handler
makes next*; a step is one call that changes shared state, with the reads and
the computation before it. `Proceed` is a call that took effect and either
returned or lost its reply; `CallFails` one that failed without effect; `Error`
an exception that leaves the handler (500, everything done stays done); `Crash`
the death of a worker. `Audit` is `AuditLogger._write`. `replies`, `stored` and
`unfinished` are history variables: no action's guard reads them. `unfinished`
takes in the document of a request that ends early at a call that concerns points
(`PointCalls`), if the document has no row by then.

**UploadHandler, DeleteHandler, QueryHandler** – one action per call, in the
order of the code:

| Action | Code |
|---|---|
| `PutRaw`, `PersistPending`, `PutOcr`, `CommitReady`, `PutRedacted` | `upload_document`, `persist_pending_document`, `ingest_from_s3` |
| `IndexEmpty`, `Upsert`, `ChunkRows` | `DocumentIndexer.index_document`: no text; points; rows, rejected by the foreign key if the document is gone |
| `GetRow`, `CommitDelete`, `DeletePoints` | `delete_document`: 404, commit with cascades, the swallowed vector-store failure and the S3 call that names no object |
| `Search`, `ResolveTitles`, `ListRows` | `RagPipeline.query`, `list_documents` |

**DocumentService** – composes them and states the properties. **TenantLibrary**
is what the API promises, without processes, stores or failures: a shelf per
tenant, an id shelved once and by one tenant, nothing withdrawn comes back, a
ledger that grows only by entries true of the shelf.

**TextractPoll** – `extract_text_async` and `_poll_async_job` on a clock of
seconds, with a job that finishes when it pleases or never.

**Redaction** – the two redactors as loops: `Detect` is one round over the
sorted spans, `Redact` one splice, `Finish` the rest of the text. Characters are
their positions, a placeholder is the negated number of its type. The spans come
from outside (every set of matches; every set of entities).

**Chunker** – `_chunk_single` and `_split_long` as one state machine over
lengths. A text is known by where its sentences end, a buffer also by the pieces
the sentence pattern divides it into; a piece of text carries the list of
sentences that are in it as new text, so that loss and repetition can be told.
An overlap may be cut anywhere, and the ends of sentences it holds (`Cuts`) are
split at again when the next buffer is too long.

**JwksCache** – `_load_jwks` and the lookup of the token's key, for the
coroutines of one process. `Arrive` runs to the `await` (or answers from a fresh
cache), `Serve` is the user pool answering with what it publishes at that
moment, `Store` what follows the `await`: the cache is overwritten, whatever it
holds by then, and stamped with the time taken *before* the request. `Rotate`
lets the pool publish any other set of keys; `lastSeen` and `lastMissing`
remember when each key was published and missing last.

**VectorIndex** – the Qdrant and OpenSearch adapters between construction and
answer, for several handlers at once. `Construct` looks for the collection and
`Create` makes it, or raises if another handler was faster. `Upsert`,
`DeleteAtOnce` and `Search` are one call each. Under OpenSearch `visible`, what
searches look at, is behind `points` until `Refresh`; a deletion first scans it
(`Scan`) and then deletes what it found and refreshes (`Sweep`), or stops at a
conflict or failure half-way (`SweepStops`); a bulk upsert may store a part, and
the client library may send it again (`Settle`); a search filters the best
`TopK` of all tenants (`Hits`). **PointStore** is what the handlers take a
vector store for, and what `Stores` has in the service: a set of points that
changes by whole documents of one tenant.

**AuditTrail** – the audit log as it is read: `Stamp` takes the time when the
record is made, `Insert` commits it some time later, `ReadPage` is one `GET
/audit`. `Page` is the query: entries with equal stamps may come in any order,
and in another in the next query.

**Streaming** – `POST /query/stream` end to end, over AuditTrail. The server
side has one action per event it sends or call it makes: `Record`, `Commit`
(the audit insert), `SendCitations`, `NextToken`, `SendToken`, then `Finish`,
`GeneratorFails`, `BreakOff` (it noticed that the client is gone) or `Cancel`.
The wire holds lines, not events; `Receive` takes any number of them,
`Handle` cuts one event off the buffer at the first empty line and `Apply`
shows it. `Die`, `Disconnect` and `Leave` may happen at any moment.

*Faulty variants.* Next to some definitions stands a variant marked "Faulty
variant": the definition with a bug someone could write (a dropped guard, an
off-by-one, a missing reset). Nothing uses it. Put in place of the definition it
makes TLC report a property of that module; `PROJECT.json` says which. Each
property is thereby known to be able to fail.

## 3 Runs

| Run | Instance | States | Shows |
|---|---|---|---|
| `service_faults` | 2 processes, 2 tenants, 2 files, 3 requests, every service faulty, 1 crash | 1,001,797 (symmetric) | the safety properties below, `Ownership`, and `ImplementsLibrary` |
| `service_progress` | 2 processes, 1 tenant, 2 files, 3 requests, faulty vector store, 1 crash; fair | 143,519 | `RequestsEnd`, `OrphansSettle` |
| `service_audit_rollback`, `service_delete_points` | 1 tenant, 1 file, 2 requests | – | counterexamples, section 4 |
| `textract_poll` | timeout 7 s, interval 3 s, calls up to 2 s, up to 4 answers | 1,984 | whole result, bounded overtime, termination |
| `redaction` | 5 characters, 2 patterns or Comprehend limited to 3 characters | 144,791 | every overlap of two patterns, every answer of Comprehend |
| `redaction_overlap` | the same | – | counterexample |
| `chunker` | 3 paragraphs of 1–2 sentences, short or long, closed or not; overlaps of 1–3 characters, with and without a sentence end | 1,179,366 | every text |
| `jwks_cache` | 2 coroutines, 2 keys, time to live 3 s, requests up to 2 s, 6 seconds | 1,790,767 (symmetric) | `TrustIsRecent`, `RejectionIsRecent`, `RegressBounded` |
| `vector_index` | 2 handlers, 2 tenants with a document each of 1–2 points, `TopK` 1, either adapter, every call faulty | 459,108 | the vector-store properties, `ImplementsPointStore` |
| `opensearch_delete` | 1 handler at a time, OpenSearch, nothing fails | – | counterexample, section 4 |
| `streaming` | 1 stream of up to 2 tokens, one other request, pages of 1, 2 instants; fair | 554,403 | what the page shows, what a walk finds, that both ends stop |

### What the service properties say

* `ChildRowsBelong` – ids are unique; a chunk or redaction row belongs to a
  ready document of its own tenant; a document counts exactly its redactions.
* `RowsHaveObjects` – no row is committed before the raw file and the OCR text it
  stands for, and nothing is indexed before the redacted text it was made from.
* `IndexMatchesRows` – a document whose upload was acknowledged and that is
  listed is searchable by exactly its chunk rows.
* `OrphansAccountedFor` – a point without a row is about to be removed, or its
  upload is about to notice; or a deletion ended between its commit and the
  removal of the points, or an upload ended while it indexed a document that had
  been deleted meanwhile. Those two cannot be dropped, for nothing in the code
  cleans up after them. Everything else is claimed: what an upload leaves that
  fails before, during or after its indexing, a later deletion removes.
* `SuccessesAreAudited`, `AuditTellsTruth` – the log is complete for what
  clients were told, and true in what it says, whatever was retried or crashed.
* `AnswersStayInTenant`, `OnlyOwnRequestsChange` – isolation, of what is shown
  and of what is changed.
* `ImplementsLibrary` – the handlers refine `TenantLibrary`; in particular an id
  is never shelved twice, and a deletion is recorded only when the document is
  off the shelf.
* `RequestsEnd`, `OrphansSettle` – every request ends, and orphan points
  disappear, but for the two cases above.

### What the other properties say

* `ResultIsWhole`, `CollectedPrefix`, `OvertimeBounded`, `PollEnds` – every
  answer of the finished job once and in order; the poller (which blocks its
  whole worker) is never later than its deadline, one call and one sleep.
* `RedactedAsRecorded`, `KeptSeparately`, `OverlapsHideTheStart` – the redacted
  text is what the redaction records say, in order. The first and second speak of
  spans that do not overlap or are made not to; the third of any spans, of either
  redactor: the first character of each is hidden, and what shows of it lies behind
  the end of another that overlaps it, one over its start (the regex redactor;
  finding 3) or one inside it (Comprehend, whose nested entities move the cursor
  back).
* `TextIsKept`, `SizeBounded`, `IndexesInOrder` – no sentence lost, repeated or
  moved; a chunk that is longer than `chunk_size` holds one new sentence at most,
  and beside it no more than an overlap and its separator. (`chunk_size` is called
  a maximum, which it is not: see the end of section 4.)
* `TrustIsRecent`, `RejectionIsRecent` – a key is trusted, or unknown, only if
  it was published, or missing, within the time to live (or the time of one
  request, should that be longer). `RegressBounded` – a slow answer may replace
  a newer one, but sets the date of the cache back by at most the time of one
  request. `DatedRight` – what is cached was published, and what it lacks was
  missing, at some moment since the time it is dated.
* `NothingComesBack` – what a deletion found stays out of the index and out of
  the searches, although upserts are repeated, deletions collide and refreshes
  come at any time. What a deletion under OpenSearch can leave behind is exactly
  the rest: points no search could find yet, or of an upsert under way.
* `SearchIsExact` – no point of another tenant, never more than `TopK`, and the
  full number unless points of other tenants took the places.
* `ImplementsPointStore` – under Qdrant every step is a step of `PointStore` or
  leaves the points alone, and searches see the points as they are. That a single
  call to Qdrant is all or nothing is assumed; what is checked is what the adapter
  and the handlers make of such calls: the filters, the interleavings, repeated
  and failed calls, racing constructors. With the assumption it justifies the
  atomic `points` of `Stores` for that adapter.
* `PageTellsTruth` – the words shown are a prefix of those generated, in order;
  the audit id appears only under a whole answer, and a response that ended shows
  that id or an error.
* `WalkMissesTiesOnly` – an administrator who pages through the log sees every
  entry there was and every stream that had shown anything when the walk began;
  only an entry that shares its stamp with another can be missed.
* `StreamsEnd` – the page stops waiting and the handler ends, whatever happens.

### Fairness

`FairSpec` asks weak fairness of `HandlerStep(p)` for each process: a process
that has a request is scheduled, and each call it makes returns or raises: a
statement ends or its connection breaks, and boto3 and the vector-store clients
have time-outs of their own. Accepting requests
and crashes are not fair, and within `HandlerStep` no outcome is favoured:
a call may fail every time.

`TextractPoll` asks weak fairness of the clock and of the poller, not of the
job: `PollEnds` holds although the job may never finish.

`VectorIndex` and `JwksCache` ask none: their properties are safety properties.
`Streaming` asks weak fairness of each handler
(`ServerStep`: the worker keeps running it, every call of the model or of
Postgres returns or raises, and an answer has at most `max_tokens` tokens) and
of each page's script (`PageStep`), but not of users, the network or the clock.

### Deadlock

`DocumentService` has an explicit `Quiet` step for the moment when all requests
the bound allows were served, and deadlock is checked: no process waits for
another. `JwksCache` never stops: coroutines may arrive for ever.
So may the callers of `VectorIndex`. `TextractPoll`, `Redaction`, `Chunker` and
`Streaming` (whose streams, walk and clock all come to an end) model
computations that stop; their configurations turn the deadlock check off for
that reason, and `PollEnds` and `StreamsEnd` say where they stop.

## 4 Findings

Each is a run whose property, quoted from the repository, TLC refutes.

1. `service_audit_rollback` – *"a failed audit rolls back the whole operation"*
   (`services/audit/logger.py`). The insert runs in a later transaction; the
   client sees an error for a deletion that happened.
2. `service_delete_points` – *"Delete a document and its chunks + vector-store
   points"* (`api/v1/documents.py`). A document is listed as ready before it is
   indexed. Deleted then, its points are upserted afterwards, the rows are
   rejected by the foreign key, and the points stay: searchable, with no row
   left through which to delete them.
3. `redaction_overlap` – *"Only [REDACTED:TYPE] placeholders (and never the
   originals) enter the vector store"* (repository README). Of two overlapping
   matches the later is dropped whole, and its end stays visible.
   `OverlapsHideTheStart` says what does hold: the first character of every
   match is hidden, and only what lies beyond the end of the kept span can show.
4. `opensearch_delete` – the same sentence of `api/v1/documents.py`, of the call
   `delete_document` makes to OpenSearch, with no other handler at work and no
   failure. The bulk upsert is not refreshed (`vector_store.py:206`) and
   `delete_by_query` removes what a search finds, so a deletion soon after the
   upload finds nothing, succeeds, and the next refresh makes the points
   searchable.

Other places where the code and what is written about it differ. They show in a
single step or in a single call, so no run is spent on them:

* An upload leaves two rows, one `ready` and one `pending` which nobody updates
  (`services/ingest/service.py:161` draws an id that the handler drops);
  `models/orm.py:36` says *"One row per uploaded file"*.
* A chunk may be longer than `chunk_size`: a sentence that is longer by itself is
  not split, and an overlap is put before the next sentence without another check
  (`chunker.py:114`, `122`). The docstring says *"Maximum number of characters per
  chunk"* (`chunker.py:46–47`), and the module *"`chunk_size`-bounded chunks"*
  (`chunker.py:6`). `SizeBounded` says how far it goes.
* A job that finished in time may end in a `TimeoutError` that says it *"did not
  finish"* (`ocr.py:102–104`): the deadline is looked at before every page of the
  result as well, and the pages collected so far are dropped.
* A deletion removes no object: the key it names is a prefix, and S3 deletes
  keys (`documents.py:161`; README.md: *"remove from S3 + vector store + DB"*).
* All parts of a split block get the same index (`chunker.py:119`; the module
  promises *"a stable `chunk_index` … so downstream systems can join chunks back
  to a document deterministically"*).
* A streamed query is audited before its first token, with a fixed text for the
  answer (`pipeline.py:117`); the comment above it says *"only after generation
  completes"*, and ARCHITECTURE.md draws it after `done`, with the answer's
  beginning.
* The `audit_id` clients are told to retry with is stored nowhere
  (`logger.py:211`).
* `/health/ready` does not look at the vector store (`health.py:36–56`), though
  its own text and ARCHITECTURE.md say it does. `/health` does construct one,
  and so may create the collection.

## 5 Proofs

Every invariant, action property and refinement the passing runs check is a
theorem; liveness is not (see the end of this section).

| Theorem | Module | States |
|---|---|---|
| `TypeCorrect` | DocumentServiceProofs | `Spec => []TypeOK` |
| `LineageHolds` | DocumentServiceProofs | `Spec => []Lineage` |
| `OwnershipHolds` | DocumentServiceProofs | assuming `RlsApplies`, `Spec => []Ownership` |
| `AuditLogTruthful` | DocumentServiceProofs | likewise, `Spec => []AuditTellsTruth` |
| `AnswersIsolated` | DocumentServiceProofs | likewise, `Spec => []AnswersStayInTenant` |
| `IntegrityHolds` | DocumentIntegrityProofs | `Spec => []Integrity` |
| `ChildRowsIntact` | DocumentIntegrityProofs | `Spec => []ChildRowsBelong` |
| `ObjectsBehindRows` | DocumentIntegrityProofs | `Spec => []RowsHaveObjects` |
| `NothingUnaudited` | DocumentIntegrityProofs | `Spec => []SuccessesAreAudited` |
| `IndexAgrees` | DocumentIntegrityProofs | `Spec => []IndexMatchesRows` |
| `TenantsUndisturbed` | DocumentIntegrityProofs | assuming `RlsApplies`, `Spec => OnlyOwnRequestsChange` |
| `OrphansExplained` | DocumentIntegrityProofs | likewise, `Spec => []OrphansAccountedFor` |
| `ServiceImplementsLibrary` | DocumentIntegrityProofs | likewise, `Spec => ImplementsLibrary` |
| `PollTypeCorrect` | TextractPollProofs | `Spec => []TypeOK` |
| `PollCollectsPrefix` | TextractPollProofs | `Spec => []CollectedPrefix` |
| `PollResultWhole` | TextractPollProofs | `Spec => []ResultIsWhole` |
| `PollOvertimeBounded` | TextractPollProofs | `Spec => []OvertimeBounded` |
| `RedactionTypeCorrect` | RedactionProofs | `Spec => []TypeOK` |
| `KeptSpansApart` | RedactionProofs | `Spec => []KeptSeparately` |
| `RedactionExact` | RedactionProofs | `Spec => []RedactedAsRecorded` |
| `StartsHidden` | RedactionProofs | `Spec => []OverlapsHideTheStart` |
| `ChunkerTypeCorrect` | ChunkerProofs | `Spec => []TypeOK` |
| `TextKept` | ChunkerProofs | `Spec => []TextIsKept` |
| `SizesBounded` | ChunkerProofs | `Spec => []SizeBounded` |
| `IndexesOrdered` | ChunkerProofs | `Spec => []IndexesInOrder` |
| `CacheTypeCorrect` | JwksCacheProofs | `Spec => []TypeOK` |
| `CacheDatedRight` | JwksCacheProofs | `Spec => []DatedRight` |
| `WithdrawnKeysExpire` | JwksCacheProofs | `Spec => TrustIsRecent` |
| `RotationsAreNoticed` | JwksCacheProofs | `Spec => RejectionIsRecent` |
| `CacheRegressBounded` | JwksCacheProofs | `Spec => RegressBounded` |
| `TypeCorrect` | VectorIndexProofs | `Spec => []TypeOK` |
| `SweptIsGone` | VectorIndexProofs | `Spec => []NothingComesBack` |
| `QdrantIsAtomic` | VectorIndexProofs | `Spec => ImplementsPointStore` |
| `SearchesAreExact` | VectorIndexProofs | `Spec => SearchIsExact` |
| `StreamTypeCorrect` | StreamingProofs | `Spec => []TypeOK` |
| `WalksMissTiesOnly` | StreamingProofs | `Spec => []WalkMissesTiesOnly` |
| `PageIsTruthful` | StreamingProofs | `Spec => []PageTellsTruth` |

They hold for any sets of tenants, files and processes, any faults, any number
of requests and crashes; any timeout, interval, call duration and result size;
texts of any length, any kinds of entities and any spans detected; any chunk size,
overlap, sentence lengths, and numbers of sentences and paragraphs; any
coroutines, keys and times to live; any callers, documents, sizes and `TopK` of
the vector store; any writers, streams, answer lengths, stamps and page sizes of
the audit walk. They assume the named assumptions of the modules
(`StoresAssumption`, `WorkersAssumption`, `PollAssumption`,
`RedactionAssumption`, `ChunkerAssumption`, `JwksAssumption`,
`VectorIndexAssumption`, `AuditTrailAssumption`, `StreamingAssumption`: the bounds
are natural numbers, an overlap is shorter than a chunk and not empty (100 and 700
characters, which no setting changes), a sentence is not empty, a page of the log
is not empty, streams are recorded, `NoDoc` is no id, time 0 lies further back than
the time to live, there is a document and each has an owner) and, for isolation
and what rests on it, that row-level security applies: without it the lookup that
precedes a deletion sees every tenant's rows. TLC checked each inductive invariant
below on the instances of section 3 before it was proved.

**Lineage** (`DocumentServiceInvariant`) is what holds of the history of rows
whatever the policies do:

* `OneUploadPerFile`, `OneOwnerPerFile` – a file has one upload, so the two ids
  drawn for it are stored by one tenant;
* `UploadProgress` – how far an upload is decides which of its ids were stored,
  which is why a fresh id cannot resurrect a deleted document;
* `RowsStored` – a row was stored by its tenant, under the id drawn for it;
* `DeletesStored` – past the lookup somebody stored the document; past the commit
  it has no row. The second part is stable because only the document's own upload
  inserts the row, and by `UploadProgress` it has done so already.

**Ownership.** Neither `AuditTellsTruth` nor `AnswersStayInTenant` is inductive:
that a deletion's audit entry is true depends on what the handler saw three
calls earlier. `Ownership` adds to `Lineage` that a deletion past the lookup is of
its own tenant's document (`DeletesOwn`), and that points, requests in flight and
replies hold only what their tenant stored (`HoldingsOwned`).

**Integrity** is why tables, bucket, index and audit log agree, with or without
the policies. What an acknowledged upload or an audited success leaves in two
stores is written by two calls; the invariant says what the first has left by the
time of each later one, and that nobody undoes it in between:

* `ObjectsFirst` – an upload about to commit a row has put the objects of that row,
  and one about to index has put the redacted text; objects are never taken away;
* `AuditedFirst` – a request about to answer has its entry;
* `IndexProgress` – before the upsert nothing of the document is indexed, before
  its chunk rows there are none; once it made both calls they agree, *if the row
  is still there*. A deletion takes row and chunk rows in one transaction, so the
  condition fails before the two can differ;
* `AcknowledgedIsOver` – no upload under way is of an acknowledged document, so
  nothing touches its points but a deletion, which has taken the row by then.

`OrphansExplained` and `TenantsUndisturbed` use both invariants: a point loses its
row only by a deletion of its tenant, which is then about to remove the point, or
ends there and is remembered as unfinished; or it is upserted by an upload that
is about to be refused by the foreign key, or ends there.

**The library.** `ServiceImplementsLibrary` maps each step of a handler to a step
of `TenantLibrary` or to a stutter: the two commits of an upload shelve
(`StoreShelves`; the id is fresh by `UploadProgress`), the commit of a deletion
withdraws (`DeleteWithdraws`), the audit insert records (`AuditRecords`, true by
`AuditTellsTruth`), and everything else leaves shelf, history and ledger alone.

**Polling.** `CollectedPrefix` ties the token to the number of answers collected
and keeps it within the result; `Punctual` says when the call or the sleep in
progress began. With the types they are inductive.

**Redaction.** `Sifted`: the loop sees the spans in the order of their starts, so
none that comes later begins before one that was kept. `Progress`: the records
written are the first of the spans kept, and the cursor stands behind the last.
`Faithful`: what was written so far shows exactly the characters before the cursor
that no record covers, in order, with each placeholder where its span was.
`RedactionExact` is `Faithful` at the end. For Comprehend it assumes what
`Separable` says, as the property does. `StartsHidden` does not: overlapping or
nested, Comprehend's spans are kept in the order of their starts (`Ordered`), and a
character written lies behind the end of some record and before the starts of all
later ones (`Between`). So if it belongs to a span, that record is not before the
span in the list, and it lies inside.

**The chunker.** `Accounted`: every sentence of the paragraphs taken so far is in
a chunk, in the buffer of the inner loop or in what is left to pack, in this
order; so loss, repetition and reordering are one statement that each move of text
preserves. `Measured`: a buffer too long for one chunk begins with what is left of
an overlap and goes on with sentences. The pieces of the overlap are known by
their places in it (`Laid`), for their lengths alone would not bound a chunk that
gathers several of them and a sentence; with their places, a chunk that ends with
a sentence glued to the overlap stays within `Overlap + 2 +` a sentence.
`Numbered` relates the index to the last chunk's.

**The key cache.** `DatedRight`: a set of keys, in the cache or on its way, was
published at some moment since the time it is dated, and what it lacks was
missing then. It holds because `now` is read before the `await`; stamping the
answer on arrival (`StoreStampedLate`) breaks it. Both verdicts follow: a set is
used only while its date is recent, or has just arrived.

**The vector store.** `NothingComesBack` depends on who may still write.
`OneUpsert` gives each document a single upsert; `NotYetThere` says that nothing
of it is stored, searchable or found by a deletion before the handler makes that
call, so a deletion cannot sweep it too early; `PendingNotSwept` that what a
repeated request may write again is never counted as swept. `Synchronous` (Qdrant
searches what it stores) carries the refinement. `SearchesAreExact` adds that the
stores are finite, and is arithmetic on what the filter takes away
(`FilteredNearest`).

**The audit walk.** `WalkMissesTiesOnly` speaks of the end of a walk and says
nothing of how it gets there. `AuditInv` does: an entry with a stamp of its own
that was not seen yet has at least `offset` newer entries (`Ahead`). Inserting an
entry can only add to those, or take away that the stamp is its own
(`InsertKeeps`); and a page that does not show the entry is full and holds newer
ones only, so the count keeps up with the offset (`PageAdvances`). That a request
seen answered has its entry is `RecordedFirst`: before the entry nothing is on
the wire but the JSON object of a declined stream, which holds no empty line and
so never becomes an event.

**What the page shows.** The page never sees an event, only lines in pieces of any
size. `PageInv` (in StreamingProofs) tells of each stream one story, with a number
`n` of events sent, a number `h` of events handled and a final event or none:
`Wire` – the lines sent are those of `n` whole events, the sources, the tokens in
order and the final one; `Phase` – how `n` follows from where the handler is and
how many tokens were made, as long as the connection is up; `Unread` – the buffer
is what was taken less `h` events; `Display` – what is shown is what `h` events
say. A read keeps `Unread` wherever it is cut (`MoreUnread`); the first empty line
in the buffer is the end of event `h + 1` (`FirstEvent`, `NextEvent`); and a
response that ended has no rest, for a whole event left in the buffer would hold
an empty line (`AllHandled`). When streaming is switched off there is no such
line at all (`Mute`).

Only model-checked: the liveness properties `RequestsEnd`, `OrphansSettle`,
`PollEnds` and `StreamsEnd`. They need fairness and `ENABLED`,
which these provers do not handle. The four counterexamples of section 4 are
behaviours TLC found.

## 6 Modelling assumptions and bounds

* A step is one call. A transaction is one step, for Postgres isolates it; the
  reads of `GetRow` and the commit are two steps, since the `DELETE` takes its
  effect at the commit.
* When two deletions pass the lookup, the second deletes no row; SQLAlchemy
  warns and goes on, and so does the model.
* Foreign-key checks are not subject to row-level security.
* The schema is provisioned and the collection exists. The runs use the database
  owner of `docker-compose.yml`, which bypasses row-level security, with
  `enable_rls` on; a login role that does not bypass it makes every plain insert
  fail, so every upload and audit is an error (`PlainInsertAllowed`).
* A file is uploaded once; a second upload of the same bytes is another file.
* In the service, search is by Qdrant's semantics: an acknowledged upsert is
  visible, and one call is all or nothing. Given that of a single Qdrant call,
  `QdrantIsAtomic` shows that the adapter and its callers keep it; what changes
  under OpenSearch is in `VectorIndex`.
* `VectorIndex`: a request has its effect, if any, before its client gives it up.
  An OpenSearch upsert is one bulk request (up to 500 chunks) whose items may
  fail singly; `delete_by_query` works on one snapshot, and stops if a hit is
  gone. The nearest points are ranked over the whole index. A document is
  indexed once, as its id is drawn by the upload that indexes it.
* `AuditTrail`: one clock stamps all entries (the workers share a host), and
  stamps may be equal. The time of an entry and its insertion are apart.
* `Streaming`: what was sent before the connection broke may be lost or still be
  read; a worker's death breaks the connection; a page that fails shows its error
  beside what it already showed.
* `JwksCache`: the clock does not go back (`time.time()` may, if it is set);
  a request for the keys, with the wait for the event loop, takes at most
  `FetchSeconds` (the `timeout=5.0` bounds each of its phases).
* `Redaction`: matches of one pattern do not overlap (`re.finditer`), and for
  the Comprehend redactor `RedactedAsRecorded` and `KeptSeparately` assume that its
  answers do not (`Separable`); the code does not check. Of answers that do overlap,
  `OverlapsHideTheStart` says what is still hidden.
* `Chunker`: an overlap is any tail of 1 to `Overlap` characters, since
  stripping may shorten it, and may be cut into pieces in any way its length
  allows: more than the text before it gives rise to, so nothing is missed.
  `ChunkSize`, `Overlap` and the lengths are scaled down so that one short
  sentence, two, or one long one fill a chunk, and an overlap of 3 characters can
  hold the end of one sentence and the beginning of the next. `MaxLength` only
  makes the set of paragraphs finite: it is the length of two long sentences.

Bounds. Every interference in the service is between two handlers, with a third
request to observe or retry; hence 2 processes and 3 requests (an upload, its
deletion and a query; an upload and two deletions; two tenants' uploads and a
listing). Two chunks distinguish a partial upsert from a whole one, two files
two documents, and one crash at any point is enough as nothing in a process
survives it. `TopK` 1 forces a choice among two points. Symmetry over processes,
tenants and files is used only for the safety run. For polling, seconds matter
only relative to the deadline, and 14 seconds pass the last moment the poller
can be awake (7 + 2 + 3). For the key cache, six seconds let a
set be fetched, expire and be replaced by a newer and then by a delayed answer;
two coroutines are what an overlap takes. Five characters hold two overlapping spans with a
neighbour on either side. Two handlers are
what a race for the collection, an upsert against a deletion, or two deletions
take; two points let an upsert or a sweep stop half-way, and with `TopK` 1 the
other tenant's document is enough to crowd one out. Two tokens can be swapped,
lost or repeated; pages of one entry make every offset a boundary, and two
entries and two instants give every order of stamping, inserting and reading,
tied or not. Three paragraphs reach every pair of flush and
overlap, once with a buffer that is itself an overlap.

## 7 Not modelled

Parsing and verification of tokens (libraries), embeddings and whole answers (one
call each; their failures are failures of the step that needs them), wiring,
settings, logging, the other panels of the browser client (one request, one
answer), demo seeding, tests and deployment. The migration is taken as run, although it grants
privileges on all tables before it creates them. Failures of `ensure_bucket` are
swallowed by every caller and change nothing. The synchronous single-page OCR
call and the page-aware chunker have no state worth a model.

The WebSocket handler (`streaming_ws.py`) is in no router, so no client reaches
it. The in-memory vector store is used in tests only, and `get_vector_store`
gives every caller a new and empty one: there is nothing for two handlers to
share. The filters of the audit listing by user and action narrow the same query.

A job that Textract reports as `FAILED` is collected like a finished one and
gives an empty text: `TextractPoll` models it (`Blocks`), and an upload then goes
through `IndexEmpty` to its 202.

## 8 Plan

Done: the service with its stores and handlers and its abstract specification,
OCR polling, redaction, chunking, the key cache, the vector-store adapters with
their abstract store, streaming to the page, and the audit log as it is read; the
theorems above.

Next: the service over a lagging store in place of the atomic one (what a
deletion leaves when the upload was acknowledged a moment ago), if the state
space allows.

Next theorems: those of the service over that store; and that a stream implements
an abstract channel which hands whole events from the handler to the page, with
the story `PageInv` tells as the refinement mapping.
