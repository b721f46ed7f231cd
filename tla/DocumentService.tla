-------------------------- MODULE DocumentService ---------------------------
(***************************************************************************)
(* The document API as a whole: every worker process accepts uploads,      *)
(* deletions, queries and listings of any tenant and runs their handlers   *)
(* against the shared stores, while services fail and processes die.       *)
(***************************************************************************)
EXTENDS UploadHandler, DeleteHandler, QueryHandler

Init == StoresInit /\ WorkersInit

AcceptRequest(p) ==
    \E t \in Tenants : Upload(p, t) \/ Delete(p, t) \/ Query(p, t) \/ List(p, t)

\* What a process does with the request it has.
HandlerStep(p) ==
    \/ UploadStep(p)
    \/ DeleteStep(p)
    \/ QueryStep(p)
    \/ Audit(p)
    \/ Respond(p)
    \/ CallFails(p)

\* Every request the bound allows was served.
Quiet ==
    /\ accepted = MaxRequests
    /\ \A p \in Processes : request[p] = Idle
    /\ UNCHANGED vars

Next ==
    \/ \E p \in Processes : AcceptRequest(p) \/ HandlerStep(p) \/ Crash(p)
    \/ Quiet

Spec == Init /\ [][Next]_vars

\* A process with a request is scheduled, and every call returns or raises.
FairSpec == Spec /\ \A p \in Processes : WF_vars(HandlerStep(p))

-----------------------------------------------------------------------------
(* Safety                                                                  *)

TypeOK == StoresTypeOK /\ WorkersTypeOK

Serving(p, d) == request[p] # Idle /\ request[p].doc = d
ServingAt(d, calls) ==
    \E p \in Processes : Serving(p, d) /\ request[p].pc \in calls

\* The ids of documents are unique, the rows of the child tables belong to
\* a ready document of their own tenant, and a document counts exactly its
\* redaction records, whatever uploads and cascading deletes interleave.
ChildRowsBelong ==
    /\ \A r, s \in documents : r.id = s.id => r = s
    /\ \A c \in chunks \cup redactions : \E r \in documents :
          r.id = c.doc /\ r.tenant = c.tenant /\ r.status = "ready"
    /\ \A r \in documents :
          {s.n : s \in {s \in redactions : s.doc = r.id}} = 1..r.entities

\* A row is committed only after the objects its s3_key and its OCR text
\* live under were written (upload_document, ingest_from_s3).  The redacted
\* text is written after the commit, and before anything is indexed: what is
\* searched always has the text it was made from behind it.
RowsHaveObjects ==
    /\ \A r \in documents :
        /\ [prefix |-> "uploads", tenant |-> r.tenant, doc |-> DocId(r.file)]
             \in objects
        /\ r.status = "ready" =>
             [prefix |-> "ocr", tenant |-> r.tenant, doc |-> r.id] \in objects
    /\ \A c \in chunks \cup points :
        [prefix |-> "redacted", tenant |-> c.tenant, doc |-> c.doc] \in objects

\* A document whose upload was answered 202 and that is still listed is
\* searchable exactly by its chunk rows: no failure, crash or deletion in
\* another process separates the vector store from the table.
IndexMatchesRows ==
    \A a \in replies, r \in documents :
        (a.op = "upload" /\ a.code = "ok" /\ a.doc = r.id) =>
            {q \in points : q.doc = r.id} = {c \in chunks : c.doc = r.id}

\* A point whose document is gone is about to be removed, or its upload is
\* about to notice; or a deletion ended between its commit and the removal of
\* the points, or an upload while it indexed a document deleted meanwhile.
\* Nothing else leaves orphans: an upload that fails half-way, with points or
\* without, leaves what a later deletion removes.
OrphansAccountedFor ==
    \A q \in points :
        \/ HasRow(q.doc)
        \/ ServingAt(q.doc, {"delete_points", "chunk_rows"})
        \/ q.doc \in unfinished

\* Every upload, deletion and answer a client was told of is in the audit
\* log, for its tenant and with its documents.
SuccessesAreAudited ==
    \A a \in replies :
        (a.code = "ok" /\ a.op # "list") =>
            \E i \in DOMAIN audit_log :
                audit_log[i] = [action |-> a.op, tenant |-> a.tenant,
                                docs |-> AuditDocs(a)]

\* What the audit log says happened did: its documents were stored, by the
\* tenant it names, and those it says were deleted are gone for good.
AuditTellsTruth ==
    \A i \in DOMAIN audit_log : \A d \in audit_log[i].docs :
        /\ <<d, audit_log[i].tenant>> \in stored
        /\ audit_log[i].action = "delete" => ~HasRow(d)

\* Whatever a client is shown, in a listing, as a source of an answer or as
\* a title, was stored by its tenant and by no other.
AnswersStayInTenant ==
    \A a \in replies : \A d \in a.docs \cup a.titled : \A t \in Tenants :
        <<d, t>> \in stored <=> t = a.tenant

-----------------------------------------------------------------------------
(* What a step may do                                                      *)

\* Everything the stores hold of one tenant.
Holdings(t) ==
    <<{r \in documents : r.tenant = t}, {c \in chunks : c.tenant = t},
      {s \in redactions : s.tenant = t}, {o \in objects : o.tenant = t},
      {q \in points : q.tenant = t}>>

\* A tenant's data changes only by a step of a request of that tenant.
OnlyOwnRequestsChange ==
    [][\A t \in Tenants :
          Holdings(t)' # Holdings(t) =>
            \E p \in Processes : /\ request[p] # Idle
                                 /\ request[p].tenant = t
                                 /\ request'[p] # request[p]]_vars

\* The handlers implement the tenants' view of the library.
Library == INSTANCE TenantLibrary WITH
    Ids      <- DocIds,
    shelf    <- [t \in Tenants |-> {r.id : r \in {r \in documents : r.tenant = t}}],
    assigned <- stored,
    ledger   <- audit_log

ImplementsLibrary == Library!Spec

\* Every request is answered, or dies with its process.
RequestsEnd == \A p \in Processes : request[p] # Idle ~> request[p] = Idle

\* A point that outlives its row does not stay unless a request for the
\* document ended at such a moment.
Orphan(d) == ~HasRow(d) /\ \E q \in points : q.doc = d
OrphansSettle ==
    \A d \in DocIds : Orphan(d) ~> (~Orphan(d) \/ d \in unfinished)

-----------------------------------------------------------------------------
(* What the documentation says of the service and the code does not do     *)

\* services/audit/logger.py: "a failed audit rolls back the whole operation".
FailedAuditRollsBack ==
    Faulty = {"audit"} =>
        \A a \in replies :
            (a.op = "delete" /\ a.code = "error" /\ <<a.doc, a.tenant>> \in stored)
                => HasRow(a.doc)

\* api/v1/documents.py: "Delete a document and its chunks + vector-store
\* points", of a deletion that was acknowledged, once every handler is done.
DeletedIsNotRetrievable ==
    (\A p \in Processes : request[p] = Idle) =>
        \A a \in replies, q \in points :
            (a.op = "delete" /\ a.code = "ok") =>
                q.doc # a.doc \/ q.tenant # a.tenant
=============================================================================
