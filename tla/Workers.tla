------------------------------ MODULE Workers -------------------------------
(***************************************************************************)
(* The worker processes (uvicorn --workers 2) and the request each is      *)
(* serving.  Every handler of the documents and query routers is a         *)
(* straight line of blocking calls after its last await, so inside one     *)
(* process it runs alone; between two of its calls the other processes     *)
(* may do anything.  A step of a handler is one call that changes shared   *)
(* state, with the reads and the computation that precede it.              *)
(***************************************************************************)
EXTENDS Stores

CONSTANTS
    Processes,      \* worker processes
    NoDoc,          \* the request names no document
    Faulty,         \* the services that may fail
    Crashes,        \* bound: worker crashes in one behaviour
    MaxRequests     \* bound: requests accepted in one behaviour

Services == {"s3", "postgres", "audit", "ocr", "pii", "vectors", "bedrock"}

ASSUME WorkersAssumption ==
    /\ NoDoc \notin DocIds
    /\ Faulty \subseteq Services
    /\ Crashes \in Nat
    /\ MaxRequests \in Nat

VARIABLES
    request,      \* the request of each process, or Idle
    received,     \* the files uploaded so far
    accepted,     \* how many requests were accepted
    crashed,      \* how many crashes happened
    replies,      \* history: what the clients were answered
    stored,       \* history: every <<id, tenant>> that ever had a row
    unfinished    \* history: documents some request may have left points of

vars == <<stores, request, received, accepted, crashed, replies, stored, unfinished>>

Ops == {"upload", "delete", "query", "list"}

\* The program counter names the call the handler makes next; every handler
\* but the listing ends with the audit insert.
UploadCalls == {"put_raw", "persist_pending", "put_ocr", "commit_ready",
                "put_redacted", "upsert", "chunk_rows"}
DeleteCalls == {"get_row", "commit_delete", "delete_points"}
QueryCalls  == {"search", "resolve_titles"}
ListCalls   == {"list_rows"}
LastCalls   == {"audit", "respond"}

\* size: chunks of the document being indexed; docs: the documents a query
\* retrieved or a list shows; titled: those whose title it resolved.
UploadRequest ==
    [pc: UploadCalls \cup LastCalls, op: {"upload"}, tenant: Tenants,
     doc: Files \X {"document"}, size: 0..MaxChunks, docs: {{}}, titled: {{}}]
DeleteRequest ==
    [pc: DeleteCalls \cup LastCalls, op: {"delete"}, tenant: Tenants,
     doc: DocIds, size: {0}, docs: {{}}, titled: {{}}]
QueryRequest ==
    [pc: QueryCalls \cup LastCalls, op: {"query"}, tenant: Tenants,
     doc: {NoDoc}, size: {0}, docs: SUBSET DocIds, titled: SUBSET DocIds]
ListRequest ==
    [pc: ListCalls \cup {"respond"}, op: {"list"}, tenant: Tenants,
     doc: {NoDoc}, size: {0}, docs: SUBSET DocIds, titled: {{}}]
Request == UploadRequest \cup DeleteRequest \cup QueryRequest \cup ListRequest

Idle == [pc |-> "idle"]

Reply == [op: Ops, tenant: Tenants, doc: DocIds \cup {NoDoc},
          code: {"ok", "not_found", "error"},
          docs: SUBSET DocIds, titled: SUBSET DocIds]

WorkersInit ==
    /\ request    = [p \in Processes |-> Idle]
    /\ received   = {}
    /\ accepted   = 0
    /\ crashed    = 0
    /\ replies    = {}
    /\ stored     = {}
    /\ unfinished = {}

WorkersTypeOK ==
    /\ request    \in [Processes -> Request \cup {Idle}]
    /\ received   \subseteq Files
    /\ accepted   \in 0..MaxRequests
    /\ crashed    \in 0..Crashes
    /\ replies    \subseteq Reply
    /\ stored     \subseteq DocIds \X Tenants
    /\ unfinished \subseteq DocIds

-----------------------------------------------------------------------------
At(p, call) == request[p].pc = call

\* The start of a handler: a fresh request for tenant t.
Accept(p, op, call, t, d) ==
    /\ request[p] = Idle
    /\ accepted < MaxRequests
    /\ accepted' = accepted + 1
    /\ request' = [request EXCEPT ![p] =
                     [pc |-> call, op |-> op, tenant |-> t, doc |-> d,
                      size |-> 0, docs |-> {}, titled |-> {}]]
    /\ UNCHANGED <<stores, crashed, replies, stored, unfinished>>

Goto(p, call) == request' = [request EXCEPT ![p].pc = call]

\* The request is over and its client gets an answer.
Answer(p, code) ==
    LET r == request[p]
    IN  /\ request' = [request EXCEPT ![p] = Idle]
        /\ replies' = replies \cup
             {[op |-> r.op, tenant |-> r.tenant, doc |-> r.doc, code |-> code,
               docs |-> r.docs, titled |-> r.titled]}

\* History: a request that ends early may leave points without a row only at
\* these calls, and only if its document has no row by then.
PointCalls == {"commit_delete", "delete_points", "upsert", "chunk_rows"}
Abandon(p) ==
    unfinished' = unfinished \cup
        {d \in DocIds : /\ d = request[p].doc
                        /\ request[p].pc \in PointCalls
                        /\ ~HasRow(d)'}

\* An exception leaves the handler: the client gets a 500 and whatever was
\* done so far stays done.
Error(p) == Answer(p, "error") /\ Abandon(p)

\* A call whose effect happened either returns, and the handler goes on, or
\* its reply is lost and it raises.
Proceed(p, service, call) ==
    \/ Goto(p, call) /\ UNCHANGED <<replies, unfinished>>
    \/ service \in Faulty /\ Error(p)

\* Which services the call at each point of a handler, and the computation
\* before it, depend on.
Needs(call) ==
    CASE call = "put_raw"         -> {"s3"}
      [] call = "persist_pending" -> {"postgres"}
      [] call = "put_ocr"         -> {"s3", "ocr"}
      [] call = "commit_ready"    -> {"pii", "postgres"}
      [] call = "put_redacted"    -> {"s3"}
      [] call = "upsert"          -> {"bedrock", "vectors"}
      [] call = "chunk_rows"      -> {"postgres"}
      [] call = "get_row"         -> {"postgres"}
      [] call = "commit_delete"   -> {"postgres"}
      [] call = "search"          -> {"bedrock", "vectors"}
      [] call = "resolve_titles"  -> {"bedrock"}
      [] call = "list_rows"       -> {"postgres"}
      [] call = "audit"           -> {"audit"}
      [] OTHER                    -> {}

\* A call, or what it needs, fails without effect and the exception reaches
\* the client.
CallFails(p) ==
    /\ request[p] # Idle
    /\ Needs(request[p].pc) \cap Faulty # {}
    /\ UNCHANGED <<stores, received, accepted, crashed, stored>>
    /\ Error(p)

\* AuditLogger._write: one INSERT in a transaction of its own, over a plain
\* connection; its failure is logged and raised again.
AuditDocs(r) == IF r.op = "query" THEN r.docs ELSE {r.doc}
\* Faulty variant: the failure of the insert is not raised.
AuditSwallowed(p) ==
    /\ At(p, "audit")
    /\ \/ audit_log' = Append(audit_log,
              [action |-> request[p].op, tenant |-> request[p].tenant,
               docs |-> AuditDocs(request[p])])
       \/ "audit" \in Faulty /\ audit_log' = audit_log
    /\ Goto(p, "respond")
    /\ UNCHANGED <<documents, chunks, redactions, objects, points, replies,
                   unfinished, received, accepted, crashed, stored>>

Audit(p) ==
    /\ At(p, "audit")
    /\ IF PlainInsertAllowed
         THEN /\ audit_log' = Append(audit_log,
                   [action |-> request[p].op, tenant |-> request[p].tenant,
                    docs |-> AuditDocs(request[p])])
              /\ Proceed(p, "audit", "respond")
         ELSE Error(p) /\ UNCHANGED audit_log
    /\ UNCHANGED <<documents, chunks, redactions, objects, points,
                   received, accepted, crashed, stored>>

Respond(p) ==
    /\ At(p, "respond")
    /\ Answer(p, "ok")
    /\ UNCHANGED <<stores, received, accepted, crashed, stored, unfinished>>

\* A worker process dies between two calls and its supervisor replaces it:
\* the client gets no answer and open transactions roll back.
Crash(p) ==
    /\ request[p] # Idle
    /\ crashed < Crashes
    /\ crashed' = crashed + 1
    /\ request' = [request EXCEPT ![p] = Idle]
    /\ UNCHANGED <<stores, received, accepted, replies, stored>>
    /\ Abandon(p)
=============================================================================
