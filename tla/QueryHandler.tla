---------------------------- MODULE QueryHandler ----------------------------
(***************************************************************************)
(* POST /query: RagPipeline.query of services/generation/pipeline.py, and  *)
(* GET /documents: list_documents of api/v1/documents.py.                  *)
(***************************************************************************)
EXTENDS Workers

Query(p, t) ==
    /\ Accept(p, "query", "search", t, NoDoc)
    /\ UNCHANGED received

List(p, t) ==
    /\ Accept(p, "list", "list_rows", t, NoDoc)
    /\ UNCHANGED received

\* Retriever.retrieve.
Search(p) ==
    LET r == request[p]
    IN  /\ At(p, "search")
        /\ \E hits \in SearchResults(r.tenant) :
             request' = [request EXCEPT ![p].pc = "resolve_titles",
                                        ![p].docs = {h.doc : h \in hits}]
        /\ UNCHANGED <<stores, received, accepted, crashed, replies, stored,
                       unfinished>>

\* After the answer is generated: titles come from the rows the tenant sees
\* now; a failed lookup leaves the document ids.
ResolveTitles(p) ==
    LET r     == request[p]
        known == {row.id : row \in VisibleTo(r.tenant)} \cap r.docs
    IN  /\ At(p, "resolve_titles")
        /\ \E titled \in {known} \cup (IF "postgres" \in Faulty THEN {{}} ELSE {}) :
             request' = [request EXCEPT ![p].pc = "audit", ![p].titled = titled]
        /\ UNCHANGED <<stores, received, accepted, crashed, replies, stored,
                       unfinished>>

\* Listing is not audited.
ListRows(p) ==
    /\ At(p, "list_rows")
    /\ request' = [request EXCEPT ![p].pc = "respond",
                     ![p].docs = {row.id : row \in VisibleTo(request[p].tenant)}]
    /\ UNCHANGED <<stores, received, accepted, crashed, replies, stored, unfinished>>

QueryStep(p) ==
    \/ Search(p)
    \/ ResolveTitles(p)
    \/ ListRows(p)
=============================================================================
