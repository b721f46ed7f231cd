--------------------------- MODULE DeleteHandler ----------------------------
(***************************************************************************)
(* DELETE /documents/{id}: delete_document of api/v1/documents.py.         *)
(***************************************************************************)
EXTENDS Workers

Delete(p, t) ==
    \E d \in DocIds :
        /\ Accept(p, "delete", "get_row", t, d)
        /\ UNCHANGED received

\* Faulty variant: no lookup before the deletion.
GetRowUnchecked(p) ==
    /\ At(p, "get_row")
    /\ Goto(p, "commit_delete")
    /\ UNCHANGED <<stores, received, accepted, crashed, replies, stored, unfinished>>

\* session.get inside the tenant's session: an invisible row is a 404.
GetRow(p) ==
    LET r == request[p]
    IN  /\ At(p, "get_row")
        /\ IF \E row \in VisibleTo(r.tenant) : row.id = r.doc
             THEN Goto(p, "commit_delete") /\ UNCHANGED replies
             ELSE Answer(p, "not_found")
        /\ UNCHANGED <<stores, received, accepted, crashed, stored, unfinished>>

\* The commit at the end of the session.  A row another process deleted in
\* between is deleted again without complaint.
CommitDelete(p) ==
    /\ At(p, "commit_delete")
    /\ DeleteRow(request[p].doc)
    /\ Proceed(p, "postgres", "delete_points")
    /\ UNCHANGED <<audit_log, objects, points, received, accepted, crashed, stored>>

\* Faulty variant: the points are forgotten.
SkipDeletePoints(p) ==
    /\ At(p, "delete_points")
    /\ Goto(p, "audit")
    /\ UNCHANGED <<stores, replies, unfinished, received, accepted, crashed, stored>>

\* Best effort: if the vector store fails the points stay and the handler
\* goes on as if they were gone.
DeletePoints(p) ==
    LET r == request[p]
    IN  /\ At(p, "delete_points")
        /\ \/ points' = PointsWithout(r.tenant, r.doc) /\ UNCHANGED unfinished
           \/ /\ "vectors" \in Faulty
              /\ points' = points
              /\ unfinished' = unfinished \cup {r.doc}
        \* The S3 call that follows names the key uploads/<tenant>/<id>/,
        \* which no object has: it deletes nothing, and its errors are
        \* swallowed.
        /\ Goto(p, "audit")
        /\ UNCHANGED <<documents, chunks, redactions, audit_log, objects,
                       replies, received, accepted, crashed, stored>>

DeleteStep(p) ==
    \/ GetRow(p)
    \/ CommitDelete(p)
    \/ DeletePoints(p)
=============================================================================
