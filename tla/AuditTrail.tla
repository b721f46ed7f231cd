----------------------------- MODULE AuditTrail -----------------------------
(***************************************************************************)
(* The audit log as an administrator reads it: entries are stamped by the  *)
(* worker that makes them and inserted later (AuditLogger._write), and     *)
(* GET /audit returns them page by page, by offset, newest stamp first     *)
(* (list_for_tenant).  Only the entries of the tenant whose log is read    *)
(* are in the model; the WHERE clause leaves the others out.               *)
(***************************************************************************)
EXTENDS Naturals, FiniteSets

CONSTANTS
    Writers,    \* requests that are recorded, one entry each
    Limit,      \* the page size an administrator asks for
    MaxTime     \* bound: the last instant that is explored

ASSUME AuditTrailAssumption == Limit \in Nat \ {0} /\ MaxTime \in Nat

VARIABLES
    clock,   \* the wall clock, in the steps a stamp can tell apart
    stamp,   \* the record each writer made: when it occurred
    trail,   \* the writers whose entry is in audit_log
    walk     \* the administrator reading it

auditVars == <<clock, stamp, trail, walk>>

Unstamped == MaxTime + 1

\* known: the requests the administrator knows of when the walk begins.
Walk == [pc : {"idle", "reading", "done"}, offset : Nat,
         seen : SUBSET Writers, known : SUBSET Writers]

AuditTypeOK ==
    /\ clock \in 0..MaxTime
    /\ stamp \in [Writers -> 0..Unstamped]
    /\ trail \subseteq Writers
    /\ walk  \in Walk

AuditInit ==
    /\ clock = 0
    /\ stamp = [w \in Writers |-> Unstamped]
    /\ trail = {}
    /\ walk  = [pc |-> "idle", offset |-> 0, seen |-> {}, known |-> {}]

Tick ==
    /\ clock < MaxTime
    /\ clock' = clock + 1
    /\ UNCHANGED <<stamp, trail, walk>>

-----------------------------------------------------------------------------
(* Writing                                                                 *)

\* An AuditRecord is made: occurred_at defaults to the time of the worker.
Stamp(w) ==
    /\ stamp[w] = Unstamped
    /\ stamp' = [stamp EXCEPT ![w] = clock]
    /\ UNCHANGED <<clock, trail, walk>>

\* _write commits it, in a transaction of its own.
Insert(w) ==
    /\ stamp[w] # Unstamped
    /\ w \notin trail
    /\ trail' = trail \cup {w}
    /\ UNCHANGED <<clock, stamp, walk>>

-----------------------------------------------------------------------------
(* Reading                                                                 *)

Smaller(m, n) == IF m < n THEN m ELSE n

NoneOlder(S, T) == \A v \in S, w \in T : stamp[v] >= stamp[w]

\* Faulty variant: the ORDER BY is missing.
PageUnordered(offset) ==
    {page \in SUBSET trail : \E before \in SUBSET (trail \ page) :
        /\ Cardinality(before) = Smaller(offset, Cardinality(trail))
        /\ Cardinality(page) = Smaller(Limit, Cardinality(trail \ before))}

\* ORDER BY occurred_at DESC LIMIT Limit OFFSET offset: entries with the same
\* stamp come in any order, and in another one in the next query.
Page(offset) ==
    {page \in SUBSET trail : \E before \in SUBSET (trail \ page) :
        /\ Cardinality(before) = Smaller(offset, Cardinality(trail))
        /\ Cardinality(page) = Smaller(Limit, Cardinality(trail \ before))
        /\ NoneOlder(before, page)
        /\ NoneOlder(before \cup page, trail \ (before \cup page))}

\* Besides the entries there are, some requests were answered by now.
BeginWalk(answered) ==
    /\ walk.pc = "idle"
    /\ walk' = [walk EXCEPT !.pc = "reading", !.known = trail \cup answered]
    /\ UNCHANGED <<clock, stamp, trail>>

\* One request; a page that is not full is the last.
ReadPage ==
    /\ walk.pc = "reading"
    /\ \E page \in Page(walk.offset) :
         walk' = [walk EXCEPT
                    !.pc = IF Cardinality(page) < Limit THEN "done" ELSE "reading",
                    !.offset = @ + Limit,
                    !.seen = @ \cup page]
    /\ UNCHANGED <<clock, stamp, trail>>

-----------------------------------------------------------------------------
\* A walk through the pages shows every entry that was there when it began
\* and every request that was answered by then, although entries keep
\* arriving, with stamps in the middle of what was already read; it can only
\* miss an entry that shares its stamp with another.
WalkMissesTiesOnly ==
    walk.pc = "done" =>
        \A w \in walk.known \ walk.seen :
            w \in trail /\ \E v \in trail \ {w} : stamp[v] = stamp[w]
=============================================================================
