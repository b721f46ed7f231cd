--------------------------- MODULE TenantLibrary ----------------------------
(***************************************************************************)
(* What the document API promises to its tenants, without processes,       *)
(* stores or failures: every tenant has a shelf of documents of its own;   *)
(* an id goes to one shelf, once; a document taken down never comes back;  *)
(* and the ledger only grows, by entries that are true of the shelf of the *)
(* tenant they are about.                                                  *)
(***************************************************************************)
EXTENDS Sequences

CONSTANTS Tenants, Ids

VARIABLES
    shelf,     \* the documents each tenant can list
    assigned,  \* the <<id, tenant>> pairs ever shelved
    ledger     \* what was recorded, in order

libraryVars == <<shelf, assigned, ledger>>

Init ==
    /\ shelf    = [t \in Tenants |-> {}]
    /\ assigned = {}
    /\ ledger   = << >>

Shelve(t, d) ==
    /\ \A u \in Tenants : <<d, u>> \notin assigned
    /\ shelf'    = [shelf EXCEPT ![t] = @ \cup {d}]
    /\ assigned' = assigned \cup {<<d, t>>}
    /\ UNCHANGED ledger

Withdraw(t, d) ==
    /\ d \in shelf[t]
    /\ shelf' = [shelf EXCEPT ![t] = @ \ {d}]
    /\ UNCHANGED <<assigned, ledger>>

\* An upload is recorded for a document that was shelved, a deletion for
\* one that was and no longer is, a query for documents of the tenant.
Record(t, action, docs) ==
    /\ docs \X {t} \subseteq assigned
    /\ action = "delete" => docs \cap shelf[t] = {}
    /\ ledger' = Append(ledger, [action |-> action, tenant |-> t, docs |-> docs])
    /\ UNCHANGED <<shelf, assigned>>

Next ==
    \E t \in Tenants :
        \/ \E d \in Ids : Shelve(t, d) \/ Withdraw(t, d)
        \/ \E action \in {"upload", "delete", "query"}, docs \in SUBSET Ids :
             Record(t, action, docs)

Spec == Init /\ [][Next]_libraryVars
=============================================================================
