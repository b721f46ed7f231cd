----------------------------- MODULE Streaming ------------------------------
(***************************************************************************)
(* POST /query/stream, from the page that asks to the last event it shows: *)
(* RagPipeline.stream, the event source of api/v1/streaming.py, the token  *)
(* generator of generation/bedrock.py, and the reader in the page          *)
(* (frontend/static/app.js).  The audit entry is written before the first  *)
(* event; AuditTrail says how it is found again.                           *)
(*                                                                         *)
(* The wire is the sequence of all that was sent.  The page reads it in    *)
(* pieces that need not be whole events.                                   *)
(***************************************************************************)
EXTENDS AuditTrail, Sequences

CONSTANTS
    Streams,    \* streamed queries
    MaxTokens   \* bound: tokens of an answer

ASSUME StreamingAssumption == Streams \subseteq Writers /\ MaxTokens \in Nat

VARIABLES
    enabled,   \* settings.enable_streaming
    server,    \* where the handler of each stream is
    made,      \* how many tokens its generator yielded
    sent,      \* what was sent to the page
    online,    \* whether the connection is up
    page,      \* where the page is
    taken,     \* how much of what was sent it has read
    buffer,    \* what it has read and not yet split into events
    shown      \* what it shows

serverVars == <<server, made, sent>>
pageVars   == <<page, taken, buffer, shown>>
vars == <<auditVars, enabled, serverVars, online, pageVars>>

\* An event is an event line, a data line and an empty line.  The data of a
\* token is its number; that of the other events does not matter.
NL == <<"nl">>
Kinds == {"citation", "token", "error", "done"}
Symbols == {NL, <<"json">>} \cup ({"event"} \X Kinds) \cup ({"data"} \X (0..MaxTokens))
Event(kind, n) == <<<<"event", kind>>, NL, <<"data", n>>, NL, NL>>

Working == {"asked", "recorded", "opened", "next", "holding"}
Ended   == {"refused", "closed", "cancelled", "dead"}

\* text: assistantText.  error: an error event has replaced it.
Shown == [citations : BOOLEAN, text : Seq(1..MaxTokens), error : BOOLEAN,
          audit_id : BOOLEAN]

TypeOK ==
    /\ AuditTypeOK
    /\ enabled \in BOOLEAN
    /\ server \in [Streams -> {"idle"} \cup Working \cup Ended]
    /\ made   \in [Streams -> 0..MaxTokens]
    /\ sent   \in [Streams -> Seq(Symbols)]
    /\ online \in [Streams -> BOOLEAN]
    /\ page   \in [Streams -> {"idle", "waiting", "reading", "ended", "failed", "left"}]
    /\ taken  \in [Streams -> Nat]
    /\ buffer \in [Streams -> Seq(Symbols)]
    /\ shown  \in [Streams -> Shown]

Init ==
    /\ AuditInit
    /\ enabled \in BOOLEAN
    /\ server = [s \in Streams |-> "idle"]
    /\ made   = [s \in Streams |-> 0]
    /\ sent   = [s \in Streams |-> << >>]
    /\ online = [s \in Streams |-> TRUE]
    /\ page   = [s \in Streams |-> "idle"]
    /\ taken  = [s \in Streams |-> 0]
    /\ buffer = [s \in Streams |-> << >>]
    /\ shown  = [s \in Streams |-> [citations |-> FALSE, text |-> << >>,
                                    error |-> FALSE, audit_id |-> FALSE]]

-----------------------------------------------------------------------------
(* The handler                                                             *)

Goto(s, pc) == server' = [server EXCEPT ![s] = pc]

\* What is sent after the connection went down reaches nobody.
Send(s, symbols) ==
    sent' = [sent EXCEPT ![s] = IF online[s] THEN @ \o symbols ELSE @]

\* Streaming is switched off: the answer is a JSON object, with status 200.
Decline(s) ==
    /\ server[s] = "asked"
    /\ ~enabled
    /\ Goto(s, "closed")
    /\ Send(s, <<<<"json">>>>)
    /\ UNCHANGED <<auditVars, enabled, made, online, pageVars>>

\* RagPipeline.stream retrieves, makes the generator, which does nothing yet,
\* resolves the titles, and makes the audit record.
Record(s) ==
    /\ server[s] = "asked"
    /\ enabled
    /\ Stamp(s)
    /\ Goto(s, "recorded")
    /\ UNCHANGED <<enabled, made, sent, online, pageVars>>

\* The record is committed before the response starts; if the reply is lost
\* the handler fails.
Commit(s) ==
    /\ server[s] = "recorded"
    /\ Insert(s)
    /\ Goto(s, "opened") \/ Goto(s, "refused")
    /\ UNCHANGED <<enabled, made, sent, online, pageVars>>

\* Retrieval or the insert fails, or a score is out of range: status 500.
Refuse(s) ==
    /\ server[s] \in {"asked", "recorded"}
    /\ enabled
    /\ Goto(s, "refused")
    /\ UNCHANGED <<auditVars, enabled, made, sent, online, pageVars>>

SendCitations(s) ==
    /\ server[s] = "opened"
    /\ Goto(s, "next")
    /\ Send(s, Event("citation", 0))
    /\ UNCHANGED <<auditVars, enabled, made, online, pageVars>>

\* The generator yields the text of the next delta; events of the model
\* without text are passed over.
NextToken(s) ==
    /\ server[s] = "next"
    /\ made[s] < MaxTokens
    /\ made' = [made EXCEPT ![s] = @ + 1]
    /\ Goto(s, "holding")
    /\ UNCHANGED <<auditVars, enabled, sent, online, pageVars>>

\* Before each token the handler looks whether the client is there.  It may
\* be gone without having been missed.
SendToken(s) ==
    /\ server[s] = "holding"
    /\ Goto(s, "next")
    /\ Send(s, Event("token", made[s]))
    /\ UNCHANGED <<auditVars, enabled, made, online, pageVars>>

\* It is missed: the loop ends and the final event is sent all the same.
BreakOff(s) ==
    /\ server[s] = "holding"
    /\ ~online[s]
    /\ Goto(s, "closed")
    /\ Send(s, Event("done", 0))
    /\ UNCHANGED <<auditVars, enabled, made, online, pageVars>>

Finish(s) ==
    /\ server[s] = "next"
    /\ Goto(s, "closed")
    /\ Send(s, Event("done", 0))
    /\ UNCHANGED <<auditVars, enabled, made, online, pageVars>>

\* Faulty variant: the final event follows the error.
FailAndFinish(s) ==
    /\ server[s] = "next"
    /\ Goto(s, "closed")
    /\ Send(s, Event("error", 0) \o Event("done", 0))
    /\ UNCHANGED <<auditVars, enabled, made, online, pageVars>>

\* Faulty variant: the exception leaves the response open.
FailOpen(s) ==
    /\ server[s] = "next"
    /\ Send(s, Event("error", 0))
    /\ Goto(s, "holding")
    /\ UNCHANGED <<auditVars, enabled, made, online, pageVars>>

\* The call of the model, which the first token makes, or the stream fails.
GeneratorFails(s) ==
    /\ server[s] = "next"
    /\ Goto(s, "closed")
    /\ Send(s, Event("error", 0))
    /\ UNCHANGED <<auditVars, enabled, made, online, pageVars>>

\* The framework ends the response of a client that went away.
Cancel(s) ==
    /\ server[s] \in {"opened", "next", "holding"}
    /\ ~online[s]
    /\ Goto(s, "cancelled")
    /\ UNCHANGED <<auditVars, enabled, made, sent, online, pageVars>>

ServerStep(s) ==
    \/ Decline(s) \/ Record(s) \/ Commit(s) \/ Refuse(s)
    \/ SendCitations(s) \/ NextToken(s) \/ SendToken(s)
    \/ Finish(s) \/ GeneratorFails(s)
    \/ BreakOff(s) \/ Cancel(s)

\* The worker dies, or the connection breaks.
Die(s) ==
    /\ server[s] \in Working
    /\ Goto(s, "dead")
    /\ online' = [online EXCEPT ![s] = FALSE]
    /\ UNCHANGED <<auditVars, enabled, made, sent, pageVars>>

Disconnect(s) ==
    /\ online[s]
    /\ page[s] \in {"waiting", "reading"}
    /\ online' = [online EXCEPT ![s] = FALSE]
    /\ UNCHANGED <<auditVars, enabled, serverVars, pageVars>>

-----------------------------------------------------------------------------
(* The page                                                                *)

Turn(s, pc) == page' = [page EXCEPT ![s] = pc]

Ask(s) ==
    /\ page[s] = "idle"
    /\ Turn(s, "waiting")
    /\ Goto(s, "asked")
    /\ UNCHANGED <<auditVars, enabled, made, sent, online, taken, buffer, shown>>

\* The status of the response arrives.
Begin(s) ==
    /\ page[s] = "waiting"
    /\ online[s]
    /\ server[s] \in {"opened", "next", "holding", "closed"}
    /\ Turn(s, "reading")
    /\ UNCHANGED <<auditVars, enabled, serverVars, online, taken, buffer, shown>>

\* An error status, a failed request or a failed read: the page appends a
\* message that says so.
Fail(s) ==
    /\ \/ page[s] = "waiting" /\ (server[s] = "refused" \/ ~online[s])
       \/ page[s] = "reading" /\ ~online[s]
    /\ Turn(s, "failed")
    /\ UNCHANGED <<auditVars, enabled, serverVars, online, taken, buffer, shown>>

\* The places in b where an empty line ends an event.
Breaks(b) == {i \in 1..Len(b) - 1 : b[i] = NL /\ b[i + 1] = NL}

\* One read returns some of what has arrived.
Receive(s) ==
    /\ page[s] = "reading"
    /\ Breaks(buffer[s]) = {}
    /\ \E n \in taken[s] + 1..Len(sent[s]) :
         /\ buffer' = [buffer EXCEPT ![s] = @ \o SubSeq(sent[s], taken[s] + 1, n)]
         /\ taken' = [taken EXCEPT ![s] = n]
    /\ UNCHANGED <<auditVars, enabled, serverVars, online, page, shown>>

\* Faulty variant: a field is read that a token does not have.
ApplyUndefined(view, kind, n) ==
    IF kind = "token" THEN [view EXCEPT !.text = Append(@, 0)] ELSE view

\* What showing an event does: kind and n are of its last such lines.
Apply(view, kind, n) ==
    CASE kind = "citation" -> [view EXCEPT !.citations = TRUE]
      [] kind = "token"    -> [view EXCEPT !.text = Append(@, n)]
      [] kind = "error"    -> [view EXCEPT !.error = TRUE]
      [] kind = "done"     -> [view EXCEPT !.audit_id = TRUE]
      [] OTHER             -> view

\* One round of the inner loop; the next read waits until none is left.
Handle(s) ==
    LET b     == buffer[s]
        end   == CHOOSE i \in Breaks(b) : \A j \in Breaks(b) : i <= j
        lines == {b[i] : i \in 1..end - 1} \ {NL}
        kind  == {x[2] : x \in {y \in lines : y[1] = "event"}}
        data  == {x[2] : x \in {y \in lines : y[1] = "data"}}
    IN  /\ page[s] = "reading"
        /\ Breaks(b) # {}
        /\ buffer' = [buffer EXCEPT ![s] = SubSeq(b, end + 2, Len(b))]
        /\ \E k \in kind, n \in data :
              shown' = [shown EXCEPT ![s] = Apply(@, k, n)]
        /\ UNCHANGED <<auditVars, enabled, serverVars, online, page, taken>>

\* The end of the response; what is left in the buffer is dropped.
End(s) ==
    /\ page[s] = "reading"
    /\ server[s] = "closed"
    /\ online[s]
    /\ taken[s] = Len(sent[s])
    /\ Breaks(buffer[s]) = {}
    /\ Turn(s, "ended")
    /\ UNCHANGED <<auditVars, enabled, serverVars, online, taken, buffer, shown>>

PageStep(s) == Begin(s) \/ Fail(s) \/ Receive(s) \/ Handle(s) \/ End(s)

\* The user closes the page.
Leave(s) ==
    /\ page[s] \in {"waiting", "reading"}
    /\ Turn(s, "left")
    /\ online' = [online EXCEPT ![s] = FALSE]
    /\ UNCHANGED <<auditVars, enabled, serverVars, taken, buffer, shown>>

-----------------------------------------------------------------------------
\* Streams whose page has shown anything of an answer.
Answered == {s \in Streams : shown[s].citations \/ shown[s].text # << >> \/ shown[s].audit_id}

\* Uploads, deletions and plain queries are recorded too.
OtherRecord(w) ==
    /\ w \notin Streams
    /\ Stamp(w) \/ Insert(w)
    /\ UNCHANGED <<enabled, serverVars, online, pageVars>>

Administrate ==
    /\ BeginWalk(Answered) \/ ReadPage
    /\ UNCHANGED <<enabled, serverVars, online, pageVars>>

TimePasses == Tick /\ UNCHANGED <<enabled, serverVars, online, pageVars>>

Next ==
    \/ \E s \in Streams : Ask(s) \/ ServerStep(s) \/ Die(s) \/ Disconnect(s)
                          \/ PageStep(s) \/ Leave(s)
    \/ \E w \in Writers : OtherRecord(w)
    \/ Administrate
    \/ TimePasses

\* The worker runs the handler, and each call of the model returns or raises
\* (the answer has a bounded number of tokens and the client a time-out);
\* the page runs its script.
Spec == /\ Init /\ [][Next]_vars
        /\ \A s \in Streams : WF_vars(ServerStep(s)) /\ WF_vars(PageStep(s))

-----------------------------------------------------------------------------
\* However the answer is cut into pieces on its way: the page shows its words
\* in order, none twice and none lost, after the sources; it shows the audit
\* id only under a whole answer; and when the response ends it shows that id
\* or an error, so an answer that was cut off does not pass for a whole one.
\* (If streaming is switched off it shows nothing at all.)
PageTellsTruth ==
    \A s \in Streams :
        LET view == shown[s]
        IN  /\ view.text = [i \in 1..Len(view.text) |-> i]
            /\ Len(view.text) <= made[s]
            /\ view.text # << >> => view.citations
            /\ view.audit_id => Len(view.text) = made[s] /\ ~view.error
            /\ page[s] = "ended" => view.audit_id \/ view.error \/ ~enabled

\* Whatever happens to the server, the connection and the model, the page
\* stops waiting and the handler comes to an end.
StreamsEnd ==
    \A s \in Streams :
        page[s] = "waiting" ~> (page[s] \in {"ended", "failed", "left"}
                                /\ server[s] \in Ended)
=============================================================================
