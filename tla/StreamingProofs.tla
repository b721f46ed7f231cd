-------------------------- MODULE StreamingProofs ---------------------------
(***************************************************************************)
(* For any writers, stamps, page sizes and answers.                        *)
(*                                                                         *)
(* A walk through the audit log misses nothing but entries that share      *)
(* their stamp.  An entry that was not seen yet lies at or beyond the      *)
(* offset of the next page, because what arrives can only push it further  *)
(* down; and the requests a user saw answered were inserted before their   *)
(* first word was sent.                                                    *)
(*                                                                         *)
(* However the wire is cut into pieces, what a page shows is what the      *)
(* first events on it say: the wire holds whole events, the page has       *)
(* handled some of them, and its buffer is the rest of what it took.       *)
(***************************************************************************)
EXTENDS Streaming, FiniteSetTheorems, SequenceTheorems, TLAPS

Newer(w) == {v \in trail : stamp[v] > stamp[w]}

\* No other entry has its stamp.
Lone(w) == \A v \in trail \ {w} : stamp[v] # stamp[w]

\* The walk has not passed w by.
Ahead(w) == Lone(w) => Cardinality(Newer(w)) >= walk.offset

AuditInv ==
    /\ AuditTypeOK
    /\ IsFiniteSet(trail)
    /\ \A w \in trail : stamp[w] # Unstamped
    /\ walk.pc = "idle" => walk.offset = 0
    /\ walk.pc # "idle" => /\ walk.known \subseteq trail
                           /\ \A w \in walk.known \ walk.seen : Ahead(w)
    /\ walk.pc = "done" => \A w \in walk.known \ walk.seen : ~Lone(w)

USE AuditTrailAssumption DEF AuditTrailAssumption

-----------------------------------------------------------------------------
LEMMA WalkFields ==
    ASSUME AuditTypeOK
    PROVE  /\ walk.offset \in Nat /\ walk.seen \subseteq Writers /\ walk.known \subseteq Writers
           /\ \A w \in Writers : stamp[w] \in Nat
  BY DEF AuditTypeOK, Walk, Unstamped

LEMMA AuditInit1 == AuditInit => AuditInv
  BY FS_EmptySet DEF AuditInit, AuditInv, AuditTypeOK, Walk, Unstamped

\* A stamp is given before the entry is there, and then kept.
LEMMA StampKeeps == ASSUME AuditInv, NEW w \in Writers, Stamp(w) PROVE AuditInv'
<1> USE DEF AuditInv
<1>1. /\ w \notin trail
      /\ stamp' = [stamp EXCEPT ![w] = clock]
      /\ clock' = clock /\ trail' = trail /\ walk' = walk
  BY DEF Stamp
<1>2. AuditTypeOK'
  BY <1>1 DEF AuditTypeOK, Unstamped
<1>3. \A v \in trail : stamp'[v] = stamp[v]
  BY <1>1 DEF AuditTypeOK
<1>4. \A v \in trail : Newer(v)' = Newer(v) /\ (Lone(v)' <=> Lone(v))
  BY <1>1, <1>3 DEF Newer, Lone
<1> QED
  BY <1>1, <1>2, <1>3, <1>4 DEF Ahead, Unstamped

\* An entry that arrives comes before others or after them, or takes their
\* stamp; nothing moves up.
LEMMA InsertKeeps == ASSUME AuditInv, NEW w \in Writers, Insert(w) PROVE AuditInv'
<1> USE DEF AuditInv
<1>1. /\ stamp[w] # Unstamped
      /\ trail' = trail \cup {w}
      /\ clock' = clock /\ stamp' = stamp /\ walk' = walk
  BY DEF Insert
<1>2. AuditTypeOK'
  BY <1>1 DEF AuditTypeOK
<1>3. IsFiniteSet(trail')
  BY <1>1, FS_AddElement
<1>4. \A v \in trail : Lone(v)' => Lone(v)
  BY <1>1 DEF Lone
<1>5. ASSUME NEW v \in trail PROVE Cardinality(Newer(v)') >= Cardinality(Newer(v))
  <2>1. Newer(v) \subseteq Newer(v)' /\ Newer(v)' \subseteq trail'
    BY <1>1 DEF Newer
  <2>2. IsFiniteSet(Newer(v)')
    BY <1>3, <2>1, FS_Subset
  <2>3. Cardinality(Newer(v)) <= Cardinality(Newer(v)')
    BY <2>1, <2>2, FS_Subset
  <2>4. Cardinality(Newer(v)) \in Nat /\ Cardinality(Newer(v)') \in Nat
    BY <2>1, <2>2, FS_Subset, FS_CardinalityType
  <2> QED
    BY <2>3, <2>4
<1>6. \A v \in trail : Cardinality(Newer(v)) \in Nat /\ Cardinality(Newer(v)') \in Nat
  <2> SUFFICES ASSUME NEW v \in trail
               PROVE  Cardinality(Newer(v)) \in Nat /\ Cardinality(Newer(v)') \in Nat
    OBVIOUS
  <2>1. Newer(v) \subseteq trail /\ Newer(v)' \subseteq trail'
    BY DEF Newer
  <2>2. IsFiniteSet(Newer(v)) /\ IsFiniteSet(Newer(v)')
    BY <1>3, <2>1, FS_Subset
  <2> QED
    BY <2>2, FS_CardinalityType
<1>7. \A v \in trail : Ahead(v) => Ahead(v)'
  BY <1>1, <1>4, <1>5, <1>6, WalkFields DEF Ahead
<1> QED
  BY <1>1, <1>2, <1>3, <1>4, <1>7

\* A walk begins at the top.
LEMMA BeginKeeps ==
    ASSUME AuditInv, NEW A, A \subseteq trail, BeginWalk(A)
    PROVE  AuditInv'
<1> USE DEF AuditInv
<1>1. /\ walk.pc = "idle"
      /\ walk' = [walk EXCEPT !.pc = "reading", !.known = trail \cup A]
      /\ clock' = clock /\ stamp' = stamp /\ trail' = trail
  BY DEF BeginWalk
<1>2. /\ walk'.pc = "reading" /\ walk'.known = trail
      /\ walk'.offset = 0 /\ walk'.seen = walk.seen
      /\ AuditTypeOK'
  BY <1>1 DEF AuditTypeOK, Walk
<1>3. ASSUME NEW w PROVE Cardinality(Newer(w)) \in Nat
  BY FS_Subset, FS_CardinalityType DEF Newer
<1>4. \A w : Newer(w)' = Newer(w)
  BY <1>1 DEF Newer
<1>5. \A w \in trail : Ahead(w)'
  BY <1>2, <1>3, <1>4 DEF Ahead
<1> QED
  BY <1>1, <1>2, <1>5

\* The page shows all of the next Limit entries, so whatever is not on it,
\* if its stamp is its own, is Limit entries further down; and there is none
\* if the page is not full.
LEMMA PageAdvances ==
    ASSUME AuditInv, NEW batch \in Page(walk.offset),
           NEW w \in trail, w \notin batch, Lone(w),
           Cardinality(Newer(w)) >= walk.offset
    PROVE  Cardinality(batch) = Limit /\ Cardinality(Newer(w)) >= walk.offset + Limit
<1> USE DEF AuditInv
<1>1. PICK before \in SUBSET (trail \ batch) :
         /\ Cardinality(before) = Smaller(walk.offset, Cardinality(trail))
         /\ Cardinality(batch) = Smaller(Limit, Cardinality(trail \ before))
         /\ NoneOlder(before, batch)
         /\ NoneOlder(before \cup batch, trail \ (before \cup batch))
  BY DEF Page
<1>2. batch \subseteq trail
  BY DEF Page
<1>3. /\ IsFiniteSet(before) /\ IsFiniteSet(batch) /\ IsFiniteSet(trail \ before)
      /\ IsFiniteSet(Newer(w)) /\ IsFiniteSet(before \cup batch)
  <2>1. IsFiniteSet(before) /\ IsFiniteSet(batch) /\ IsFiniteSet(trail \ before)
    BY <1>2, FS_Subset
  <2>2. IsFiniteSet(Newer(w))
    BY FS_Subset DEF Newer
  <2> QED
    BY <2>1, <2>2, FS_Union
<1>4. /\ Cardinality(before) \in Nat /\ Cardinality(batch) \in Nat
      /\ Cardinality(trail \ before) \in Nat /\ Cardinality(trail) \in Nat
      /\ Cardinality(Newer(w)) \in Nat /\ walk.offset \in Nat
  BY <1>3, FS_CardinalityType, WalkFields
<1>5. \A v \in trail : stamp[v] \in Nat
  BY WalkFields DEF AuditTypeOK
<1>6. w \notin before
  <2> SUFFICES ASSUME w \in before PROVE FALSE
    OBVIOUS
  <2>1. Newer(w) \subseteq before \ {w}
    BY <1>1, <1>5 DEF Newer, NoneOlder
  <2>2. IsFiniteSet(before \ {w}) /\ Cardinality(before \ {w}) = Cardinality(before) - 1
    BY <1>3, FS_RemoveElement
  <2>3. Cardinality(Newer(w)) <= Cardinality(before \ {w})
    BY <2>1, <2>2, FS_Subset
  <2>4. Cardinality(before) <= walk.offset
    BY <1>1, <1>4 DEF Smaller
  <2> QED
    BY <1>4, <2>2, <2>3, <2>4
<1>7. before \cup batch \subseteq Newer(w)
  BY <1>1, <1>2, <1>5, <1>6 DEF Newer, NoneOlder, Lone
<1>8. Cardinality(before) = walk.offset
  <2>1. Cardinality(before) # Cardinality(trail)
    BY <1>6, FS_Subset
  <2> QED
    BY <1>1, <1>4, <2>1 DEF Smaller
<1>9. Cardinality(batch) = Limit
  <2>1. batch \subseteq trail \ before
    BY <1>1, <1>2
  <2>2. Cardinality(batch) # Cardinality(trail \ before)
    BY <1>3, <1>6, <2>1, FS_Subset
  <2> QED
    BY <1>1, <1>4, <2>2 DEF Smaller
<1>10. Cardinality(before \cup batch) = Cardinality(before) + Cardinality(batch)
  <2>1. before \cap batch = {}
    OBVIOUS
  <2>2. Cardinality(before \cup batch)
          = Cardinality(before) + Cardinality(batch) - Cardinality(before \cap batch)
    BY <1>3, FS_Union
  <2>3. Cardinality(before \cap batch) = 0
    BY <2>1, FS_EmptySet
  <2> QED
    BY <1>4, <2>2, <2>3
<1>11. Cardinality(before \cup batch) <= Cardinality(Newer(w))
  BY <1>3, <1>7, FS_Subset
<1> QED
  BY <1>8, <1>9, <1>10, <1>11

LEMMA ReadKeeps == ASSUME AuditInv, ReadPage PROVE AuditInv'
<1> USE DEF AuditInv
<1>1. PICK batch \in Page(walk.offset) :
         walk' = [walk EXCEPT
                    !.pc = IF Cardinality(batch) < Limit THEN "done" ELSE "reading",
                    !.offset = @ + Limit,
                    !.seen = @ \cup batch]
  BY DEF ReadPage
<1>2. walk.pc = "reading" /\ clock' = clock /\ stamp' = stamp /\ trail' = trail
  BY DEF ReadPage
<1>3. batch \subseteq trail
  BY DEF Page
<1>4. /\ walk'.pc = IF Cardinality(batch) < Limit THEN "done" ELSE "reading"
      /\ walk'.offset = walk.offset + Limit
      /\ walk'.seen = walk.seen \cup batch /\ walk'.known = walk.known
      /\ AuditTypeOK'
  <2> DEFINE last == Cardinality(batch) < Limit
  <2>1. walk' = [walk EXCEPT !.pc = IF last THEN "done" ELSE "reading",
                             !.offset = @ + Limit, !.seen = @ \cup batch]
    BY <1>1
  <2> HIDE DEF last
  <2>2. walk \in Walk /\ batch \subseteq Writers
    BY <1>3 DEF AuditTypeOK
  <2>3. /\ walk'.pc = IF last THEN "done" ELSE "reading"
        /\ walk'.offset = walk.offset + Limit
        /\ walk'.seen = walk.seen \cup batch /\ walk'.known = walk.known
    BY <2>1, <2>2 DEF Walk
  <2>4. walk' = [pc |-> IF last THEN "done" ELSE "reading", offset |-> walk.offset + Limit,
                 seen |-> walk.seen \cup batch, known |-> walk.known]
    BY <2>1, <2>2 DEF Walk
  <2>5. walk' \in Walk
    BY <2>2, <2>4 DEF Walk
  <2>6. AuditTypeOK'
    BY <1>2, <2>5 DEF AuditTypeOK
  <2> QED
    BY <2>3, <2>6 DEF last
<1>5. \A w \in walk'.known \ walk'.seen :
         Lone(w) => Cardinality(batch) = Limit /\ Cardinality(Newer(w)) >= walk.offset + Limit
  BY <1>2, <1>4, PageAdvances DEF Ahead
<1>6. \A w : Newer(w)' = Newer(w) /\ (Lone(w)' <=> Lone(w))
  BY <1>2 DEF Newer, Lone
<1>7. \A w \in walk'.known \ walk'.seen : Ahead(w)'
  BY <1>4, <1>5, <1>6 DEF Ahead
<1>8. walk'.pc = "done" => \A w \in walk'.known \ walk'.seen : ~Lone(w)'
  BY <1>4, <1>5, <1>6
<1> QED
  BY <1>2, <1>4, <1>7, <1>8

LEMMA TickKeeps == AuditInv /\ Tick => AuditInv'
<1> SUFFICES ASSUME AuditInv, Tick PROVE AuditInv'
  OBVIOUS
<1>1. /\ clock' \in 0..MaxTime
      /\ stamp' = stamp /\ trail' = trail /\ walk' = walk
  BY DEF Tick, AuditInv, AuditTypeOK
<1>2. AuditTypeOK'
  BY <1>1 DEF AuditInv, AuditTypeOK
<1> QED
  BY <1>1, <1>2 DEF AuditInv, Ahead, Newer, Lone

LEMMA AuditStutters == AuditInv /\ UNCHANGED auditVars => AuditInv'
  BY DEF auditVars, AuditInv, AuditTypeOK, Ahead, Newer, Lone

-----------------------------------------------------------------------------
(* Nothing of an answer is sent, and so nothing shown, before the entry.   *)

Json == <<"json">>

Silent(s) ==
    /\ server[s] \in {"idle", "asked", "recorded", "refused", "closed", "dead"}
    /\ sent[s] \in Seq({Json}) /\ buffer[s] \in Seq({Json}) /\ taken[s] \in Nat
    /\ ~shown[s].citations /\ shown[s].text = << >> /\ ~shown[s].audit_id

Domains == /\ DOMAIN server = Streams /\ DOMAIN sent = Streams
           /\ DOMAIN taken = Streams /\ DOMAIN buffer = Streams
           /\ DOMAIN shown = Streams

RecordedFirst == Domains /\ \A s \in Streams : s \in trail \/ Silent(s)

LEMMA AnsweredAreRecorded == RecordedFirst => Answered \subseteq trail
  BY DEF RecordedFirst, Silent, Answered

LEMMA NothingToShow == ASSUME NEW b \in Seq({Json}) PROVE Breaks(b) = {}
<1>1. Json # NL
  BY DEF Json, NL
<1>2. \A i \in 1..Len(b) : b[i] = Json
  OBVIOUS
<1>3. \A i \in 1..Len(b) - 1 : i \in 1..Len(b)
  BY LenProperties
<1> QED
  BY <1>1, <1>2, <1>3 DEF Breaks

LEMMA RecordedInit == Init => RecordedFirst
<1> SUFFICES ASSUME Init PROVE RecordedFirst
  OBVIOUS
<1>1. << >> \in Seq({Json})
  BY EmptySeq
<1> QED
  BY <1>1 DEF Init, RecordedFirst, Domains, Silent

LEMMA ServerKeeps ==
    ASSUME RecordedFirst, NEW s \in Streams, ServerStep(s) \/ Die(s)
    PROVE  RecordedFirst'
<1> USE DEF Goto, Send, Working
<1>1. /\ Domains' /\ trail \subseteq trail'
      /\ taken' = taken /\ buffer' = buffer /\ shown' = shown
      /\ \A t \in Streams \ {s} : server'[t] = server[t] /\ sent'[t] = sent[t]
  BY DEF RecordedFirst, Domains, ServerStep, Decline, Record, Commit, Refuse, SendCitations,
         NextToken, SendToken, Finish, GeneratorFails, BreakOff, Cancel, Die,
         Stamp, Insert, auditVars, pageVars
<1>2. ASSUME s \notin trail' PROVE Silent(s)'
  <2>1. s \notin trail /\ Silent(s)
    BY <1>1, <1>2 DEF RecordedFirst
  <2>2. CASE Decline(s)
    <3>1. sent[s] \o <<Json>> \in Seq({Json})
      BY <2>1, ConcatProperties DEF Silent
    <3> QED
      BY <1>1, <2>1, <2>2, <3>1 DEF RecordedFirst, Domains, Silent, Decline, Json
  <2>3. CASE Record(s) \/ Refuse(s) \/ Die(s)
    BY <1>1, <2>1, <2>3 DEF RecordedFirst, Domains, Silent, Record, Refuse, Die
  <2>4. CASE Commit(s)
    BY <1>2, <2>4 DEF Commit, Insert
  <2>5. server[s] \notin {"opened", "next", "holding"}
    BY <2>1 DEF Silent
  <2> QED
    BY <2>2, <2>3, <2>4, <2>5 DEF ServerStep, SendCitations, NextToken, SendToken, Finish,
                                 GeneratorFails, BreakOff, Cancel
<1> QED
  BY <1>1, <1>2 DEF RecordedFirst, Silent

LEMMA PageKeeps ==
    ASSUME RecordedFirst, NEW s \in Streams,
           Ask(s) \/ PageStep(s) \/ Leave(s) \/ Disconnect(s)
    PROVE  RecordedFirst'
<1>1. /\ Domains' /\ trail' = trail /\ sent' = sent
      /\ \A t \in Streams \ {s} : /\ server'[t] = server[t] /\ taken'[t] = taken[t]
                                  /\ buffer'[t] = buffer[t] /\ shown'[t] = shown[t]
  BY DEF RecordedFirst, Domains, Ask, PageStep, Begin, Fail, Receive, Handle, End, Leave,
         Disconnect, Goto, auditVars, serverVars, pageVars
<1>2. ASSUME s \notin trail PROVE Silent(s)'
  <2>1. Silent(s)
    BY <1>2 DEF RecordedFirst
  <2>2. CASE Ask(s)
    BY <1>1, <2>1, <2>2 DEF RecordedFirst, Domains, Silent, Ask, Goto
  <2>3. CASE Begin(s) \/ Fail(s) \/ End(s) \/ Leave(s) \/ Disconnect(s)
    BY <1>1, <2>1, <2>3 DEF Silent, Begin, Fail, End, Leave, Disconnect, serverVars, pageVars
  <2>4. CASE Receive(s)
    <3>1. PICK n \in taken[s] + 1..Len(sent[s]) :
             /\ buffer' = [buffer EXCEPT ![s] = @ \o SubSeq(sent[s], taken[s] + 1, n)]
             /\ taken' = [taken EXCEPT ![s] = n]
      BY <2>4 DEF Receive
    <3>2. SubSeq(sent[s], taken[s] + 1, n) \in Seq({Json}) /\ n \in Nat
      BY <2>1, <3>1, SubSeqProperties, LenProperties DEF Silent
    <3>3. buffer[s] \o SubSeq(sent[s], taken[s] + 1, n) \in Seq({Json})
      BY <2>1, <3>2, ConcatProperties DEF Silent
    <3> QED
      BY <1>1, <2>1, <2>4, <3>1, <3>2, <3>3
      DEF RecordedFirst, Domains, Silent, Receive, serverVars
  <2>5. CASE Handle(s)
    BY <2>1, <2>5, NothingToShow DEF Handle, Silent
  <2> QED
    BY <2>2, <2>3, <2>4, <2>5 DEF PageStep
<1> QED
  BY <1>1, <1>2 DEF RecordedFirst, Silent

LEMMA RecordedStutters ==
    RecordedFirst /\ UNCHANGED <<serverVars, pageVars>> /\ trail \subseteq trail' => RecordedFirst'
  BY DEF RecordedFirst, Domains, Silent, serverVars, pageVars

-----------------------------------------------------------------------------
TraceInv == AuditInv /\ RecordedFirst

LEMMA TraceNext == TraceInv /\ [Next]_vars => TraceInv'
<1> SUFFICES ASSUME TraceInv, [Next]_vars PROVE TraceInv'
  OBVIOUS
<1> USE DEF TraceInv
<1>1. ASSUME NEW s \in Streams, ServerStep(s) \/ Die(s) PROVE TraceInv'
  <2>1. RecordedFirst'
    BY <1>1, ServerKeeps
  <2>2. CASE Record(s)
    BY <2>1, <2>2, StampKeeps, StreamingAssumption DEF StreamingAssumption, Record
  <2>3. CASE Commit(s)
    BY <2>1, <2>3, InsertKeeps, StreamingAssumption DEF StreamingAssumption, Commit
  <2>4. CASE UNCHANGED auditVars
    BY <2>1, <2>4, AuditStutters
  <2> QED
    BY <1>1, <2>2, <2>3, <2>4 DEF ServerStep, Decline, Refuse, SendCitations, NextToken,
                         SendToken, Finish, GeneratorFails, BreakOff, Cancel, Die
<1>2. ASSUME NEW s \in Streams, Ask(s) \/ PageStep(s) \/ Leave(s) \/ Disconnect(s)
      PROVE  TraceInv'
  <2>1. UNCHANGED auditVars
    BY <1>2 DEF Ask, PageStep, Begin, Fail, Receive, Handle, End, Leave, Disconnect
  <2> QED
    BY <1>2, <2>1, PageKeeps, AuditStutters
<1>3. ASSUME NEW w \in Writers, OtherRecord(w) PROVE TraceInv'
  <2>1. AuditInv'
    BY <1>3, StampKeeps, InsertKeeps DEF OtherRecord
  <2>2. trail \subseteq trail'
    BY <1>3 DEF OtherRecord, Stamp, Insert
  <2> QED
    BY <1>3, <2>1, <2>2, RecordedStutters DEF OtherRecord
<1>4. CASE Administrate
  <2>1. AuditInv'
    BY <1>4, AnsweredAreRecorded, BeginKeeps, ReadKeeps DEF Administrate
  <2>2. trail' = trail
    BY <1>4 DEF Administrate, BeginWalk, ReadPage
  <2> QED
    BY <1>4, <2>1, <2>2, RecordedStutters DEF Administrate
<1>5. CASE TimePasses
  BY <1>5, TickKeeps, RecordedStutters DEF TimePasses, Tick
<1>6. CASE UNCHANGED vars
  <2>1. UNCHANGED auditVars /\ UNCHANGED <<serverVars, pageVars>> /\ trail' = trail
    BY <1>6 DEF vars, auditVars
  <2> QED
    BY <2>1, AuditStutters, RecordedStutters
<1> QED
  BY <1>1, <1>2, <1>3, <1>4, <1>5, <1>6 DEF Next

LEMMA TraceMissesTies == AuditInv => WalkMissesTiesOnly
  BY DEF AuditInv, WalkMissesTiesOnly, Lone

\* A walk through the pages of the audit log shows every entry that was there
\* when it began and every request answered by then, or the entry is there
\* and shares its stamp (AuditLogger.list_for_tenant, RagPipeline.stream).
THEOREM WalksMissTiesOnly == Spec => []WalkMissesTiesOnly
<1>1. Init => TraceInv
  BY AuditInit1, RecordedInit DEF Init, TraceInv
<1>2. TraceInv => WalkMissesTiesOnly
  BY TraceMissesTies DEF TraceInv
<1> QED
  BY <1>1, <1>2, TraceNext, PTL DEF Spec

-----------------------------------------------------------------------------
(* What a page shows is what a prefix of the events that were sent says.   *)

\* The five lines of an event stand in q after the first at.
EventAt(q, at, kind, n) ==
    /\ q[at + 1] = <<"event", kind>> /\ q[at + 2] = NL
    /\ q[at + 3] = <<"data", n>>     /\ q[at + 4] = NL
    /\ q[at + 5] = NL

\* n events were sent: the sources, tokens in order, and at the end, if it
\* came to that, the final event.
Finals == {"none", "done", "error"}
Wire(q, n, final) ==
    /\ Len(q) = 5 * n
    /\ n > 0 => EventAt(q, 0, "citation", 0)
    /\ \A i \in 1..(n - 1) :
         (i < n - 1 \/ final = "none") => EventAt(q, 5 * i, "token", i)
    /\ final # "none" => n > 1 /\ EventAt(q, 5 * (n - 1), final, 0)

\* How far the handler is.  While the connection is up everything is sent.
Early == {"idle", "asked", "recorded", "refused", "opened"}
Phase(s, n, final) ==
    /\ server[s] \in Early => n = 0 /\ made[s] = 0
    /\ final = "none" => n <= made[s] + 1
    /\ final # "none" => n = made[s] + 2 /\ server[s] = "closed"
    /\ online[s] => /\ server[s] = "next" => n = made[s] + 1
                    /\ server[s] = "holding" => n = made[s] /\ n > 0
                    /\ server[s] = "closed" => final # "none"
                    /\ server[s] \notin {"dead", "cancelled"}
    /\ page[s] = "idle" => server[s] = "idle"

\* The page handled h events; the rest of what it took is in its buffer.
Unread(q, b, m, n, h) ==
    /\ 5 * h <= m /\ m <= 5 * n
    /\ Len(b) = m - 5 * h
    /\ \A j \in 1..Len(b) : b[j] = q[5 * h + j]

\* The first t tokens.
Counts(q, t) == Len(q) = t /\ \A i \in 1..Len(q) : q[i] = i
Over(n, final, h) == final # "none" /\ h = n
Display(view, n, final, h) ==
    /\ h > 0 => view.citations
    /\ Counts(view.text, IF h = 0 THEN 0 ELSE IF Over(n, final, h) THEN h - 2 ELSE h - 1)
    /\ view.error    <=> final = "error" /\ h = n
    /\ view.audit_id <=> final = "done" /\ h = n

Told(s, n, final, h) ==
    /\ Wire(sent[s], n, final)
    /\ Phase(s, n, final)
    /\ Unread(sent[s], buffer[s], taken[s], n, h)
    /\ Display(shown[s], n, final, h)
    /\ page[s] = "ended" => Over(n, final, h)

Story(s) == \E n \in Nat, final \in Finals, h \in Nat : Told(s, n, final, h)
Mute(s) == Silent(s) /\ server[s] # "recorded"
Tale(s) == IF enabled THEN Story(s) ELSE Mute(s)

StreamTypeOK ==
    /\ enabled \in BOOLEAN
    /\ server \in [Streams -> {"idle"} \cup Working \cup Ended]
    /\ made   \in [Streams -> 0..MaxTokens]
    /\ sent   \in [Streams -> Seq(Symbols)]
    /\ online \in [Streams -> BOOLEAN]
    /\ page   \in [Streams -> {"idle", "waiting", "reading", "ended", "failed", "left"}]
    /\ taken  \in [Streams -> Nat]
    /\ buffer \in [Streams -> Seq(Symbols)]
    /\ shown  \in [Streams -> Shown]

PageInv == StreamTypeOK /\ \A s \in Streams : Tale(s)

LEMMA Letters ==
    ASSUME NEW k, NEW n
    PROVE  <<"event", k>> # NL /\ <<"data", n>> # NL /\ <<"event", k>> # <<"data", n>>
<1>1. Len(NL) = 1 /\ Len(<<"event", k>>) = 2 /\ Len(<<"data", n>>) = 2
  BY DEF NL
<1>2. <<"event", k>>[1] = "event" /\ <<"data", n>>[1] = "data"
  OBVIOUS
<1> QED
  BY <1>1, <1>2

LEMMA EventShape ==
    ASSUME NEW k \in Kinds, NEW n \in 0..MaxTokens
    PROVE  /\ Event(k, n) \in Seq(Symbols) /\ Len(Event(k, n)) = 5
           /\ EventAt(Event(k, n), 0, k, n)
<1>1. PICK a, b : a = <<"event", k>> /\ b = <<"data", n>>
  OBVIOUS
<1>2. a \in Symbols /\ b \in Symbols /\ NL \in Symbols
  BY <1>1 DEF Symbols
<1>3. Event(k, n) = <<a, NL, b, NL, NL>>
  BY <1>1 DEF Event
<1>4. /\ <<a, NL, b, NL, NL>> \in Seq(Symbols) /\ Len(<<a, NL, b, NL, NL>>) = 5
      /\ <<a, NL, b, NL, NL>>[1] = a /\ <<a, NL, b, NL, NL>>[2] = NL
      /\ <<a, NL, b, NL, NL>>[3] = b /\ <<a, NL, b, NL, NL>>[4] = NL
      /\ <<a, NL, b, NL, NL>>[5] = NL
  BY <1>2
<1> QED
  BY <1>1, <1>3, <1>4 DEF EventAt

\* u is q and an event more.
Extends(u, q, k, n) ==
    /\ Len(u) = Len(q) + 5
    /\ \A i \in 1..Len(q) : u[i] = q[i]
    /\ EventAt(u, Len(q), k, n)

LEMMA SentEvent ==
    ASSUME NEW q \in Seq(Symbols), NEW k \in Kinds, NEW n \in 0..MaxTokens
    PROVE  q \o Event(k, n) \in Seq(Symbols) /\ Extends(q \o Event(k, n), q, k, n)
<1>1. PICK e \in Seq(Symbols) : e = Event(k, n) /\ Len(e) = 5 /\ EventAt(e, 0, k, n)
  BY EventShape
<1>2. PICK u : u = q \o e
  OBVIOUS
<1>3. /\ u \in Seq(Symbols) /\ Len(u) = Len(q) + 5 /\ Len(q) \in Nat
      /\ \A i \in 1..(Len(q) + 5) : u[i] = IF i <= Len(q) THEN q[i] ELSE e[i - Len(q)]
  <2>1. /\ q \o e \in Seq(Symbols) /\ Len(q \o e) = Len(q) + Len(e)
        /\ \A i \in 1..(Len(q) + Len(e)) :
              (q \o e)[i] = IF i <= Len(q) THEN q[i] ELSE e[i - Len(q)]
    BY ConcatProperties
  <2>2. Len(e) = 5 /\ Len(q) \in Nat
    BY <1>1
  <2> QED
    BY <1>2, <2>1, <2>2
<1>4. PICK l \in Nat : l = Len(q)
  BY <1>3
<1>5. \A i \in 1..l : u[i] = q[i]
  BY <1>3, <1>4
<1>6. ASSUME NEW i \in 1..5 PROVE u[l + i] = e[i]
  <2>1. l + i \in 1..(l + 5) /\ ~(l + i <= l) /\ (l + i) - l = i
    OBVIOUS
  <2> QED
    BY <1>3, <1>4, <2>1
<1>7. /\ u[l + 1] = e[1] /\ u[l + 2] = e[2] /\ u[l + 3] = e[3]
      /\ u[l + 4] = e[4] /\ u[l + 5] = e[5]
  BY <1>6
<1>8. e[1] = <<"event", k>> /\ e[2] = NL /\ e[3] = <<"data", n>> /\ e[4] = NL /\ e[5] = NL
  BY <1>1 DEF EventAt
<1>9. EventAt(u, l, k, n)
  BY <1>7, <1>8 DEF EventAt
<1> QED
  BY <1>1, <1>2, <1>3, <1>4, <1>5, <1>9 DEF Extends

LEMMA EventKept ==
    ASSUME NEW q, NEW u, NEW k, NEW n, NEW k2, NEW n2, NEW at \in Nat, Len(q) \in Nat,
           Extends(u, q, k, n), at + 5 <= Len(q), EventAt(q, at, k2, n2)
    PROVE  EventAt(u, at, k2, n2)
<1>1. /\ at + 1 \in 1..Len(q) /\ at + 2 \in 1..Len(q) /\ at + 3 \in 1..Len(q)
      /\ at + 4 \in 1..Len(q) /\ at + 5 \in 1..Len(q)
  OBVIOUS
<1> QED
  BY <1>1 DEF Extends, EventAt

\* The events that may come next.
Due(n, final, k, d) ==
    \/ n = 0 /\ k = "citation" /\ d = 0 /\ final = "none"
    \/ n > 0 /\ k = "token" /\ d = n /\ final = "none"
    \/ n > 0 /\ k = final /\ d = 0 /\ final \in {"done", "error"}

LEMMA WireGrows ==
    ASSUME NEW q, NEW u, NEW n \in Nat, NEW final, NEW k, NEW d,
           Wire(q, n, "none"), Extends(u, q, k, d), Due(n, final, k, d)
    PROVE  Wire(u, n + 1, final)
<1>1. Len(q) = 5 * n /\ Len(u) = 5 * (n + 1) /\ EventAt(u, 5 * n, k, d)
  BY DEF Wire, Extends
<1>2. EventAt(u, 0, "citation", 0)
  <2>1. CASE n = 0
    <3>1. 5 * n = 0
      BY <2>1
    <3> QED
      BY <1>1, <2>1, <3>1 DEF Due
  <2>2. CASE n > 0
    <3>1. EventAt(q, 0, "citation", 0) /\ 0 + 5 <= Len(q) /\ Len(q) \in Nat
      BY <1>1, <2>2 DEF Wire
    <3> QED
      BY <3>1, EventKept
  <2> QED
    BY <2>1, <2>2
<1>3. ASSUME NEW i \in 1..n, i < n \/ final = "none"
      PROVE  EventAt(u, 5 * i, "token", i)
  <2>1. CASE i < n
    <3>1. i \in 1..(n - 1)
      BY <2>1
    <3>2. EventAt(q, 5 * i, "token", i)
      BY <3>1 DEF Wire
    <3>3. 5 * i \in Nat /\ 5 * i + 5 <= Len(q) /\ Len(q) \in Nat
      BY <1>1, <2>1
    <3> QED
      BY <3>2, <3>3, EventKept
  <2>2. CASE i = n /\ final = "none"
    BY <1>1, <2>2 DEF Due
  <2> QED
    BY <1>3, <2>1, <2>2
<1>4. final # "none" => n + 1 > 1 /\ EventAt(u, 5 * n, final, 0)
  BY <1>1 DEF Due
<1>5. (n + 1) - 1 = n
  OBVIOUS
<1> QED
  BY <1>1, <1>2, <1>3, <1>4, <1>5 DEF Wire

LEMMA UnreadGrows ==
    ASSUME NEW q, NEW u, NEW b, NEW m \in Nat, NEW n \in Nat, NEW h \in Nat, NEW k, NEW d,
           Len(b) \in Nat, Len(q) = 5 * n, Extends(u, q, k, d), Unread(q, b, m, n, h)
    PROVE  Unread(u, b, m, n + 1, h)
<1>1. 5 * h <= m /\ m <= 5 * n /\ Len(b) = m - 5 * h
  BY DEF Unread
<1>2. m <= 5 * (n + 1)
  BY <1>1
<1>3. ASSUME NEW j \in 1..Len(b) PROVE b[j] = u[5 * h + j]
  <2>1. 5 * h + j \in 1..Len(q)
    BY <1>1
  <2>2. b[j] = q[5 * h + j]
    BY DEF Unread
  <2> QED
    BY <2>1, <2>2 DEF Extends
<1> QED
  BY <1>1, <1>2, <1>3 DEF Unread

LEMMA DisplayGrows ==
    ASSUME NEW view, NEW n \in Nat, NEW h \in Nat, h <= n, NEW final,
           Display(view, n, "none", h)
    PROVE  Display(view, n + 1, final, h)
<1>1. h # n + 1
  OBVIOUS
<1>2. ~Over(n + 1, final, h) /\ ~Over(n, "none", h)
  BY <1>1 DEF Over
<1> QED
  BY <1>1, <1>2 DEF Display

\* c is a and then b.
IsPair(c, a, b) ==
    /\ Len(c) = Len(a) + Len(b)
    /\ \A i \in 1..(Len(a) + Len(b)) : c[i] = IF i <= Len(a) THEN a[i] ELSE b[i - Len(a)]

LEMMA MoreUnread ==
    ASSUME NEW q \in Seq(Symbols), NEW b \in Seq(Symbols), NEW m \in Nat, NEW n \in Nat,
           NEW h \in Nat, Len(q) = 5 * n, Unread(q, b, m, n, h), NEW l \in (m + 1)..Len(q)
    PROVE  /\ b \o SubSeq(q, m + 1, l) \in Seq(Symbols)
           /\ Unread(q, b \o SubSeq(q, m + 1, l), l, n, h)
<1>1. /\ 5 * h <= m /\ m <= 5 * n /\ Len(b) = m - 5 * h
      /\ \A j \in 1..Len(b) : b[j] = q[5 * h + j]
  BY DEF Unread
<1>2. l \in Nat /\ m < l /\ l <= 5 * n
  OBVIOUS
<1>3. PICK r \in Seq(Symbols) :
         /\ r = SubSeq(q, m + 1, l) /\ Len(r) = l - m
         /\ \A i \in 1..(l - m) : r[i] = q[m + i]
  <2>1. m + 1 \in 1..(Len(q) + 1) /\ l \in m..Len(q) /\ m + 1 \in 1..Len(q)
    BY <1>2
  <2>2. PICK r : r = SubSeq(q, m + 1, l)
    OBVIOUS
  <2>3. \A i \in (m + 1)..l : q[i] \in Symbols
    BY <1>2
  <2>4. r \in Seq(Symbols) /\ Len(r) = (l - (m + 1)) + 1
        /\ \A i \in 1..((l - (m + 1)) + 1) : r[i] = q[(m + 1) + i - 1]
    BY <1>2, <2>1, <2>2, <2>3, SubSeqProperties
  <2>5. (l - (m + 1)) + 1 = l - m
    BY <1>2
  <2>6. ASSUME NEW i \in 1..(l - m) PROVE r[i] = q[m + i]
    <3>1. (m + 1) + i - 1 = m + i
      BY <1>2
    <3> QED
      BY <2>4, <2>5, <3>1
  <2> QED
    BY <2>2, <2>4, <2>5, <2>6
<1>4. PICK c \in Seq(Symbols) : c = b \o r
  BY ConcatProperties
<1>5. IsPair(c, b, r)
  <2>1. /\ Len(b \o r) = Len(b) + Len(r)
        /\ \A i \in 1..(Len(b) + Len(r)) :
              (b \o r)[i] = IF i <= Len(b) THEN b[i] ELSE r[i - Len(b)]
    BY ConcatProperties
  <2> QED
    BY <1>4, <2>1 DEF IsPair
<1>6. Len(c) = l - 5 * h
  BY <1>1, <1>2, <1>3, <1>5 DEF IsPair
<1>7. ASSUME NEW j \in 1..Len(c) PROVE c[j] = q[5 * h + j]
  <2>1. c[j] = IF j <= Len(b) THEN b[j] ELSE r[j - Len(b)]
    BY <1>5 DEF IsPair
  <2>2. CASE j <= Len(b)
    BY <1>1, <2>1, <2>2
  <2>3. CASE ~(j <= Len(b))
    <3>1. PICK i : i = j - Len(b)
      OBVIOUS
    <3>2. i \in 1..(l - m) /\ m + i = 5 * h + j
      BY <1>1, <1>2, <1>6, <2>3, <3>1
    <3> QED
      BY <1>3, <2>1, <2>3, <3>1, <3>2
  <2> QED
    BY <2>2, <2>3
<1>8. Unread(q, c, l, n, h)
  BY <1>1, <1>2, <1>6, <1>7 DEF Unread
<1> QED
  BY <1>3, <1>4, <1>8

\* What one round of the page's inner loop looks at.
FirstBreak(b) == CHOOSE i \in Breaks(b) : \A j \in Breaks(b) : i <= j
FirstLines(b) == {b[i] : i \in 1..FirstBreak(b) - 1} \ {NL}

\* If an event begins the buffer, the first empty line is the end of it.
LEMMA FirstEvent ==
    ASSUME NEW b \in Seq(Symbols), NEW k, NEW d, EventAt(b, 0, k, d), Len(b) >= 5
    PROVE  /\ FirstBreak(b) = 4
           /\ {x[2] : x \in {y \in FirstLines(b) : y[1] = "event"}} = {k}
           /\ {x[2] : x \in {y \in FirstLines(b) : y[1] = "data"}} = {d}
<1>1. PICK e, f : e = <<"event", k>> /\ f = <<"data", d>>
  OBVIOUS
<1>2. /\ b[1] = e /\ b[2] = NL /\ b[3] = f /\ b[4] = NL /\ b[5] = NL
      /\ e # NL /\ f # NL /\ e # f
  BY <1>1, Letters DEF EventAt
<1>3. e[1] = "event" /\ e[2] = k /\ f[1] = "data" /\ f[2] = d
  BY <1>1
<1>4. Len(b) \in Nat
  OBVIOUS
<1>5. 4 \in Breaks(b)
  <2>1. 4 \in 1..Len(b) - 1 /\ 4 + 1 = 5
    BY <1>4
  <2> QED
    BY <1>2, <2>1 DEF Breaks
<1>6. ASSUME NEW i \in Breaks(b) PROVE i \in Nat /\ 4 <= i
  <2>1. i \in 1..Len(b) - 1 /\ b[i] = NL /\ b[i + 1] = NL
    BY DEF Breaks
  <2>2. i # 1 /\ i # 3
    BY <1>2, <2>1
  <2>3. i # 2
    <3>1. 2 + 1 = 3
      OBVIOUS
    <3> QED
      BY <1>2, <2>1, <3>1
  <2> QED
    BY <1>4, <2>1, <2>2, <2>3
<1>7. FirstBreak(b) = 4
  <2>1. \A j \in Breaks(b) : 4 <= j
    BY <1>6
  <2>2. \A i \in Breaks(b) : (\A j \in Breaks(b) : i <= j) => i = 4
    BY <1>5, <1>6
  <2> QED
    BY <1>5, <2>1, <2>2 DEF FirstBreak
<1>8. FirstLines(b) = {e, f}
  <2>1. 1..FirstBreak(b) - 1 = {1, 2, 3}
    BY <1>7
  <2> QED
    BY <1>2, <2>1 DEF FirstLines
<1>9. {y \in FirstLines(b) : y[1] = "event"} = {e} /\ {y \in FirstLines(b) : y[1] = "data"} = {f}
  BY <1>3, <1>8
<1> QED
  BY <1>3, <1>7, <1>9

\* The event the page handles next.
Nth(n, final, h, k, d) ==
    \/ h = 0 /\ k = "citation" /\ d = 0
    \/ h > 0 /\ (h < n - 1 \/ final = "none") /\ k = "token" /\ d = h
    \/ h > 0 /\ h = n - 1 /\ final # "none" /\ k = final /\ d = 0

LEMMA NthSent ==
    ASSUME NEW q, NEW n \in Nat, NEW h \in Nat, h < n, NEW final \in Finals, Wire(q, n, final)
    PROVE  \E k \in Kinds, d \in Nat : Nth(n, final, h, k, d) /\ EventAt(q, 5 * h, k, d)
<1>1. CASE h = 0
  <2>1. EventAt(q, 0, "citation", 0) /\ 5 * h = 0
    BY <1>1 DEF Wire
  <2> QED
    BY <1>1, <2>1 DEF Nth, Kinds
<1>2. CASE h > 0 /\ (h < n - 1 \/ final = "none")
  <2>1. h \in 1..(n - 1)
    BY <1>2
  <2>2. EventAt(q, 5 * h, "token", h)
    BY <1>2, <2>1 DEF Wire
  <2> QED
    BY <1>2, <2>2 DEF Nth, Kinds
<1>3. CASE h > 0 /\ ~(h < n - 1) /\ final # "none"
  <2>1. h = n - 1
    BY <1>3
  <2>2. EventAt(q, 5 * h, final, 0)
    BY <1>3, <2>1 DEF Wire
  <2> QED
    BY <1>3, <2>1, <2>2 DEF Nth, Kinds, Finals
<1> QED
  BY <1>1, <1>2, <1>3

LEMMA NextEvent ==
    ASSUME NEW q \in Seq(Symbols), NEW b \in Seq(Symbols), NEW m \in Nat, NEW n \in Nat,
           NEW h \in Nat, NEW final \in Finals,
           Wire(q, n, final), Unread(q, b, m, n, h), Breaks(b) # {}
    PROVE  /\ h < n /\ Len(b) >= 5
           /\ \E k \in Kinds, d \in Nat : Nth(n, final, h, k, d) /\ EventAt(b, 0, k, d)
<1>1. /\ 5 * h <= m /\ m <= 5 * n /\ Len(b) = m - 5 * h
      /\ \A j \in 1..Len(b) : b[j] = q[5 * h + j]
  BY DEF Unread
<1>2. PICK i \in 1..Len(b) - 1 : b[i] = NL /\ b[i + 1] = NL
  BY DEF Breaks
<1>3. h < n
  BY <1>1, <1>2
<1>4. PICK k \in Kinds, d \in Nat : Nth(n, final, h, k, d) /\ EventAt(q, 5 * h, k, d)
  BY <1>3, NthSent
<1>5. /\ q[5 * h + 1] = <<"event", k>> /\ q[5 * h + 2] = NL
      /\ q[5 * h + 3] = <<"data", d>> /\ q[5 * h + 4] = NL /\ q[5 * h + 5] = NL
  BY <1>4 DEF EventAt
<1>6. <<"event", k>> # NL /\ <<"data", d>> # NL
  BY Letters
<1>7. i # 1 /\ i # 2 /\ i # 3
  <2>1. \A j \in 1..Len(b) : j = 1 => b[j] = <<"event", k>>
    BY <1>1, <1>5
  <2>2. \A j \in 1..Len(b) : j = 3 => b[j] = <<"data", d>>
    BY <1>1, <1>5
  <2>3. i \in 1..Len(b) /\ i + 1 \in 1..Len(b) /\ (i = 2 => i + 1 = 3)
    BY <1>1, <1>2
  <2> QED
    BY <1>2, <1>6, <2>1, <2>2, <2>3
<1>8. Len(b) >= 5 /\ Len(b) \in Nat
  BY <1>1, <1>2, <1>7
<1>9. EventAt(b, 0, k, d)
  <2>1. 1 \in 1..Len(b) /\ 2 \in 1..Len(b) /\ 3 \in 1..Len(b) /\ 4 \in 1..Len(b) /\ 5 \in 1..Len(b)
    BY <1>8
  <2>2. /\ b[1] = <<"event", k>> /\ b[2] = NL /\ b[3] = <<"data", d>>
        /\ b[4] = NL /\ b[5] = NL
    BY <1>1, <1>5, <2>1
  <2> QED
    BY <2>2 DEF EventAt
<1> QED
  BY <1>3, <1>4, <1>8, <1>9

\* What is left of the buffer when its first event was cut off.
LEMMA RestUnread ==
    ASSUME NEW q \in Seq(Symbols), NEW b \in Seq(Symbols), NEW m \in Nat, NEW n \in Nat,
           NEW h \in Nat, Unread(q, b, m, n, h), Len(b) >= 5
    PROVE  /\ SubSeq(b, 6, Len(b)) \in Seq(Symbols)
           /\ Unread(q, SubSeq(b, 6, Len(b)), m, n, h + 1)
<1>1. /\ 5 * h <= m /\ m <= 5 * n /\ Len(b) = m - 5 * h
      /\ \A j \in 1..Len(b) : b[j] = q[5 * h + j]
  BY DEF Unread
<1>2. PICK l \in Nat : l = Len(b)
  OBVIOUS
<1>3. PICK c : c = SubSeq(b, 6, l)
  OBVIOUS
<1>4. c \in Seq(Symbols) /\ Len(c) = l - 5 /\ \A i \in 1..(l - 5) : c[i] = b[i + 5]
  <2>1. \A i \in 6..l : b[i] \in Symbols
    BY <1>2
  <2>2. /\ c \in Seq(Symbols)
        /\ Len(c) = IF 6 <= l THEN l - 6 + 1 ELSE 0
        /\ \A i \in 1..(l - 6 + 1) : c[i] = b[6 + i - 1]
    BY <1>2, <1>3, <2>1, SubSeqProperties
  <2>3. l - 6 + 1 = l - 5 /\ (~(6 <= l) => l - 5 = 0)
    BY <1>2
  <2>4. ASSUME NEW i \in 1..(l - 5) PROVE c[i] = b[i + 5]
    <3>1. 6 + i - 1 = i + 5
      OBVIOUS
    <3> QED
      BY <2>2, <2>3, <3>1
  <2> QED
    BY <2>2, <2>3, <2>4
<1>5. 5 * (h + 1) <= m /\ Len(c) = m - 5 * (h + 1)
  BY <1>1, <1>2, <1>4
<1>6. ASSUME NEW j \in 1..Len(c) PROVE c[j] = q[5 * (h + 1) + j]
  <2>1. j + 5 \in 1..Len(b) /\ 5 * h + (j + 5) = 5 * (h + 1) + j
    BY <1>2, <1>4
  <2>2. b[j + 5] = q[5 * h + (j + 5)]
    BY <1>1, <2>1
  <2> QED
    BY <1>4, <2>1, <2>2
<1>7. Unread(q, c, m, n, h + 1)
  BY <1>1, <1>5, <1>6 DEF Unread
<1> QED
  BY <1>2, <1>3, <1>4, <1>7

LEMMA Displayed ==
    ASSUME NEW view \in Shown, NEW n \in Nat, NEW h \in Nat, h < n, NEW final \in Finals,
           final # "none" => n > 1, Display(view, n, final, h),
           NEW k, NEW d \in Nat, Nth(n, final, h, k, d),
           k = "token" => d \in 1..MaxTokens
    PROVE  Apply(view, k, d) \in Shown /\ Display(Apply(view, k, d), n, final, h + 1)
<1>1. /\ view.citations \in BOOLEAN /\ view.text \in Seq(1..MaxTokens)
      /\ view.error \in BOOLEAN /\ view.audit_id \in BOOLEAN
      /\ view = [citations |-> view.citations, text |-> view.text,
                 error |-> view.error, audit_id |-> view.audit_id]
  BY DEF Shown
<1>2. PICK w : w = Apply(view, k, d)
  OBVIOUS
<1>3. /\ h > 0 => view.citations
      /\ Counts(view.text, IF h = 0 THEN 0 ELSE h - 1)
      /\ ~view.error /\ ~view.audit_id
  BY DEF Display, Over
<1>4. CASE h = 0 /\ k = "citation"
  <2>1. w = [citations |-> TRUE, text |-> view.text, error |-> view.error,
             audit_id |-> view.audit_id]
    BY <1>1, <1>2, <1>4 DEF Apply
  <2>2. /\ w \in Shown /\ w.citations /\ w.text = view.text
        /\ w.error = view.error /\ w.audit_id = view.audit_id
    BY <1>1, <2>1 DEF Shown
  <2>3. ~(final # "none" /\ h + 1 = n)
    BY <1>4
  <2>4. Counts(w.text, (h + 1) - 1)
    BY <1>3, <1>4, <2>2
  <2>5. h + 1 > 0 /\ h + 1 # 0
    OBVIOUS
  <2>6. ~Over(n, final, h + 1) /\ ~(final = "error" /\ h + 1 = n) /\ ~(final = "done" /\ h + 1 = n)
    BY <2>3 DEF Over
  <2>7. Display(w, n, final, h + 1)
    BY <1>3, <2>2, <2>4, <2>5, <2>6 DEF Display
  <2> QED
    BY <1>2, <2>2, <2>7
<1>5. CASE h > 0 /\ (h < n - 1 \/ final = "none") /\ k = "token" /\ d = h
  <2>1. w = [citations |-> view.citations, text |-> Append(view.text, d),
             error |-> view.error, audit_id |-> view.audit_id]
    BY <1>1, <1>2, <1>5 DEF Apply
  <2>2. PICK t \in Seq(1..MaxTokens) : t = Append(view.text, d)
    <3>1. view.text \in Seq(1..MaxTokens) /\ d \in 1..MaxTokens
      BY <1>1, <1>5
    <3>2. Append(view.text, d) \in Seq(1..MaxTokens)
      BY <3>1, AppendProperties
    <3> QED
      BY <3>2
  <2>3. /\ w \in Shown /\ w.citations = view.citations /\ w.text = t
        /\ w.error = view.error /\ w.audit_id = view.audit_id
    BY <1>1, <2>1, <2>2 DEF Shown
  <2>4. ~Over(n, final, h + 1) /\ ~(final = "error" /\ h + 1 = n) /\ ~(final = "done" /\ h + 1 = n)
    BY <1>5 DEF Over
  <2>5. Counts(t, (h + 1) - 1)
    <3>1. Len(view.text) = h - 1 /\ \A i \in 1..Len(view.text) : view.text[i] = i
      BY <1>3, <1>5 DEF Counts
    <3>2. Len(t) = h /\ \A i \in 1..(h - 1) : t[i] = i
      BY <1>1, <2>2, <3>1
    <3>3. t[h] = h
      BY <1>1, <1>5, <2>2, <3>1
    <3>4. \A i \in 1..h : i \in 1..(h - 1) \/ i = h
      OBVIOUS
    <3>5. (h + 1) - 1 = h
      OBVIOUS
    <3> QED
      BY <3>2, <3>3, <3>4, <3>5 DEF Counts
  <2>6. h + 1 > 0 /\ h + 1 # 0
    OBVIOUS
  <2>7. Display(w, n, final, h + 1)
    BY <1>3, <1>5, <2>3, <2>4, <2>5, <2>6 DEF Display
  <2> QED
    BY <1>2, <2>3, <2>7
<1>6. CASE h > 0 /\ h = n - 1 /\ final # "none" /\ k = final
  <2>1. w = [citations |-> view.citations, text |-> view.text,
             error |-> view.error \/ final = "error", audit_id |-> view.audit_id \/ final = "done"]
    <3>1. CASE final = "error"
      <4>1. w = [view EXCEPT !.error = TRUE]
        BY <1>2, <1>6, <3>1 DEF Apply
      <4>2. w = [citations |-> view.citations, text |-> view.text,
                 error |-> TRUE, audit_id |-> view.audit_id]
        BY <1>1, <4>1
      <4> QED
        BY <1>1, <3>1, <4>2
    <3>2. CASE final = "done"
      <4>1. w = [view EXCEPT !.audit_id = TRUE]
        BY <1>2, <1>6, <3>2 DEF Apply
      <4>2. w = [citations |-> view.citations, text |-> view.text,
                 error |-> view.error, audit_id |-> TRUE]
        BY <1>1, <4>1
      <4> QED
        BY <1>1, <3>2, <4>2
    <3> QED
      BY <1>6, <3>1, <3>2 DEF Finals
  <2>2. /\ w \in Shown /\ w.citations = view.citations /\ w.text = view.text
        /\ (w.error <=> final = "error") /\ (w.audit_id <=> final = "done")
    BY <1>1, <1>3, <2>1 DEF Shown
  <2>3. h + 1 = n /\ Over(n, final, h + 1) /\ h + 1 > 0 /\ h + 1 # 0
    BY <1>6 DEF Over
  <2>4. Counts(w.text, (h + 1) - 2)
    <3>1. (h + 1) - 2 = h - 1 /\ h # 0
      BY <1>6
    <3> QED
      BY <1>3, <2>2, <3>1
  <2>5. Display(w, n, final, h + 1)
    BY <1>3, <1>6, <2>2, <2>3, <2>4 DEF Display
  <2> QED
    BY <1>2, <2>2, <2>5
<1> QED
  BY <1>4, <1>5, <1>6 DEF Nth

-----------------------------------------------------------------------------
(* Steps.                                                                  *)

Same(t) ==
    /\ server'[t] = server[t] /\ made'[t] = made[t] /\ sent'[t] = sent[t]
    /\ online'[t] = online[t] /\ page'[t] = page[t] /\ taken'[t] = taken[t]
    /\ buffer'[t] = buffer[t] /\ shown'[t] = shown[t]

LEMMA SameTale ==
    ASSUME NEW t, Tale(t), Same(t), enabled' = enabled
    PROVE  Tale(t)'
<1> USE DEF Same
<1>1. Mute(t) => Mute(t)'
  BY DEF Mute, Silent
<1>2. ASSUME NEW n, NEW final, NEW h, Told(t, n, final, h) PROVE Told(t, n, final, h)'
  BY <1>2 DEF Told, Phase
<1>3. Story(t) => Story(t)'
  BY <1>2 DEF Story
<1> QED
  BY <1>1, <1>3 DEF Tale

\* Nothing is sent and nothing is read.
LEMMA Unsent ==
    ASSUME NEW s, NEW n, NEW final, NEW h, Told(s, n, final, h),
           sent'[s] = sent[s], taken'[s] = taken[s], buffer'[s] = buffer[s],
           shown'[s] = shown[s], page'[s] = "ended" => page[s] = "ended",
           Phase(s, n, final)'
    PROVE  Told(s, n, final, h)'
BY DEF Told

\* An event is sent while the connection is up.
LEMMA Sending ==
    ASSUME StreamTypeOK, NEW s \in Streams, NEW n \in Nat, NEW h \in Nat,
           Told(s, n, "none", h), online[s],
           NEW k \in Kinds, NEW d \in 0..MaxTokens, NEW final, Due(n, final, k, d),
           Send(s, Event(k, d)),
           taken' = taken, buffer' = buffer, shown' = shown, page' = page,
           Phase(s, n + 1, final)'
    PROVE  Told(s, n + 1, final, h)'
<1>1. PICK q \in Seq(Symbols), b \in Seq(Symbols), m \in Nat :
         q = sent[s] /\ b = buffer[s] /\ m = taken[s]
  BY DEF StreamTypeOK
<1>2. PICK u \in Seq(Symbols) : u = q \o Event(k, d) /\ Extends(u, q, k, d)
  BY SentEvent
<1>3. sent'[s] = u
  BY <1>1, <1>2 DEF Send, StreamTypeOK
<1>4. /\ Wire(q, n, "none") /\ Unread(q, b, m, n, h) /\ Display(shown[s], n, "none", h)
      /\ page[s] # "ended"
  BY <1>1 DEF Told, Over
<1>5. Wire(u, n + 1, final)
  BY <1>2, <1>4, WireGrows
<1>6. Unread(u, b, m, n + 1, h)
  <2>1. Len(b) \in Nat /\ Len(q) = 5 * n
    BY <1>4 DEF Wire
  <2> QED
    BY <1>2, <1>4, <2>1, UnreadGrows
<1>7. Display(shown[s], n + 1, final, h)
  <2>1. h <= n
    BY <1>4 DEF Unread
  <2> QED
    BY <1>4, <2>1, DisplayGrows
<1> QED
  BY <1>1, <1>3, <1>4, <1>5, <1>6, <1>7 DEF Told

LEMMA SendTyped ==
    ASSUME StreamTypeOK, NEW s \in Streams, NEW x \in Seq(Symbols), Send(s, x)
    PROVE  sent' \in [Streams -> Seq(Symbols)] /\ \A t \in Streams \ {s} : sent'[t] = sent[t]
<1>1. sent \in [Streams -> Seq(Symbols)]
  BY DEF StreamTypeOK
<1>2. sent[s] \o x \in Seq(Symbols)
  BY <1>1, ConcatProperties
<1>3. PICK q : q = IF online[s] THEN sent[s] \o x ELSE sent[s]
  OBVIOUS
<1>4. q \in Seq(Symbols) /\ sent' = [sent EXCEPT ![s] = q]
  BY <1>1, <1>2, <1>3 DEF Send
<1> QED
  BY <1>1, <1>4

\* What a step of the handler, or its end, leaves alone.
LEMMA ServerTypes ==
    ASSUME StreamTypeOK, NEW s \in Streams, ServerStep(s) \/ Die(s)
    PROVE  StreamTypeOK' /\ enabled' = enabled /\ \A t \in Streams \ {s} : Same(t)
<1> USE StreamingAssumption DEF StreamingAssumption, Goto, Working, Ended
<1>1. MaxTokens \in Nat /\ 0 \in 0..MaxTokens /\ made[s] \in 0..MaxTokens
  BY DEF StreamTypeOK
<1>2. CASE Send(s, <<Json>>) /\ Decline(s)
  <2>1. <<Json>> \in Seq(Symbols)
    <3>1. PICK j \in Symbols : j = Json
      BY DEF Json, Symbols
    <3> QED
      BY <3>1
  <2>2. sent' \in [Streams -> Seq(Symbols)] /\ \A t \in Streams \ {s} : sent'[t] = sent[t]
    BY <1>2, <2>1, SendTyped
  <2> QED
    BY <1>2, <2>2 DEF Decline, StreamTypeOK, Same, pageVars
<1>3. ASSUME NEW k \in Kinds, NEW d \in 0..MaxTokens, Send(s, Event(k, d)),
             SendCitations(s) \/ SendToken(s) \/ BreakOff(s) \/ Finish(s) \/ GeneratorFails(s)
      PROVE  StreamTypeOK' /\ enabled' = enabled /\ \A t \in Streams \ {s} : Same(t)
  <2>1. sent' \in [Streams -> Seq(Symbols)] /\ \A t \in Streams \ {s} : sent'[t] = sent[t]
    BY <1>3, EventShape, SendTyped
  <2> QED
    BY <1>3, <2>1 DEF SendCitations, SendToken, BreakOff, Finish, GeneratorFails,
                      StreamTypeOK, Same, pageVars
<1>4. CASE Record(s) \/ Commit(s) \/ Refuse(s) \/ Cancel(s)
  BY <1>4 DEF Record, Commit, Refuse, Cancel, StreamTypeOK, Same, pageVars
<1>5. CASE NextToken(s)
  <2>1. made[s] + 1 \in 0..MaxTokens
    BY <1>1, <1>5 DEF NextToken
  <2> QED
    BY <1>5, <2>1 DEF NextToken, StreamTypeOK, Same, pageVars
<1>6. CASE Die(s)
  BY <1>6 DEF Die, StreamTypeOK, Same, pageVars
<1>7. "citation" \in Kinds /\ "token" \in Kinds /\ "done" \in Kinds /\ "error" \in Kinds
  BY DEF Kinds
<1>8. CASE SendCitations(s)
  BY <1>1, <1>3, <1>7, <1>8 DEF SendCitations
<1>9. CASE SendToken(s)
  BY <1>1, <1>3, <1>7, <1>9 DEF SendToken
<1>10. CASE BreakOff(s)
  BY <1>1, <1>3, <1>7, <1>10 DEF BreakOff
<1>11. CASE Finish(s)
  BY <1>1, <1>3, <1>7, <1>11 DEF Finish
<1>12. CASE GeneratorFails(s)
  BY <1>1, <1>3, <1>7, <1>12 DEF GeneratorFails
<1>13. CASE Decline(s)
  BY <1>2, <1>13 DEF Decline, Json
<1> QED
  BY <1>4, <1>5, <1>6, <1>8, <1>9, <1>10, <1>11, <1>12, <1>13 DEF ServerStep

\* The handler moves and sends nothing that arrives.
LEMMA QuietStep ==
    ASSUME StreamTypeOK, NEW s \in Streams, NEW n \in Nat, NEW final \in Finals, NEW h,
           Told(s, n, final, h), ServerStep(s) \/ Die(s), ~Decline(s), sent'[s] = sent[s],
           online[s] => Record(s) \/ Commit(s) \/ Refuse(s) \/ NextToken(s) \/ Die(s)
    PROVE  Told(s, n, final, h)'
<1> USE DEF Goto, Working, Early
<1>1. /\ made[s] \in Nat /\ online[s] \in BOOLEAN
      /\ DOMAIN server = Streams /\ DOMAIN made = Streams /\ DOMAIN online = Streams
  BY DEF StreamTypeOK
<1>2. Phase(s, n, final)
  BY DEF Told
<1>3. /\ taken' = taken /\ buffer' = buffer /\ shown' = shown /\ page' = page
      /\ server[s] # "idle" /\ server[s] # "closed" /\ final = "none"
  BY <1>2 DEF Phase, ServerStep, Record, Commit, Refuse, SendCitations, NextToken, SendToken,
         Finish, GeneratorFails, BreakOff, Cancel, Die, pageVars
<1>0. SUFFICES Phase(s, n, final)'
  BY <1>3, Unsent
<1>4. CASE Record(s) \/ Commit(s) \/ Refuse(s)
  <2>1. /\ server[s] \in Early /\ server'[s] \in {"recorded", "opened", "refused"}
        /\ made' = made /\ online' = online
    BY <1>1, <1>4 DEF Record, Commit, Refuse
  <2> QED
    BY <1>2, <1>3, <2>1 DEF Phase
<1>5. CASE NextToken(s)
  <2>1. /\ server[s] = "next" /\ server'[s] = "holding"
        /\ made'[s] = made[s] + 1 /\ online' = online
    BY <1>1, <1>5 DEF NextToken
  <2> QED
    BY <1>1, <1>2, <1>3, <2>1 DEF Phase
<1>6. CASE Die(s)
  <2>1. server'[s] = "dead" /\ made' = made /\ ~online'[s]
    BY <1>1, <1>6 DEF Die
  <2> QED
    BY <1>1, <1>2, <1>3, <2>1 DEF Phase
<1>7. CASE Cancel(s) /\ ~online[s]
  <2>1. server'[s] = "cancelled" /\ made' = made /\ online' = online
    BY <1>1, <1>7 DEF Cancel
  <2> QED
    BY <1>1, <1>2, <1>3, <1>7, <2>1 DEF Phase
<1>8. CASE /\ ~online[s]
           /\ SendCitations(s) \/ SendToken(s) \/ Finish(s) \/ GeneratorFails(s) \/ BreakOff(s)
  <2>1. server'[s] \in {"next", "closed"} /\ made' = made /\ online' = online
    BY <1>1, <1>8 DEF SendCitations, SendToken, Finish, GeneratorFails, BreakOff
  <2>2. server[s] = "opened" => n = 0
    BY <1>2 DEF Phase
  <2> QED
    BY <1>1, <1>2, <1>3, <1>8, <2>1, <2>2 DEF Phase
<1> QED
  <2>1. online[s] => Record(s) \/ Commit(s) \/ Refuse(s) \/ NextToken(s) \/ Die(s)
    OBVIOUS
  <2>2. Cancel(s) \/ BreakOff(s) => ~online[s]
    BY DEF Cancel, BreakOff
  <2> QED
    BY <1>4, <1>5, <1>6, <1>7, <1>8, <2>1, <2>2 DEF ServerStep

\* The handler sends an event while the connection is up.
LEMMA LoudStep ==
    ASSUME StreamTypeOK, NEW s \in Streams, NEW n \in Nat, NEW final \in Finals, NEW h \in Nat,
           Told(s, n, final, h), online[s],
           SendCitations(s) \/ SendToken(s) \/ Finish(s) \/ GeneratorFails(s)
    PROVE  Story(s)'
<1> USE DEF Goto, Early
<1>1. /\ made[s] \in 0..MaxTokens /\ 0 \in 0..MaxTokens /\ DOMAIN server = Streams
  BY StreamingAssumption DEF StreamTypeOK, StreamingAssumption
<1>2. Phase(s, n, final) /\ n + 1 \in Nat
  BY DEF Told
<1>3. /\ taken' = taken /\ buffer' = buffer /\ shown' = shown /\ page' = page
      /\ made' = made /\ online' = online
      /\ server[s] # "idle" /\ server[s] # "closed" /\ final = "none"
  BY <1>2 DEF Phase, SendCitations, SendToken, Finish, GeneratorFails, pageVars
<1>4. "citation" \in Kinds /\ "token" \in Kinds /\ "done" \in Kinds /\ "error" \in Kinds
  BY DEF Kinds
<1>5. CASE SendCitations(s)
  <2>1. n = 0 /\ made[s] = 0 /\ server'[s] = "next" /\ Send(s, Event("citation", 0))
    BY <1>1, <1>2, <1>5 DEF Phase, SendCitations
  <2>2. Due(n, "none", "citation", 0)
    BY <2>1 DEF Due
  <2>3. Phase(s, n + 1, "none")'
    BY <1>2, <1>3, <2>1 DEF Phase
  <2>4. Told(s, n + 1, "none", h)'
    BY <1>1, <1>3, <1>4, <2>1, <2>2, <2>3, Sending
  <2> QED
    BY <1>2, <2>4 DEF Story, Finals
<1>6. CASE SendToken(s)
  <2>1. n = made[s] /\ n > 0 /\ server'[s] = "next" /\ Send(s, Event("token", made[s]))
    BY <1>1, <1>2, <1>6 DEF Phase, SendToken
  <2>2. Due(n, "none", "token", made[s])
    BY <2>1 DEF Due
  <2>3. Phase(s, n + 1, "none")'
    BY <1>1, <1>2, <1>3, <2>1 DEF Phase
  <2>4. Told(s, n + 1, "none", h)'
    BY <1>1, <1>3, <1>4, <2>1, <2>2, <2>3, Sending
  <2> QED
    BY <1>2, <2>4 DEF Story, Finals
<1>7. ASSUME NEW last \in {"done", "error"}, Send(s, Event(last, 0)), Finish(s) \/ GeneratorFails(s)
      PROVE  Story(s)'
  <2>1. n = made[s] + 1 /\ server'[s] = "closed"
    BY <1>1, <1>2, <1>7 DEF Phase, Finish, GeneratorFails
  <2>2. Due(n, last, last, 0)
    BY <1>1, <2>1 DEF Due
  <2>3. Phase(s, n + 1, last)'
    BY <1>1, <1>2, <1>3, <2>1 DEF Phase
  <2>4. Told(s, n + 1, last, h)'
    BY <1>1, <1>3, <1>4, <1>7, <2>2, <2>3, Sending
  <2> QED
    BY <1>2, <2>4 DEF Story, Finals
<1> QED
  BY <1>5, <1>6, <1>7 DEF Finish, GeneratorFails

LEMMA ServerTells ==
    ASSUME PageInv, NEW s \in Streams, ServerStep(s) \/ Die(s)
    PROVE  PageInv'
<1>1. StreamTypeOK' /\ enabled' = enabled /\ \A t \in Streams \ {s} : Same(t)
  BY ServerTypes DEF PageInv
<1>2. StreamTypeOK /\ \A t \in Streams : Tale(t)
  BY DEF PageInv
<1>0. SUFFICES Tale(s)'
  BY <1>1, <1>2, SameTale DEF PageInv
<1>3. CASE enabled
  <2>1. PICK n \in Nat, final \in Finals, h \in Nat : Told(s, n, final, h)
    BY <1>2, <1>3 DEF Tale, Story
  <2>2. ~Decline(s)
    BY <1>3 DEF Decline
  <2>3. Phase(s, n, final)
    BY <2>1 DEF Told
  <2>4. CASE online[s] /\ (SendCitations(s) \/ SendToken(s) \/ Finish(s) \/ GeneratorFails(s))
    <3>1. Story(s)'
      BY <1>2, <2>1, <2>4, LoudStep
    <3>2. enabled'
      BY <1>1, <1>3
    <3> QED
      BY <3>1, <3>2 DEF Tale
  <2>5. CASE ~(online[s] /\ (SendCitations(s) \/ SendToken(s) \/ Finish(s) \/ GeneratorFails(s)))
    <3>1. sent'[s] = sent[s]
      BY <1>2, <2>2, <2>5
      DEF StreamTypeOK, ServerStep, Record, Commit, Refuse, SendCitations, NextToken, SendToken,
          Finish, GeneratorFails, BreakOff, Cancel, Die, Send
    <3>2. online[s] => Record(s) \/ Commit(s) \/ Refuse(s) \/ NextToken(s) \/ Die(s)
      BY <2>2, <2>5 DEF ServerStep, BreakOff, Cancel
    <3>3. Told(s, n, final, h)'
      BY <1>2, <2>1, <2>2, <3>1, <3>2, QuietStep
    <3>4. enabled'
      BY <1>1, <1>3
    <3>5. Story(s)'
      BY <3>3 DEF Story
    <3> QED
      BY <3>4, <3>5 DEF Tale
  <2> QED
    BY <2>4, <2>5
<1>4. CASE ~enabled
  <2>1. Mute(s)
    BY <1>2, <1>4 DEF Tale
  <2>2. CASE Decline(s)
    <3>1. sent[s] \o <<Json>> \in Seq({Json})
      BY <2>1, ConcatProperties DEF Mute, Silent
    <3>2. Mute(s)'
      BY <1>2, <2>1, <2>2, <3>1 DEF StreamTypeOK, Mute, Silent, Decline, Json, Goto, Send, pageVars
    <3>3. ~enabled'
      BY <1>1, <1>4
    <3> QED
      BY <3>2, <3>3 DEF Tale
  <2>3. CASE Die(s)
    <3>1. Mute(s)'
      BY <1>2, <2>1, <2>3 DEF StreamTypeOK, Mute, Silent, Die, Goto, pageVars
    <3>2. ~enabled'
      BY <1>1, <1>4
    <3> QED
      BY <3>1, <3>2 DEF Tale
  <2> QED
    BY <1>4, <2>1, <2>2, <2>3
    DEF Mute, Silent, ServerStep, Record, Commit, Refuse, SendCitations, NextToken, SendToken,
        Finish, GeneratorFails, BreakOff, Cancel
<1> QED
  BY <1>3, <1>4

-----------------------------------------------------------------------------
(* The page's steps.                                                       *)

LEMMA TurnTells ==
    ASSUME PageInv, NEW s \in Streams, Ask(s) \/ Begin(s) \/ Fail(s) \/ Leave(s) \/ Disconnect(s)
    PROVE  PageInv'
<1> USE DEF Goto, Turn
<1>1. StreamTypeOK /\ \A t \in Streams : Tale(t)
  BY DEF PageInv
<1>2. StreamTypeOK' /\ enabled' = enabled /\ \A t \in Streams \ {s} : Same(t)
  BY <1>1 DEF StreamTypeOK, Ask, Begin, Fail, Leave, Disconnect, Working, Ended, Same, serverVars,
              pageVars
<1>3. /\ made' = made /\ sent' = sent /\ taken' = taken /\ buffer' = buffer /\ shown' = shown
      /\ online'[s] => online[s]
      /\ page'[s] # "idle" \/ page'[s] = page[s]
      /\ page'[s] = "ended" => page[s] = "ended"
  BY <1>1 DEF StreamTypeOK, Ask, Begin, Fail, Leave, Disconnect, serverVars, pageVars
<1>4. \/ page[s] = "idle" /\ server'[s] = "asked" /\ page'[s] # "idle"
      \/ server'[s] = server[s] /\ page[s] # "idle"
  BY <1>1 DEF StreamTypeOK, Ask, Begin, Fail, Leave, Disconnect, serverVars, pageVars
<1>5. SUFFICES Tale(s)'
  BY <1>1, <1>2, SameTale DEF PageInv
<1>6. CASE enabled
  <2>1. PICK n \in Nat, final \in Finals, h \in Nat : Told(s, n, final, h)
    BY <1>1, <1>6 DEF Tale, Story
  <2>2. Phase(s, n, final)
    BY <2>1 DEF Told
  <2>3. Phase(s, n, final)'
    <3>1. CASE page[s] = "idle" /\ server'[s] = "asked" /\ page'[s] # "idle"
      <4>1. n = 0 /\ made[s] = 0 /\ final = "none"
        BY <2>2, <3>1 DEF Phase, Early
      <4> QED
        BY <1>3, <3>1, <4>1 DEF Phase
    <3>2. CASE server'[s] = server[s] /\ page[s] # "idle"
      BY <1>3, <2>2, <3>2 DEF Phase
    <3> QED
      BY <1>4, <3>1, <3>2
  <2>4. Told(s, n, final, h)'
    BY <1>3, <2>1, <2>3, Unsent
  <2>5. Story(s)'
    BY <2>4 DEF Story
  <2>6. enabled'
    BY <1>2, <1>6
  <2> QED
    BY <2>5, <2>6 DEF Tale
<1>7. CASE ~enabled
  <2>1. Mute(s)
    BY <1>1, <1>7 DEF Tale
  <2>2. Mute(s)'
    BY <1>3, <1>4, <2>1 DEF Mute, Silent
  <2>3. ~enabled'
    BY <1>2, <1>7
  <2> QED
    BY <2>2, <2>3 DEF Tale
<1> QED
  BY <1>6, <1>7

\* When nothing of the response is left, all its events were handled.
LEMMA AllHandled ==
    ASSUME StreamTypeOK, NEW s \in Streams, NEW n \in Nat, NEW final \in Finals, NEW h \in Nat,
           Told(s, n, final, h), End(s)
    PROVE  Over(n, final, h)
<1>1. PICK q \in Seq(Symbols), b \in Seq(Symbols) : q = sent[s] /\ b = buffer[s]
  BY DEF StreamTypeOK
<1>2. Wire(q, n, final) /\ Unread(q, b, taken[s], n, h) /\ Phase(s, n, final)
  BY <1>1 DEF Told
<1>3. final # "none"
  BY <1>2 DEF End, Phase
<1>4. taken[s] = Len(q) /\ Len(q) = 5 * n /\ Breaks(b) = {}
  BY <1>1, <1>2 DEF End, Wire
<1>5. 5 * h <= 5 * n /\ Len(b) = 5 * n - 5 * h /\ \A j \in 1..Len(b) : b[j] = q[5 * h + j]
  BY <1>2, <1>4 DEF Unread
<1>6. ASSUME h < n PROVE FALSE
  <2>1. PICK k \in Kinds, d \in Nat : EventAt(q, 5 * h, k, d)
    BY <1>2, <1>6, NthSent
  <2>2. 4 \in 1..Len(b) - 1 /\ 4 \in 1..Len(b) /\ 4 + 1 \in 1..Len(b) /\ 4 + 1 = 5
    BY <1>5, <1>6
  <2>3. b[4] = NL /\ b[5] = NL
    BY <1>5, <2>1, <2>2 DEF EventAt
  <2>4. 4 \in Breaks(b)
    BY <2>2, <2>3 DEF Breaks
  <2> QED
    BY <1>4, <2>4
<1>7. h = n
  BY <1>5, <1>6
<1> QED
  BY <1>3, <1>7 DEF Over

LEMMA EndTells == ASSUME PageInv, NEW s \in Streams, End(s) PROVE PageInv'
<1> USE DEF Turn
<1>1. StreamTypeOK /\ \A t \in Streams : Tale(t)
  BY DEF PageInv
<1>2. StreamTypeOK' /\ enabled' = enabled /\ \A t \in Streams \ {s} : Same(t)
  BY <1>1 DEF StreamTypeOK, End, Same, serverVars
<1>3. /\ server' = server /\ made' = made /\ sent' = sent /\ online' = online
      /\ taken' = taken /\ buffer' = buffer /\ shown' = shown
      /\ page'[s] = "ended" /\ page[s] # "idle"
  BY <1>1 DEF StreamTypeOK, End, serverVars
<1>4. SUFFICES Tale(s)'
  BY <1>1, <1>2, SameTale DEF PageInv
<1>5. CASE enabled
  <2>1. PICK n \in Nat, final \in Finals, h \in Nat : Told(s, n, final, h)
    BY <1>1, <1>5 DEF Tale, Story
  <2>2. Over(n, final, h)
    BY <1>1, <2>1, AllHandled
  <2>3. Phase(s, n, final)'
    BY <1>3, <2>1 DEF Told, Phase
  <2>4. Told(s, n, final, h)'
    BY <1>3, <2>1, <2>2, <2>3 DEF Told
  <2>5. Story(s)'
    BY <2>4 DEF Story
  <2>6. enabled'
    BY <1>2, <1>5
  <2> QED
    BY <2>5, <2>6 DEF Tale
<1>6. CASE ~enabled
  <2>1. Mute(s)'
    BY <1>1, <1>3, <1>6 DEF Tale, Mute, Silent
  <2>2. ~enabled'
    BY <1>2, <1>6
  <2> QED
    BY <2>1, <2>2 DEF Tale
<1> QED
  BY <1>5, <1>6

LEMMA ReceiveTells == ASSUME PageInv, NEW s \in Streams, Receive(s) PROVE PageInv'
<1>1. StreamTypeOK /\ \A t \in Streams : Tale(t)
  BY DEF PageInv
<1>2. PICK q \in Seq(Symbols), b \in Seq(Symbols), m \in Nat :
         q = sent[s] /\ b = buffer[s] /\ m = taken[s]
  BY <1>1 DEF StreamTypeOK
<1>3. PICK l \in (m + 1)..Len(q) :
         /\ buffer' = [buffer EXCEPT ![s] = @ \o SubSeq(sent[s], taken[s] + 1, l)]
         /\ taken' = [taken EXCEPT ![s] = l]
  BY <1>2 DEF Receive
<1>4. PICK c : c = b \o SubSeq(q, m + 1, l)
  OBVIOUS
<1>5. buffer' = [buffer EXCEPT ![s] = c] /\ buffer'[s] = c /\ taken'[s] = l /\ l \in Nat
  <2>1. c = buffer[s] \o SubSeq(sent[s], taken[s] + 1, l)
    BY <1>2, <1>4
  <2>2. buffer' = [buffer EXCEPT ![s] = c]
    BY <1>3, <2>1
  <2>3. s \in DOMAIN buffer /\ s \in DOMAIN taken
    BY <1>1 DEF StreamTypeOK
  <2>4. l \in Nat
    OBVIOUS
  <2> QED
    BY <1>3, <2>2, <2>3, <2>4
<1>6. c \in Seq(Symbols)
  <2>1. m + 1 \in 1..(Len(q) + 1) /\ l \in m..Len(q) /\ \A i \in (m + 1)..l : q[i] \in Symbols
    OBVIOUS
  <2>2. SubSeq(q, m + 1, l) \in Seq(Symbols)
    BY <2>1, SubSeqProperties
  <2> QED
    BY <1>4, <2>2, ConcatProperties
<1>7. /\ server' = server /\ made' = made /\ sent' = sent /\ online' = online /\ page' = page
      /\ shown' = shown /\ enabled' = enabled /\ page[s] = "reading"
  BY DEF Receive, serverVars
<1>8. StreamTypeOK' /\ \A t \in Streams \ {s} : Same(t)
  BY <1>1, <1>3, <1>5, <1>6, <1>7 DEF StreamTypeOK, Same
<1>9. SUFFICES Tale(s)'
  BY <1>1, <1>7, <1>8, SameTale DEF PageInv
<1>10. CASE enabled
  <2>1. PICK n \in Nat, final \in Finals, h \in Nat : Told(s, n, final, h)
    BY <1>1, <1>10 DEF Tale, Story
  <2>2. Unread(q, b, m, n, h) /\ Len(q) = 5 * n
    BY <1>2, <2>1 DEF Told, Wire
  <2>3. Unread(q, c, l, n, h)
    BY <1>4, <2>2, MoreUnread
  <2>4. Phase(s, n, final)'
    BY <1>7, <2>1 DEF Told, Phase
  <2>5. Told(s, n, final, h)'
    BY <1>2, <1>5, <1>7, <2>1, <2>3, <2>4 DEF Told
  <2>6. Story(s)'
    BY <2>5 DEF Story
  <2>7. enabled'
    BY <1>7, <1>10
  <2> QED
    BY <2>6, <2>7 DEF Tale
<1>11. CASE ~enabled
  <2>1. Mute(s) /\ q \in Seq({Json}) /\ b \in Seq({Json})
    BY <1>1, <1>2, <1>11 DEF Tale, Mute, Silent
  <2>2. c \in Seq({Json})
    <3>1. m + 1 \in 1..(Len(q) + 1) /\ l \in m..Len(q) /\ \A i \in (m + 1)..l : q[i] \in {Json}
      BY <2>1
    <3>2. SubSeq(q, m + 1, l) \in Seq({Json})
      BY <2>1, <3>1, SubSeqProperties
    <3> QED
      BY <1>4, <2>1, <3>2, ConcatProperties
  <2>3. Mute(s)'
    BY <1>5, <1>7, <2>1, <2>2 DEF Mute, Silent
  <2>4. ~enabled'
    BY <1>7, <1>11
  <2> QED
    BY <2>3, <2>4 DEF Tale
<1> QED
  BY <1>10, <1>11

LEMMA HandleTells == ASSUME PageInv, NEW s \in Streams, Handle(s) PROVE PageInv'
<1>1. StreamTypeOK /\ \A t \in Streams : Tale(t)
  BY DEF PageInv
<1>2. PICK q \in Seq(Symbols), b \in Seq(Symbols), m \in Nat, view \in Shown :
         q = sent[s] /\ b = buffer[s] /\ m = taken[s] /\ view = shown[s]
  BY <1>1 DEF StreamTypeOK
<1>3. /\ server' = server /\ made' = made /\ sent' = sent /\ online' = online /\ page' = page
      /\ taken' = taken /\ enabled' = enabled /\ page[s] = "reading" /\ Breaks(b) # {}
  BY <1>2 DEF Handle, serverVars
<1>4. enabled
  BY <1>1, <1>2, <1>3, NothingToShow DEF Tale, Mute, Silent
<1>5. PICK n \in Nat, final \in Finals, h \in Nat : Told(s, n, final, h)
  BY <1>1, <1>4 DEF Tale, Story
<1>6. /\ Wire(q, n, final) /\ Unread(q, b, m, n, h) /\ Display(view, n, final, h)
      /\ Phase(s, n, final)
      /\ final # "none" => n > 1
  BY <1>2, <1>5 DEF Told, Wire
<1>7. h < n /\ Len(b) >= 5
  BY <1>3, <1>6, NextEvent
<1>8. PICK k \in Kinds, d \in Nat : Nth(n, final, h, k, d) /\ EventAt(b, 0, k, d)
  BY <1>3, <1>6, NextEvent
<1>9. PICK c, look : c = SubSeq(b, 6, Len(b)) /\ look = Apply(view, k, d)
  OBVIOUS
<1>10. c \in Seq(Symbols) /\ Unread(q, c, m, n, h + 1)
  BY <1>6, <1>7, <1>9, RestUnread
<1>11. look \in Shown /\ Display(look, n, final, h + 1)
  <2>1. ASSUME k = "token" PROVE d \in 1..MaxTokens
    <3>1. made[s] \in 0..MaxTokens /\ MaxTokens \in Nat
      BY <1>1, StreamingAssumption DEF StreamTypeOK, StreamingAssumption
    <3>2. d = h /\ h > 0 /\ (h < n - 1 \/ final = "none")
      BY <1>8, <2>1 DEF Nth, Finals
    <3>3. final = "none" => n <= made[s] + 1
      BY <1>6 DEF Phase
    <3>4. final # "none" => n = made[s] + 2
      BY <1>6 DEF Phase
    <3> QED
      BY <1>7, <3>1, <3>2, <3>3, <3>4
  <2> QED
    BY <1>6, <1>7, <1>8, <1>9, <2>1, Displayed
<1>12. /\ buffer' = [buffer EXCEPT ![s] = c] /\ shown' = [shown EXCEPT ![s] = look]
  <2>1. /\ FirstBreak(b) = 4
        /\ {x[2] : x \in {y \in FirstLines(b) : y[1] = "event"}} = {k}
        /\ {x[2] : x \in {y \in FirstLines(b) : y[1] = "data"}} = {d}
    BY <1>7, <1>8, FirstEvent
  <2>2. /\ buffer' = [buffer EXCEPT ![s] = SubSeq(buffer[s], FirstBreak(buffer[s]) + 2,
                                                 Len(buffer[s]))]
        /\ \E i \in {x[2] : x \in {y \in FirstLines(buffer[s]) : y[1] = "event"}},
              j \in {x[2] : x \in {y \in FirstLines(buffer[s]) : y[1] = "data"}} :
              shown' = [shown EXCEPT ![s] = Apply(@, i, j)]
    BY DEF Handle, FirstBreak, FirstLines
  <2>3. 4 + 2 = 6
    OBVIOUS
  <2>4. shown' = [shown EXCEPT ![s] = Apply(@, k, d)]
    BY <1>2, <2>1, <2>2
  <2> QED
    BY <1>2, <1>9, <2>1, <2>2, <2>3, <2>4
<1>13. StreamTypeOK' /\ \A t \in Streams \ {s} : Same(t)
  BY <1>1, <1>3, <1>10, <1>11, <1>12 DEF StreamTypeOK, Same
<1>14. Told(s, n, final, h + 1)'
  <2>1. buffer'[s] = c /\ shown'[s] = look
    BY <1>1, <1>12 DEF StreamTypeOK
  <2>2. Phase(s, n, final)'
    BY <1>3, <1>6 DEF Phase
  <2> QED
    BY <1>2, <1>3, <1>6, <1>10, <1>11, <2>1, <2>2 DEF Told
<1>15. Tale(s)'
  <2>1. Story(s)'
    BY <1>14 DEF Story
  <2>2. enabled'
    BY <1>3, <1>4
  <2> QED
    BY <2>1, <2>2 DEF Tale
<1> QED
  BY <1>1, <1>3, <1>13, <1>15, SameTale DEF PageInv

LEMMA PageTellsOn ==
    ASSUME PageInv, NEW s \in Streams, Ask(s) \/ PageStep(s) \/ Leave(s) \/ Disconnect(s)
    PROVE  PageInv'
<1>1. CASE Receive(s)
  BY <1>1, ReceiveTells
<1>2. CASE Handle(s)
  BY <1>2, HandleTells
<1>3. CASE End(s)
  BY <1>3, EndTells
<1>4. CASE Ask(s) \/ Begin(s) \/ Fail(s) \/ Leave(s) \/ Disconnect(s)
  BY <1>4, TurnTells
<1> QED
  BY <1>1, <1>2, <1>3, <1>4 DEF PageStep

LEMMA PageStutters ==
    ASSUME PageInv, UNCHANGED <<enabled, serverVars, online, pageVars>>
    PROVE  PageInv'
<1>1. StreamTypeOK' /\ enabled' = enabled /\ \A t \in Streams : Same(t)
  BY DEF PageInv, StreamTypeOK, Same, serverVars, pageVars
<1> QED
  BY <1>1, SameTale DEF PageInv

LEMMA PageInit == Init => PageInv
<1> SUFFICES ASSUME Init PROVE PageInv
  OBVIOUS
<1>1. << >> \in Seq(Symbols) /\ << >> \in Seq({Json}) /\ << >> \in Seq(1..MaxTokens)
      /\ Len(<< >>) = 0
  BY EmptySeq
<1>2. 0 \in 0..MaxTokens
  BY StreamingAssumption DEF StreamingAssumption
<1>3. StreamTypeOK
  BY <1>1, <1>2 DEF Init, StreamTypeOK, Shown
<1>4. ASSUME NEW s \in Streams PROVE Tale(s)
  <2>1. /\ server[s] = "idle" /\ made[s] = 0 /\ sent[s] = << >> /\ online[s] /\ page[s] = "idle"
        /\ taken[s] = 0 /\ buffer[s] = << >> /\ ~shown[s].citations /\ shown[s].text = << >>
        /\ ~shown[s].error /\ ~shown[s].audit_id
    BY DEF Init
  <2>2. Mute(s)
    BY <1>1, <2>1 DEF Mute, Silent
  <2>3. Wire(sent[s], 0, "none")
    BY <1>1, <2>1 DEF Wire
  <2>4. Phase(s, 0, "none")
    BY <2>1 DEF Phase
  <2>5. Unread(sent[s], buffer[s], taken[s], 0, 0)
    BY <1>1, <2>1 DEF Unread
  <2>6. Counts(shown[s].text, 0)
    BY <1>1, <2>1 DEF Counts
  <2>7. Display(shown[s], 0, "none", 0)
    BY <2>1, <2>6 DEF Display
  <2>8. Told(s, 0, "none", 0)
    BY <2>1, <2>3, <2>4, <2>5, <2>7 DEF Told
  <2>9. Story(s)
    BY <2>8 DEF Story, Finals
  <2> QED
    BY <2>2, <2>9 DEF Tale
<1> QED
  BY <1>3, <1>4 DEF PageInv

LEMMA PageNext == PageInv /\ [Next]_vars => PageInv'
<1> SUFFICES ASSUME PageInv, [Next]_vars PROVE PageInv'
  OBVIOUS
<1>1. ASSUME NEW s \in Streams, ServerStep(s) \/ Die(s) PROVE PageInv'
  BY <1>1, ServerTells
<1>2. ASSUME NEW s \in Streams, Ask(s) \/ PageStep(s) \/ Leave(s) \/ Disconnect(s)
      PROVE  PageInv'
  BY <1>2, PageTellsOn
<1>3. ASSUME NEW w \in Writers, OtherRecord(w) PROVE PageInv'
  BY <1>3, PageStutters DEF OtherRecord
<1>4. CASE Administrate \/ TimePasses
  BY <1>4, PageStutters DEF Administrate, TimePasses
<1>5. CASE UNCHANGED vars
  BY <1>5, PageStutters DEF vars
<1> QED
  BY <1>1, <1>2, <1>3, <1>4, <1>5 DEF Next

LEMMA StoryTellsTruth ==
    ASSUME NEW view \in Shown, NEW n \in Nat, NEW final \in Finals, NEW h \in Nat, h <= n,
           final # "none" => n > 1, NEW m \in Nat,
           final = "none" => n <= m + 1, final # "none" => n = m + 2,
           Display(view, n, final, h)
    PROVE  /\ view.text = [i \in 1..Len(view.text) |-> i]
           /\ Len(view.text) <= m
           /\ view.text # << >> => view.citations
           /\ view.audit_id => Len(view.text) = m /\ ~view.error
           /\ Over(n, final, h) => view.audit_id \/ view.error
<1>1. PICK q \in Seq(1..MaxTokens) : q = view.text
  BY DEF Shown
<1>2. PICK t : t = IF h = 0 THEN 0 ELSE IF Over(n, final, h) THEN h - 2 ELSE h - 1
  OBVIOUS
<1>3. Len(q) = t /\ \A i \in 1..Len(q) : q[i] = i
  BY <1>1, <1>2 DEF Display, Counts
<1>4. q = [i \in 1..Len(q) |-> i]
  <2>1. q = [i \in 1..Len(q) |-> q[i]]
    OBVIOUS
  <2> QED
    BY <1>3, <2>1
<1>5. t <= m
  BY <1>2 DEF Over
<1>6. q # << >> => view.citations
  <2>1. ASSUME h = 0 PROVE q = << >>
    <3>1. Len(q) = 0
      BY <1>2, <1>3, <2>1
    <3> QED
      BY <3>1, EmptySeq
  <2>2. h > 0 => view.citations
    BY DEF Display
  <2> QED
    BY <2>1, <2>2
<1>7. ASSUME view.audit_id PROVE t = m /\ ~view.error
  <2>1. final = "done" /\ h = n /\ final # "error"
    BY <1>7 DEF Display
  <2>2. h # 0 /\ Over(n, final, h) /\ h - 2 = m
    BY <2>1 DEF Over
  <2>3. ~view.error
    BY <2>1 DEF Display
  <2> QED
    BY <1>2, <2>2, <2>3
<1>8. Over(n, final, h) => view.audit_id \/ view.error
  BY DEF Over, Display, Finals
<1> QED
  BY <1>1, <1>3, <1>4, <1>5, <1>6, <1>7, <1>8

LEMMA TaleTellsTruth == PageInv => PageTellsTruth
<1> SUFFICES ASSUME PageInv, NEW s \in Streams
             PROVE  LET view == shown[s]
                    IN  /\ view.text = [i \in 1..Len(view.text) |-> i]
                        /\ Len(view.text) <= made[s]
                        /\ view.text # << >> => view.citations
                        /\ view.audit_id => Len(view.text) = made[s] /\ ~view.error
                        /\ page[s] = "ended" => view.audit_id \/ view.error \/ ~enabled
  BY DEF PageTellsTruth
<1>1. StreamTypeOK /\ Tale(s)
  BY DEF PageInv
<1>2. PICK view \in Shown, m \in Nat : view = shown[s] /\ m = made[s]
  BY <1>1 DEF StreamTypeOK
<1>3. CASE enabled
  <2>1. PICK n \in Nat, final \in Finals, h \in Nat : Told(s, n, final, h)
    BY <1>1, <1>3 DEF Tale, Story
  <2>2. /\ Display(view, n, final, h)
        /\ final # "none" => n > 1
        /\ page[s] = "ended" => Over(n, final, h)
    BY <1>2, <2>1 DEF Told, Wire
  <2>3. h <= n
    <3>1. 5 * h <= taken[s] /\ taken[s] <= 5 * n /\ taken[s] \in Nat
      BY <1>1, <2>1 DEF Told, Unread, StreamTypeOK
    <3> QED
      BY <3>1
  <2>4. /\ final = "none" => n <= m + 1
        /\ final # "none" => n = m + 2
    BY <1>2, <2>1 DEF Told, Phase
  <2>5. /\ view.text = [i \in 1..Len(view.text) |-> i]
        /\ Len(view.text) <= m
        /\ view.text # << >> => view.citations
        /\ view.audit_id => Len(view.text) = m /\ ~view.error
        /\ Over(n, final, h) => view.audit_id \/ view.error
    BY <2>2, <2>3, <2>4, StoryTellsTruth
  <2> QED
    BY <1>2, <2>2, <2>5
<1>4. CASE ~enabled
  <2>1. view.text = << >> /\ ~view.audit_id
    BY <1>1, <1>2, <1>4 DEF Tale, Mute, Silent
  <2>2. Len(view.text) = 0 /\ view.text = [i \in 1..Len(view.text) |-> i]
    BY <2>1
  <2> QED
    BY <1>2, <1>4, <2>1, <2>2
<1> QED
  BY <1>3, <1>4

LEMMA BothTypeOK == TraceInv /\ PageInv => TypeOK
  BY DEF TraceInv, AuditInv, PageInv, StreamTypeOK, TypeOK

\* Every variable of the handlers, the pages, the wire and the audit log keeps
\* its type (RagPipeline.stream, the event source and the page's reader).
THEOREM StreamTypeCorrect == Spec => []TypeOK
<1>1. Init => TraceInv /\ PageInv
  BY AuditInit1, RecordedInit, PageInit DEF Init, TraceInv
<1>2. TraceInv /\ PageInv /\ [Next]_vars => TraceInv' /\ PageInv'
  BY TraceNext, PageNext
<1> QED
  BY <1>1, <1>2, BothTypeOK, PTL DEF Spec

\* The page shows the words of the answer in order, none twice and none lost,
\* after the sources; the audit id only under a whole answer; and when the
\* response ends that id or an error (the event source of api/v1/streaming.py
\* and the reader of app.js).
THEOREM PageIsTruthful == Spec => []PageTellsTruth
<1>1. Init => PageInv
  BY PageInit
<1> QED
  BY <1>1, PageNext, TaleTellsTruth, PTL DEF Spec
=============================================================================
