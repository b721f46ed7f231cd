----------------------------- MODULE Redaction ------------------------------
(***************************************************************************)
(* services/pii/service.py: RegexPiiRedactor and ComprehendPiiRedactor     *)
(* replace the spans they detect in a text by placeholders.  The regex     *)
(* redactor first drops the spans that overlap an earlier one.  What the   *)
(* patterns match and what Amazon Comprehend detects is an input.          *)
(***************************************************************************)
EXTENDS Integers, Sequences

CONSTANTS
    Length,      \* characters of the text, numbered from 0
    Kinds,       \* number of enabled entity types, in the order of PATTERNS
    Limit        \* characters the Comprehend redactor examines

ASSUME RedactionAssumption ==
    /\ Length \in Nat
    /\ Kinds \in Nat \ {0}
    /\ Limit \in Nat

VARIABLES
    strategy,    \* the redactor in use
    detected,    \* the spans it was given
    pending,     \* those the loop over the sorted spans has yet to see
    kept,        \* the list detect returns
    lastEnd,     \* last_end of detect
    pc,          \* "detect", "redact" or "done"
    cursor,      \* cursor of redact
    out,         \* the text produced: characters, and -k for a placeholder
    spans        \* the list of RedactionSpans produced

vars == <<strategy, detected, pending, kept, lastEnd, pc, cursor, out, spans>>

Types == 1..Kinds

\* A span of type t from a up to, not including, b.
Span == {e \in [type : Types, start : 0..Length, end : 0..Length] : e.start < e.end}

Covers(e, c) == e.start <= c /\ c < e.end
Disjoint(S) == \A e, f \in S : e # f => (e.end <= f.start \/ f.end <= e.start)

\* finditer: the matches of one pattern do not overlap one another.
Matches(t) ==
    LET spansOf == {e \in Span : e.type = t}
    IN  {S \in SUBSET spansOf : Disjoint(S)}

\* Comprehend is only shown the first Limit characters.
Answers ==
    SUBSET {e \in Span : e.end <= Limit}

TypeOK ==
    /\ strategy \in {"regex", "comprehend"}
    /\ detected \subseteq Span
    /\ pending  \subseteq detected
    /\ kept     \in Seq(Span)
    /\ lastEnd  \in -1..Length
    /\ pc       \in {"detect", "redact", "done"}
    /\ cursor   \in 0..Length
    /\ out      \in Seq(-Kinds..(Length - 1))
    /\ spans    \in Seq(Span)

Init ==
    /\ \/ /\ strategy = "regex"
          /\ \E f \in [Types -> UNION {Matches(t) : t \in Types}] :
               /\ \A t \in Types : f[t] \in Matches(t)
               /\ detected = UNION {f[t] : t \in Types}
       \/ strategy = "comprehend" /\ detected \in Answers
    /\ pending = detected
    /\ kept    = << >>
    /\ lastEnd = -1
    /\ pc      = "detect"
    /\ cursor  = 0
    /\ out     = << >>
    /\ spans   = << >>

-----------------------------------------------------------------------------
\* found.sort: by start, the longer first; the sort is stable, so equal
\* spans keep the order of their patterns.
Before(e, f) ==
    \/ e.start < f.start
    \/ e.start = f.start /\ e.end > f.end
    \/ e.start = f.start /\ e.end = f.end /\ e.type < f.type

Earliest(e) == e \in pending /\ \A f \in pending \ {e} : Before(e, f)

\* The Comprehend redactor has no last_end; it is tracked for both.
Keep(e) == kept' = Append(kept, e) /\ lastEnd' = e.end
Drop(e) == UNCHANGED <<kept, lastEnd>>

\* Faulty variant: overlaps are kept.
DetectKeepingAll ==
    /\ pc = "detect"
    /\ \E e \in pending :
         /\ Earliest(e)
         /\ Keep(e)
         /\ pending' = pending \ {e}
    /\ UNCHANGED <<strategy, detected, pc, cursor, out, spans>>

\* Faulty variant: adjacent spans are dropped.
DetectLastStart ==
    /\ pc = "detect"
    /\ \E e \in pending :
         /\ Earliest(e)
         /\ pending' = pending \ {e}
         /\ IF strategy = "comprehend" \/ e.start > lastEnd THEN Keep(e) ELSE Drop(e)
    /\ UNCHANGED <<strategy, detected, pc, cursor, out, spans>>

\* One round of the loop: the regex redactor keeps a span that does not
\* start before the end of the last one it kept, the other keeps them all.
Detect ==
    /\ pc = "detect"
    /\ \E e \in pending :
         /\ Earliest(e)
         /\ pending' = pending \ {e}
         /\ IF strategy = "comprehend" \/ e.start >= lastEnd THEN Keep(e) ELSE Drop(e)
    /\ UNCHANGED <<strategy, detected, pc, cursor, out, spans>>

StartRedacting ==
    /\ pc = "detect"
    /\ pending = {}
    /\ pc' = "redact"
    /\ UNCHANGED <<strategy, detected, pending, kept, lastEnd, cursor, out, spans>>

\* Faulty variant: one character too many.
SliceInclusive(a, b) == IF a < b THEN [k \in 1..(b - a + 1) |-> a + k - 1] ELSE << >>

\* text[a:b], empty if b is not beyond a.
Slice(a, b) == IF a < b THEN [k \in 1..(b - a) |-> a + k - 1] ELSE << >>

\* Faulty variant: the cursor stays before the span.
RedactBeforeSpan ==
    /\ pc = "redact"
    /\ Len(spans) < Len(kept)
    /\ LET e == kept[Len(spans) + 1]
       IN  /\ out' = out \o Slice(cursor, e.start) \o <<-e.type>>
           /\ spans' = Append(spans, e)
           /\ cursor' = e.start
    /\ UNCHANGED <<strategy, detected, pending, kept, lastEnd, pc>>

\* One span of the list: what precedes it, its placeholder, its record.
Redact ==
    /\ pc = "redact"
    /\ Len(spans) < Len(kept)
    /\ LET e == kept[Len(spans) + 1]
       IN  /\ out' = out \o Slice(cursor, e.start) \o <<-e.type>>
           /\ spans' = Append(spans, e)
           /\ cursor' = e.end
    /\ UNCHANGED <<strategy, detected, pending, kept, lastEnd, pc>>

Finish ==
    /\ pc = "redact"
    /\ Len(spans) = Len(kept)
    /\ out' = out \o Slice(cursor, Length)
    /\ pc' = "done"
    /\ UNCHANGED <<strategy, detected, pending, kept, lastEnd, cursor, spans>>

Next == Detect \/ StartRedacting \/ Redact \/ Finish

Spec == Init /\ [][Next]_vars

-----------------------------------------------------------------------------
Visible == {out[i] : i \in DOMAIN out} \cap 0..(Length - 1)
Recorded(c) == \E i \in DOMAIN spans : Covers(spans[i], c)

\* at[i] is where the placeholder of the i-th record stands.
Placed(at) ==
    /\ \A i, j \in DOMAIN spans : i < j => at[i] < at[j]
    /\ \A k \in DOMAIN out : out[k] < 0 => \E i \in DOMAIN spans : at[i] = k
    /\ \A i \in DOMAIN spans :
          /\ out[at[i]] = -spans[i].type
          /\ \A k \in DOMAIN out : out[k] >= 0 =>
                IF k < at[i] THEN out[k] < spans[i].start ELSE out[k] >= spans[i].end

\* The regex redactor needs nothing of its patterns; the other one relies on
\* Comprehend not to report overlapping entities.
Separable == strategy = "regex" \/ Disjoint(detected)

\* The redacted text is what the recorded spans say: exactly the characters
\* outside them, each once and in order, and one placeholder per record, of
\* its type and in its place: behind all that precedes the span, before all
\* that follows it.
RedactedAsRecorded ==
    (pc = "done" /\ Separable) =>
        /\ Visible = {c \in 0..(Length - 1) : ~Recorded(c)}
        /\ \A i, j \in DOMAIN out :
              (i < j /\ out[i] >= 0 /\ out[j] >= 0) => out[i] < out[j]
        /\ \E at \in [DOMAIN spans -> DOMAIN out] : Placed(at)

\* The record that uncovers a character c of e: the regex redactor dropped e
\* for one over the start of e, Comprehend reported one that starts inside e,
\* behind whose end the cursor went back.
Uncovers(f, e, c) ==
    /\ f.end <= c
    /\ \/ strategy = "regex"      /\ Covers(f, e.start)
       \/ strategy = "comprehend" /\ Covers(e, f.start)

\* However the spans overlap, and whichever redactor runs, the first
\* character of every span detected is hidden, and a later one stays visible
\* only behind the end of a span that overlaps its own.
OverlapsHideTheStart ==
    pc = "done" =>
        \A e \in detected :
            /\ e.start \notin Visible
            /\ \A c \in Visible : Covers(e, c) =>
                  \E i \in DOMAIN spans : Uncovers(spans[i], e, c)

\* The loop over the sorted spans keeps disjoint ones, in the order of the
\* text, and has hidden every start it has seen.
KeptSeparately ==
    Separable =>
        /\ \A i, j \in DOMAIN kept : i < j => kept[i].end <= kept[j].start
        /\ \A i \in DOMAIN kept : kept[i].end <= lastEnd
        /\ \A e \in detected \ pending : \E i \in DOMAIN kept : Covers(kept[i], e.start)

\* README.md: "Only [REDACTED:TYPE] placeholders (and never the originals)
\* enter the vector store", of the characters the patterns matched.
NoDetectedVisible ==
    (pc = "done" /\ strategy = "regex") => \A e \in detected, c \in Visible : ~Covers(e, c)
=============================================================================
