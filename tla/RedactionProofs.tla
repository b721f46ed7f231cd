-------------------------- MODULE RedactionProofs --------------------------
(***************************************************************************)
(* Proofs about Redaction: for a text of any length, any number of entity  *)
(* types and any spans detected, the spans kept are apart, the redacted    *)
(* text is what the recorded spans say, and a character of a span that was *)
(* detected is visible only behind the end of one that overlaps it.        *)
(***************************************************************************)
EXTENDS Redaction, SequenceTheorems, TLAPS

Symbols == -Kinds..(Length - 1)

\* The loop of detect sees the spans in the order they were sorted in: no
\* span to come starts before one that was kept.
Sifted ==
    /\ pc # "detect" => pending = {}
    /\ \A i \in DOMAIN kept : kept[i] \in detected \ pending
    /\ \A i \in DOMAIN kept, e \in pending : kept[i].start <= e.start
    /\ lastEnd = IF kept = << >> THEN -1 ELSE kept[Len(kept)].end

\* The records are the first of the spans kept, and the cursor is behind
\* the last of them.
Progress ==
    /\ pc = "detect" => out = << >> /\ spans = << >>
    /\ Len(spans) <= Len(kept)
    /\ \A i \in DOMAIN spans : spans[i] = kept[i]
    /\ pc = "done" => Len(spans) = Len(kept)
    /\ cursor = IF spans = << >> THEN 0 ELSE spans[Len(spans)].end

\* What a text written so far shows of the first b characters.
Shows(w, b) ==
    \A c \in 0..(Length - 1) :
        (\E k \in DOMAIN w : w[k] = c) <=> (c < b /\ ~Recorded(c))
Rising(w) ==
    \A i, j \in DOMAIN w : (i < j /\ w[i] >= 0 /\ w[j] >= 0) => w[i] < w[j]
Stands(w, at) ==
    /\ \A i, j \in DOMAIN spans : i < j => at[i] < at[j]
    /\ \A k \in DOMAIN w : w[k] < 0 => \E i \in DOMAIN spans : at[i] = k
    /\ \A i \in DOMAIN spans :
          /\ w[at[i]] = -spans[i].type
          /\ \A k \in DOMAIN w : w[k] >= 0 =>
                IF k < at[i] THEN w[k] < spans[i].start ELSE w[k] >= spans[i].end

\* What was written so far is what the records say of the text up to Edge.
Edge == IF pc = "done" THEN Length ELSE cursor
Faithful ==
    Separable =>
        /\ Shows(out, Edge)
        /\ Rising(out)
        /\ \E at \in [DOMAIN spans -> DOMAIN out] : Stands(out, at)

\* The spans kept are in the order of their starts, overlapping or not, and
\* Comprehend's are all kept.
Ordered ==
    /\ \A i, j \in DOMAIN kept : i < j => kept[i].start <= kept[j].start
    /\ strategy = "comprehend" =>
          \A e \in detected \ pending : \E i \in DOMAIN kept : kept[i] = e

\* A character c was written after the j-th record and before the next.
WrittenAt(c, j) ==
    /\ j > 0 => spans[j].end <= c
    /\ \A i \in DOMAIN spans : i > j => c < spans[i].start

\* Every character written lies between two neighbouring records; only the
\* last slice is behind the last of them.
Between ==
    \A k \in DOMAIN out : out[k] >= 0 =>
        \E j \in 0..Len(spans) :
            /\ WrittenAt(out[k], j)
            /\ pc # "done" => j < Len(spans)

Invariant ==
    TypeOK /\ KeptSeparately /\ Sifted /\ Progress /\ Faithful /\ Ordered /\ Between


USE RedactionAssumption DEF RedactionAssumption

-----------------------------------------------------------------------------
\* A span is a record of a type and two positions, the first before the
\* second.
LEMMA SpanFields ==
    ASSUME NEW e \in Span
    PROVE  /\ e.type \in 1..Kinds
           /\ e.start \in 0..Length
           /\ e.end \in 0..Length
           /\ e.start < e.end
BY DEF Span, Types

\* A slice holds the characters from a up to, not including, b.
LEMMA SliceShape ==
    ASSUME NEW a \in 0..Length, NEW b \in 0..Length
    PROVE  /\ Slice(a, b) \in Seq(Symbols)
           /\ Len(Slice(a, b)) = IF a < b THEN b - a ELSE 0
           /\ \A k \in 1..Len(Slice(a, b)) : Slice(a, b)[k] = a + k - 1
<1>1. CASE a < b
  <2>1. Slice(a, b) = [k \in 1..(b - a) |-> a + k - 1]
    BY <1>1 DEF Slice
  <2>2. b - a \in Nat /\ \A k \in 1..(b - a) : a + k - 1 \in Symbols
    BY <1>1 DEF Symbols
  <2> QED
    BY <1>1, <2>1, <2>2
<1>2. CASE ~(a < b)
  <2>1. Slice(a, b) = << >>
    BY <1>2 DEF Slice
  <2> QED
    BY <1>2, <2>1
<1> QED
  BY <1>1, <1>2

\* What copying a slice makes of a text.
IsCopy(w, s, a, b) ==
    /\ w \in Seq(Symbols)
    /\ Len(w) = Len(s) + IF a < b THEN b - a ELSE 0
    /\ \A k \in 1..Len(s) : w[k] = s[k]
    /\ \A k \in (Len(s) + 1)..Len(w) : w[k] = a + k - Len(s) - 1

LEMMA Copied ==
    ASSUME NEW s \in Seq(Symbols), NEW a \in 0..Length, NEW b \in 0..Length, NEW w,
           w = s \o Slice(a, b)
    PROVE  IsCopy(w, s, a, b)
<1>1. /\ Slice(a, b) \in Seq(Symbols)
      /\ Len(Slice(a, b)) = IF a < b THEN b - a ELSE 0
      /\ \A k \in 1..Len(Slice(a, b)) : Slice(a, b)[k] = a + k - 1
  BY SliceShape
<1>2. /\ w \in Seq(Symbols)
      /\ Len(w) = Len(s) + Len(Slice(a, b))
      /\ \A k \in 1..(Len(s) + Len(Slice(a, b))) :
            w[k] = IF k <= Len(s) THEN s[k] ELSE Slice(a, b)[k - Len(s)]
  BY <1>1, ConcatProperties
<1>3. Len(s) \in Nat
  OBVIOUS
<1>4. ASSUME NEW k \in (Len(s) + 1)..Len(w)
      PROVE  w[k] = a + k - Len(s) - 1
  <2>1. k - Len(s) \in 1..Len(Slice(a, b))
    BY <1>1, <1>2, <1>3
  <2>2. w[k] = Slice(a, b)[k - Len(s)]
    BY <1>1, <1>2, <1>3
  <2>3. Slice(a, b)[k - Len(s)] = a + (k - Len(s)) - 1
    BY <1>1, <2>1
  <2> QED
    BY <1>3, <2>2, <2>3
<1> QED
  BY <1>1, <1>2, <1>3, <1>4 DEF IsCopy

\* What a placeholder appended makes of it.
IsMarked(w, s, m) ==
    /\ w \in Seq(Symbols)
    /\ Len(w) = Len(s) + 1
    /\ \A k \in 1..Len(s) : w[k] = s[k]
    /\ w[Len(s) + 1] = m

LEMMA Marked ==
    ASSUME NEW s \in Seq(Symbols), NEW m \in Symbols, NEW w, w = s \o <<m>>
    PROVE  IsMarked(w, s, m)
<1>1. <<m>> \in Seq(Symbols) /\ Len(<<m>>) = 1 /\ <<m>>[1] = m
  OBVIOUS
<1>2. Len(s) \in Nat
  OBVIOUS
<1>3. /\ w \in Seq(Symbols)
      /\ Len(w) = Len(s) + 1
      /\ \A k \in 1..(Len(s) + 1) : w[k] = IF k <= Len(s) THEN s[k] ELSE <<m>>[k - Len(s)]
  BY <1>1, ConcatProperties
<1> QED
  BY <1>1, <1>2, <1>3 DEF IsMarked

-----------------------------------------------------------------------------
LEMMA InitInvariant == Init => Invariant
<1> SUFFICES ASSUME Init PROVE Invariant
  OBVIOUS
<1>1. detected \subseteq Span
  BY DEF Init, Matches, Answers
<1>2. TypeOK
  BY <1>1 DEF Init, TypeOK
<1>3. Sifted /\ Progress
  BY DEF Init, Sifted, Progress
<1>4. KeptSeparately
  BY DEF Init, KeptSeparately
<1>5. Faithful
  <2>1. DOMAIN out = {} /\ DOMAIN spans = {} /\ Edge = 0
    BY DEF Init, Edge
  <2>2. [k \in {} |-> k] \in [DOMAIN spans -> DOMAIN out]
    BY <2>1
  <2>3. Stands(out, [k \in {} |-> k])
    BY <2>1 DEF Stands
  <2>4. Shows(out, Edge) /\ Rising(out)
    BY <2>1 DEF Shows, Rising
  <2> QED
    BY <2>2, <2>3, <2>4 DEF Faithful
<1>6. Ordered /\ Between
  BY DEF Init, Ordered, Between
<1> QED
  BY <1>2, <1>3, <1>4, <1>5, <1>6 DEF Invariant

\* Every step keeps the types.
LEMMA StepTypes ==
    ASSUME TypeOK, Sifted, Progress, [Next]_vars
    PROVE  TypeOK'
<1> USE DEF TypeOK
<1>1. CASE Detect
  <2>1. PICK e \in pending :
           /\ Earliest(e)
           /\ pending' = pending \ {e}
           /\ \/ kept' = Append(kept, e) /\ lastEnd' = e.end
              \/ UNCHANGED <<kept, lastEnd>>
    BY <1>1 DEF Detect, Keep, Drop
  <2>2. e \in Span
    OBVIOUS
  <2>3. e.end \in -1..Length
    BY <2>2, SpanFields
  <2>4. Append(kept, e) \in Seq(Span)
    BY <2>2
  <2>5. kept' \in Seq(Span) /\ lastEnd' \in -1..Length
    BY <2>1, <2>3, <2>4
  <2> QED
    BY <1>1, <2>1, <2>5 DEF Detect
<1>2. CASE StartRedacting
  BY <1>2 DEF StartRedacting
<1>3. CASE Redact
  <2> DEFINE e == kept[Len(spans) + 1]
  <2>1. e \in Span
    BY <1>3 DEF Redact
  <2>2. e.start \in 0..Length /\ e.end \in 0..Length /\ -e.type \in Symbols
    BY <2>1, SpanFields DEF Symbols
  <2> HIDE DEF e
  <2>3. /\ out' = out \o Slice(cursor, e.start) \o <<-e.type>>
        /\ spans' = Append(spans, e)
        /\ cursor' = e.end
        /\ UNCHANGED <<strategy, detected, pending, kept, lastEnd, pc>>
    BY <1>3 DEF Redact, e
  <2>4. out \in Seq(Symbols)
    BY DEF Symbols
  <2>5. out \o Slice(cursor, e.start) \in Seq(Symbols)
    BY <2>2, <2>4, Copied DEF IsCopy
  <2>6. out' \in Seq(Symbols)
    BY <2>2, <2>3, <2>5, Marked DEF IsMarked
  <2> QED
    BY <2>1, <2>2, <2>3, <2>6 DEF Symbols
<1>4. CASE Finish
  <2>1. out \in Seq(Symbols) /\ Length \in 0..Length
    BY DEF Symbols
  <2>2. out' \in Seq(Symbols)
    BY <1>4, <2>1, Copied DEF IsCopy, Finish
  <2> QED
    BY <1>4, <2>2 DEF Finish, Symbols
<1>5. CASE UNCHANGED vars
  BY <1>5 DEF vars
<1> QED
  BY <1>1, <1>2, <1>3, <1>4, <1>5 DEF Next

-----------------------------------------------------------------------------
\* A round of the loop of detect, which ends with the list extended or not.
LEMMA Round ==
    ASSUME TypeOK, Detect
    PROVE  \E e \in pending :
             /\ Earliest(e)
             /\ pending' = pending \ {e}
             /\ \/ /\ strategy = "comprehend" \/ e.start >= lastEnd
                   /\ kept' = Append(kept, e) /\ lastEnd' = e.end
                \/ /\ strategy = "regex" /\ e.start < lastEnd
                   /\ UNCHANGED <<kept, lastEnd>>
<1>1. PICK e \in pending :
         /\ Earliest(e)
         /\ pending' = pending \ {e}
         /\ IF strategy = "comprehend" \/ e.start >= lastEnd THEN Keep(e) ELSE Drop(e)
  BY DEF Detect
<1>2. e \in Span
  BY DEF TypeOK
<1>3. e.start \in Int /\ lastEnd \in Int
  BY <1>2, SpanFields DEF TypeOK
<1>4. strategy = "regex" \/ strategy = "comprehend"
  BY DEF TypeOK
<1> QED
  BY <1>1, <1>3, <1>4 DEF Keep, Drop

\* The spans to come do not start before the one taken.
LEMMA EarliestFirst ==
    ASSUME TypeOK, NEW e \in pending, Earliest(e), NEW f \in pending
    PROVE  e.start <= f.start
<1>1. e \in Span /\ f \in Span
  BY DEF TypeOK
<1>2. /\ e.start \in Int /\ e.end \in Int /\ e.type \in Int
      /\ f.start \in Int /\ f.end \in Int /\ f.type \in Int
  BY <1>1, SpanFields
<1>3. CASE f = e
  BY <1>2, <1>3
<1>4. CASE f # e
  <2>1. Before(e, f)
    BY <1>4 DEF Earliest
  <2> QED
    BY <1>2, <2>1 DEF Before
<1> QED
  BY <1>3, <1>4

\* The list that is kept grows by the span taken.
LEMMA Kept ==
    ASSUME TypeOK, NEW e \in Span, kept' = Append(kept, e)
    PROVE  /\ DOMAIN kept' = 1..(Len(kept) + 1)
           /\ Len(kept') = Len(kept) + 1
           /\ \A i \in DOMAIN kept : kept'[i] = kept[i]
           /\ kept'[Len(kept) + 1] = e
           /\ DOMAIN kept = 1..Len(kept)
           /\ Len(kept) \in Nat
           /\ kept' # << >>
<1>1. kept \in Seq(Span)
  BY DEF TypeOK
<1> QED
  BY <1>1

LEMMA RoundSifts ==
    ASSUME TypeOK, Sifted, Detect
    PROVE  Sifted'
<1>1. PICK e \in pending :
         /\ Earliest(e)
         /\ pending' = pending \ {e}
         /\ \/ kept' = Append(kept, e) /\ lastEnd' = e.end
            \/ UNCHANGED <<kept, lastEnd>>
  BY Round
<1>2. e \in Span /\ e \in detected
  BY DEF TypeOK
<1>3. pc' = "detect" /\ detected' = detected
  BY DEF Detect
<1>4. CASE kept' = Append(kept, e) /\ lastEnd' = e.end
  <2>1. /\ DOMAIN kept' = 1..(Len(kept) + 1)
        /\ Len(kept') = Len(kept) + 1
        /\ \A i \in DOMAIN kept : kept'[i] = kept[i]
        /\ kept'[Len(kept) + 1] = e
        /\ DOMAIN kept = 1..Len(kept)
        /\ Len(kept) \in Nat
        /\ kept' # << >>
    BY <1>2, <1>4, Kept
  <2>2. ASSUME NEW i \in DOMAIN kept'
        PROVE  /\ kept'[i] \in detected \ pending'
               /\ \A f \in pending' : kept'[i].start <= f.start
    <3>1. CASE i = Len(kept) + 1
      BY <1>1, <1>2, <2>1, <3>1, EarliestFirst
    <3>2. CASE i # Len(kept) + 1
      <4>1. i \in DOMAIN kept
        BY <2>1, <3>2
      <4> QED
        BY <1>1, <2>1, <4>1 DEF Sifted
    <3> QED
      BY <3>1, <3>2
  <2>3. lastEnd' = kept'[Len(kept')].end
    BY <1>4, <2>1
  <2> QED
    BY <1>3, <2>1, <2>2, <2>3 DEF Sifted
<1>5. CASE UNCHANGED <<kept, lastEnd>>
  BY <1>1, <1>3, <1>5 DEF Sifted
<1> QED
  BY <1>1, <1>4, <1>5

\* Of the spans to come, the one that is kept starts behind all those kept.
LEMMA KeptBehind ==
    ASSUME TypeOK, KeptSeparately, Sifted, Separable,
           NEW e \in pending, strategy = "comprehend" \/ e.start >= lastEnd,
           NEW i \in DOMAIN kept
    PROVE  kept[i].end <= e.start
<1>1. kept[i] \in Span /\ e \in Span /\ kept[i] \in detected \ pending /\ e \in detected
  BY DEF TypeOK, Sifted
<1>2. /\ kept[i].start \in Int /\ kept[i].end \in Int /\ kept[i].start < kept[i].end
      /\ e.start \in Int /\ e.end \in Int /\ e.start < e.end
      /\ lastEnd \in Int
  BY <1>1, SpanFields DEF TypeOK
<1>3. kept[i].start <= e.start /\ kept[i].end <= lastEnd
  BY DEF Sifted, KeptSeparately
<1>4. CASE e.start >= lastEnd
  BY <1>2, <1>3, <1>4
<1>5. CASE strategy = "comprehend"
  <2>1. Disjoint(detected)
    BY <1>5 DEF Separable
  <2>2. kept[i] # e
    BY <1>1
  <2>3. kept[i].end <= e.start \/ e.end <= kept[i].start
    BY <1>1, <2>1, <2>2 DEF Disjoint
  <2> QED
    BY <1>2, <1>3, <2>3
<1> QED
  BY <1>4, <1>5

LEMMA RoundSeparates ==
    ASSUME TypeOK, KeptSeparately, Sifted, Detect
    PROVE  KeptSeparately'
<1> SUFFICES ASSUME Separable'
             PROVE  /\ \A i, j \in DOMAIN kept' : i < j => kept'[i].end <= kept'[j].start
                    /\ \A i \in DOMAIN kept' : kept'[i].end <= lastEnd'
                    /\ \A f \in detected' \ pending' :
                          \E i \in DOMAIN kept' : Covers(kept'[i], f.start)
  BY DEF KeptSeparately, Covers
<1>1. UNCHANGED <<strategy, detected>>
  BY DEF Detect
<1>2. Separable
  BY <1>1 DEF Separable, Disjoint
<1>3. PICK e \in pending :
         /\ Earliest(e)
         /\ pending' = pending \ {e}
         /\ \/ /\ strategy = "comprehend" \/ e.start >= lastEnd
               /\ kept' = Append(kept, e) /\ lastEnd' = e.end
            \/ /\ strategy = "regex" /\ e.start < lastEnd
               /\ UNCHANGED <<kept, lastEnd>>
  BY Round
<1>4. e \in Span /\ e.start \in 0..Length /\ e.end \in 0..Length /\ e.start < e.end
  BY SpanFields DEF TypeOK
<1>5. CASE /\ strategy = "comprehend" \/ e.start >= lastEnd
           /\ kept' = Append(kept, e) /\ lastEnd' = e.end
  <2>1. /\ DOMAIN kept' = 1..(Len(kept) + 1)
        /\ \A i \in DOMAIN kept : kept'[i] = kept[i]
        /\ kept'[Len(kept) + 1] = e
        /\ DOMAIN kept = 1..Len(kept)
        /\ Len(kept) \in Nat
    BY <1>4, <1>5, Kept
  <2>2. \A i \in DOMAIN kept : kept[i].end <= e.start /\ kept[i].end \in Int
    BY <1>2, <1>5, KeptBehind, SpanFields DEF TypeOK
  <2>3. ASSUME NEW i \in DOMAIN kept', NEW j \in DOMAIN kept', i < j
        PROVE  kept'[i].end <= kept'[j].start
    <3>1. i \in DOMAIN kept
      BY <2>1, <2>3
    <3>2. CASE j = Len(kept) + 1
      BY <2>1, <2>2, <3>1, <3>2
    <3>3. CASE j # Len(kept) + 1
      <4>1. j \in DOMAIN kept
        BY <2>1, <3>3
      <4> QED
        BY <1>2, <2>1, <2>3, <3>1, <4>1 DEF KeptSeparately
    <3> QED
      BY <3>2, <3>3
  <2>4. ASSUME NEW i \in DOMAIN kept'
        PROVE  kept'[i].end <= lastEnd'
    <3>1. CASE i = Len(kept) + 1
      BY <1>4, <1>5, <2>1, <3>1
    <3>2. CASE i # Len(kept) + 1
      <4>1. i \in DOMAIN kept
        BY <2>1, <3>2
      <4> QED
        BY <1>4, <1>5, <2>1, <2>2, <4>1
    <3> QED
      BY <3>1, <3>2
  <2>5. ASSUME NEW f \in detected' \ pending'
        PROVE  \E i \in DOMAIN kept' : Covers(kept'[i], f.start)
    <3>1. CASE f = e
      BY <1>4, <2>1, <3>1 DEF Covers
    <3>2. CASE f # e
      <4>1. f \in detected \ pending
        BY <1>1, <1>3, <3>2
      <4>2. PICK i \in DOMAIN kept : Covers(kept[i], f.start)
        BY <1>2, <4>1 DEF KeptSeparately
      <4>3. i \in DOMAIN kept' /\ kept'[i] = kept[i]
        BY <2>1
      <4> QED
        BY <4>2, <4>3
    <3> QED
      BY <3>1, <3>2
  <2> QED
    BY <2>3, <2>4, <2>5
<1>6. CASE /\ strategy = "regex" /\ e.start < lastEnd
           /\ UNCHANGED <<kept, lastEnd>>
  <2>1. kept # << >> /\ lastEnd = kept[Len(kept)].end
    BY <1>4, <1>6 DEF Sifted
  <2>2. Len(kept) \in DOMAIN kept
    BY <2>1 DEF TypeOK
  <2>3. kept[Len(kept)].start <= e.start
    BY <2>2 DEF Sifted
  <2>4. Covers(kept[Len(kept)], e.start)
    BY <1>6, <2>1, <2>3 DEF Covers
  <2>5. ASSUME NEW f \in detected' \ pending'
        PROVE  \E i \in DOMAIN kept : Covers(kept[i], f.start)
    <3>1. CASE f = e
      BY <2>2, <2>4, <3>1
    <3>2. CASE f # e
      <4>1. f \in detected \ pending
        BY <1>1, <1>3, <3>2
      <4> QED
        BY <1>2, <4>1 DEF KeptSeparately
    <3> QED
      BY <3>1, <3>2
  <2> QED
    BY <1>2, <1>6, <2>5 DEF KeptSeparately
<1> QED
  BY <1>3, <1>5, <1>6

LEMMA StepSifts ==
    ASSUME TypeOK, Sifted, [Next]_vars
    PROVE  Sifted'
<1>1. CASE Detect
  BY <1>1, RoundSifts
<1>2. CASE StartRedacting
  BY <1>2 DEF StartRedacting, Sifted
<1>3. CASE Redact
  BY <1>3 DEF Redact, Sifted
<1>4. CASE Finish
  BY <1>4 DEF Finish, Sifted
<1>5. CASE UNCHANGED vars
  BY <1>5 DEF vars, Sifted
<1> QED
  BY <1>1, <1>2, <1>3, <1>4, <1>5 DEF Next

LEMMA StepSeparates ==
    ASSUME TypeOK, Sifted, KeptSeparately, [Next]_vars
    PROVE  KeptSeparately'
<1>1. CASE Detect
  BY <1>1, RoundSeparates
<1>2. CASE UNCHANGED <<strategy, detected, pending, kept, lastEnd>>
  BY <1>2 DEF KeptSeparately, Separable, Disjoint, Covers
<1> QED
  BY <1>1, <1>2 DEF Next, vars, StartRedacting, Redact, Finish

-----------------------------------------------------------------------------
\* The list of records grows by the span written.
LEMMA RecordsGrow ==
    ASSUME TypeOK, NEW e \in Span, spans' = Append(spans, e)
    PROVE  /\ DOMAIN spans' = 1..(Len(spans) + 1)
           /\ Len(spans') = Len(spans) + 1
           /\ \A i \in DOMAIN spans : spans'[i] = spans[i]
           /\ spans'[Len(spans) + 1] = e
           /\ DOMAIN spans = 1..Len(spans)
           /\ Len(spans) \in Nat
           /\ spans' # << >>
<1>1. spans \in Seq(Span)
  BY DEF TypeOK
<1> QED
  BY <1>1

LEMMA StepProgresses ==
    ASSUME TypeOK, Progress, [Next]_vars
    PROVE  Progress'
<1>1. CASE Detect
  <2>1. UNCHANGED <<pc, cursor, out, spans>> /\ pc = "detect"
    BY <1>1 DEF Detect
  <2>2. spans = << >> /\ Len(spans) = 0 /\ DOMAIN spans = {}
    BY <2>1 DEF Progress
  <2>3. kept' \in Seq(Span)
    <3>1. PICK e \in pending : kept' = Append(kept, e) \/ kept' = kept
      BY <1>1, Round
    <3>2. e \in Span /\ kept \in Seq(Span)
      BY DEF TypeOK
    <3>3. Append(kept, e) \in Seq(Span)
      BY <3>2
    <3> QED
      BY <3>1, <3>2, <3>3
  <2>4. Len(kept') >= 0
    BY <2>3
  <2> QED
    BY <2>1, <2>2, <2>4 DEF Progress
<1>2. CASE StartRedacting
  BY <1>2 DEF StartRedacting, Progress
<1>3. CASE Redact
  <2>1. PICK e : e = kept[Len(spans) + 1]
    OBVIOUS
  <2>2. /\ Len(spans) < Len(kept) /\ pc = "redact"
        /\ spans' = Append(spans, e)
        /\ cursor' = e.end
        /\ UNCHANGED <<kept, pc>>
    BY <1>3, <2>1 DEF Redact
  <2>3. e \in Span /\ Len(kept) \in Nat
    BY <2>1, <2>2 DEF TypeOK
  <2>4. /\ DOMAIN spans' = 1..(Len(spans) + 1)
        /\ Len(spans') = Len(spans) + 1
        /\ \A i \in DOMAIN spans : spans'[i] = spans[i]
        /\ spans'[Len(spans) + 1] = e
        /\ DOMAIN spans = 1..Len(spans)
        /\ Len(spans) \in Nat
        /\ spans' # << >>
    BY <2>2, <2>3, RecordsGrow
  <2>5. ASSUME NEW i \in DOMAIN spans'
        PROVE  spans'[i] = kept[i]
    <3>1. CASE i = Len(spans) + 1
      BY <2>1, <2>4, <3>1
    <3>2. CASE i # Len(spans) + 1
      BY <2>4, <3>2 DEF Progress
    <3> QED
      BY <3>1, <3>2
  <2> QED
    BY <2>2, <2>3, <2>4, <2>5 DEF Progress
<1>4. CASE Finish
  BY <1>4 DEF Finish, Progress
<1>5. CASE UNCHANGED vars
  BY <1>5 DEF vars, Progress
<1> QED
  BY <1>1, <1>2, <1>3, <1>4, <1>5 DEF Next

\* All that was recorded lies before the cursor, and the span that is
\* written next behind it.
LEMMA CursorBehind ==
    ASSUME TypeOK, KeptSeparately, Progress, Separable
    PROVE  /\ \A i \in DOMAIN spans : spans[i].end <= cursor
           /\ Len(spans) < Len(kept) => cursor <= kept[Len(spans) + 1].start
<1>1. /\ DOMAIN spans = 1..Len(spans) /\ DOMAIN kept = 1..Len(kept)
      /\ Len(spans) \in Nat /\ Len(kept) \in Nat
      /\ \A i \in DOMAIN kept : kept[i] \in Span
  BY DEF TypeOK
<1>2. \A i \in DOMAIN kept : /\ kept[i].start \in 0..Length /\ kept[i].end \in 0..Length
                             /\ kept[i].start < kept[i].end
  BY <1>1, SpanFields
<1>3. CASE spans = << >>
  <2>1. Len(spans) = 0 /\ cursor = 0
    BY <1>3 DEF Progress
  <2> QED
    BY <1>1, <1>2, <2>1
<1>4. CASE spans # << >>
  <2>1. Len(spans) \in DOMAIN spans /\ Len(spans) \in DOMAIN kept
    <3>1. Len(spans) # 0
      BY <1>4 DEF TypeOK
    <3>2. Len(spans) <= Len(kept)
      BY DEF Progress
    <3> QED
      BY <1>1, <3>1, <3>2
  <2>2. cursor = kept[Len(spans)].end
    BY <1>4, <2>1 DEF Progress
  <2>3. ASSUME NEW i \in DOMAIN spans
        PROVE  spans[i].end <= cursor
    <3>1. i \in DOMAIN kept /\ spans[i] = kept[i]
      <4>1. Len(spans) <= Len(kept) /\ spans[i] = kept[i]
        BY DEF Progress
      <4> QED
        BY <1>1, <4>1
    <3>2. CASE i = Len(spans)
      BY <1>2, <2>1, <2>2, <3>1, <3>2
    <3>3. CASE i < Len(spans)
      <4>1. kept[i].end <= kept[Len(spans)].start
        BY <2>1, <3>1, <3>3 DEF KeptSeparately
      <4> QED
        BY <1>2, <2>1, <2>2, <3>1, <4>1
    <3> QED
      BY <1>1, <3>2, <3>3
  <2>4. ASSUME Len(spans) < Len(kept)
        PROVE  cursor <= kept[Len(spans) + 1].start
    <3>1. Len(spans) + 1 \in DOMAIN kept
      BY <1>1, <2>4
    <3> QED
      BY <1>1, <2>1, <2>2, <3>1 DEF KeptSeparately
  <2> QED
    BY <2>3, <2>4
<1> QED
  BY <1>3, <1>4

-----------------------------------------------------------------------------
\* Copying what lies between the cursor and a later position b shows exactly
\* what the records leave visible up to there.
LEMMA CopyShows ==
    ASSUME TypeOK, NEW b \in 0..Length, cursor <= b, Shows(out, cursor),
           \A i \in DOMAIN spans : spans[i].end <= cursor,
           NEW w, w = out \o Slice(cursor, b)
    PROVE  Shows(w, b)
<1>1. out \in Seq(Symbols) /\ cursor \in 0..Length /\ Len(out) \in Nat
  BY DEF TypeOK, Symbols
<1>2. /\ w \in Seq(Symbols)
      /\ Len(w) = Len(out) + IF cursor < b THEN b - cursor ELSE 0
      /\ \A k \in 1..Len(out) : w[k] = out[k]
      /\ \A k \in (Len(out) + 1)..Len(w) : w[k] = cursor + k - Len(out) - 1
  <2>1. IsCopy(w, out, cursor, b)
    BY <1>1, Copied
  <2> QED
    BY <2>1 DEF IsCopy
<1>3. /\ DOMAIN out = 1..Len(out) /\ DOMAIN w = 1..Len(w)
      /\ Len(w) = Len(out) + b - cursor
  BY <1>1, <1>2
<1>4. \A i \in DOMAIN spans : spans[i].end \in Int
  BY SpanFields DEF TypeOK
<1>5. ASSUME NEW c \in 0..(Length - 1), c >= cursor
      PROVE  ~Recorded(c)
  BY <1>1, <1>4, <1>5 DEF Recorded, Covers
<1> SUFFICES ASSUME NEW c \in 0..(Length - 1)
             PROVE  (\E k \in DOMAIN w : w[k] = c) <=> (c < b /\ ~Recorded(c))
  BY DEF Shows
<1>6. (\E k \in DOMAIN out : out[k] = c) <=> (c < cursor /\ ~Recorded(c))
  BY DEF Shows
<1>7. ASSUME NEW k \in DOMAIN w, w[k] = c
      PROVE  c < b /\ ~Recorded(c)
  <2>1. CASE k <= Len(out)
    BY <1>1, <1>2, <1>3, <1>6, <1>7, <2>1
  <2>2. CASE k > Len(out)
    <3>1. k \in (Len(out) + 1)..Len(w)
      BY <1>1, <1>3, <2>2
    <3>2. c = cursor + k - Len(out) - 1
      BY <1>2, <1>7, <3>1
    <3>3. c >= cursor /\ c < b
      BY <1>1, <1>3, <3>1, <3>2
    <3> QED
      BY <1>5, <3>3
  <2> QED
    BY <1>1, <1>3, <2>1, <2>2
<1>8. ASSUME c < b, ~Recorded(c)
      PROVE  \E k \in DOMAIN w : w[k] = c
  <2>1. CASE c < cursor
    <3>1. PICK k \in DOMAIN out : out[k] = c
      BY <1>6, <1>8, <2>1
    <3> QED
      BY <1>1, <1>2, <1>3, <3>1
  <2>2. CASE c >= cursor
    <3> DEFINE k == Len(out) + c - cursor + 1
    <3>1. k \in (Len(out) + 1)..Len(w) /\ k \in DOMAIN w
      BY <1>1, <1>3, <1>8, <2>2
    <3>2. w[k] = cursor + k - Len(out) - 1
      BY <1>2, <3>1
    <3>3. w[k] = c
      BY <1>1, <3>2
    <3> QED
      BY <3>1, <3>3
  <2> QED
    BY <1>1, <2>1, <2>2
<1> QED
  BY <1>7, <1>8

LEMMA CopyRises ==
    ASSUME TypeOK, NEW b \in 0..Length, cursor <= b, Shows(out, cursor), Rising(out),
           NEW w, w = out \o Slice(cursor, b)
    PROVE  Rising(w)
<1>1. out \in Seq(Symbols) /\ cursor \in 0..Length /\ Len(out) \in Nat
  BY DEF TypeOK, Symbols
<1>2. /\ w \in Seq(Symbols)
      /\ \A k \in 1..Len(out) : w[k] = out[k]
      /\ \A k \in (Len(out) + 1)..Len(w) : w[k] = cursor + k - Len(out) - 1
  <2>1. IsCopy(w, out, cursor, b)
    BY <1>1, Copied
  <2> QED
    BY <2>1 DEF IsCopy
<1>3. DOMAIN out = 1..Len(out) /\ DOMAIN w = 1..Len(w)
  BY <1>1, <1>2
<1> SUFFICES ASSUME NEW i \in DOMAIN w, NEW j \in DOMAIN w, i < j, w[i] >= 0, w[j] >= 0
             PROVE  w[i] < w[j]
  BY DEF Rising
<1>4. CASE j <= Len(out)
  BY <1>1, <1>2, <1>3, <1>4 DEF Rising
<1>5. CASE j > Len(out)
  <2>1. w[j] = cursor + j - Len(out) - 1
    BY <1>1, <1>2, <1>3, <1>5
  <2>2. CASE i > Len(out)
    <3>1. w[i] = cursor + i - Len(out) - 1
      BY <1>1, <1>2, <1>3, <2>2
    <3> QED
      BY <1>1, <1>3, <2>1, <3>1
  <2>3. CASE i <= Len(out)
    <3>1. i \in DOMAIN out /\ w[i] = out[i] /\ out[i] \in Symbols
      BY <1>1, <1>2, <1>3, <2>3
    <3>2. out[i] \in 0..(Length - 1)
      BY <3>1 DEF Symbols
    <3>3. out[i] < cursor
      BY <3>1, <3>2 DEF Shows
    <3>4. w[j] >= cursor /\ w[j] \in Int
      BY <1>1, <1>3, <1>5, <2>1
    <3> QED
      BY <1>1, <3>1, <3>2, <3>3, <3>4
  <2> QED
    BY <1>1, <1>3, <2>2, <2>3
<1> QED
  BY <1>1, <1>3, <1>4, <1>5

LEMMA CopyStands ==
    ASSUME TypeOK, NEW b \in 0..Length, cursor <= b,
           \A i \in DOMAIN spans : spans[i].end <= cursor,
           NEW at \in [DOMAIN spans -> DOMAIN out], Stands(out, at),
           NEW w, w = out \o Slice(cursor, b)
    PROVE  at \in [DOMAIN spans -> 1..Len(out)] /\ Stands(w, at)
<1>1. out \in Seq(Symbols) /\ cursor \in 0..Length /\ Len(out) \in Nat
  BY DEF TypeOK, Symbols
<1>2. /\ w \in Seq(Symbols)
      /\ \A k \in 1..Len(out) : w[k] = out[k]
      /\ \A k \in (Len(out) + 1)..Len(w) : w[k] = cursor + k - Len(out) - 1
  <2>1. IsCopy(w, out, cursor, b)
    BY <1>1, Copied
  <2> QED
    BY <2>1 DEF IsCopy
<1>3. DOMAIN out = 1..Len(out) /\ DOMAIN w = 1..Len(w)
  BY <1>1, <1>2
<1>4. \A i \in DOMAIN spans : spans[i].end \in Int
  BY SpanFields DEF TypeOK
<1>5. ASSUME NEW k \in DOMAIN w, k > Len(out)
      PROVE  w[k] >= cursor /\ w[k] \in Int
  BY <1>1, <1>2, <1>3, <1>5
<1>6. \A k \in DOMAIN w : k <= Len(out) => k \in DOMAIN out /\ w[k] = out[k]
  BY <1>1, <1>2, <1>3
<1>7. \A k \in DOMAIN w : k \in Int /\ (k <= Len(out) \/ k > Len(out))
  BY <1>1, <1>3
<1>8. ASSUME NEW k \in DOMAIN w, w[k] < 0
      PROVE  \E i \in DOMAIN spans : at[i] = k
  <2>1. k <= Len(out)
    BY <1>1, <1>5, <1>7, <1>8
  <2> QED
    BY <1>6, <1>8, <2>1 DEF Stands
<1>9. ASSUME NEW i \in DOMAIN spans
      PROVE  /\ w[at[i]] = -spans[i].type
             /\ \A k \in DOMAIN w : w[k] >= 0 =>
                  IF k < at[i] THEN w[k] < spans[i].start ELSE w[k] >= spans[i].end
  <2>1. at[i] \in DOMAIN out /\ at[i] \in 1..Len(out)
    BY <1>3
  <2>2. w[at[i]] = -spans[i].type
    BY <1>2, <2>1 DEF Stands
  <2>3. ASSUME NEW k \in DOMAIN w, w[k] >= 0
        PROVE  IF k < at[i] THEN w[k] < spans[i].start ELSE w[k] >= spans[i].end
    <3>1. CASE k <= Len(out)
      BY <1>6, <2>3, <3>1 DEF Stands
    <3>2. CASE k > Len(out)
      <4>1. ~(k < at[i])
        BY <1>1, <1>7, <2>1, <3>2
      <4>2. w[k] >= spans[i].end
        BY <1>1, <1>4, <1>5, <3>2
      <4> QED
        BY <4>1, <4>2
    <3> QED
      BY <1>7, <3>1, <3>2
  <2> QED
    BY <2>2, <2>3
<1> QED
  BY <1>3, <1>8, <1>9 DEF Stands

\* Writing a span: what precedes it is copied, then its placeholder follows.
LEMMA RedactFaithful ==
    ASSUME TypeOK, KeptSeparately, Progress, Faithful, Redact, Separable
    PROVE  /\ Shows(out, cursor)'
           /\ Rising(out')
           /\ \E at \in [DOMAIN spans' -> DOMAIN out'] : Stands(out, at)'
<1>1. PICK e : e = kept[Len(spans) + 1]
  OBVIOUS
<1>2. PICK w : w = out \o Slice(cursor, e.start)
  OBVIOUS
<1>3. /\ out' = w \o <<-e.type>>
      /\ spans' = Append(spans, e)
      /\ cursor' = e.end
      /\ Len(spans) < Len(kept)
      /\ pc = "redact"
  BY <1>1, <1>2 DEF Redact
<1>4. e \in Span
  BY <1>1, <1>3 DEF TypeOK
<1>5. /\ e.start \in 0..Length /\ e.end \in 0..Length /\ e.start < e.end
      /\ -e.type \in Symbols /\ -e.type < 0 /\ cursor \in 0..Length
  BY <1>4, SpanFields DEF Symbols, TypeOK
<1>6. /\ \A i \in DOMAIN spans : spans[i].end <= cursor
      /\ cursor <= e.start
  BY <1>1, <1>3, CursorBehind
<1>7. PICK at \in [DOMAIN spans -> DOMAIN out] : Stands(out, at)
  BY DEF Faithful
<1>8. Shows(out, cursor) /\ Rising(out)
  BY <1>3 DEF Faithful, Edge
<1>9. Shows(w, e.start)
  BY <1>2, <1>5, <1>6, <1>8, CopyShows
<1>10. Rising(w)
  BY <1>2, <1>5, <1>6, <1>8, CopyRises
<1>11. at \in [DOMAIN spans -> 1..Len(out)] /\ Stands(w, at)
  BY <1>2, <1>5, <1>6, <1>7, CopyStands
<1>12. w \in Seq(Symbols) /\ Len(w) >= Len(out) /\ Len(w) \in Nat /\ Len(out) \in Nat
  <2>1. out \in Seq(Symbols)
    BY DEF TypeOK, Symbols
  <2>2. IsCopy(w, out, cursor, e.start)
    BY <1>2, <1>5, <2>1, Copied
  <2> QED
    BY <1>5, <1>6, <2>1, <2>2 DEF IsCopy
<1>13. /\ out' \in Seq(Symbols)
       /\ Len(out') = Len(w) + 1
       /\ \A k \in 1..Len(w) : out'[k] = w[k]
       /\ out'[Len(w) + 1] = -e.type
  <2>1. -e.type \in Symbols /\ w \in Seq(Symbols)
    BY <1>5, <1>12
  <2>2. IsMarked(out', w, -e.type)
    BY <1>3, <2>1, Marked
  <2> QED
    BY <2>2 DEF IsMarked
<1>14. /\ DOMAIN out' = 1..(Len(w) + 1) /\ DOMAIN w = 1..Len(w)
       /\ \A k \in DOMAIN w : out'[k] = w[k] /\ w[k] \in Int
  <2>1. DOMAIN out' = 1..(Len(w) + 1)
    BY <1>13
  <2>2. DOMAIN w = 1..Len(w) /\ \A k \in DOMAIN w : w[k] \in Symbols
    BY <1>12
  <2>3. \A x \in Symbols : x \in Int
    BY DEF Symbols
  <2>4. \A k \in DOMAIN w : out'[k] = w[k]
    BY <1>13, <2>2
  <2>5. \A k \in DOMAIN w : w[k] \in Int
    BY <2>2, <2>3, Zenon
  <2> QED
    BY <2>1, <2>2, <2>4, <2>5
<1>15. \A k \in DOMAIN out' : out'[k] >= 0 => k \in DOMAIN w /\ out'[k] = w[k]
  <2> SUFFICES ASSUME NEW k \in DOMAIN out', out'[k] >= 0
               PROVE  k \in DOMAIN w /\ out'[k] = w[k]
    OBVIOUS
  <2>1. k # Len(w) + 1
    <3>1. ASSUME k = Len(w) + 1 PROVE FALSE
      <4>1. out'[k] = -e.type
        BY <1>13, <3>1
      <4>2. e.type \in Int /\ e.type > 0
        BY <1>4, SpanFields
      <4> QED
        BY <4>1, <4>2
    <3> QED
      BY <3>1
  <2>2. k \in DOMAIN w
    BY <1>12, <1>14, <2>1
  <2> QED
    BY <1>14, <2>2
<1>16. /\ DOMAIN spans' = 1..(Len(spans) + 1)
       /\ \A i \in DOMAIN spans : spans'[i] = spans[i]
       /\ spans'[Len(spans) + 1] = e
       /\ DOMAIN spans = 1..Len(spans)
       /\ Len(spans) \in Nat
  BY <1>3, <1>4, RecordsGrow
<1>17. \A i \in DOMAIN spans :
          /\ spans[i].start \in Int /\ spans[i].end \in Int
          /\ spans[i].start < spans[i].end
  BY SpanFields DEF TypeOK
<1>18. Shows(out, cursor)'
  <2> SUFFICES ASSUME NEW c \in 0..(Length - 1)
               PROVE  (\E k \in DOMAIN out' : out'[k] = c) <=> (c < e.end /\ ~Recorded(c)')
    BY <1>3 DEF Shows
  <2>1. (\E k \in DOMAIN w : w[k] = c) <=> (c < e.start /\ ~Recorded(c))
    BY <1>9 DEF Shows
  <2>2. (\E k \in DOMAIN out' : out'[k] = c) <=> (\E k \in DOMAIN w : w[k] = c)
    BY <1>12, <1>14, <1>15
  <2>3. Recorded(c)' <=> (Recorded(c) \/ Covers(e, c))
    <3>1. Recorded(c)' <=> \E i \in DOMAIN spans' : Covers(spans'[i], c)
      BY DEF Recorded, Covers
    <3>2. ASSUME NEW i \in DOMAIN spans', Covers(spans'[i], c)
          PROVE  Recorded(c) \/ Covers(e, c)
      <4>1. CASE i = Len(spans) + 1
        BY <1>16, <3>2, <4>1
      <4>2. CASE i # Len(spans) + 1
        <5>1. i \in DOMAIN spans
          BY <1>16, <4>2
        <5> QED
          BY <1>16, <3>2, <5>1 DEF Recorded
      <4> QED
        BY <4>1, <4>2
    <3>3. ASSUME Recorded(c) \/ Covers(e, c)
          PROVE  \E i \in DOMAIN spans' : Covers(spans'[i], c)
      <4>1. CASE Recorded(c)
        <5>1. PICK i \in DOMAIN spans : Covers(spans[i], c)
          BY <4>1 DEF Recorded
        <5>2. i \in DOMAIN spans' /\ spans'[i] = spans[i]
          BY <1>16
        <5> QED
          BY <5>1, <5>2
      <4>2. CASE Covers(e, c)
        <5>1. Len(spans) + 1 \in DOMAIN spans'
          BY <1>16
        <5> QED
          BY <1>16, <4>2, <5>1
      <4> QED
        BY <3>3, <4>1, <4>2
    <3> QED
      BY <3>1, <3>2, <3>3
  <2>4. Covers(e, c) <=> (e.start <= c /\ c < e.end)
    BY DEF Covers
  <2> QED
    BY <1>5, <2>1, <2>2, <2>3, <2>4
<1>19. Rising(out')
  BY <1>10, <1>15 DEF Rising
<1>20. PICK at2 : at2 = [i \in DOMAIN spans' |-> IF i \in DOMAIN spans THEN at[i] ELSE Len(w) + 1]
  OBVIOUS
<1>21. at2 \in [DOMAIN spans' -> DOMAIN out']
  BY <1>11, <1>12, <1>14, <1>16, <1>20
<1>22. \A i \in DOMAIN spans : i \in DOMAIN spans' /\ at2[i] = at[i] /\ at[i] \in 1..Len(out)
  BY <1>11, <1>16, <1>20
<1>23. Len(spans) + 1 \in DOMAIN spans' /\ at2[Len(spans) + 1] = Len(w) + 1
  BY <1>16, <1>20
<1>24. \A i \in DOMAIN spans' : i \in DOMAIN spans \/ i = Len(spans) + 1
  BY <1>16
<1>25. \A i, j \in DOMAIN spans' : i < j => at2[i] < at2[j]
  <2> SUFFICES ASSUME NEW i \in DOMAIN spans', NEW j \in DOMAIN spans', i < j
               PROVE  at2[i] < at2[j]
    OBVIOUS
  <2>1. i \in DOMAIN spans
    BY <1>16
  <2>2. CASE j \in DOMAIN spans
    BY <1>7, <1>22, <2>1, <2>2 DEF Stands
  <2>3. CASE j = Len(spans) + 1
    BY <1>12, <1>22, <1>23, <2>1, <2>3
  <2> QED
    BY <1>24, <2>2, <2>3
<1>26. \A k \in DOMAIN out' : out'[k] < 0 => \E i \in DOMAIN spans' : at2[i] = k
  <2> SUFFICES ASSUME NEW k \in DOMAIN out', out'[k] < 0
               PROVE  \E i \in DOMAIN spans' : at2[i] = k
    OBVIOUS
  <2>1. CASE k = Len(w) + 1
    BY <1>23, <2>1
  <2>2. CASE k # Len(w) + 1
    <3>1. k \in DOMAIN w /\ w[k] < 0
      BY <1>12, <1>14, <2>2
    <3>2. PICK i \in DOMAIN spans : at[i] = k
      BY <1>11, <3>1 DEF Stands
    <3> QED
      BY <1>22, <3>2
  <2> QED
    BY <2>1, <2>2
<1>27. ASSUME NEW i \in DOMAIN spans'
       PROVE  /\ out'[at2[i]] = -spans'[i].type
              /\ \A k \in DOMAIN out' : out'[k] >= 0 =>
                   IF k < at2[i] THEN out'[k] < spans'[i].start ELSE out'[k] >= spans'[i].end
  <2>1. CASE i \in DOMAIN spans
    <3>1. /\ w[at[i]] = -spans[i].type
          /\ \A k \in DOMAIN w : w[k] >= 0 =>
               IF k < at[i] THEN w[k] < spans[i].start ELSE w[k] >= spans[i].end
      BY <1>11, <2>1 DEF Stands
    <3>2. at[i] \in DOMAIN w
      BY <1>12, <1>14, <1>22, <2>1
    <3> QED
      BY <1>14, <1>15, <1>16, <1>22, <2>1, <3>1, <3>2
  <2>2. CASE i = Len(spans) + 1
    <3>1. out'[at2[i]] = -spans'[i].type
      BY <1>13, <1>16, <1>23, <2>2
    <3>2. ASSUME NEW k \in DOMAIN out', out'[k] >= 0
          PROVE  k < at2[i] /\ out'[k] < spans'[i].start
      <4>1. k \in DOMAIN w /\ out'[k] = w[k] /\ k < Len(w) + 1
        BY <1>12, <1>14, <1>15, <3>2
      <4>2. w[k] \in 0..(Length - 1)
        BY <1>12, <3>2, <4>1 DEF Symbols
      <4>3. w[k] < e.start
        BY <1>9, <4>1, <4>2 DEF Shows
      <4> QED
        BY <1>16, <1>23, <2>2, <4>1, <4>3
    <3> QED
      BY <3>1, <3>2
  <2> QED
    BY <1>24, <2>1, <2>2
<1>28. Stands(out, at2)'
  BY <1>25, <1>26, <1>27 DEF Stands
<1> QED
  BY <1>18, <1>19, <1>21, <1>28

LEMMA StepFaithful ==
    ASSUME TypeOK, KeptSeparately, Progress, Faithful, [Next]_vars
    PROVE  Faithful'
<1>1. CASE Redact
  <2> SUFFICES ASSUME Separable'
               PROVE  /\ Shows(out, Edge)'
                      /\ Rising(out')
                      /\ \E at \in [DOMAIN spans' -> DOMAIN out'] : Stands(out, at)'
    BY DEF Faithful, Rising
  <2>1. UNCHANGED <<strategy, detected, pc>> /\ pc = "redact"
    BY <1>1 DEF Redact
  <2>2. Separable
    BY <2>1 DEF Separable, Disjoint
  <2>3. Edge' = cursor'
    BY <2>1 DEF Edge
  <2>4. /\ Shows(out, cursor)'
        /\ Rising(out')
        /\ \E at \in [DOMAIN spans' -> DOMAIN out'] : Stands(out, at)'
    BY <1>1, <2>2, RedactFaithful
  <2> QED
    BY <2>3, <2>4 DEF Shows
<1>2. CASE Finish
  <2> SUFFICES ASSUME Separable'
               PROVE  /\ Shows(out, Edge)'
                      /\ Rising(out')
                      /\ \E at \in [DOMAIN spans' -> DOMAIN out'] : Stands(out, at)'
    BY DEF Faithful, Rising
  <2>1. /\ UNCHANGED <<strategy, detected, spans, cursor>>
        /\ pc = "redact" /\ pc' = "done"
        /\ out' = out \o Slice(cursor, Length)
    BY <1>2 DEF Finish
  <2>2. Separable
    BY <2>1 DEF Separable, Disjoint
  <2>3. Edge = cursor /\ Edge' = Length
    BY <2>1 DEF Edge
  <2>4. /\ Length \in 0..Length /\ cursor \in 0..Length /\ cursor <= Length
        /\ \A i \in DOMAIN spans : spans[i].end <= cursor
    BY <2>2, CursorBehind DEF TypeOK
  <2>5. PICK at \in [DOMAIN spans -> DOMAIN out] : Stands(out, at)
    BY <2>2 DEF Faithful
  <2>6. Shows(out, cursor) /\ Rising(out)
    BY <2>2, <2>3 DEF Faithful
  <2>7. PICK w : w = out'
    OBVIOUS
  <2>8. Shows(w, Length)
    BY <2>1, <2>4, <2>6, <2>7, CopyShows
  <2>9. Rising(w)
    BY <2>1, <2>4, <2>6, <2>7, CopyRises
  <2>10. at \in [DOMAIN spans -> 1..Len(out)] /\ Stands(w, at)
    BY <2>1, <2>4, <2>5, <2>7, CopyStands
  <2>11. at \in [DOMAIN spans -> DOMAIN w]
    <3>1. out \in Seq(Symbols)
      BY DEF TypeOK, Symbols
    <3>2. IsCopy(w, out, cursor, Length)
      BY <2>1, <2>4, <2>7, <3>1, Copied
    <3>3. /\ w \in Seq(Symbols)
          /\ Len(w) = Len(out) + IF cursor < Length THEN Length - cursor ELSE 0
      BY <3>2 DEF IsCopy
    <3>4. Len(w) >= Len(out) /\ Len(out) \in Nat
      BY <2>4, <3>1, <3>3
    <3>5. 1..Len(out) \subseteq DOMAIN w
      BY <3>3, <3>4
    <3> QED
      BY <2>10, <3>5
  <2>12. Shows(out, Edge)'
    BY <2>1, <2>3, <2>7, <2>8 DEF Shows, Recorded, Covers
  <2>13. Stands(out, at)'
    BY <2>1, <2>7, <2>10 DEF Stands
  <2> QED
    BY <2>1, <2>7, <2>9, <2>11, <2>12, <2>13
<1>3. CASE /\ UNCHANGED <<strategy, detected, out, spans, cursor>>
           /\ Edge' = Edge
  BY <1>3 DEF Faithful, Separable, Disjoint, Shows, Recorded, Covers, Rising, Stands
<1> QED
  BY <1>1, <1>2, <1>3 DEF Next, vars, Detect, StartRedacting, Edge

-----------------------------------------------------------------------------
LEMMA StepOrders ==
    ASSUME TypeOK, Sifted, Ordered, [Next]_vars
    PROVE  Ordered'
<1>1. CASE Detect
  <2> SUFFICES /\ \A i, j \in DOMAIN kept' : i < j => kept'[i].start <= kept'[j].start
               /\ strategy' = "comprehend" =>
                    \A f \in detected' \ pending' : \E i \in DOMAIN kept' : kept'[i] = f
    BY DEF Ordered
  <2>1. UNCHANGED <<strategy, detected>>
    BY <1>1 DEF Detect
  <2>2. PICK e \in pending :
           /\ pending' = pending \ {e}
           /\ \/ kept' = Append(kept, e)
              \/ strategy = "regex" /\ kept' = kept
    BY <1>1, Round
  <2>3. CASE kept' = Append(kept, e)
    <3>1. e \in Span
      BY DEF TypeOK
    <3>2. /\ DOMAIN kept' = 1..(Len(kept) + 1)
          /\ \A i \in DOMAIN kept : kept'[i] = kept[i]
          /\ kept'[Len(kept) + 1] = e
          /\ DOMAIN kept = 1..Len(kept)
          /\ Len(kept) \in Nat
      BY <2>3, <3>1, Kept
    <3>3. \A i \in DOMAIN kept : kept[i].start <= e.start
      BY DEF Sifted
    <3>4. ASSUME NEW i \in DOMAIN kept', NEW j \in DOMAIN kept', i < j
          PROVE  kept'[i].start <= kept'[j].start
      <4>1. i \in DOMAIN kept
        BY <3>2, <3>4
      <4>2. CASE j = Len(kept) + 1
        BY <3>2, <3>3, <4>1, <4>2
      <4>3. CASE j # Len(kept) + 1
        <5>1. j \in DOMAIN kept
          BY <3>2, <4>3
        <5> QED
          BY <3>2, <3>4, <4>1, <5>1 DEF Ordered
      <4> QED
        BY <4>2, <4>3
    <3>5. ASSUME strategy = "comprehend", NEW f \in detected \ (pending \ {e})
          PROVE  \E i \in DOMAIN kept' : kept'[i] = f
      <4>1. CASE f = e
        <5>1. Len(kept) + 1 \in DOMAIN kept'
          BY <3>2
        <5> QED
          BY <3>2, <4>1, <5>1
      <4>2. CASE f # e
        <5>1. PICK i \in DOMAIN kept : kept[i] = f
          BY <3>5, <4>2 DEF Ordered
        <5>2. i \in DOMAIN kept'
          BY <3>2
        <5> QED
          BY <3>2, <5>1, <5>2
      <4> QED
        BY <4>1, <4>2
    <3> QED
      BY <2>1, <2>2, <3>4, <3>5
  <2>4. CASE strategy = "regex" /\ kept' = kept
    BY <2>1, <2>4 DEF Ordered
  <2> QED
    BY <2>2, <2>3, <2>4
<1>2. CASE UNCHANGED <<strategy, detected, pending, kept>>
  BY <1>2 DEF Ordered
<1> QED
  BY <1>1, <1>2 DEF Next, vars, StartRedacting, Redact, Finish

\* A character that a longer text has was in the text or is of the slice.
LEMMA CopiedFrom ==
    ASSUME TypeOK, NEW b \in 0..Length, NEW w, w = out \o Slice(cursor, b),
           NEW k \in DOMAIN w
    PROVE  \/ k \in DOMAIN out /\ w[k] = out[k]
           \/ w[k] \in Int /\ cursor <= w[k] /\ w[k] < b
<1>1. out \in Seq(Symbols) /\ cursor \in 0..Length
  BY DEF TypeOK, Symbols
<1>2. IsCopy(w, out, cursor, b)
  BY <1>1, Copied
<1>3. Len(out) \in Nat /\ DOMAIN out = 1..Len(out) /\ DOMAIN w = 1..Len(w)
  BY <1>1, <1>2 DEF IsCopy
<1>4. CASE k <= Len(out)
  BY <1>2, <1>3, <1>4 DEF IsCopy
<1>5. CASE k > Len(out)
  <2>1. Len(w) = Len(out) + IF cursor < b THEN b - cursor ELSE 0
    BY <1>2 DEF IsCopy
  <2>2. w[k] = cursor + k - Len(out) - 1
    BY <1>2, <1>3, <1>5 DEF IsCopy
  <2> QED
    BY <1>1, <1>3, <1>5, <2>1, <2>2
<1> QED
  BY <1>3, <1>4, <1>5

\* What is behind the cursor is behind the last record and its neighbours.
LEMMA BehindTheLast ==
    ASSUME TypeOK, Progress, NEW c \in Int, cursor <= c
    PROVE  Len(spans) \in 0..Len(spans) /\ WrittenAt(c, Len(spans))
<1>1. spans \in Seq(Span) /\ Len(spans) \in Nat /\ DOMAIN spans = 1..Len(spans)
  BY DEF TypeOK
<1>2. Len(spans) > 0 => spans[Len(spans)].end <= c
  BY <1>1 DEF Progress
<1>3. \A i \in DOMAIN spans : ~(i > Len(spans))
  BY <1>1
<1> QED
  BY <1>1, <1>2, <1>3 DEF WrittenAt

\* A span written behind the others leaves the characters between records.
LEMMA RedactBetween ==
    ASSUME TypeOK, Progress, Ordered, Between, Redact
    PROVE  Between'
<1>1. PICK e : e = kept[Len(spans) + 1]
  OBVIOUS
<1>2. PICK w : w = out \o Slice(cursor, e.start)
  OBVIOUS
<1>3. /\ out' = w \o <<-e.type>>
      /\ spans' = Append(spans, e)
      /\ Len(spans) < Len(kept)
      /\ pc = "redact" /\ pc' = "redact"
  BY <1>1, <1>2 DEF Redact
<1>4. /\ Len(spans) \in Nat /\ Len(kept) \in Nat
      /\ DOMAIN spans = 1..Len(spans) /\ DOMAIN kept = 1..Len(kept)
  BY DEF TypeOK
<1>5. e \in Span /\ Len(spans) + 1 \in DOMAIN kept
  BY <1>1, <1>3, <1>4 DEF TypeOK
<1>6. /\ e.start \in 0..Length /\ -e.type \in Symbols /\ e.type > 0 /\ e.type \in Int
  BY <1>5, SpanFields DEF Symbols
<1>7. /\ DOMAIN spans' = 1..(Len(spans) + 1)
      /\ Len(spans') = Len(spans) + 1
      /\ \A i \in DOMAIN spans : spans'[i] = spans[i]
      /\ spans'[Len(spans) + 1] = e
  BY <1>3, <1>5, RecordsGrow
<1>8. w \in Seq(Symbols)
  <2>1. out \in Seq(Symbols) /\ cursor \in 0..Length
    BY DEF TypeOK, Symbols
  <2>2. IsCopy(w, out, cursor, e.start)
    BY <1>2, <1>6, <2>1, Copied
  <2> QED
    BY <2>2 DEF IsCopy
<1>9. IsMarked(out', w, -e.type)
  BY <1>3, <1>6, <1>8, Marked
<1>10. ASSUME NEW c \in Int, NEW j \in 0..Len(spans), WrittenAt(c, j), c < e.start
       PROVE  j < Len(spans') /\ j \in 0..Len(spans') /\ WrittenAt(c, j)'
  <2>1. j > 0 => spans'[j].end <= c
    BY <1>4, <1>7, <1>10 DEF WrittenAt
  <2>2. ASSUME NEW i \in DOMAIN spans', i > j
        PROVE  c < spans'[i].start
    <3>1. CASE i = Len(spans) + 1
      BY <1>7, <1>10, <3>1
    <3>2. CASE i # Len(spans) + 1
      <4>1. i \in DOMAIN spans
        BY <1>4, <1>7, <3>2
      <4> QED
        BY <1>7, <1>10, <2>2, <4>1 DEF WrittenAt
    <3> QED
      BY <3>1, <3>2
  <2>3. WrittenAt(c, j)'
    BY <2>1, <2>2 DEF WrittenAt
  <2>4. j < Len(spans') /\ j \in 0..Len(spans')
    BY <1>4, <1>7
  <2> QED
    BY <2>3, <2>4
<1> SUFFICES ASSUME NEW k \in DOMAIN out', out'[k] >= 0
             PROVE  \E j \in 0..Len(spans') : WrittenAt(out[k], j)' /\ j < Len(spans')
  BY DEF Between
<1>11. PICK c : c = out'[k]
  OBVIOUS
<1>12. k \in DOMAIN w /\ w[k] = c /\ c \in Int
  <2>1. /\ DOMAIN w = 1..Len(w) /\ Len(w) \in Nat /\ DOMAIN out' = 1..(Len(w) + 1)
        /\ out'[Len(w) + 1] = -e.type
        /\ \A x \in 1..Len(w) : out'[x] = w[x]
    BY <1>8, <1>9 DEF IsMarked
  <2>2. k # Len(w) + 1
    BY <1>6, <2>1
  <2>3. k \in DOMAIN w /\ w[k] = c
    BY <1>11, <2>1, <2>2
  <2>4. w[k] \in Symbols
    BY <1>8, <2>3
  <2>5. \A x \in Symbols : x \in Int
    BY DEF Symbols
  <2> QED
    BY <2>3, <2>4, <2>5
<1>13. \/ k \in DOMAIN out /\ w[k] = out[k]
       \/ w[k] \in Int /\ cursor <= w[k] /\ w[k] < e.start
  BY <1>2, <1>6, <1>12, CopiedFrom
<1>14. \E j \in 0..Len(spans) : WrittenAt(c, j) /\ c < e.start
  <2>1. CASE k \in DOMAIN out /\ w[k] = out[k]
    <3>1. PICK j \in 0..Len(spans) : WrittenAt(c, j) /\ j < Len(spans)
      BY <1>3, <1>11, <1>12, <2>1 DEF Between
    <3>2. Len(spans) \in DOMAIN spans /\ Len(spans) > j /\ Len(spans) \in DOMAIN kept
      BY <1>3, <1>4, <3>1
    <3>3. c < spans[Len(spans)].start
      BY <3>1, <3>2 DEF WrittenAt
    <3>4. spans[Len(spans)] = kept[Len(spans)] /\ kept[Len(spans)] \in Span
      BY <3>2 DEF Progress, TypeOK
    <3>5. kept[Len(spans)].start <= e.start
      <4>1. Len(spans) < Len(spans) + 1
        BY <1>4
      <4> QED
        BY <1>1, <1>5, <3>2, <4>1 DEF Ordered
    <3>6. kept[Len(spans)].start \in Int
      BY <3>4, SpanFields
    <3>7. c < e.start
      BY <1>6, <1>12, <3>3, <3>4, <3>5, <3>6
    <3> QED
      BY <3>1, <3>7
  <2>2. CASE w[k] \in Int /\ cursor <= w[k] /\ w[k] < e.start
    <3>1. Len(spans) \in 0..Len(spans) /\ WrittenAt(c, Len(spans))
      BY <1>12, <2>2, BehindTheLast
    <3> QED
      BY <1>12, <2>2, <3>1
  <2> QED
    BY <1>13, <2>1, <2>2
<1>15. PICK j \in 0..Len(spans) : WrittenAt(c, j) /\ c < e.start
  BY <1>14
<1>16. j < Len(spans') /\ j \in 0..Len(spans') /\ WrittenAt(c, j)'
  BY <1>10, <1>12, <1>15
<1> QED
  BY <1>11, <1>16 DEF WrittenAt

LEMMA StepBetween ==
    ASSUME TypeOK, Progress, Ordered, Between, [Next]_vars
    PROVE  Between'
<1>1. CASE Redact
  BY <1>1, RedactBetween
<1>2. CASE Finish
  <2>1. PICK w : w = out \o Slice(cursor, Length)
    OBVIOUS
  <2>2. out' = w /\ pc' = "done" /\ UNCHANGED spans
    BY <1>2, <2>1 DEF Finish
  <2> SUFFICES ASSUME NEW k \in DOMAIN w, w[k] >= 0
               PROVE  \E j \in 0..Len(spans) : WrittenAt(w[k], j)
    BY <2>2 DEF Between, WrittenAt
  <2>3. Length \in 0..Length
    OBVIOUS
  <2>4. \/ k \in DOMAIN out /\ w[k] = out[k]
        \/ w[k] \in Int /\ cursor <= w[k] /\ w[k] < Length
    BY <2>1, <2>3, CopiedFrom
  <2> QED
    BY <2>4, BehindTheLast DEF Between
<1>3. CASE UNCHANGED <<out, spans>> /\ pc' # "done" /\ pc # "done"
  BY <1>3 DEF Between, WrittenAt
<1>4. CASE UNCHANGED vars
  BY <1>4 DEF vars, Between, WrittenAt
<1> QED
  BY <1>1, <1>2, <1>3, <1>4 DEF Next, Detect, StartRedacting

LEMMA InvariantHolds == Spec => []Invariant
<1>1. Invariant /\ [Next]_vars => Invariant'
  BY StepTypes, StepSifts, StepSeparates, StepProgresses, StepFaithful,
     StepOrders, StepBetween DEF Invariant
<1> QED
  BY <1>1, InitInvariant, PTL DEF Spec

-----------------------------------------------------------------------------
\* The redactors' state keeps its types: in particular the text produced is
\* made of characters of the text and of placeholders of enabled types.
THEOREM RedactionTypeCorrect == Spec => []TypeOK
<1>1. Invariant => TypeOK
  BY DEF Invariant
<1> QED
  BY <1>1, InvariantHolds, PTL

\* The spans detect keeps are apart and in the order of the text, whatever
\* the patterns matched, and every start it has seen is hidden by one.
THEOREM KeptSpansApart == Spec => []KeptSeparately
<1>1. Invariant => KeptSeparately
  BY DEF Invariant
<1> QED
  BY <1>1, InvariantHolds, PTL

\* The redacted text is the text with the recorded spans, and nothing else,
\* replaced by their placeholders, for a text of any length.
THEOREM RedactionExact == Spec => []RedactedAsRecorded
<1>1. Invariant => RedactedAsRecorded
  <2> SUFFICES ASSUME Invariant, pc = "done", Separable
               PROVE  /\ Visible = {c \in 0..(Length - 1) : ~Recorded(c)}
                      /\ \A i, j \in DOMAIN out :
                           (i < j /\ out[i] >= 0 /\ out[j] >= 0) => out[i] < out[j]
                      /\ \E at \in [DOMAIN spans -> DOMAIN out] : Placed(at)
    BY DEF RedactedAsRecorded
  <2>1. Shows(out, Length) /\ Rising(out)
    BY DEF Invariant, Faithful, Edge
  <2>2. PICK at \in [DOMAIN spans -> DOMAIN out] : Stands(out, at)
    BY DEF Invariant, Faithful
  <2>3. Visible = {c \in 0..(Length - 1) : ~Recorded(c)}
    BY <2>1 DEF Shows, Visible
  <2>4. Placed(at)
    BY <2>2 DEF Stands, Placed
  <2> QED
    BY <2>1, <2>2, <2>3, <2>4 DEF Rising
<1> QED
  BY <1>1, InvariantHolds, PTL

\* However the spans overlap, the first character of every span detected is
\* hidden, and a later one is visible only behind the end of a span that
\* overlaps its own: of the regex redactor one over its start, of Comprehend
\* one that starts inside it.
THEOREM StartsHidden == Spec => []OverlapsHideTheStart
<1>1. Invariant => OverlapsHideTheStart
  <2> SUFFICES ASSUME Invariant, pc = "done", NEW e \in detected
               PROVE  /\ e.start \notin Visible
                      /\ \A c \in Visible : Covers(e, c) =>
                           \E i \in DOMAIN spans : Uncovers(spans[i], e, c)
    BY DEF OverlapsHideTheStart
  <2>1. e \in Span /\ e.start \in Int /\ e.end \in Int /\ e.start < e.end
    BY SpanFields DEF Invariant, TypeOK
  <2>2. /\ DOMAIN spans = DOMAIN kept
        /\ \A i \in DOMAIN kept : spans[i] = kept[i] /\ spans[i] \in Span
    BY DEF Invariant, Progress, TypeOK
  <2>3. \A i \in DOMAIN spans : /\ spans[i].start \in Int /\ spans[i].end \in Int
                                /\ spans[i].start < spans[i].end
    BY <2>2, SpanFields
  <2>4. e \in detected \ pending
    BY DEF Invariant, Sifted
  <2>5. CASE strategy = "regex"
    <3>1. PICK i \in DOMAIN spans : Covers(spans[i], e.start)
      BY <2>2, <2>4, <2>5 DEF Invariant, KeptSeparately, Separable
    <3>2. \A c \in Visible : c \in Int /\ ~Covers(spans[i], c)
      BY <2>5, <3>1 DEF Invariant, Faithful, Shows, Visible, Separable, Recorded
    <3>3. e.start \notin Visible
      BY <3>1, <3>2
    <3>4. ASSUME NEW c \in Visible, Covers(e, c)
          PROVE  Uncovers(spans[i], e, c)
      BY <2>1, <2>3, <2>5, <3>1, <3>2, <3>4 DEF Covers, Uncovers
    <3> QED
      BY <3>3, <3>4
  <2>6. CASE strategy = "comprehend"
    <3>1. PICK m \in DOMAIN kept : kept[m] = e
      BY <2>4, <2>6 DEF Invariant, Ordered
    <3>2. ASSUME NEW c \in Visible, Covers(e, c)
          PROVE  c # e.start /\ \E i \in DOMAIN spans : Uncovers(spans[i], e, c)
      <4>1. c \in Int /\ c >= 0 /\ \E k \in DOMAIN out : out[k] = c
        BY DEF Visible
      <4>2. PICK j \in 0..Len(spans) : WrittenAt(c, j)
        BY <4>1 DEF Invariant, Between
      <4>3. DOMAIN spans = 1..Len(spans) /\ Len(spans) \in Nat /\ m \in Int
        BY <2>2 DEF Invariant, TypeOK
      <4>4. e.start <= c /\ c < e.end
        BY <3>2 DEF Covers
      <4>5. ~(m > j)
        BY <2>1, <2>2, <3>1, <4>1, <4>2, <4>4 DEF WrittenAt
      <4>6. m <= j /\ j \in DOMAIN spans /\ j > 0
        BY <2>2, <4>3, <4>5
      <4>7. spans[j].end <= c
        BY <4>2, <4>6 DEF WrittenAt
      <4>8. e.start <= spans[j].start
        <5>1. CASE m = j
          BY <2>1, <2>2, <3>1, <5>1
        <5>2. CASE m # j
          <6>1. m < j /\ j \in DOMAIN kept
            BY <2>2, <4>3, <4>6, <5>2
          <6> QED
            BY <2>2, <3>1, <6>1 DEF Invariant, Ordered
        <5> QED
          BY <5>1, <5>2
      <4>9. Covers(e, spans[j].start) /\ c # e.start
        BY <2>1, <2>3, <4>1, <4>4, <4>6, <4>7, <4>8 DEF Covers
      <4> QED
        BY <2>6, <4>6, <4>7, <4>9 DEF Uncovers
    <3>3. e.start \notin Visible
      BY <2>1, <3>2 DEF Covers
    <3> QED
      BY <3>2, <3>3
  <2> QED
    BY <2>5, <2>6 DEF Invariant, TypeOK
<1> QED
  BY <1>1, InvariantHolds, PTL
================================================================================
