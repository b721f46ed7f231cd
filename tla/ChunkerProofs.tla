--------------------------- MODULE ChunkerProofs ---------------------------
(***************************************************************************)
(* Proofs about Chunker: whatever the text, the chunk size and the overlap *)
(* are, no sentence is lost, repeated or moved, a chunk that is too long   *)
(* is an overlap and one sentence, and indexes do not jump.                *)
(***************************************************************************)
EXTENDS Chunker, SequenceTheorems, TLAPS

\* The sentences in a list of them; those of a list are in the order of the
\* text; those of one set come before those of another.
El(ids) == {ids[k] : k \in DOMAIN ids}
Rising(ids) == \A k, l \in DOMAIN ids : k < l => Earlier(ids[k], ids[l])
Before(X, Y) == \A x \in X, y \in Y : Earlier(x, y)

\* The same of a list of pieces, or of chunks.
AllIds(pieces) == UNION {El(pieces[i].ids) : i \in DOMAIN pieces}
Ordered(pieces) ==
    /\ \A i \in DOMAIN pieces : Rising(pieces[i].ids)
    /\ \A i, j \in DOMAIN pieces : i < j => Before(El(pieces[i].ids), El(pieces[j].ids))

\* The sentences of the paragraphs the outer loop has taken.
Taken == UNION {{<<m, s>> : s \in DOMAIN text[m].ends} : m \in 1..(next - 1)}

\* Nothing the program holds is empty, save the buffers at their start.
Filled ==
    /\ buf # NoBuffer => buf.len > 0 /\ buf.pieces # << >>
    /\ \A i \in DOMAIN buf.pieces : buf.pieces[i].len > 0
    /\ \A i \in DOMAIN parts : parts[i].len > 0
    /\ acc # Empty => acc.len > 0
    /\ buf = NoBuffer => next = 1 /\ chunks = << >> /\ pc \in {"pack", "done"}
    /\ next <= Len(text) + 1
    /\ pc = "overlap" => next <= Len(text)
    /\ pc = "done" => next = Len(text) + 1

\* The inner loop starts with the whole buffer.
Splitting ==
    pc = "split" =>
        /\ buf.len <= ChunkSize => acc = Empty
        /\ acc = Empty => parts = buf.pieces

\* Where each sentence taken is: in a chunk, or in what is packed next.
Buffered ==
    /\ Rising(buf.ids)
    /\ Ordered(buf.pieces)
    /\ AllIds(buf.pieces) = El(buf.ids)
Accounted ==
    /\ Ordered(chunks)
    /\ Buffered
    /\ pc = "pack" => /\ Before(AllIds(chunks), El(buf.ids))
                      /\ AllIds(chunks) \cup El(buf.ids) = Taken
    /\ pc = "split" => /\ Ordered(parts)
                       /\ Rising(acc.ids)
                       /\ Before(AllIds(chunks), El(acc.ids))
                       /\ Before(AllIds(chunks) \cup El(acc.ids), AllIds(parts))
                       /\ AllIds(chunks) \cup El(acc.ids) \cup AllIds(parts) = Taken
    /\ pc \in {"overlap", "done"} => AllIds(chunks) = Taken

\* A chunk of the lengths SizeBounded allows.
Within(len) == \E l \in Lengths : len <= Overlap + 2 + l
Sized(piece) == piece.len <= ChunkSize \/ (Len(piece.ids) <= 1 /\ Within(piece.len))

\* Each piece has one sentence at most.
Single(pieces) == \A i \in DOMAIN pieces : Len(pieces[i].ids) <= 1

\* The first k of a list of pieces are what is left of an overlap, the last
\* of them perhaps with a sentence glued to it, each at its place in the
\* overlap; sentences follow.
Laid(pieces, k, start) ==
    \A i \in DOMAIN pieces :
        /\ i > k => pieces[i].len \in Lengths
        /\ i <= k => Within(start[i] + pieces[i].len)
        /\ i < k => start[i] + pieces[i].len + 1 <= start[i + 1]

\* Such a list can follow a text of that length, its separator counted.
Follows(len, pieces) ==
    \E k \in 0..Overlap, start \in [1..Overlap -> 0..Overlap] :
        Laid(pieces, k, start) /\ (k > 0 => len <= start[1])

\* A buffer that is too long can be packed into chunks of such lengths.
Measured ==
    /\ buf.len > ChunkSize => Follows(0, buf.pieces) /\ Single(buf.pieces)
    /\ (pc = "split" /\ buf.len > ChunkSize) => Single(parts)
    /\ (pc = "split" /\ buf.len > ChunkSize /\ acc # Empty) =>
         Sized(acc) /\ Follows(acc.len + 1, parts)

\* The index is that of the last chunk while it is being emitted, and one
\* more at most when the next buffer is packed.
Numbered ==
    /\ index < next
    /\ chunks = << >> => index = 0
    /\ chunks # << >> => chunks[Len(chunks)].index \in {index - 1, index}
    /\ (pc = "overlap") => (chunks # << >> /\ chunks[Len(chunks)].index = index)

Invariant ==
    /\ TypeOK /\ Filled /\ Splitting /\ Accounted
    /\ Measured /\ SizeBounded
    /\ Numbered /\ IndexesInOrder

USE ChunkerAssumption DEF ChunkerAssumption

-----------------------------------------------------------------------------
(* Lists of sentences, of pieces and of chunks.                            *)

LEMMA BeforeUnion ==
    ASSUME NEW X, NEW Y, NEW Z
    PROVE  /\ Before(X, Z) /\ Before(Y, Z) => Before(X \cup Y, Z)
           /\ Before(X, Y) /\ Before(X, Z) => Before(X, Y \cup Z)
BY DEF Before

LEMMA BeforeSubset ==
    ASSUME NEW X, NEW Y, NEW U, NEW V, Before(X, Y), U \subseteq X, V \subseteq Y
    PROVE  Before(U, V)
BY DEF Before

LEMMA EmptyIds ==
    /\ El(<< >>) = {} /\ Rising(<< >>)
    /\ AllIds(<< >>) = {} /\ Ordered(<< >>)
BY DEF El, Rising, AllIds, Ordered

\* Two lists joined.
IsJoin(u, s, t) ==
    /\ Len(u) = Len(s) + Len(t)
    /\ \A k \in 1..Len(s) : u[k] = s[k]
    /\ \A k \in 1..Len(t) : u[Len(s) + k] = t[k]

LEMMA Joined ==
    ASSUME NEW S, NEW s \in Seq(S), NEW t \in Seq(S)
    PROVE  s \o t \in Seq(S) /\ IsJoin(s \o t, s, t)
<1>1. Len(s) \in Nat /\ Len(t) \in Nat
  OBVIOUS
<1>2. /\ s \o t \in Seq(S)
      /\ Len(s \o t) = Len(s) + Len(t)
      /\ \A i \in 1..(Len(s) + Len(t)) :
            (s \o t)[i] = IF i <= Len(s) THEN s[i] ELSE t[i - Len(s)]
  BY ConcatProperties
<1>3. PICK u : u = s \o t
  OBVIOUS
<1>4. /\ u \in Seq(S)
      /\ Len(u) = Len(s) + Len(t)
      /\ \A i \in 1..(Len(s) + Len(t)) : u[i] = IF i <= Len(s) THEN s[i] ELSE t[i - Len(s)]
  BY <1>2, <1>3
<1>5. \A k \in 1..Len(s) : u[k] = s[k]
  BY <1>1, <1>4
<1>6. ASSUME NEW k \in 1..Len(t) PROVE u[Len(s) + k] = t[k]
  <2>1. Len(s) + k \in 1..(Len(s) + Len(t)) /\ ~(Len(s) + k <= Len(s))
    BY <1>1
  <2>2. (Len(s) + k) - Len(s) = k
    BY <1>1
  <2> QED
    BY <1>4, <2>1, <2>2
<1> QED
  BY <1>3, <1>4, <1>5, <1>6 DEF IsJoin

\* An index of a joined list is one of the first or of the second.
Indexed(u, s, t) ==
    /\ \A k \in DOMAIN u : k \in DOMAIN s \/ \E j \in DOMAIN t : k = Len(s) + j
    /\ \A k \in DOMAIN s : k \in DOMAIN u /\ u[k] = s[k] /\ k <= Len(s)
    /\ \A j \in DOMAIN t : Len(s) + j \in DOMAIN u /\ u[Len(s) + j] = t[j] /\ j \in Nat /\ j > 0
    /\ Len(s) \in Nat
    /\ \A k \in DOMAIN u : k \in Nat

LEMMA JoinIndexes ==
    ASSUME NEW S, NEW s \in Seq(S), NEW t \in Seq(S), NEW u \in Seq(S), IsJoin(u, s, t)
    PROVE  Indexed(u, s, t)
<1>1. /\ DOMAIN u = 1..Len(u) /\ DOMAIN s = 1..Len(s) /\ DOMAIN t = 1..Len(t)
      /\ Len(u) = Len(s) + Len(t) /\ Len(s) \in Nat /\ Len(t) \in Nat
  BY DEF IsJoin
<1>2. ASSUME NEW k \in DOMAIN u, k \notin DOMAIN s
      PROVE  \E j \in DOMAIN t : k = Len(s) + j
  <2>1. k - Len(s) \in DOMAIN t /\ k = Len(s) + (k - Len(s))
    BY <1>1, <1>2
  <2> QED
    BY <2>1
<1>3. \A k \in DOMAIN s : k \in DOMAIN u /\ u[k] = s[k] /\ k <= Len(s)
  BY <1>1 DEF IsJoin
<1>4. ASSUME NEW j \in DOMAIN t
      PROVE  Len(s) + j \in DOMAIN u /\ u[Len(s) + j] = t[j] /\ j \in Nat /\ j > 0
  <2>1. j \in 1..Len(t) /\ u[Len(s) + j] = t[j]
    BY <1>1 DEF IsJoin
  <2>2. Len(s) + j \in 1..Len(u) /\ j \in Nat /\ j > 0
    BY <1>1, <2>1
  <2> QED
    BY <1>1, <2>1, <2>2
<1> QED
  BY <1>1, <1>2, <1>3, <1>4 DEF Indexed

LEMMA JoinedIds ==
    ASSUME NEW S, NEW s \in Seq(S), NEW t \in Seq(S)
    PROVE  /\ El(s \o t) = El(s) \cup El(t)
           /\ (Rising(s) /\ Rising(t) /\ Before(El(s), El(t))) => Rising(s \o t)
<1>1. PICK u \in Seq(S) : u = s \o t /\ IsJoin(u, s, t)
  BY Joined
<1>2. /\ \A k \in DOMAIN u : k \in DOMAIN s \/ \E j \in DOMAIN t : k = Len(s) + j
      /\ \A k \in DOMAIN s : k \in DOMAIN u /\ u[k] = s[k] /\ k <= Len(s)
      /\ \A j \in DOMAIN t : Len(s) + j \in DOMAIN u /\ u[Len(s) + j] = t[j] /\ j \in Nat /\ j > 0
      /\ Len(s) \in Nat
      /\ \A k \in DOMAIN u : k \in Nat
  <2>1. Indexed(u, s, t)
    BY <1>1, JoinIndexes
  <2> QED
    BY <2>1 DEF Indexed
<1>3. El(u) = El(s) \cup El(t)
  <2>1. ASSUME NEW x \in El(u) PROVE x \in El(s) \cup El(t)
    <3>1. PICK k \in DOMAIN u : x = u[k]
      BY DEF El
    <3>2. CASE k \in DOMAIN s
      BY <1>2, <3>1, <3>2 DEF El
    <3>3. CASE \E j \in DOMAIN t : k = Len(s) + j
      <4>1. PICK j \in DOMAIN t : k = Len(s) + j
        BY <3>3
      <4>2. x = t[j]
        BY <1>2, <3>1, <4>1
      <4> QED
        BY <4>2 DEF El
    <3> QED
      BY <1>2, <3>2, <3>3
  <2>2. ASSUME NEW x \in El(s) PROVE x \in El(u)
    <3>1. PICK k \in DOMAIN s : x = s[k]
      BY DEF El
    <3>2. k \in DOMAIN u /\ u[k] = x
      BY <1>2, <3>1
    <3> QED
      BY <3>2 DEF El
  <2>3. ASSUME NEW x \in El(t) PROVE x \in El(u)
    <3>1. PICK k \in DOMAIN t : x = t[k]
      BY DEF El
    <3>2. Len(s) + k \in DOMAIN u /\ u[Len(s) + k] = x
      BY <1>2, <3>1
    <3> QED
      BY <3>2 DEF El
  <2> QED
    BY <2>1, <2>2, <2>3
<1>4. ASSUME Rising(s), Rising(t), Before(El(s), El(t)) PROVE Rising(u)
  <2> SUFFICES ASSUME NEW k \in DOMAIN u, NEW l \in DOMAIN u, k < l
               PROVE  Earlier(u[k], u[l])
    BY DEF Rising
  <2>1. CASE k \in DOMAIN s /\ l \in DOMAIN s
    BY <1>2, <1>4, <2>1 DEF Rising
  <2>2. CASE k \in DOMAIN s /\ l \notin DOMAIN s
    <3>1. PICK j \in DOMAIN t : l = Len(s) + j
      BY <1>2, <2>2
    <3>2. u[k] = s[k] /\ u[l] = t[j]
      BY <1>2, <2>2, <3>1
    <3>3. s[k] \in El(s) /\ t[j] \in El(t)
      BY <2>2 DEF El
    <3> QED
      BY <1>4, <3>2, <3>3 DEF Before
  <2>3. CASE k \notin DOMAIN s
    <3>1. PICK i \in DOMAIN t : k = Len(s) + i
      BY <1>2, <2>3
    <3>2. l \notin DOMAIN s
      BY <1>2, <3>1
    <3>3. PICK j \in DOMAIN t : l = Len(s) + j
      BY <1>2, <3>2
    <3>4. i < j
      BY <1>2, <3>1, <3>3
    <3>5. u[k] = t[i] /\ u[l] = t[j]
      BY <1>2, <3>1, <3>3
    <3> QED
      BY <1>4, <3>4, <3>5 DEF Rising
  <2> QED
    BY <2>1, <2>2, <2>3
<1> QED
  BY <1>1, <1>3, <1>4

LEMMA JoinedPieces ==
    ASSUME NEW S, NEW s \in Seq(S), NEW t \in Seq(S)
    PROVE  /\ s \o t \in Seq(S)
           /\ AllIds(s \o t) = AllIds(s) \cup AllIds(t)
           /\ (Ordered(s) /\ Ordered(t) /\ Before(AllIds(s), AllIds(t))) => Ordered(s \o t)
<1>1. PICK u \in Seq(S) : u = s \o t /\ IsJoin(u, s, t)
  BY Joined
<1>2. /\ \A k \in DOMAIN u : k \in DOMAIN s \/ \E j \in DOMAIN t : k = Len(s) + j
      /\ \A k \in DOMAIN s : k \in DOMAIN u /\ u[k] = s[k] /\ k <= Len(s)
      /\ \A j \in DOMAIN t : Len(s) + j \in DOMAIN u /\ u[Len(s) + j] = t[j] /\ j \in Nat /\ j > 0
      /\ Len(s) \in Nat
      /\ \A k \in DOMAIN u : k \in Nat
  <2>1. Indexed(u, s, t)
    BY <1>1, JoinIndexes
  <2> QED
    BY <2>1 DEF Indexed
<1>3. AllIds(u) = AllIds(s) \cup AllIds(t)
  <2>1. ASSUME NEW x \in AllIds(u) PROVE x \in AllIds(s) \cup AllIds(t)
    <3>1. PICK k \in DOMAIN u : x \in El(u[k].ids)
      BY DEF AllIds
    <3>2. CASE k \in DOMAIN s
      BY <1>2, <3>1, <3>2 DEF AllIds
    <3>3. CASE \E j \in DOMAIN t : k = Len(s) + j
      <4>1. PICK j \in DOMAIN t : k = Len(s) + j
        BY <3>3
      <4>2. x \in El(t[j].ids)
        BY <1>2, <3>1, <4>1
      <4> QED
        BY <4>2 DEF AllIds
    <3> QED
      BY <1>2, <3>2, <3>3
  <2>2. ASSUME NEW x \in AllIds(s) PROVE x \in AllIds(u)
    <3>1. PICK k \in DOMAIN s : x \in El(s[k].ids)
      BY DEF AllIds
    <3>2. k \in DOMAIN u /\ x \in El(u[k].ids)
      BY <1>2, <3>1
    <3> QED
      BY <3>2 DEF AllIds
  <2>3. ASSUME NEW x \in AllIds(t) PROVE x \in AllIds(u)
    <3>1. PICK k \in DOMAIN t : x \in El(t[k].ids)
      BY DEF AllIds
    <3>2. Len(s) + k \in DOMAIN u /\ x \in El(u[Len(s) + k].ids)
      BY <1>2, <3>1
    <3> QED
      BY <3>2 DEF AllIds
  <2> QED
    BY <2>1, <2>2, <2>3
<1>4. ASSUME Ordered(s), Ordered(t), Before(AllIds(s), AllIds(t)) PROVE Ordered(u)
  <2>1. ASSUME NEW k \in DOMAIN u PROVE Rising(u[k].ids)
    <3>1. CASE k \in DOMAIN s
      BY <1>2, <1>4, <3>1 DEF Ordered
    <3>2. CASE \E j \in DOMAIN t : k = Len(s) + j
      <4>1. PICK j \in DOMAIN t : k = Len(s) + j
        BY <3>2
      <4> QED
        BY <1>2, <1>4, <4>1 DEF Ordered
    <3> QED
      BY <1>2, <3>1, <3>2
  <2>2. ASSUME NEW k \in DOMAIN u, NEW l \in DOMAIN u, k < l
        PROVE  Before(El(u[k].ids), El(u[l].ids))
    <3>1. CASE k \in DOMAIN s /\ l \in DOMAIN s
      BY <1>2, <1>4, <2>2, <3>1 DEF Ordered
    <3>2. CASE k \in DOMAIN s /\ l \notin DOMAIN s
      <4>1. PICK j \in DOMAIN t : l = Len(s) + j
        BY <1>2, <3>2
      <4>2. u[k] = s[k] /\ u[l] = t[j]
        BY <1>2, <3>2, <4>1
      <4>3. El(s[k].ids) \subseteq AllIds(s) /\ El(t[j].ids) \subseteq AllIds(t)
        BY <3>2 DEF AllIds
      <4> QED
        BY <1>4, <4>2, <4>3, BeforeSubset
    <3>3. CASE k \notin DOMAIN s
      <4>1. PICK i \in DOMAIN t : k = Len(s) + i
        BY <1>2, <3>3
      <4>2. l \notin DOMAIN s
        BY <1>2, <2>2, <4>1
      <4>3. PICK j \in DOMAIN t : l = Len(s) + j
        BY <1>2, <4>2
      <4>4. i < j
        BY <1>2, <2>2, <4>1, <4>3
      <4>5. u[k] = t[i] /\ u[l] = t[j]
        BY <1>2, <4>1, <4>3
      <4> QED
        BY <1>4, <4>4, <4>5 DEF Ordered
    <3> QED
      BY <3>1, <3>2, <3>3
  <2> QED
    BY <2>1, <2>2 DEF Ordered
<1> QED
  BY <1>1, <1>3, <1>4

LEMMA Singleton ==
    ASSUME NEW S, NEW x \in S
    PROVE  <<x>> \in Seq(S) /\ DOMAIN <<x>> = {1} /\ <<x>>[1] = x /\ Len(<<x>>) = 1
OBVIOUS

LEMMA OnePiece ==
    ASSUME NEW c
    PROVE  AllIds(<<c>>) = El(c.ids) /\ (Rising(c.ids) => Ordered(<<c>>))
<1>1. DOMAIN <<c>> = {1} /\ <<c>>[1] = c
  OBVIOUS
<1> QED
  BY <1>1 DEF AllIds, Ordered

LEMMA AppendedPiece ==
    ASSUME NEW S, NEW s \in Seq(S), NEW c \in S
    PROVE  /\ Append(s, c) \in Seq(S)
           /\ AllIds(Append(s, c)) = AllIds(s) \cup El(c.ids)
           /\ (Ordered(s) /\ Rising(c.ids) /\ Before(AllIds(s), El(c.ids))) =>
                Ordered(Append(s, c))
<1>1. <<c>> \in Seq(S) /\ Append(s, c) = s \o <<c>>
  BY AppendIsConcat
<1>2. PICK t \in Seq(S) : t = <<c>>
  BY <1>1
<1>3. AllIds(t) = El(c.ids) /\ (Rising(c.ids) => Ordered(t))
  BY <1>2, OnePiece
<1>4. /\ s \o t \in Seq(S)
      /\ AllIds(s \o t) = AllIds(s) \cup AllIds(t)
      /\ (Ordered(s) /\ Ordered(t) /\ Before(AllIds(s), AllIds(t))) => Ordered(s \o t)
  BY JoinedPieces
<1> QED
  BY <1>1, <1>2, <1>3, <1>4

\* What a list of pieces, its first and the others have to do with each other.
IsRest(t, s) ==
    /\ Len(t) = Len(s) - 1
    /\ \A k \in DOMAIN t : k + 1 \in DOMAIN s /\ t[k] = s[k + 1] /\ k \in Nat \ {0}
    /\ 1 \in DOMAIN s
    /\ \A k \in DOMAIN s : k \in Nat /\ (k = 1 \/ k - 1 \in DOMAIN t)

LEMMA FirstPiece ==
    ASSUME NEW S, NEW s \in Seq(S), s # << >>
    PROVE  /\ Head(s) \in S /\ Tail(s) \in Seq(S)
           /\ Head(s) = s[1]
           /\ IsRest(Tail(s), s)
<1>1. Len(s) \in Nat \ {0} /\ DOMAIN s = 1..Len(s)
  BY EmptySeq
<1>2. /\ Tail(s) \in Seq(S)
      /\ Len(Tail(s)) = Len(s) - 1
      /\ \A k \in 1..(Len(s) - 1) : Tail(s)[k] = s[k + 1]
      /\ Head(s) = s[1]
      /\ Head(s) \in S
  BY HeadTailProperties
<1>3. DOMAIN Tail(s) = 1..(Len(s) - 1)
  BY <1>1, <1>2
<1>4. PICK t : t = Tail(s)
  OBVIOUS
<1>5. /\ Len(t) = Len(s) - 1
      /\ \A k \in DOMAIN t : k + 1 \in DOMAIN s /\ t[k] = s[k + 1] /\ k \in Nat \ {0}
      /\ 1 \in DOMAIN s
      /\ \A k \in DOMAIN s : k \in Nat /\ (k = 1 \/ k - 1 \in DOMAIN t)
  BY <1>1, <1>2, <1>3, <1>4
<1> QED
  BY <1>2, <1>4, <1>5 DEF IsRest

LEMMA TailPieces ==
    ASSUME NEW S, NEW s \in Seq(S), s # << >>
    PROVE  /\ AllIds(s) = El(Head(s).ids) \cup AllIds(Tail(s))
           /\ Ordered(s) => /\ Ordered(Tail(s))
                            /\ Rising(Head(s).ids)
                            /\ Before(El(Head(s).ids), AllIds(Tail(s)))
<1>1. PICK t \in Seq(S), h \in S : t = Tail(s) /\ h = Head(s)
  BY FirstPiece
<1>2. /\ \A k \in DOMAIN t : k + 1 \in DOMAIN s /\ t[k] = s[k + 1] /\ k \in Nat \ {0}
      /\ 1 \in DOMAIN s /\ h = s[1]
      /\ \A k \in DOMAIN s : k = 1 \/ k - 1 \in DOMAIN t
      /\ \A k \in DOMAIN s : k \in Nat
  <2>1. IsRest(t, s) /\ h = s[1]
    BY <1>1, FirstPiece
  <2> QED
    BY <2>1 DEF IsRest
<1>3. AllIds(s) = El(h.ids) \cup AllIds(t)
  <2>1. ASSUME NEW x \in AllIds(s) PROVE x \in El(h.ids) \cup AllIds(t)
    <3>1. PICK k \in DOMAIN s : x \in El(s[k].ids)
      BY DEF AllIds
    <3>2. CASE k = 1
      BY <1>2, <3>1, <3>2
    <3>3. CASE k - 1 \in DOMAIN t
      <4>1. t[k - 1] = s[k]
        BY <1>2, <3>3
      <4> QED
        BY <3>1, <3>3, <4>1 DEF AllIds
    <3> QED
      BY <1>2, <3>2, <3>3
  <2>2. El(h.ids) \subseteq AllIds(s)
    BY <1>2 DEF AllIds
  <2>3. ASSUME NEW x \in AllIds(t) PROVE x \in AllIds(s)
    <3>1. PICK k \in DOMAIN t : x \in El(t[k].ids)
      BY DEF AllIds
    <3>2. k + 1 \in DOMAIN s /\ x \in El(s[k + 1].ids)
      BY <1>2, <3>1
    <3> QED
      BY <3>2 DEF AllIds
  <2> QED
    BY <2>1, <2>2, <2>3
<1>4. ASSUME Ordered(s) PROVE Ordered(t) /\ Rising(h.ids) /\ Before(El(h.ids), AllIds(t))
  <2>1. Rising(h.ids)
    BY <1>2, <1>4 DEF Ordered
  <2>2. \A k \in DOMAIN t : Rising(t[k].ids)
    BY <1>2, <1>4 DEF Ordered
  <2>3. ASSUME NEW k \in DOMAIN t, NEW l \in DOMAIN t, k < l
        PROVE  Before(El(t[k].ids), El(t[l].ids))
    <3>1. k + 1 \in DOMAIN s /\ l + 1 \in DOMAIN s /\ k + 1 < l + 1
      BY <1>2, <2>3
    <3>2. Before(El(s[k + 1].ids), El(s[l + 1].ids))
      BY <1>4, <3>1 DEF Ordered
    <3> QED
      BY <1>2, <3>2
  <2>4. ASSUME NEW k \in DOMAIN t PROVE Before(El(h.ids), El(t[k].ids))
    <3>1. k + 1 \in DOMAIN s /\ 1 < k + 1
      BY <1>2
    <3>2. Before(El(s[1].ids), El(s[k + 1].ids))
      BY <1>2, <1>4, <3>1 DEF Ordered
    <3> QED
      BY <1>2, <3>2
  <2>5. Before(El(h.ids), AllIds(t))
    BY <2>4 DEF Before, AllIds
  <2> QED
    BY <2>1, <2>2, <2>3, <2>5 DEF Ordered
<1> QED
  BY <1>1, <1>3, <1>4

LEMMA LastPiece ==
    ASSUME NEW S, NEW s \in Seq(S), s # << >>
    PROVE  /\ Last(s) \in S /\ Front(s) \in Seq(S)
           /\ Len(Front(s)) = Len(s) - 1
           /\ \A k \in DOMAIN Front(s) : k \in DOMAIN s /\ Front(s)[k] = s[k] /\ k < Len(s)
           /\ Len(s) \in DOMAIN s /\ Last(s) = s[Len(s)]
           /\ \A k \in DOMAIN s : k = Len(s) \/ k \in DOMAIN Front(s)
<1>1. Len(s) \in Nat \ {0} /\ DOMAIN s = 1..Len(s) /\ \A k \in 1..Len(s) : s[k] \in S
  BY EmptySeq
<1>2. PICK f, n : f = Front(s) /\ n = Len(s) - 1
  OBVIOUS
<1>3. /\ f \in Seq(S) /\ Len(f) = n
      /\ \A k \in 1..n : f[k] = s[k]
  <2>1. n \in Nat /\ f = SubSeq(s, 1, n)
    BY <1>1, <1>2 DEF Front
  <2>2. \A k \in 1..n : s[k] \in S
    BY <1>1, <1>2
  <2> QED
    BY <1>1, <1>2, <2>1, <2>2
<1>4. DOMAIN f = 1..n
  BY <1>3
<1> QED
  BY <1>1, <1>2, <1>3, <1>4 DEF Last

LEMMA FrontPieces ==
    ASSUME NEW S, NEW s \in Seq(S), s # << >>
    PROVE  /\ AllIds(s) = AllIds(Front(s)) \cup El(Last(s).ids)
           /\ Ordered(s) => /\ Ordered(Front(s))
                            /\ Rising(Last(s).ids)
                            /\ Before(AllIds(Front(s)), El(Last(s).ids))
<1>1. PICK f \in Seq(S), z \in S : f = Front(s) /\ z = Last(s)
  BY LastPiece
<1>2. /\ \A k \in DOMAIN f : k \in DOMAIN s /\ f[k] = s[k] /\ k < Len(s)
      /\ Len(s) \in DOMAIN s /\ z = s[Len(s)]
      /\ \A k \in DOMAIN s : k = Len(s) \/ k \in DOMAIN f
  BY <1>1, LastPiece
<1>3. AllIds(s) = AllIds(f) \cup El(z.ids)
  BY <1>2 DEF AllIds
<1>4. ASSUME Ordered(s) PROVE Ordered(f) /\ Rising(z.ids) /\ Before(AllIds(f), El(z.ids))
  <2>1. Ordered(f) /\ Rising(z.ids)
    BY <1>2, <1>4 DEF Ordered
  <2>2. \A k \in DOMAIN f : Before(El(f[k].ids), El(z.ids))
    BY <1>2, <1>4 DEF Ordered
  <2> QED
    BY <2>1, <2>2 DEF Before, AllIds
<1> QED
  BY <1>1, <1>3, <1>4

-----------------------------------------------------------------------------
(* The operators of the chunker.                                           *)

Buffers == [len : Nat, ids : Seq(AllSentences), pieces : Seq(Piece), closed : BOOLEAN]

\* A buffer that was filled, and that its pieces make up.
Sound(b) ==
    /\ b \in Buffers
    /\ b.len > 0 /\ b.pieces # << >>
    /\ \A i \in DOMAIN b.pieces : b.pieces[i].len > 0
    /\ Rising(b.ids)
    /\ Ordered(b.pieces)
    /\ AllIds(b.pieces) = El(b.ids)

LEMMA TextShape ==
    ASSUME text \in Texts
    PROVE  /\ text \in Seq(Paragraphs) /\ Len(text) \in 0..MaxParagraphs
           /\ DOMAIN text = 1..Len(text)
           /\ \A n \in DOMAIN text : text[n] \in Paragraphs
<1>1. PICK n \in 0..MaxParagraphs : text \in [1..n -> Paragraphs]
  BY DEF Texts
<1> QED
  BY <1>1

LEMMA ParagraphShape ==
    ASSUME NEW p \in Paragraphs
    PROVE  \E n \in 1..MaxSentences :
             /\ p.ends \in [1..n -> 1..MaxLength]
             /\ Len(p.ends) = n /\ n > 0
             /\ p.closed \in BOOLEAN
             /\ \A s \in 1..n : SentenceLength(p.ends, s) \in Lengths
<1>1. PICK n \in 1..MaxSentences : p.ends \in [1..n -> 1..MaxLength]
  BY DEF Paragraphs
<1>2. /\ p.closed \in BOOLEAN
      /\ \A s \in DOMAIN p.ends : SentenceLength(p.ends, s) \in Lengths
  BY DEF Paragraphs
<1> QED
  BY <1>1, <1>2

LEMMA ParagraphSound ==
    ASSUME text \in Texts, NEW n \in DOMAIN text
    PROVE  /\ Sound(Paragraph(n))
           /\ El(Paragraph(n).ids) = {<<n, s>> : s \in DOMAIN text[n].ends}
           /\ \A i \in DOMAIN Paragraph(n).pieces : Paragraph(n).pieces[i].len \in Lengths
           /\ Single(Paragraph(n).pieces)
<1>1. text[n] \in Paragraphs /\ n \in 1..MaxParagraphs
  BY TextShape
<1>0. PICK e : e = text[n].ends
  OBVIOUS
<1>2. PICK m \in 1..MaxSentences :
         /\ e \in [1..m -> 1..MaxLength]
         /\ Len(e) = m /\ m > 0
         /\ text[n].closed \in BOOLEAN
         /\ \A s \in 1..m : SentenceLength(e, s) \in Lengths
  BY <1>1, <1>0, ParagraphShape
<1>3. PICK b : b = Paragraph(n)
  OBVIOUS
<1>4. /\ b.len = e[m]
      /\ b.ids = [s \in 1..m |-> <<n, s>>]
      /\ b.pieces = [s \in 1..m |-> [len |-> SentenceLength(e, s), ids |-> <<<<n, s>>>>]]
      /\ b.closed = text[n].closed
      /\ b = [len |-> b.len, ids |-> b.ids, pieces |-> b.pieces, closed |-> b.closed]
  BY <1>2, <1>3, <1>0 DEF Paragraph, Last
<1>5. \A s \in 1..m : <<n, s>> \in AllSentences
  BY <1>1 DEF AllSentences
<1>6. b.ids \in Seq(AllSentences)
  <2>1. m \in Nat
    OBVIOUS
  <2> QED
    BY <1>4, <1>5, <2>1
<1>7. ASSUME NEW s \in 1..m
      PROVE  /\ b.pieces[s] \in Piece
             /\ b.pieces[s].len \in Lengths
             /\ El(b.pieces[s].ids) = {<<n, s>>}
             /\ Rising(b.pieces[s].ids)
             /\ Len(b.pieces[s].ids) <= 1
  <2>1. PICK x \in AllSentences : x = <<n, s>>
    BY <1>5
  <2>2. /\ b.pieces[s] = [len |-> SentenceLength(e, s), ids |-> <<x>>]
        /\ SentenceLength(e, s) \in Nat /\ SentenceLength(e, s) \in Lengths
    BY <1>2, <1>4, <2>1
  <2>3. <<x>> \in Seq(AllSentences)
    OBVIOUS
  <2>4. b.pieces[s] \in Piece
    BY <2>2, <2>3 DEF Piece
  <2>5. DOMAIN <<x>> = {1} /\ <<x>>[1] = x /\ Len(<<x>>) = 1
    OBVIOUS
  <2>6. El(<<x>>) = {x} /\ Rising(<<x>>)
    BY <2>5 DEF El, Rising
  <2>7. b.pieces[s].ids = <<x>> /\ b.pieces[s].len = SentenceLength(e, s)
    BY <2>2
  <2> QED
    BY <2>1, <2>2, <2>4, <2>5, <2>6, <2>7
<1>8. DOMAIN b.pieces = 1..m /\ DOMAIN b.ids = 1..m
  BY <1>4
<1>9. b.pieces \in Seq(Piece)
  <2>1. m \in Nat
    OBVIOUS
  <2>2. b.pieces \in [1..m -> Piece]
    BY <1>4, <1>7
  <2> QED
    BY <2>1, <2>2
<1>10. b \in Buffers
  <2>1. b.len \in Nat /\ b.closed \in BOOLEAN
    BY <1>2, <1>4
  <2> QED
    BY <1>4, <1>6, <1>9, <2>1 DEF Buffers
<1>11. b.len > 0 /\ b.pieces # << >>
  BY <1>2, <1>4, <1>8
<1>12. Rising(b.ids)
  BY <1>4, <1>8 DEF Rising, Earlier
<1>13. Ordered(b.pieces)
  BY <1>7, <1>8 DEF Ordered, Before, Earlier
<1>14. El(b.ids) = {<<n, s>> : s \in 1..m}
  BY <1>4, <1>8 DEF El
<1>15. AllIds(b.pieces) = {<<n, s>> : s \in 1..m}
  BY <1>7, <1>8 DEF AllIds
<1>16. \A i \in DOMAIN b.pieces : b.pieces[i].len \in Lengths /\ b.pieces[i].len > 0
  <2>1. \A l \in Lengths : l > 0
    OBVIOUS
  <2> QED
    BY <1>7, <1>8, <2>1
<1>17. Single(b.pieces)
  BY <1>7, <1>8 DEF Single
<1> QED
  BY <1>2, <1>0, <1>3, <1>10, <1>11, <1>12, <1>13, <1>14, <1>15, <1>16, <1>17 DEF Sound

LEMMA GlueShape ==
    ASSUME NEW a \in Piece, NEW b \in Piece, NEW gap \in Nat
    PROVE  /\ Glue(a, gap, b) \in Piece
           /\ Glue(a, gap, b).len = a.len + gap + b.len
           /\ El(Glue(a, gap, b).ids) = El(a.ids) \cup El(b.ids)
           /\ (Rising(a.ids) /\ Rising(b.ids) /\ Before(El(a.ids), El(b.ids))) =>
                Rising(Glue(a, gap, b).ids)
<1>1. /\ a.ids \in Seq(AllSentences) /\ b.ids \in Seq(AllSentences)
      /\ a.len \in Nat /\ b.len \in Nat
  BY DEF Piece
<1>2. PICK ids \in Seq(AllSentences) : ids = a.ids \o b.ids
  BY <1>1, ConcatProperties
<1>3. /\ El(ids) = El(a.ids) \cup El(b.ids)
      /\ (Rising(a.ids) /\ Rising(b.ids) /\ Before(El(a.ids), El(b.ids))) => Rising(ids)
  BY <1>1, <1>2, JoinedIds
<1>4. Glue(a, gap, b) = [len |-> a.len + gap + b.len, ids |-> ids]
  BY <1>2 DEF Glue
<1> QED
  BY <1>1, <1>3, <1>4 DEF Piece

\* Glued to a piece that has no sentence, a piece keeps its own.
LEMMA GlueToNone ==
    ASSUME NEW a \in Piece, NEW b \in Piece, NEW gap \in Nat, a.ids = << >>
    PROVE  Glue(a, gap, b).ids = b.ids
<1>1. b.ids \in Seq(AllSentences)
  BY DEF Piece
<1>2. << >> \o b.ids = b.ids
  BY <1>1, ConcatEmptySeq
<1> QED
  BY <1>2 DEF Glue

\* The pieces of two buffers put together when nothing separates the last of
\* the one from the first of the other.
LEMMA GluedPieces ==
    ASSUME NEW a \in Buffers, NEW b \in Buffers, Sound(a), Sound(b),
           Before(El(a.ids), El(b.ids)),
           NEW u, u = Front(a.pieces) \o <<Glue(Last(a.pieces), 2, Head(b.pieces))>>
                                      \o Tail(b.pieces)
    PROVE  /\ u \in Seq(Piece) /\ u # << >>
           /\ Ordered(u)
           /\ AllIds(u) = El(a.ids) \cup El(b.ids)
           /\ \A i \in DOMAIN u : u[i].len > 0
<1>1. /\ a.pieces \in Seq(Piece) /\ a.pieces # << >> /\ Ordered(a.pieces)
      /\ b.pieces \in Seq(Piece) /\ b.pieces # << >> /\ Ordered(b.pieces)
      /\ AllIds(a.pieces) = El(a.ids) /\ AllIds(b.pieces) = El(b.ids)
      /\ \A i \in DOMAIN a.pieces : a.pieces[i].len > 0
      /\ \A i \in DOMAIN b.pieces : b.pieces[i].len > 0
  BY DEF Sound, Buffers
<1>2. PICK f \in Seq(Piece), z \in Piece : f = Front(a.pieces) /\ z = Last(a.pieces)
  BY <1>1, LastPiece
<1>3. PICK t \in Seq(Piece), h \in Piece : t = Tail(b.pieces) /\ h = Head(b.pieces)
  BY <1>1, FirstPiece
<1>4. PICK g \in Piece :
         /\ g = Glue(z, 2, h)
         /\ g.len = z.len + 2 + h.len
         /\ El(g.ids) = El(z.ids) \cup El(h.ids)
         /\ (Rising(z.ids) /\ Rising(h.ids) /\ Before(El(z.ids), El(h.ids))) => Rising(g.ids)
  BY GlueShape
<1>5. /\ El(a.ids) = AllIds(f) \cup El(z.ids)
      /\ Ordered(f) /\ Rising(z.ids) /\ Before(AllIds(f), El(z.ids))
  BY <1>1, <1>2, FrontPieces
<1>6. /\ El(b.ids) = El(h.ids) \cup AllIds(t)
      /\ Ordered(t) /\ Rising(h.ids) /\ Before(El(h.ids), AllIds(t))
  BY <1>1, <1>3, TailPieces
<1>7. /\ Before(El(z.ids), El(h.ids))
      /\ Before(AllIds(f), El(h.ids))
      /\ Before(AllIds(f), AllIds(t))
      /\ Before(El(z.ids), AllIds(t))
  BY <1>5, <1>6 DEF Before
<1>8. PICK v \in Seq(Piece) :
         /\ v = Append(f, g)
         /\ AllIds(v) = AllIds(f) \cup El(g.ids)
         /\ Ordered(v)
  <2>1. Rising(g.ids) /\ Before(AllIds(f), El(g.ids))
    BY <1>4, <1>5, <1>6, <1>7 DEF Before
  <2> QED
    BY <1>5, <2>1, AppendedPiece
<1>9. u = v \o t
  <2>1. <<g>> \in Seq(Piece) /\ v = f \o <<g>>
    BY <1>8, AppendIsConcat
  <2> QED
    BY <1>2, <1>3, <1>4, <2>1
<1>10. /\ u \in Seq(Piece)
       /\ AllIds(u) = AllIds(v) \cup AllIds(t)
       /\ Ordered(u)
  <2>1. Before(AllIds(v), AllIds(t))
    BY <1>4, <1>6, <1>7, <1>8 DEF Before
  <2>2. /\ v \o t \in Seq(Piece)
        /\ AllIds(v \o t) = AllIds(v) \cup AllIds(t)
        /\ Ordered(v) /\ Ordered(t) /\ Before(AllIds(v), AllIds(t)) => Ordered(v \o t)
    BY JoinedPieces
  <2> QED
    BY <1>6, <1>8, <1>9, <2>1, <2>2
<1>11. \A i \in DOMAIN f : f[i].len > 0
  BY <1>1, <1>2, LastPiece
<1>12. \A i \in DOMAIN t : t[i].len > 0
  <2>1. IsRest(t, b.pieces)
    BY <1>1, <1>3, FirstPiece
  <2> QED
    BY <1>1, <2>1 DEF IsRest
<1>13. g.len > 0
  <2>1. z.len \in Nat /\ h.len \in Nat
    BY DEF Piece
  <2> QED
    BY <1>4, <2>1
<1>14. \A i \in DOMAIN v : v[i].len > 0
  BY <1>8, <1>11, <1>13
<1>15. \A i \in DOMAIN u : u[i].len > 0
  <2>1. Indexed(u, v, t)
    BY <1>9, Joined, JoinIndexes
  <2>2. ASSUME NEW i \in DOMAIN u PROVE u[i].len > 0
    <3>1. CASE i \in DOMAIN v
      BY <1>14, <2>1, <3>1 DEF Indexed
    <3>2. CASE \E j \in DOMAIN t : i = Len(v) + j
      BY <1>12, <2>1, <3>2 DEF Indexed
    <3> QED
      BY <2>1, <3>1, <3>2 DEF Indexed
  <2> QED
    BY <2>2
<1>16. u # << >>
  <2>1. Len(v) = Len(f) + 1
    BY <1>8
  <2>2. 1 \in DOMAIN v
    BY <2>1, <1>8
  <2>3. Indexed(u, v, t)
    BY <1>9, Joined, JoinIndexes
  <2> QED
    BY <2>2, <2>3 DEF Indexed
<1> QED
  BY <1>4, <1>5, <1>6, <1>8, <1>10, <1>15, <1>16

LEMMA AppendedSound ==
    ASSUME NEW a \in Buffers, NEW b \in Buffers, Sound(a), Sound(b),
           Before(El(a.ids), El(b.ids))
    PROVE  /\ Sound(Append2(a, b))
           /\ Append2(a, b).len = a.len + 2 + b.len
           /\ El(Append2(a, b).ids) = El(a.ids) \cup El(b.ids)
<1>1. PICK c : c = Append2(a, b)
  OBVIOUS
<1>2. PICK u : u = IF a.closed
                     THEN a.pieces \o b.pieces
                     ELSE Front(a.pieces) \o <<Glue(Last(a.pieces), 2, Head(b.pieces))>>
                                          \o Tail(b.pieces)
  OBVIOUS
<1>3. c = [len |-> a.len + 2 + b.len, ids |-> a.ids \o b.ids, pieces |-> u, closed |-> b.closed]
  BY <1>1, <1>2 DEF Append2
<1>4. /\ a.len \in Nat /\ b.len \in Nat /\ b.closed \in BOOLEAN
      /\ a.ids \in Seq(AllSentences) /\ b.ids \in Seq(AllSentences)
      /\ a.pieces \in Seq(Piece) /\ b.pieces \in Seq(Piece)
  BY DEF Buffers
<1>5. PICK ids \in Seq(AllSentences) : ids = a.ids \o b.ids
  BY <1>4, ConcatProperties
<1>6. El(ids) = El(a.ids) \cup El(b.ids) /\ Rising(ids)
  BY <1>4, <1>5, JoinedIds DEF Sound
<1>7. /\ u \in Seq(Piece) /\ u # << >>
      /\ Ordered(u)
      /\ AllIds(u) = El(a.ids) \cup El(b.ids)
      /\ \A i \in DOMAIN u : u[i].len > 0
  <2>1. CASE a.closed
    <3>1. u = a.pieces \o b.pieces
      BY <1>2, <2>1
    <3>2. u \in Seq(Piece) /\ Ordered(u) /\ AllIds(u) = El(a.ids) \cup El(b.ids)
      BY <1>4, <3>1, JoinedPieces DEF Sound
    <3>3. Indexed(u, a.pieces, b.pieces)
      BY <1>4, <3>1, Joined, JoinIndexes
    <3>4. ASSUME NEW i \in DOMAIN u PROVE u[i].len > 0
      <4>1. CASE i \in DOMAIN a.pieces
        BY <3>3, <4>1 DEF Indexed, Sound
      <4>2. CASE \E j \in DOMAIN b.pieces : i = Len(a.pieces) + j
        BY <3>3, <4>2 DEF Indexed, Sound
      <4> QED
        BY <3>3, <4>1, <4>2 DEF Indexed
    <3>5. u # << >>
      <4>1. a.pieces # << >>
        BY DEF Sound
      <4>2. 1 \in DOMAIN a.pieces
        BY <1>4, <4>1, FirstPiece DEF IsRest
      <4> QED
        BY <3>3, <4>2 DEF Indexed
    <3> QED
      BY <3>2, <3>4, <3>5
  <2>2. CASE ~a.closed
    BY <1>2, <2>2, GluedPieces
  <2> QED
    BY <2>1, <2>2
<1>8. /\ c.len = a.len + 2 + b.len /\ c.ids = ids /\ c.pieces = u
      /\ c \in Buffers
  <2>1. PICK n \in Nat : n = a.len + 2 + b.len
    BY <1>4
  <2>2. c = [len |-> n, ids |-> ids, pieces |-> u, closed |-> b.closed]
    BY <1>3, <1>5, <2>1
  <2>3. c \in Buffers
    BY <1>4, <1>7, <2>2 DEF Buffers
  <2> QED
    BY <2>1, <2>2, <2>3
<1>9. c.len > 0
  BY <1>4, <1>8
<1>10. Sound(c)
  BY <1>6, <1>7, <1>8, <1>9 DEF Sound
<1> QED
  BY <1>1, <1>6, <1>8, <1>10

\* The pieces of an overlap.
Pieces(cuts) ==
    [i \in DOMAIN cuts |-> [len |-> cuts[i].to - cuts[i].from, ids |-> << >>]]

LEMMA CutsShape ==
    ASSUME NEW cuts \in Cuts
    PROVE  \E n \in 1..Overlap :
             /\ cuts \in [1..n -> [from : 0..Overlap, to : 0..Overlap]]
             /\ Len(cuts) = n /\ DOMAIN cuts = 1..n
             /\ \A i \in 1..n : cuts[i].from < cuts[i].to
             /\ \A i \in 1..n : i > 1 => cuts[i - 1].to < cuts[i].from
<1>1. PICK n \in 1..Overlap : cuts \in [1..n -> [from : 0..Overlap, to : 0..Overlap]]
  BY DEF Cuts
<1>2. Len(cuts) = n /\ DOMAIN cuts = 1..n
  BY <1>1
<1> QED
  BY <1>1, <1>2 DEF Cuts

LEMMA PiecesSound ==
    ASSUME NEW cuts \in Cuts
    PROVE  /\ Pieces(cuts) \in Seq(Piece) /\ Pieces(cuts) # << >>
           /\ \A i \in DOMAIN Pieces(cuts) : Pieces(cuts)[i].len > 0
           /\ \A i \in DOMAIN Pieces(cuts) : Pieces(cuts)[i].ids = << >>
           /\ Ordered(Pieces(cuts)) /\ AllIds(Pieces(cuts)) = {}
           /\ Last(cuts).to \in Nat \ {0}
<1>1. PICK n \in 1..Overlap :
         /\ cuts \in [1..n -> [from : 0..Overlap, to : 0..Overlap]]
         /\ Len(cuts) = n /\ DOMAIN cuts = 1..n
         /\ \A i \in 1..n : cuts[i].from < cuts[i].to
  BY CutsShape
<1>2. \A i \in 1..n : cuts[i].from \in 0..Overlap /\ cuts[i].to \in 0..Overlap
  BY <1>1
<1>3. PICK u : u = Pieces(cuts)
  OBVIOUS
<1>4. /\ DOMAIN u = 1..n /\ n \in Nat /\ n > 0
      /\ u = [i \in 1..n |-> [len |-> cuts[i].to - cuts[i].from, ids |-> << >>]]
  BY <1>1, <1>3 DEF Pieces
<1>5. ASSUME NEW i \in 1..n
      PROVE  u[i] \in Piece /\ u[i].len > 0 /\ u[i].ids = << >>
  <2>1. PICK m : m = cuts[i].to - cuts[i].from
    OBVIOUS
  <2>2. m \in Nat /\ m > 0
    BY <1>1, <1>2, <2>1
  <2>3. u[i] = [len |-> m, ids |-> << >>]
    BY <1>4, <2>1
  <2> QED
    BY <2>2, <2>3 DEF Piece
<1>6. u \in Seq(Piece)
  <2>1. u \in [1..n -> Piece]
    BY <1>4, <1>5
  <2> QED
    BY <1>4, <2>1
<1>7. u # << >>
  BY <1>4
<1>8. \A i \in 1..n : El(u[i].ids) = {} /\ Rising(u[i].ids)
  BY <1>5, EmptyIds
<1>9. Ordered(u) /\ AllIds(u) = {}
  BY <1>4, <1>8 DEF Ordered, AllIds, Before
<1>10. Last(cuts).to \in Nat \ {0}
  <2>1. Last(cuts) = cuts[n] /\ n \in 1..n
    BY <1>1 DEF Last
  <2> QED
    BY <1>1, <1>2, <2>1
<1> QED
  BY <1>3, <1>4, <1>5, <1>6, <1>7, <1>9, <1>10

LEMMA CarriedSound ==
    ASSUME TypeOK, NEW cuts \in Cuts
    PROVE  /\ Carried(cuts) \in Buffers /\ Sound(Carried(cuts))
           /\ El(Carried(cuts).ids) = {}
           /\ Carried(cuts).pieces = Pieces(cuts)
           /\ Carried(cuts).closed = buf.closed
<1>1. PICK u, n : u = Pieces(cuts) /\ n = Last(cuts).to
  OBVIOUS
<1>2. /\ u \in Seq(Piece) /\ u # << >>
      /\ \A i \in DOMAIN u : u[i].len > 0
      /\ Ordered(u) /\ AllIds(u) = {}
      /\ n \in Nat \ {0}
  BY <1>1, PiecesSound
<1>3. PICK b : b = Carried(cuts)
  OBVIOUS
<1>4. b = [len |-> n, ids |-> << >>, pieces |-> u, closed |-> buf.closed]
  BY <1>1, <1>3 DEF Carried, Pieces
<1>5. b \in Buffers /\ b.len = n /\ b.ids = << >> /\ b.pieces = u /\ b.closed = buf.closed
  BY <1>2, <1>4 DEF Buffers, TypeOK
<1>6. Rising(<< >>) /\ El(<< >>) = {}
  BY EmptyIds
<1>7. Sound(b)
  <2>1. n > 0
    BY <1>2
  <2> QED
    BY <1>2, <1>5, <1>6, <2>1 DEF Sound
<1> QED
  BY <1>1, <1>3, <1>5, <1>6, <1>7

\* A piece of that length at that place is within an overlap.
InOverlap(place, len) == place \in Nat /\ len \in Int /\ place + len <= Overlap

LEMMA GluedWithin ==
    ASSUME NEW place, NEW len, InOverlap(place, len), NEW l \in Lengths
    PROVE  Within(place + (len + 2 + l))
<1>1. place \in Nat /\ len \in Int /\ place + len <= Overlap
  BY DEF InOverlap
<1>2. l \in Nat /\ Overlap \in Nat
  OBVIOUS
<1>3. place + (len + 2 + l) <= Overlap + 2 + l
  BY <1>1, <1>2
<1> QED
  BY <1>3 DEF Within

\* A buffer that starts with an overlap can be packed.
LEMMA CarriedLengths ==
    ASSUME TypeOK, NEW cuts \in Cuts, NEW n \in DOMAIN text
    PROVE  /\ Follows(0, Append2(Carried(cuts), Paragraph(n)).pieces)
           /\ Single(Append2(Carried(cuts), Paragraph(n)).pieces)
<1>1. PICK p : p = Paragraph(n)
  OBVIOUS
<1>2. /\ p \in Buffers /\ Sound(p)
      /\ \A i \in DOMAIN p.pieces : p.pieces[i].len \in Lengths
      /\ \A i \in DOMAIN p.pieces : Len(p.pieces[i].ids) <= 1
  BY <1>1, ParagraphSound DEF Sound, Single, TypeOK
<1>3. p.pieces \in Seq(Piece) /\ p.pieces # << >>
  BY <1>2 DEF Sound, Buffers
<1>4. PICK c \in Seq(Piece) :
         c = Pieces(cuts) /\ c # << >> /\ \A i \in DOMAIN c : c[i].ids = << >>
  BY PiecesSound
<1>5. Carried(cuts).pieces = c /\ Carried(cuts).closed = buf.closed
  BY <1>4, CarriedSound
<1>6. \A l \in Lengths : l \in Nat
  OBVIOUS
<1>7. PICK k \in 1..Overlap :
         /\ cuts \in [1..k -> [from : 0..Overlap, to : 0..Overlap]]
         /\ Len(cuts) = k /\ DOMAIN cuts = 1..k
         /\ \A i \in 1..k : cuts[i].from < cuts[i].to
         /\ \A i \in 1..k : i > 1 => cuts[i - 1].to < cuts[i].from
  BY CutsShape
<1>8. \A i \in 1..k : cuts[i].from \in 0..Overlap /\ cuts[i].to \in 0..Overlap
  BY <1>7
<1>9. /\ DOMAIN c = 1..k /\ Len(c) = k /\ k \in Nat
      /\ \A i \in 1..k : c[i].len = cuts[i].to - cuts[i].from
  <2>1. DOMAIN c = 1..k /\ \A i \in 1..k : c[i].len = cuts[i].to - cuts[i].from
    BY <1>4, <1>7 DEF Pieces
  <2> QED
    BY <1>4, <2>1
<1>10. PICK start \in [1..Overlap -> 0..Overlap] :
          \A i \in 1..k : start[i] = cuts[i].from
  <2>1. [i \in 1..Overlap |-> IF i \in 1..k THEN cuts[i].from ELSE 0]
          \in [1..Overlap -> 0..Overlap]
    BY <1>8
  <2>2. 1..k \subseteq 1..Overlap
    OBVIOUS
  <2> QED
    BY <2>1, <2>2
\* What an overlap piece takes is within the overlap, and ends before the next.
<1>11. ASSUME NEW i \in 1..k
       PROVE  /\ InOverlap(start[i], c[i].len)
              /\ i < k => start[i] + c[i].len + 1 <= start[i + 1]
  <2>1. start[i] + c[i].len = cuts[i].to
    BY <1>8, <1>9, <1>10
  <2>2. ASSUME i < k PROVE cuts[i].to + 1 <= start[i + 1]
    <3>1. i + 1 \in 1..k /\ i + 1 > 1 /\ (i + 1) - 1 = i
      BY <2>2
    <3>2. cuts[i].to < cuts[i + 1].from
      BY <1>7, <3>1
    <3> QED
      BY <1>8, <1>10, <3>1, <3>2
  <2>3. PICK a \in 0..Overlap, b \in 0..Overlap : a = cuts[i].from /\ b = cuts[i].to
    BY <1>8
  <2>4. start[i] = a /\ c[i].len = b - a
    BY <1>9, <1>10, <2>3
  <2>5. a \in Nat /\ b - a \in Int /\ a + (b - a) <= Overlap
    BY <2>3
  <2>6. InOverlap(start[i], c[i].len)
    BY <2>4, <2>5 DEF InOverlap
  <2> QED
    BY <2>1, <2>2, <2>6
<1>12. ASSUME NEW a, NEW b, InOverlap(a, b) PROVE Within(a + b)
  <2>1. PICK l \in Lengths : l \in Nat
    BY <1>6
  <2>2. a + b <= Overlap + 2 + l
    BY <1>12, <2>1 DEF InOverlap
  <2> QED
    BY <2>2 DEF Within
<1>13. PICK u : u = Append2(Carried(cuts), p).pieces
  OBVIOUS
<1>14. CASE buf.closed
  <2>1. u = c \o p.pieces
    BY <1>5, <1>13, <1>14 DEF Append2
  <2>2. Indexed(u, c, p.pieces)
    BY <1>3, <2>1, Joined, JoinIndexes
  <2>3. ASSUME NEW i \in DOMAIN u
        PROVE  /\ i > k => u[i].len \in Lengths
               /\ i <= k => Within(start[i] + u[i].len)
               /\ i < k => start[i] + u[i].len + 1 <= start[i + 1]
               /\ Len(u[i].ids) <= 1
    <3>1. CASE i \in 1..k
      <4>1. u[i] = c[i]
        BY <1>9, <2>2, <3>1 DEF Indexed
      <4>2. ~(i > k)
        BY <3>1
      <4>3. Within(start[i] + c[i].len) /\ (i < k => start[i] + c[i].len + 1 <= start[i + 1])
        BY <1>11, <1>12, <3>1
      <4>4. c[i].ids = << >> /\ Len(<< >>) <= 1
        BY <1>4, <1>9, <3>1
      <4> QED
        BY <4>1, <4>2, <4>3, <4>4
    <3>2. CASE i \notin 1..k
      <4>1. PICK j \in DOMAIN p.pieces : i = Len(c) + j /\ u[i] = p.pieces[j] /\ j \in Nat \ {0}
        BY <1>9, <2>2, <3>2 DEF Indexed
      <4>2. i > k /\ i \in Nat
        BY <1>9, <4>1
      <4> QED
        BY <1>2, <4>1, <4>2
    <3> QED
      BY <3>1, <3>2
  <2>4. Laid(u, k, start) /\ Single(u)
    BY <2>3 DEF Laid, Single
  <2>5. 0 <= start[1] /\ k \in 0..Overlap
    <3>1. 1 \in 1..Overlap
      OBVIOUS
    <3> QED
      BY <1>10, <3>1
  <2> QED
    BY <1>1, <1>13, <2>4, <2>5 DEF Follows
<1>15. CASE ~buf.closed
  <2>1. PICK h \in Piece, r \in Seq(Piece) :
           /\ h = Head(p.pieces) /\ r = Tail(p.pieces)
           /\ h = p.pieces[1] /\ IsRest(r, p.pieces)
    BY <1>3, FirstPiece
  <2>2. /\ h.len \in Lengths /\ \A i \in DOMAIN r : r[i].len \in Lengths
        /\ Len(h.ids) <= 1 /\ \A i \in DOMAIN r : Len(r[i].ids) <= 1
    BY <1>2, <2>1 DEF IsRest
  <2>3. PICK f \in Seq(Piece), z \in Piece :
           /\ f = Front(c) /\ z = Last(c)
           /\ Len(f) = k - 1
           /\ \A i \in DOMAIN f : i \in DOMAIN c /\ f[i] = c[i]
           /\ z = c[k]
    <3>1. PICK f \in Seq(Piece), z \in Piece : f = Front(c) /\ z = Last(c)
      BY <1>4, LastPiece
    <3>2. /\ Len(f) = Len(c) - 1
          /\ \A i \in DOMAIN f : i \in DOMAIN c /\ f[i] = c[i]
          /\ z = c[Len(c)]
      BY <1>4, <3>1, LastPiece
    <3> QED
      BY <1>9, <3>1, <3>2
  <2>4. PICK g \in Piece : g = Glue(z, 2, h) /\ g.len = z.len + 2 + h.len
    BY GlueShape
  <2>5. PICK v \in Seq(Piece) :
           /\ v = f \o <<g>> /\ Len(v) = k /\ DOMAIN v = 1..k
           /\ \A i \in 1..(k - 1) : v[i] = c[i]
           /\ v[k] = g
    <3>1. PICK w \in Seq(Piece) : w = <<g>> /\ Len(w) = 1 /\ w[1] = g
      BY Singleton
    <3>2. f \o w \in Seq(Piece) /\ IsJoin(f \o w, f, w)
      BY Joined
    <3>3. PICK v \in Seq(Piece) : v = f \o w /\ IsJoin(v, f, w)
      BY <3>2
    <3>4. Len(v) = k /\ DOMAIN v = 1..k
      BY <1>9, <2>3, <3>1, <3>3 DEF IsJoin
    <3>5. DOMAIN f = 1..(k - 1)
      BY <1>9, <2>3
    <3>6. \A i \in 1..(k - 1) : v[i] = c[i]
      BY <2>3, <3>3, <3>5 DEF IsJoin
    <3>7. v[k] = g
      <4>1. 1 \in 1..Len(w) /\ Len(f) + 1 = k
        BY <1>9, <2>3, <3>1
      <4>2. v[Len(f) + 1] = w[1]
        BY <3>3, <4>1 DEF IsJoin
      <4> QED
        BY <3>1, <4>1, <4>2
    <3> QED
      BY <3>1, <3>3, <3>4, <3>6, <3>7
  <2>6. u = v \o r
    BY <1>5, <1>13, <1>15, <2>1, <2>3, <2>4, <2>5 DEF Append2
  <2>7. Indexed(u, v, r)
    BY <2>6, Joined, JoinIndexes
  <2>8. ASSUME NEW i \in DOMAIN u
        PROVE  /\ i > k => u[i].len \in Lengths
               /\ i <= k => Within(start[i] + u[i].len)
               /\ i < k => start[i] + u[i].len + 1 <= start[i + 1]
               /\ Len(u[i].ids) <= 1
    <3>1. CASE i \in 1..(k - 1)
      <4>1. i \in 1..k /\ u[i] = c[i] /\ ~(i > k)
        BY <2>5, <2>7, <3>1 DEF Indexed
      <4>2. Within(start[i] + c[i].len) /\ (i < k => start[i] + c[i].len + 1 <= start[i + 1])
        BY <1>11, <1>12, <4>1
      <4>3. c[i].ids = << >> /\ Len(<< >>) <= 1
        BY <1>4, <1>9, <4>1
      <4> QED
        BY <4>1, <4>2, <4>3
    <3>2. CASE i = k
      <4>1. u[k] = g /\ k \in 1..k
        <5>1. k \in 1..k
          OBVIOUS
        <5>2. k \in DOMAIN v /\ v[k] = g
          BY <2>5, <5>1
        <5> QED
          BY <2>7, <5>1, <5>2 DEF Indexed
      <4>2. InOverlap(start[k], c[k].len)
        BY <1>11, <4>1
      <4>3. Within(start[k] + (c[k].len + 2 + h.len))
        BY <2>2, <4>2, GluedWithin
      <4>4. u[k].len = c[k].len + 2 + h.len
        BY <2>3, <2>4, <4>1
      <4>5. i = k /\ ~(k > k) /\ ~(k < k)
        BY <3>2
      <4>6. Len(u[k].ids) <= 1
        <5>1. z.ids = << >>
          BY <1>4, <1>9, <2>3, <4>1
        <5>2. g.ids = h.ids
          BY <2>4, <5>1, GlueToNone
        <5> QED
          BY <2>2, <4>1, <5>2
      <4> QED
        BY <4>3, <4>4, <4>5, <4>6
    <3>3. CASE i \notin 1..k
      <4>1. PICK j \in DOMAIN r : i = Len(v) + j /\ u[i] = r[j] /\ j \in Nat \ {0}
        BY <2>5, <2>7, <3>3 DEF Indexed
      <4>2. i > k /\ i \in Nat
        BY <2>5, <4>1
      <4> QED
        BY <2>2, <4>1, <4>2
    <3> QED
      BY <3>1, <3>2, <3>3
  <2>9. Laid(u, k, start) /\ Single(u)
    BY <2>8 DEF Laid, Single
  <2>10. 0 <= start[1] /\ k \in 0..Overlap
    <3>1. 1 \in 1..Overlap
      OBVIOUS
    <3> QED
      BY <1>10, <3>1
  <2> QED
    BY <1>1, <1>13, <2>9, <2>10 DEF Follows
<1> QED
  BY <1>14, <1>15

LEMMA SentencesFollow ==
    ASSUME NEW pieces, \A i \in DOMAIN pieces : i \in Nat \ {0} /\ pieces[i].len \in Lengths,
           NEW len
    PROVE  Follows(len, pieces)
<1>1. PICK start \in [1..Overlap -> 0..Overlap] : TRUE
  <2>1. [i \in 1..Overlap |-> 0] \in [1..Overlap -> 0..Overlap]
    OBVIOUS
  <2> QED
    BY <2>1
<1>2. Laid(pieces, 0, start)
  BY DEF Laid
<1> QED
  BY <1>2 DEF Follows

LEMMA ShorterFollows ==
    ASSUME NEW pieces, NEW long \in Nat, NEW short \in Nat, short <= long,
           Follows(long, pieces)
    PROVE  Follows(short, pieces)
<1>1. PICK k \in 0..Overlap, start \in [1..Overlap -> 0..Overlap] :
         Laid(pieces, k, start) /\ (k > 0 => long <= start[1])
  BY DEF Follows
<1>2. start[1] \in Int
  <2>1. 1 \in 1..Overlap
    OBVIOUS
  <2> QED
    BY <1>1, <2>1
<1>3. k > 0 => short <= start[1]
  BY <1>1, <1>2
<1> QED
  BY <1>1, <1>3 DEF Follows

\* When the first piece of a list is packed, the others can follow.
LEMMA RestFollows ==
    ASSUME NEW pieces \in Seq(Piece), pieces # << >>,
           NEW before \in Nat, Follows(before, pieces),
           NEW len \in Nat, len <= before + Head(pieces).len
    PROVE  /\ Follows(len + 1, Tail(pieces))
           /\ before <= Overlap + 2 => Within(len)
<1>1. PICK h \in Piece, t \in Seq(Piece) :
         /\ h = Head(pieces) /\ t = Tail(pieces)
         /\ h = pieces[1] /\ IsRest(t, pieces)
  BY FirstPiece
<1>2. /\ 1 \in DOMAIN pieces
      /\ \A i \in DOMAIN t : i + 1 \in DOMAIN pieces /\ t[i] = pieces[i + 1] /\ i \in Nat \ {0}
  BY <1>1 DEF IsRest
<1>3. PICK k \in 0..Overlap, start \in [1..Overlap -> 0..Overlap] :
         Laid(pieces, k, start) /\ (k > 0 => before <= start[1])
  BY DEF Follows
<1>4. \A i \in DOMAIN pieces :
         /\ i > k => pieces[i].len \in Lengths
         /\ i <= k => Within(start[i] + pieces[i].len)
         /\ i < k => start[i] + pieces[i].len + 1 <= start[i + 1]
  BY <1>3 DEF Laid
<1>5. h.len \in Nat /\ 1 \in 1..Overlap /\ start[1] \in 0..Overlap
  <2>1. 1 \in 1..Overlap
    OBVIOUS
  <2>2. h.len \in Nat
    BY DEF Piece
  <2> QED
    BY <1>3, <2>1, <2>2
<1>6. CASE k = 0
  <2>1. h.len \in Lengths /\ \A i \in DOMAIN t : t[i].len \in Lengths
    BY <1>1, <1>2, <1>4, <1>6
  <2>2. Follows(len + 1, t)
    BY <1>2, <2>1, SentencesFollow
  <2>3. ASSUME before <= Overlap + 2 PROVE Within(len)
    <3>1. len <= before + h.len
      BY <1>1
    <3>2. len <= Overlap + 2 + h.len
      BY <1>5, <2>3, <3>1
    <3> QED
      BY <2>1, <3>2 DEF Within
  <2> QED
    BY <1>1, <2>2, <2>3
<1>7. CASE k > 0
  <2>1. len <= start[1] + h.len
    <3>1. before <= start[1] /\ len <= before + h.len
      BY <1>1, <1>3, <1>7
    <3>2. PICK a \in Nat, b \in Nat : a = start[1] /\ b = h.len
      BY <1>5
    <3>3. len <= before + b /\ before <= a
      BY <3>1, <3>2
    <3>4. len <= a + b
      BY <3>3
    <3> QED
      BY <3>2, <3>4
  <2>2. Within(len)
    <3>1. Within(start[1] + h.len)
      <4>1. 1 <= k
        BY <1>7
      <4>2. Within(start[1] + pieces[1].len)
        BY <1>2, <1>4, <4>1
      <4> QED
        BY <1>1, <4>2
    <3>2. PICK l \in Lengths : start[1] + h.len <= Overlap + 2 + l
      BY <3>1 DEF Within
    <3>3. l \in Nat
      OBVIOUS
    <3>4. len <= Overlap + 2 + l
      BY <1>5, <2>1, <3>2, <3>3
    <3> QED
      BY <3>4 DEF Within
  <2>3. PICK next1 \in [1..Overlap -> 0..Overlap] :
           \A i \in 1..Overlap : i < Overlap => next1[i] = start[i + 1]
    <3>1. [i \in 1..Overlap |-> IF i < Overlap THEN start[i + 1] ELSE 0]
            \in [1..Overlap -> 0..Overlap]
      <4>1. \A i \in 1..Overlap : i < Overlap => i + 1 \in 1..Overlap
        OBVIOUS
      <4> QED
        BY <4>1
    <3> QED
      BY <3>1
  <2>4. ASSUME NEW i \in DOMAIN t
        PROVE  /\ i > k - 1 => t[i].len \in Lengths
               /\ i <= k - 1 => Within(next1[i] + t[i].len)
               /\ i < k - 1 => next1[i] + t[i].len + 1 <= next1[i + 1]
    <3>1. i + 1 \in DOMAIN pieces /\ t[i] = pieces[i + 1] /\ i \in Nat \ {0}
      BY <1>2
    <3>2. ASSUME i > k - 1 PROVE t[i].len \in Lengths
      <4>1. i + 1 > k
        BY <3>1, <3>2
      <4> QED
        BY <1>4, <3>1, <4>1
    <3>3. ASSUME i <= k - 1 PROVE Within(next1[i] + t[i].len)
      <4>1. i + 1 <= k /\ i \in 1..Overlap /\ i < Overlap
        BY <3>1, <3>3
      <4>2. next1[i] = start[i + 1]
        BY <2>3, <4>1
      <4> QED
        BY <1>4, <3>1, <4>1, <4>2
    <3>4. ASSUME i < k - 1 PROVE next1[i] + t[i].len + 1 <= next1[i + 1]
      <4>1. /\ i + 1 < k /\ i \in 1..Overlap /\ i < Overlap
            /\ i + 1 \in 1..Overlap /\ i + 1 < Overlap
        BY <3>1, <3>4
      <4>2. next1[i] = start[i + 1] /\ next1[i + 1] = start[(i + 1) + 1]
        BY <2>3, <4>1
      <4>3. start[i + 1] + pieces[i + 1].len + 1 <= start[(i + 1) + 1]
        BY <1>4, <3>1, <4>1
      <4> QED
        BY <3>1, <4>2, <4>3
    <3> QED
      BY <3>2, <3>3, <3>4
  <2>5. Laid(t, k - 1, next1)
    BY <2>4 DEF Laid
  <2>6. k - 1 > 0 => len + 1 <= next1[1]
    <3> SUFFICES ASSUME k - 1 > 0 PROVE len + 1 <= next1[1]
      OBVIOUS
    <3>1. 1 < k /\ 1 < Overlap /\ 1 + 1 \in 1..Overlap
      OBVIOUS
    <3>2. next1[1] = start[1 + 1]
      BY <2>3, <1>5, <3>1
    <3>3. start[1] + h.len + 1 <= start[1 + 1]
      BY <1>1, <1>2, <1>4, <3>1
    <3>4. start[1 + 1] \in 0..Overlap
      BY <3>1
    <3> QED
      BY <1>5, <2>1, <3>2, <3>3, <3>4
  <2>7. k - 1 \in 0..Overlap
    BY <1>7
  <2>8. Follows(len + 1, t)
    BY <2>5, <2>6, <2>7 DEF Follows
  <2> QED
    BY <1>1, <2>2, <2>8
<1> QED
  BY <1>6, <1>7

\* The paragraph taken next comes after all that was taken.
LEMMA TakenNext ==
    ASSUME text \in Texts, next \in DOMAIN text, next' = next + 1, text' = text
    PROVE  /\ Before(Taken, El(Paragraph(next).ids))
           /\ Taken' = Taken \cup El(Paragraph(next).ids)
<1>1. El(Paragraph(next).ids) = {<<next, s>> : s \in DOMAIN text[next].ends}
  BY ParagraphSound
<1>2. next \in Nat /\ next > 0
  BY TextShape
<1>3. Before(Taken, El(Paragraph(next).ids))
  BY <1>1, <1>2 DEF Taken, Before, Earlier
<1>4. 1..(next' - 1) = 1..(next - 1) \cup {next}
  BY <1>2
<1>5. Taken' = UNION {{<<m, s>> : s \in DOMAIN text[m].ends} : m \in 1..(next' - 1)}
  BY DEF Taken
<1>6. Taken' = Taken \cup {<<next, s>> : s \in DOMAIN text[next].ends}
  BY <1>4, <1>5 DEF Taken
<1> QED
  BY <1>1, <1>3, <1>6

LEMMA BufferSound ==
    ASSUME TypeOK, Filled, Accounted, buf # NoBuffer
    PROVE  buf \in Buffers /\ Sound(buf)
BY DEF TypeOK, Filled, Accounted, Buffered, Buffers, Sound

\* What emitting a piece does to the list of chunks.
Chunks == [index : Nat, len : Nat \ {0}, ids : Seq(AllSentences)]
LEMMA Emitted ==
    ASSUME TypeOK, Ordered(chunks), SizeBounded, Numbered, IndexesInOrder,
           NEW piece, piece.len \in Nat \ {0}, piece.ids \in Seq(AllSentences),
           Rising(piece.ids), Before(AllIds(chunks), El(piece.ids)), Sized(piece),
           Emit(piece)
    PROVE  /\ chunks' \in Seq(Chunks) /\ chunks' # << >>
           /\ Ordered(chunks')
           /\ AllIds(chunks') = AllIds(chunks) \cup El(piece.ids)
           /\ chunks'[Len(chunks')].index = index
           /\ SizeBounded' /\ IndexesInOrder'
<1>1. PICK c : c = [index |-> index, len |-> piece.len, ids |-> piece.ids]
  OBVIOUS
<1>2. c.index = index /\ c.len = piece.len /\ c.ids = piece.ids
  BY <1>1
<1>3. c \in Chunks
  BY <1>1 DEF Chunks, TypeOK
<1>4. chunks \in Seq(Chunks) /\ chunks' = Append(chunks, c)
  BY <1>1 DEF TypeOK, Chunks, Emit
<1>5. /\ chunks' \in Seq(Chunks) /\ Ordered(chunks')
      /\ AllIds(chunks') = AllIds(chunks) \cup El(piece.ids)
  BY <1>2, <1>3, <1>4, AppendedPiece
<1>6. /\ Len(chunks) \in Nat /\ DOMAIN chunks = 1..Len(chunks)
      /\ Len(chunks') = Len(chunks) + 1 /\ DOMAIN chunks' = 1..(Len(chunks) + 1)
      /\ \A i \in DOMAIN chunks : chunks'[i] = chunks[i]
      /\ chunks'[Len(chunks) + 1] = c
  BY <1>3, <1>4
<1>7. \A i \in DOMAIN chunks' : i \in DOMAIN chunks \/ i = Len(chunks) + 1
  BY <1>6
<1>8. SizeBounded'
  <2> SUFFICES ASSUME NEW i \in DOMAIN chunks' PROVE Sized(chunks'[i])
    BY DEF SizeBounded, Sized, Within
  <2>1. CASE i \in DOMAIN chunks
    BY <1>6, <2>1 DEF SizeBounded, Sized, Within
  <2>2. CASE i = Len(chunks) + 1
    BY <1>2, <1>6, <2>2 DEF Sized
  <2> QED
    BY <1>7, <2>1, <2>2
<1>9. IndexesInOrder'
  <2> SUFFICES ASSUME NEW i \in DOMAIN chunks'
               PROVE  chunks'[i].index \in IF i = 1 THEN {0}
                             ELSE {chunks'[i - 1].index, chunks'[i - 1].index + 1}
    BY DEF IndexesInOrder
  <2>1. CASE i \in DOMAIN chunks
    <3>1. i # 1 => i - 1 \in DOMAIN chunks
      BY <1>6, <2>1
    <3> QED
      BY <1>6, <2>1, <3>1 DEF IndexesInOrder
  <2>2. CASE i = Len(chunks) + 1
    <3>1. CASE chunks = << >>
      BY <1>2, <1>6, <2>2, <3>1 DEF Numbered
    <3>2. CASE chunks # << >>
      <4>1. Len(chunks) \in DOMAIN chunks
        BY <1>4, <1>6, <3>2, EmptySeq
      <4>2. i # 1 /\ i - 1 = Len(chunks) /\ chunks'[i - 1] = chunks[Len(chunks)]
        BY <1>6, <2>2, <4>1
      <4>3. chunks[Len(chunks)].index \in {index - 1, index}
        BY <3>2 DEF Numbered
      <4>4. index \in Int
        BY DEF TypeOK
      <4> QED
        BY <1>2, <1>6, <2>2, <4>2, <4>3, <4>4
    <3> QED
      BY <3>1, <3>2
  <2> QED
    BY <1>7, <2>1, <2>2
<1>10. chunks' # << >> /\ chunks'[Len(chunks')].index = index
  BY <1>2, <1>5, <1>6
<1> QED
  BY <1>5, <1>8, <1>9, <1>10

-----------------------------------------------------------------------------
(* The invariant.                                                          *)

LEMMA InitInvariant == Init => Invariant
<1> SUFFICES ASSUME Init PROVE Invariant
  OBVIOUS
<1> USE DEF Init
<1>1. Len(text) \in Nat
  BY TextShape
<1>2. TypeOK
  BY DEF TypeOK, NoBuffer, Empty, Piece
<1>3. Filled
  BY <1>1 DEF Filled, NoBuffer, Empty
<1>4. Splitting
  BY DEF Splitting
<1>5. buf.ids = << >> /\ buf.pieces = << >> /\ buf.len = 0
  BY DEF NoBuffer
<1>6. Taken = {}
  BY DEF Taken
<1>7. Accounted
  BY <1>5, <1>6, EmptyIds DEF Accounted, Buffered, Before
<1>8. Measured /\ SizeBounded /\ Numbered /\ IndexesInOrder
  BY <1>5 DEF Measured, SizeBounded, Numbered, IndexesInOrder
<1> QED
  BY <1>2, <1>3, <1>4, <1>7, <1>8 DEF Invariant

\* What every step has in common that takes a paragraph into the buffer.
LEMMA TakeParagraph ==
    ASSUME Invariant, next <= Len(text), next' = next + 1, text' = text,
           NEW a \in Buffers, a = NoBuffer \/ Sound(a),
           Before(AllIds(chunks), El(a.ids)), AllIds(chunks) \cup El(a.ids) = Taken,
           buf' = IF a = NoBuffer THEN Paragraph(next) ELSE Append2(a, Paragraph(next)),
           chunks' = chunks, pc' = "pack",
           UNCHANGED <<parts, acc>>
    PROVE  /\ next' \in 1..(MaxParagraphs + 1) /\ next' <= Len(text) + 1
           /\ next \in DOMAIN text
           /\ buf' \in Buffers /\ Sound(buf')
           /\ Splitting' /\ Accounted' /\ Filled'
           /\ buf'.len = Paragraph(next).len + IF a = NoBuffer THEN 0 ELSE a.len + 2
           /\ Paragraph(next) \in Buffers
<1>1. text \in Texts /\ next \in 1..(MaxParagraphs + 1)
  BY DEF Invariant, TypeOK
<1>2. /\ Len(text) \in 0..MaxParagraphs /\ next \in DOMAIN text
      /\ next' \in 1..(MaxParagraphs + 1) /\ next' <= Len(text) + 1
  BY <1>1, TextShape
<1>3. PICK p : p = Paragraph(next)
  OBVIOUS
<1>4. Sound(p) /\ p \in Buffers
  BY <1>1, <1>2, <1>3, ParagraphSound DEF Sound
<1>5. Before(Taken, El(p.ids)) /\ Taken' = Taken \cup El(p.ids)
  BY <1>1, <1>2, <1>3, TakenNext
<1>6. PICK b : b = buf'
  OBVIOUS
<1>7. /\ b \in Buffers /\ Sound(b)
      /\ El(b.ids) = El(a.ids) \cup El(p.ids)
      /\ b.len = p.len + IF a = NoBuffer THEN 0 ELSE a.len + 2
  <2>1. CASE a = NoBuffer
    <3>1. El(a.ids) = {}
      BY <2>1, EmptyIds DEF NoBuffer
    <3>2. p.len \in Nat
      BY <1>4 DEF Buffers
    <3> QED
      BY <1>3, <1>4, <1>6, <2>1, <3>1, <3>2
  <2>2. CASE a # NoBuffer
    <3>1. Before(El(a.ids), El(p.ids))
      BY <1>5 DEF Before
    <3>2. /\ Sound(Append2(a, p))
          /\ Append2(a, p).len = a.len + 2 + p.len
          /\ El(Append2(a, p).ids) = El(a.ids) \cup El(p.ids)
      BY <1>4, <2>2, <3>1, AppendedSound
    <3>3. a.len \in Nat /\ p.len \in Nat
      BY <1>4 DEF Buffers
    <3>4. b = Append2(a, p)
      BY <1>3, <1>6, <2>2
    <3>5. b.len = p.len + (a.len + 2)
      BY <3>2, <3>3, <3>4
    <3>6. b \in Buffers
      BY <3>2, <3>4 DEF Sound
    <3> QED
      BY <2>2, <3>2, <3>4, <3>5, <3>6
  <2> QED
    BY <2>1, <2>2
<1>8. /\ Before(AllIds(chunks), El(b.ids))
      /\ AllIds(chunks) \cup El(b.ids) = Taken'
  BY <1>5, <1>7 DEF Before
<1>9. Buffered'
  BY <1>6, <1>7 DEF Sound, Buffered
<1>10. Accounted'
  <2>1. Ordered(chunks')
    BY DEF Invariant, Accounted
  <2>2. /\ Before(AllIds(chunks'), El(buf'.ids))
        /\ AllIds(chunks') \cup El(buf'.ids) = Taken'
    BY <1>6, <1>8
  <2> QED
    BY <1>9, <2>1, <2>2 DEF Accounted
<1>11. b # NoBuffer
  BY <1>7 DEF Sound, NoBuffer
<1>12. Filled'
  BY <1>2, <1>6, <1>7, <1>11 DEF Invariant, Filled, Sound, Empty, NoBuffer
<1>13. Splitting'
  BY DEF Splitting
<1> QED
  BY <1>2, <1>3, <1>4, <1>6, <1>7, <1>10, <1>12, <1>13

LEMMA FirstParagraphKeeps ==
    ASSUME Invariant, FirstParagraph
    PROVE  Invariant'
<1> USE DEF FirstParagraph
<1>1. PICK p : p = Paragraph(next)
  OBVIOUS
<1>2. NoBuffer \in Buffers /\ El(NoBuffer.ids) = {}
  BY EmptyIds DEF NoBuffer, Buffers
<1>3. Before(AllIds(chunks), El(NoBuffer.ids)) /\ AllIds(chunks) \cup El(NoBuffer.ids) = Taken
  BY <1>2 DEF Invariant, Accounted
<1>4. /\ next' \in 1..(MaxParagraphs + 1) /\ next \in DOMAIN text
      /\ buf' \in Buffers
      /\ Splitting' /\ Accounted' /\ Filled'
  BY <1>2, <1>3, TakeParagraph
<1>5. TypeOK'
  BY <1>4 DEF Invariant, TypeOK, Buffers
<1>6. Measured'
  <2>1. p.pieces \in Seq(Piece) /\ \A i \in DOMAIN p.pieces : p.pieces[i].len \in Lengths
    BY <1>1, <1>4, ParagraphSound DEF Invariant, TypeOK, Sound, Buffers
  <2>2. \A i \in DOMAIN p.pieces : i \in Nat \ {0}
    BY <2>1
  <2>3. Follows(0, p.pieces)
    BY <2>1, <2>2, SentencesFollow
  <2>4. Single(p.pieces)
    BY <1>1, <1>4, ParagraphSound DEF Invariant, TypeOK
  <2> QED
    BY <1>1, <2>3, <2>4 DEF Measured
<1>7. SizeBounded' /\ IndexesInOrder'
  BY DEF Invariant, SizeBounded, IndexesInOrder
<1>8. Numbered'
  <2>1. index < next' /\ index \in Nat
    BY DEF Invariant, Numbered, TypeOK
  <2> QED
    BY <2>1 DEF Invariant, Numbered
<1> QED
  BY <1>4, <1>5, <1>6, <1>7, <1>8 DEF Invariant

LEMMA PackParagraphKeeps ==
    ASSUME Invariant, PackParagraph
    PROVE  Invariant'
<1> USE DEF PackParagraph
<1>1. buf \in Buffers /\ Sound(buf)
  BY BufferSound DEF Invariant
<1>2. PICK a \in Buffers : a = buf
  BY <1>1
<1>3. /\ Sound(a) /\ a # NoBuffer
      /\ Before(AllIds(chunks), El(a.ids)) /\ AllIds(chunks) \cup El(a.ids) = Taken
  BY <1>1, <1>2 DEF Invariant, Accounted
<1>4. /\ next' \in 1..(MaxParagraphs + 1) /\ next \in DOMAIN text
      /\ buf' \in Buffers
      /\ Splitting' /\ Accounted' /\ Filled'
      /\ buf'.len = Paragraph(next).len + IF a = NoBuffer THEN 0 ELSE a.len + 2
      /\ Paragraph(next) \in Buffers
  BY <1>2, <1>3, TakeParagraph
<1>5. TypeOK'
  BY <1>4 DEF Invariant, TypeOK, Buffers
<1>6. buf'.len <= ChunkSize
  <2>1. PICK n, m : n = Paragraph(next).len /\ m = buf.len
    OBVIOUS
  <2>2. n \in Nat /\ m \in Nat /\ m + n + 2 <= ChunkSize
    BY <1>1, <1>4, <2>1 DEF Fits, Buffers
  <2>3. buf'.len = n + (m + 2)
    BY <1>2, <1>3, <1>4, <2>1
  <2> QED
    BY <2>2, <2>3
<1>7. Measured'
  <2>1. buf'.len \in Nat
    BY <1>4 DEF Buffers
  <2>2. ~(buf'.len > ChunkSize)
    BY <1>6, <2>1
  <2> QED
    BY <2>2 DEF Measured
<1>8. SizeBounded' /\ IndexesInOrder'
  BY DEF Invariant, SizeBounded, IndexesInOrder
<1>9. Numbered'
  <2>1. index < next' /\ index \in Nat
    BY DEF Invariant, Numbered, TypeOK
  <2> QED
    BY <2>1 DEF Invariant, Numbered
<1> QED
  BY <1>4, <1>5, <1>7, <1>8, <1>9 DEF Invariant

LEMMA OverlapParagraphKeeps ==
    ASSUME Invariant, OverlapParagraph
    PROVE  Invariant'
<1> USE DEF OverlapParagraph
<1>1. PICK cuts \in Cuts : buf' = Append2(Carried(cuts), Paragraph(next))
  BY DEF Overlaps
<1>2. PICK a \in Buffers : a = Carried(cuts) /\ Sound(a) /\ El(a.ids) = {}
  BY CarriedSound DEF Invariant
<1>3. a # NoBuffer
  BY <1>2 DEF Sound, NoBuffer
<1>4. Before(AllIds(chunks), El(a.ids)) /\ AllIds(chunks) \cup El(a.ids) = Taken
  BY <1>2 DEF Invariant, Accounted, Before
<1>5. next <= Len(text)
  BY DEF Invariant, Filled
<1>6. /\ next' \in 1..(MaxParagraphs + 1) /\ next \in DOMAIN text
      /\ buf' \in Buffers
      /\ Splitting' /\ Accounted' /\ Filled'
  BY <1>1, <1>2, <1>3, <1>4, <1>5, TakeParagraph
<1>7. TypeOK'
  <2>1. index \in Nat /\ index < next /\ next \in Nat
    BY DEF Invariant, TypeOK, Numbered
  <2>2. Len(text) \in 0..MaxParagraphs
    BY TextShape DEF Invariant, TypeOK
  <2>3. index' \in 0..MaxParagraphs
    BY <1>5, <2>1, <2>2
  <2> QED
    BY <1>6, <2>3 DEF Invariant, TypeOK, Buffers
<1>8. Measured'
  <2>1. PICK u : u = Append2(Carried(cuts), Paragraph(next)).pieces
    OBVIOUS
  <2>2. Follows(0, u) /\ Single(u)
    BY <1>6, <2>1, CarriedLengths DEF Invariant
  <2>3. buf'.pieces = u
    BY <1>1, <2>1
  <2> QED
    BY <2>2, <2>3 DEF Measured
<1>9. SizeBounded' /\ IndexesInOrder'
  BY DEF Invariant, SizeBounded, IndexesInOrder
<1>10. Numbered'
  <2>1. index < next /\ index \in Nat /\ next \in Nat
    BY DEF Invariant, Numbered, TypeOK
  <2>2. chunks # << >> /\ chunks[Len(chunks)].index = index
    BY DEF Invariant, Numbered
  <2>3. index' < next' /\ index = index' - 1
    BY <2>1
  <2> QED
    BY <2>2, <2>3 DEF Numbered
<1> QED
  BY <1>6, <1>7, <1>8, <1>9, <1>10 DEF Invariant

LEMMA FlushKeeps ==
    ASSUME Invariant, Flush
    PROVE  Invariant'
<1> USE DEF Flush
<1>1. Sound(buf) /\ buf \in Buffers
  BY BufferSound DEF Invariant
<1>2. TypeOK'
  BY <1>1 DEF Invariant, TypeOK, Buffers, Empty, Piece
<1>3. Filled'
  BY <1>1 DEF Invariant, Filled, Sound
<1>4. Splitting'
  BY DEF Splitting
<1>5. Empty.ids = << >> /\ Rising(<< >>) /\ El(<< >>) = {}
  BY EmptyIds DEF Empty
<1>6. Accounted'
  <2>1. /\ Ordered(chunks) /\ Ordered(buf.pieces)
        /\ Before(AllIds(chunks), El(buf.ids)) /\ AllIds(chunks) \cup El(buf.ids) = Taken
        /\ AllIds(buf.pieces) = El(buf.ids)
        /\ Buffered
    BY DEF Invariant, Accounted, Buffered
  <2>2. Before(AllIds(chunks) \cup {}, AllIds(buf.pieces)) /\ Before(AllIds(chunks), {})
    BY <2>1 DEF Before
  <2>3. Taken' = Taken /\ Buffered'
    BY <2>1 DEF Taken, Buffered
  <2>4. AllIds(chunks) \cup {} \cup AllIds(buf.pieces) = Taken
    BY <2>1
  <2> QED
    BY <1>5, <2>1, <2>2, <2>3, <2>4 DEF Accounted
<1>7. Measured' /\ SizeBounded' /\ Numbered' /\ IndexesInOrder'
  BY DEF Invariant, Measured, SizeBounded, Numbered, IndexesInOrder
<1> QED
  BY <1>2, <1>3, <1>4, <1>6, <1>7 DEF Invariant

LEMMA NoParagraphKeeps ==
    ASSUME Invariant, NoParagraph
    PROVE  Invariant'
<1> USE DEF NoParagraph
<1>1. next = 1 /\ Len(text) = 0
  BY DEF Invariant, Filled, TypeOK
<1>2. TypeOK' /\ Filled' /\ Splitting'
  BY <1>1 DEF Invariant, TypeOK, Filled, Splitting
<1>3. Accounted'
  <2>1. Taken = {}
    BY <1>1 DEF Taken
  <2>2. AllIds(chunks) = Taken /\ Taken' = Taken
    BY <2>1 DEF Invariant, Accounted, Taken
  <2> QED
    BY <2>2 DEF Invariant, Accounted, Buffered
<1>4. Measured' /\ SizeBounded' /\ Numbered' /\ IndexesInOrder'
  BY DEF Invariant, Measured, SizeBounded, Numbered, IndexesInOrder
<1> QED
  BY <1>2, <1>3, <1>4 DEF Invariant

\* What the two steps have in common that emit the last chunk of a buffer.
LEMMA LastChunkKeeps ==
    ASSUME Invariant, pc = "split", AfterSplit,
           NEW piece, piece.len \in Nat \ {0}, piece.ids \in Seq(AllSentences),
           Rising(piece.ids), Before(AllIds(chunks), El(piece.ids)), Sized(piece),
           AllIds(chunks) \cup El(piece.ids) = Taken,
           Emit(piece),
           UNCHANGED <<text, next, buf, index, parts, acc>>
    PROVE  Invariant'
<1>1. /\ chunks' \in Seq(Chunks) /\ chunks' # << >>
      /\ Ordered(chunks')
      /\ AllIds(chunks') = Taken
      /\ chunks'[Len(chunks')].index = index
      /\ SizeBounded' /\ IndexesInOrder'
  <2>1. TypeOK /\ Ordered(chunks) /\ SizeBounded /\ Numbered /\ IndexesInOrder
    BY DEF Invariant, Accounted
  <2> QED
    BY <2>1, Emitted
<1>2. /\ pc' \in {"overlap", "done"}
      /\ pc' = "overlap" => next <= Len(text)
      /\ pc' = "done" => ~(next <= Len(text))
  BY DEF AfterSplit
<1>3. next <= Len(text) + 1 /\ next \in Nat /\ Len(text) \in Nat
  BY TextShape DEF Invariant, Filled, TypeOK
<1>4. TypeOK'
  BY <1>1, <1>2 DEF Invariant, TypeOK, Chunks
<1>5. Filled'
  <2>1. buf # NoBuffer
    BY DEF Invariant, Filled
  <2>2. pc' = "done" => next = Len(text) + 1
    BY <1>2, <1>3
  <2> QED
    BY <1>2, <2>1, <2>2 DEF Invariant, Filled
<1>6. Splitting'
  BY <1>2 DEF Splitting
<1>7. Accounted'
  <2>1. Taken' = Taken
    BY DEF Taken
  <2>2. Buffered'
    BY DEF Invariant, Accounted, Buffered
  <2> QED
    BY <1>1, <1>2, <2>1, <2>2 DEF Accounted
<1>8. Measured'
  BY <1>2 DEF Invariant, Measured
<1>9. Numbered'
  BY <1>1 DEF Invariant, Numbered
<1> QED
  BY <1>1, <1>4, <1>5, <1>6, <1>7, <1>8, <1>9 DEF Invariant

LEMMA EmitBufferKeeps ==
    ASSUME Invariant, EmitBuffer
    PROVE  Invariant'
<1>1. pc = "split" /\ buf.len <= ChunkSize /\ AfterSplit /\ Emit(buf)
      /\ UNCHANGED <<text, next, buf, index, parts, acc>>
  BY DEF EmitBuffer
<1>2. buf # NoBuffer
  BY <1>1 DEF Invariant, Filled
<1>3. buf \in Buffers /\ Sound(buf)
  BY <1>2, BufferSound DEF Invariant
<1>4. acc = Empty /\ parts = buf.pieces
  BY <1>1 DEF Invariant, Splitting
<1>5. El(acc.ids) = {} /\ AllIds(parts) = El(buf.ids)
  BY <1>3, <1>4, EmptyIds DEF Empty, Sound
<1>6. /\ Before(AllIds(chunks) \cup El(acc.ids), AllIds(parts))
      /\ AllIds(chunks) \cup El(acc.ids) \cup AllIds(parts) = Taken
  BY <1>1 DEF Invariant, Accounted
<1>7. Before(AllIds(chunks), El(buf.ids)) /\ AllIds(chunks) \cup El(buf.ids) = Taken
  BY <1>5, <1>6 DEF Before
<1>8. /\ buf.len \in Nat \ {0} /\ buf.ids \in Seq(AllSentences) /\ Rising(buf.ids)
      /\ Sized(buf)
  BY <1>1, <1>3 DEF Sound, Buffers, Sized
<1> QED
  BY <1>1, <1>7, <1>8, LastChunkKeeps

LEMMA EmitLastKeeps ==
    ASSUME Invariant, EmitLast
    PROVE  Invariant'
<1>1. pc = "split" /\ buf.len > ChunkSize /\ parts = << >> /\ AfterSplit /\ Emit(acc)
      /\ UNCHANGED <<text, next, buf, index, parts, acc>>
  BY DEF EmitLast, Long
<1>2. buf # NoBuffer
  BY <1>1 DEF Invariant, Filled
<1>3. buf \in Buffers /\ Sound(buf)
  BY <1>2, BufferSound DEF Invariant
<1>4. acc # Empty
  BY <1>1, <1>3 DEF Invariant, Splitting, Sound
<1>5. acc.len \in Nat \ {0} /\ acc.ids \in Seq(AllSentences)
  BY <1>4 DEF Invariant, Filled, TypeOK, Piece
<1>6. Rising(acc.ids) /\ Before(AllIds(chunks), El(acc.ids))
  BY <1>1 DEF Invariant, Accounted
<1>7. Sized(acc)
  BY <1>1, <1>4 DEF Invariant, Measured
<1>8. AllIds(chunks) \cup El(acc.ids) = Taken
  <2>1. AllIds(parts) = {}
    BY <1>1, EmptyIds
  <2>2. AllIds(chunks) \cup El(acc.ids) \cup AllIds(parts) = Taken
    BY <1>1 DEF Invariant, Accounted
  <2> QED
    BY <2>1, <2>2
<1> QED
  BY <1>1, <1>5, <1>6, <1>7, <1>8, LastChunkKeeps

\* What the next sentence of a buffer that is too long is known to be.
LEMMA NextSentence ==
    ASSUME Invariant, Long, parts # << >>
    PROVE  /\ Head(parts) \in Piece /\ Tail(parts) \in Seq(Piece)
           /\ Head(parts).len > 0
           /\ \A i \in DOMAIN Tail(parts) : Tail(parts)[i].len > 0
           /\ AllIds(parts) = El(Head(parts).ids) \cup AllIds(Tail(parts))
           /\ Ordered(Tail(parts)) /\ Rising(Head(parts).ids)
           /\ Before(El(Head(parts).ids), AllIds(Tail(parts)))
           /\ Len(Head(parts).ids) <= 1 /\ Single(Tail(parts))
<1>1. parts \in Seq(Piece) /\ pc = "split" /\ buf.len > ChunkSize
  BY DEF Invariant, TypeOK, Long
<1>2. PICK h \in Piece, t \in Seq(Piece) :
         /\ h = Head(parts) /\ t = Tail(parts)
         /\ h = parts[1] /\ IsRest(t, parts)
  BY <1>1, FirstPiece
<1>3. /\ AllIds(parts) = El(h.ids) \cup AllIds(t)
      /\ Ordered(t) /\ Rising(h.ids) /\ Before(El(h.ids), AllIds(t))
  <2>1. Ordered(parts)
    BY <1>1 DEF Invariant, Accounted
  <2> QED
    BY <1>1, <1>2, <2>1, TailPieces
<1>4. 1 \in DOMAIN parts
  BY <1>2 DEF IsRest
<1>5. \A i \in DOMAIN t : i + 1 \in DOMAIN parts /\ t[i] = parts[i + 1] /\ i \in Nat \ {0}
  BY <1>2 DEF IsRest
<1>6. h.len > 0 /\ \A i \in DOMAIN t : t[i].len > 0
  BY <1>2, <1>4, <1>5 DEF Invariant, Filled
<1>7. Single(parts)
  BY <1>1 DEF Invariant, Measured
<1>8. Len(h.ids) <= 1 /\ Single(t)
  BY <1>2, <1>4, <1>5, <1>7 DEF Single
<1> QED
  BY <1>2, <1>3, <1>6, <1>8

\* What the steps have in common that move a sentence into the buffer a of
\* _split_long.
LEMMA SentenceKeeps ==
    ASSUME Invariant, Long, parts # << >>, parts' = Tail(parts),
           UNCHANGED <<text, next, buf, index, pc>>,
           chunks' \in Seq(Chunks), Ordered(chunks'), SizeBounded', IndexesInOrder',
           chunks' = << >> => index = 0,
           chunks' # << >> => chunks'[Len(chunks')].index \in {index - 1, index},
           NEW a \in Piece, acc' = a, a.len > 0, Rising(a.ids),
           Sized(a), Follows(a.len + 1, Tail(parts)),
           Before(AllIds(chunks'), El(a.ids)),
           AllIds(chunks') \cup El(a.ids)
             = AllIds(chunks) \cup El(acc.ids) \cup El(Head(parts).ids)
    PROVE  Invariant'
<1>1. pc = "split" /\ buf.len > ChunkSize /\ buf # NoBuffer
  BY DEF Long, Invariant, Filled
<1>2. buf.len \in Nat
  BY DEF Invariant, TypeOK
<1>3. PICK h, t : h = Head(parts) /\ t = Tail(parts)
  OBVIOUS
<1>4. /\ t \in Seq(Piece)
      /\ \A i \in DOMAIN t : t[i].len > 0
      /\ AllIds(parts) = El(h.ids) \cup AllIds(t)
      /\ Ordered(t)
      /\ Before(El(h.ids), AllIds(t))
      /\ Single(t)
  BY <1>3, NextSentence
<1>5. a # Empty
  BY DEF Empty
<1>6. TypeOK'
  BY <1>3, <1>4 DEF Invariant, TypeOK, Chunks
<1>7. Filled'
  BY <1>1, <1>3, <1>4 DEF Invariant, Filled
<1>8. Splitting'
  BY <1>1, <1>2, <1>5 DEF Splitting
<1>9. Accounted'
  <2>1. /\ Before(AllIds(chunks) \cup El(acc.ids), AllIds(parts))
        /\ AllIds(chunks) \cup El(acc.ids) \cup AllIds(parts) = Taken
    BY <1>1 DEF Invariant, Accounted
  <2>2. AllIds(chunks') \cup El(a.ids) \cup AllIds(t) = Taken
    BY <1>3, <1>4, <2>1
  <2>3. Before(AllIds(chunks) \cup El(acc.ids) \cup El(h.ids), AllIds(t))
    BY <1>4, <2>1 DEF Before
  <2>4. Before(AllIds(chunks') \cup El(a.ids), AllIds(t))
    BY <1>3, <2>3
  <2>5. Taken' = Taken
    BY DEF Taken
  <2>6. Buffered'
    BY DEF Invariant, Accounted, Buffered
  <2> QED
    BY <1>1, <1>3, <1>4, <2>2, <2>4, <2>5, <2>6 DEF Accounted
<1>10. Measured'
  BY <1>3, <1>4 DEF Invariant, Measured
<1>11. Numbered'
  BY <1>1 DEF Invariant, Numbered
<1> QED
  BY <1>6, <1>7, <1>8, <1>9, <1>10, <1>11 DEF Invariant

LEMMA PackSentenceKeeps ==
    ASSUME Invariant, PackSentence
    PROVE  Invariant'
<1>1. /\ Long /\ parts # << >> /\ parts' = Tail(parts)
      /\ UNCHANGED <<text, next, buf, index, pc, chunks>>
  BY DEF PackSentence
<1>2. PICK h \in Piece :
         /\ h = Head(parts) /\ h.len > 0 /\ Rising(h.ids) /\ Len(h.ids) <= 1
         /\ AllIds(parts) = El(h.ids) \cup AllIds(Tail(parts))
  BY <1>1, NextSentence
<1>3. /\ Ordered(chunks) /\ Rising(acc.ids)
      /\ Before(AllIds(chunks), El(acc.ids))
      /\ Before(AllIds(chunks) \cup El(acc.ids), AllIds(parts))
  BY <1>1 DEF Long, Invariant, Accounted
<1>4. Before(AllIds(chunks), El(h.ids)) /\ Before(El(acc.ids), El(h.ids))
  BY <1>2, <1>3 DEF Before
<1>5. chunks' \in Seq(Chunks) /\ Ordered(chunks')
  BY <1>1, <1>3 DEF Invariant, TypeOK, Chunks
<1>6. SizeBounded' /\ IndexesInOrder'
  BY <1>1 DEF Invariant, SizeBounded, IndexesInOrder
<1>7. /\ chunks' = << >> => index = 0
      /\ chunks' # << >> => chunks'[Len(chunks')].index \in {index - 1, index}
  BY <1>1 DEF Invariant, Numbered
<1>8. CASE acc = Empty /\ acc' = Head(parts)
  <2>1. El(acc.ids) = {}
    BY <1>8, EmptyIds DEF Empty
  <2>2. AllIds(chunks') \cup El(h.ids) = AllIds(chunks) \cup El(acc.ids) \cup El(Head(parts).ids)
    BY <1>1, <1>2, <2>1
  <2>3. Before(AllIds(chunks'), El(h.ids)) /\ acc' = h
    BY <1>1, <1>2, <1>4, <1>8
  <2>4. Follows(0, parts) /\ parts \in Seq(Piece)
    BY <1>1, <1>8 DEF Long, Invariant, Splitting, Measured, TypeOK
  <2>5. h.len \in Nat /\ h.len <= 0 + Head(parts).len
    BY <1>2 DEF Piece
  <2>6. Follows(h.len + 1, Tail(parts)) /\ (0 <= Overlap + 2 => Within(h.len))
    BY <1>1, <2>4, <2>5, RestFollows
  <2>7. Sized(h)
    BY <1>2, <2>6 DEF Sized
  <2> QED
    BY <1>1, <1>2, <1>5, <1>6, <1>7, <2>2, <2>3, <2>6, <2>7, SentenceKeeps
<1>9. CASE acc # Empty /\ acc.len + Head(parts).len + 1 <= ChunkSize
           /\ acc' = Glue(acc, 1, Head(parts))
  <2>1. PICK b \in Piece : b = acc
    BY DEF Invariant, TypeOK
  <2>2. PICK a \in Piece :
           /\ a = Glue(b, 1, h)
           /\ a.len = b.len + 1 + h.len
           /\ El(a.ids) = El(b.ids) \cup El(h.ids)
           /\ (Rising(b.ids) /\ Rising(h.ids) /\ Before(El(b.ids), El(h.ids))) => Rising(a.ids)
    BY GlueShape
  <2>3. b.len \in Nat /\ h.len \in Nat
    BY DEF Piece
  <2>4. a.len > 0
    BY <2>2, <2>3
  <2>5. a.len <= ChunkSize
    <3>1. b.len + h.len + 1 <= ChunkSize
      BY <1>2, <1>9, <2>1
    <3> QED
      BY <2>2, <2>3, <3>1
  <2>6. Sized(a) /\ Rising(a.ids) /\ acc' = a
    BY <1>2, <1>3, <1>4, <1>9, <2>1, <2>2, <2>5 DEF Sized
  <2>7. Before(AllIds(chunks'), El(a.ids))
    BY <1>1, <1>3, <1>4, <2>1, <2>2 DEF Before
  <2>8. AllIds(chunks') \cup El(a.ids) = AllIds(chunks) \cup El(acc.ids) \cup El(Head(parts).ids)
    BY <1>1, <1>2, <2>1, <2>2
  <2>9. Follows(acc.len + 1, parts) /\ parts \in Seq(Piece)
    BY <1>1, <1>9 DEF Long, Invariant, Measured, TypeOK
  <2>10. PICK m \in Nat : m = acc.len + 1
    BY <2>1, <2>3
  <2>11. a.len \in Nat /\ a.len <= m + Head(parts).len
    BY <1>2, <2>1, <2>2, <2>3, <2>10
  <2>12. Follows(a.len + 1, Tail(parts))
    BY <1>1, <2>9, <2>10, <2>11, RestFollows
  <2> QED
    BY <1>1, <1>5, <1>6, <1>7, <2>4, <2>6, <2>7, <2>8, <2>12, SentenceKeeps
<1> QED
  BY <1>8, <1>9 DEF PackSentence

LEMMA EmitSentencesKeeps ==
    ASSUME Invariant, EmitSentences
    PROVE  Invariant'
<1>1. /\ Long /\ pc = "split" /\ buf.len > ChunkSize
      /\ parts # << >> /\ acc # Empty /\ parts' = Tail(parts)
      /\ Emit(acc)
      /\ UNCHANGED <<text, next, buf, index, pc>>
  BY DEF EmitSentences, Long
<1>2. PICK h \in Piece :
         /\ h = Head(parts) /\ Rising(h.ids) /\ Len(h.ids) <= 1
         /\ AllIds(parts) = El(h.ids) \cup AllIds(Tail(parts))
  BY <1>1, NextSentence
<1>3. /\ Ordered(chunks) /\ Rising(acc.ids)
      /\ Before(AllIds(chunks), El(acc.ids))
      /\ Before(AllIds(chunks) \cup El(acc.ids), AllIds(parts))
  BY <1>1 DEF Invariant, Accounted
<1>4. acc.len \in Nat \ {0} /\ acc.ids \in Seq(AllSentences) /\ Sized(acc)
  BY <1>1 DEF Invariant, Filled, TypeOK, Piece, Measured
<1>5. /\ chunks' \in Seq(Chunks) /\ chunks' # << >>
      /\ Ordered(chunks')
      /\ AllIds(chunks') = AllIds(chunks) \cup El(acc.ids)
      /\ chunks'[Len(chunks')].index = index
      /\ SizeBounded' /\ IndexesInOrder'
  <2>1. TypeOK /\ SizeBounded /\ Numbered /\ IndexesInOrder
    BY DEF Invariant
  <2> QED
    BY <1>1, <1>3, <1>4, <2>1, Emitted
<1>6. PICK n \in Tails(acc) : acc' = Glue([len |-> n, ids |-> << >>], 1, Head(parts))
  BY DEF EmitSentences
<1>7. n \in 1..Overlap /\ n <= acc.len
  BY DEF Tails
<1>8. PICK b \in Piece : b = [len |-> n, ids |-> << >>] /\ b.len = n /\ b.ids = << >>
  <2>1. [len |-> n, ids |-> << >>] \in Piece
    BY <1>7 DEF Piece
  <2> QED
    BY <2>1
<1>9. El(b.ids) = {} /\ Rising(b.ids)
  BY <1>8, EmptyIds
<1>10. PICK a \in Piece :
         /\ a = Glue(b, 1, h)
         /\ a.len = b.len + 1 + h.len
         /\ El(a.ids) = El(b.ids) \cup El(h.ids)
         /\ (Rising(b.ids) /\ Rising(h.ids) /\ Before(El(b.ids), El(h.ids))) => Rising(a.ids)
  BY GlueShape
<1>11. acc' = a
  BY <1>2, <1>6, <1>8, <1>10
<1>12. a.len \in Nat /\ a.len > 0 /\ a.len = n + 1 + h.len
  <2>1. h.len \in Nat
    BY DEF Piece
  <2> QED
    BY <1>7, <1>8, <1>10, <2>1
<1>13. Sized(a) /\ Follows(a.len + 1, Tail(parts))
  <2>1. Follows(acc.len + 1, parts) /\ parts \in Seq(Piece)
    BY <1>1 DEF Invariant, Measured, TypeOK
  <2>2. PICK m \in Nat : m = n + 1
    BY <1>7
  <2>3. m <= acc.len + 1 /\ acc.len + 1 \in Nat /\ m <= Overlap + 2
    BY <1>4, <1>7, <2>2
  <2>4. Follows(m, parts)
    BY <2>1, <2>3, ShorterFollows
  <2>5. a.len <= m + Head(parts).len
    <3>1. h.len \in Nat
      BY DEF Piece
    <3> QED
      BY <1>2, <1>7, <1>12, <2>2, <3>1
  <2>6. Follows(a.len + 1, Tail(parts)) /\ Within(a.len)
    BY <1>1, <1>12, <2>1, <2>3, <2>4, <2>5, RestFollows
  <2>7. Len(a.ids) <= 1
    BY <1>2, <1>8, <1>10, GlueToNone
  <2> QED
    BY <2>6, <2>7 DEF Sized
<1>14. Rising(a.ids)
  BY <1>2, <1>9, <1>10 DEF Before
<1>15. Before(AllIds(chunks'), El(a.ids))
  BY <1>2, <1>3, <1>5, <1>9, <1>10 DEF Before
<1>16. AllIds(chunks') \cup El(a.ids) = AllIds(chunks) \cup El(acc.ids) \cup El(Head(parts).ids)
  BY <1>2, <1>5, <1>9, <1>10
<1> QED
  BY <1>1, <1>5, <1>11, <1>12, <1>13, <1>14, <1>15, <1>16, SentenceKeeps

-----------------------------------------------------------------------------
(* The theorems.                                                           *)

LEMMA InvariantHolds == Spec => []Invariant
<1>1. ASSUME Invariant, [Next]_vars PROVE Invariant'
  <2>1. CASE FirstParagraph
    BY <1>1, <2>1, FirstParagraphKeeps
  <2>2. CASE PackParagraph
    BY <1>1, <2>2, PackParagraphKeeps
  <2>3. CASE Flush
    BY <1>1, <2>3, FlushKeeps
  <2>4. CASE OverlapParagraph
    BY <1>1, <2>4, OverlapParagraphKeeps
  <2>5. CASE NoParagraph
    BY <1>1, <2>5, NoParagraphKeeps
  <2>6. CASE EmitBuffer
    BY <1>1, <2>6, EmitBufferKeeps
  <2>7. CASE PackSentence
    BY <1>1, <2>7, PackSentenceKeeps
  <2>8. CASE EmitSentences
    BY <1>1, <2>8, EmitSentencesKeeps
  <2>9. CASE EmitLast
    BY <1>1, <2>9, EmitLastKeeps
  <2>10. CASE UNCHANGED vars
    <3> USE <2>10 DEF vars
    <3>1. TypeOK' /\ Filled' /\ Splitting'
      BY <1>1 DEF Invariant, TypeOK, Filled, Splitting
    <3>2. Taken' = Taken
      BY DEF Taken
    <3>3. Buffered'
      BY <1>1 DEF Invariant, Accounted, Buffered
    <3>4. Accounted'
      BY <1>1, <3>2, <3>3 DEF Invariant, Accounted
    <3>5. Measured' /\ SizeBounded' /\ Numbered' /\ IndexesInOrder'
      BY <1>1 DEF Invariant, Measured, SizeBounded, Numbered, IndexesInOrder
    <3> QED
      BY <3>1, <3>4, <3>5 DEF Invariant
  <2> QED
    BY <1>1, <2>1, <2>2, <2>3, <2>4, <2>5, <2>6, <2>7, <2>8, <2>9, <2>10 DEF Next
<1> QED
  BY <1>1, InitInvariant, PTL DEF Spec

\* Type correctness: what the two loops hold are lists of pieces of the text,
\* whatever the sizes are.
THEOREM ChunkerTypeCorrect == Spec => []TypeOK
<1>1. Invariant => TypeOK
  BY DEF Invariant
<1> QED
  BY <1>1, InvariantHolds, PTL

\* When the chunker is done, the chunks hold every sentence of the text, and
\* hold them in its order: _chunk_single and _split_long lose, repeat and move
\* none of them.
THEOREM TextKept == Spec => []TextIsKept
<1>1. ASSUME Invariant, pc = "done"
      PROVE  Sentences = UNION {{chunks[i].ids[k] : k \in DOMAIN chunks[i].ids} :
                                  i \in DOMAIN chunks}
  <2>1. AllIds(chunks) = Taken
    BY <1>1 DEF Invariant, Accounted
  <2>2. DOMAIN text = 1..Len(text) /\ next = Len(text) + 1 /\ Len(text) \in Nat
    BY <1>1, TextShape DEF Invariant, TypeOK, Filled
  <2>3. DOMAIN text = 1..(next - 1)
    BY <2>2
  <2>4. Taken = Sentences
    BY <2>3 DEF Taken, Sentences
  <2> QED
    BY <2>1, <2>4 DEF AllIds, El
<1>2. ASSUME Invariant,
             NEW i \in DOMAIN chunks, NEW j \in DOMAIN chunks,
             NEW k \in DOMAIN chunks[i].ids, NEW l \in DOMAIN chunks[j].ids,
             i < j \/ (i = j /\ k < l)
      PROVE  Earlier(chunks[i].ids[k], chunks[j].ids[l])
  <2>1. Ordered(chunks)
    BY <1>2 DEF Invariant, Accounted
  <2>2. CASE i < j
    <3>1. Before(El(chunks[i].ids), El(chunks[j].ids))
      BY <2>1, <2>2 DEF Ordered
    <3> QED
      BY <3>1 DEF Before, El
  <2>3. CASE i = j /\ k < l
    BY <2>1, <2>3 DEF Ordered, Rising
  <2> QED
    BY <1>2, <2>2, <2>3
<1>3. Invariant => TextIsKept
  BY <1>1, <1>2 DEF TextIsKept
<1> QED
  BY <1>3, InvariantHolds, PTL

\* A chunk is longer than chunk_size only when it is an overlap and one
\* sentence that has no place to be split at.
THEOREM SizesBounded == Spec => []SizeBounded
<1>1. Invariant => SizeBounded
  BY DEF Invariant
<1> QED
  BY <1>1, InvariantHolds, PTL

\* Chunks of one buffer share its index and the next buffer has the next one,
\* so that indexes start at 0 and skip none.
THEOREM IndexesOrdered == Spec => []IndexesInOrder
<1>1. Invariant => IndexesInOrder
  BY DEF Invariant
<1> QED
  BY <1>1, InvariantHolds, PTL
================================================================================
