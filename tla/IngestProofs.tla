---------------------------- MODULE IngestProofs ----------------------------
(***************************************************************************)
(* The body of a push: every line that the reader passed on is in one      *)
(* place (operation channel, micro-batch, collected rows and deletions, or *)
(* the skipped documents), so that the write phase applies what arrived    *)
(* (PushMatchesOps); and the counters bound the lines that arrived         *)
(* (CountChecked).  For every body, chunking of the stream, channel        *)
(* capacity and size of a micro-batch.                                     *)
(***************************************************************************)
EXTENDS PushIngest, SequenceTheorems, FiniteSetTheorems, TLAPS

USE DEF input, reader, work

\* Lines of s about d with the operation o.
Has(s, d, o) == \E i \in DOMAIN s : s[i].op = o /\ s[i].doc = d

Distinct(s) == \A i, j \in DOMAIN s : s[i] = s[j] => i = j

-----------------------------------------------------------------------------
(* Sequences that grow at one end and shrink at the other.                 *)

\* Sending a line adds it, and nothing else, to what a queue holds.
LEMMA HasAppend ==
    ASSUME NEW s \in Seq(Line), NEW l \in Line, NEW d, NEW o
    PROVE  Has(Append(s, l), d, o) <=> Has(s, d, o) \/ (l.op = o /\ l.doc = d)
  <1>1. /\ DOMAIN Append(s, l) = 1 .. (Len(s) + 1) /\ DOMAIN s = 1 .. Len(s)
        /\ Len(s) \in Nat
        /\ \A i \in 1 .. Len(s) : Append(s, l)[i] = s[i]
        /\ Append(s, l)[Len(s) + 1] = l
    BY AppendProperties
  <1>2. \A i \in 1 .. (Len(s) + 1) : i \in 1 .. Len(s) \/ i = Len(s) + 1
    BY <1>1
  <1>3. 1 .. Len(s) \subseteq 1 .. (Len(s) + 1) /\ Len(s) + 1 \in 1 .. (Len(s) + 1)
    BY <1>1
  <1> HIDE DEF Line
  <1> QED BY <1>1, <1>2, <1>3, Zenon DEF Has

\* Taking the first line of a queue removes it, and nothing else.
LEMMA HasTail ==
    ASSUME NEW s \in Seq(Line), s # << >>, NEW d, NEW o
    PROVE  Has(s, d, o) <=> Has(Tail(s), d, o) \/ (Head(s).op = o /\ Head(s).doc = d)
  <1>1. /\ Tail(s) \in Seq(Line) /\ Len(Tail(s)) = Len(s) - 1 /\ Len(s) \in Nat
        /\ DOMAIN s = 1 .. Len(s) /\ DOMAIN Tail(s) = 1 .. (Len(s) - 1)
        /\ \A i \in 1 .. (Len(s) - 1) : Tail(s)[i] = s[i + 1]
        /\ Head(s) = s[1] /\ Len(s) >= 1
    BY HeadTailProperties, EmptySeq
  <1>2. \A i \in 1 .. Len(s) : i = 1 \/ (i - 1 \in 1 .. (Len(s) - 1) /\ Tail(s)[i - 1] = s[i])
    BY <1>1
  <1>3. \A i \in 1 .. (Len(s) - 1) : i + 1 \in 1 .. Len(s) /\ Tail(s)[i] = s[i + 1]
    BY <1>1
  <1>4. 1 \in 1 .. Len(s)
    BY <1>1
  <1>5. ASSUME Has(s, d, o)
        PROVE  Has(Tail(s), d, o) \/ (Head(s).op = o /\ Head(s).doc = d)
    <2>1. PICK i \in 1 .. Len(s) : s[i].op = o /\ s[i].doc = d
      BY <1>1, <1>5 DEF Has
    <2>2. CASE i = 1
      BY <1>1, <2>1, <2>2
    <2>3. CASE i # 1
      BY <1>1, <1>2, <2>1, <2>3 DEF Has
    <2> QED BY <2>2, <2>3
  <1>6. ASSUME Has(Tail(s), d, o) PROVE Has(s, d, o)
    <2>1. PICK i \in 1 .. (Len(s) - 1) : Tail(s)[i].op = o /\ Tail(s)[i].doc = d
      BY <1>1, <1>6 DEF Has
    <2> QED BY <1>1, <1>3, <2>1 DEF Has
  <1>7. ASSUME Head(s).op = o, Head(s).doc = d PROVE Has(s, d, o)
    BY <1>1, <1>4, <1>7 DEF Has
  <1> QED BY <1>5, <1>6, <1>7

\* A queue without two operations on a document keeps none on the document of
\* the line that is taken from it.
LEMMA OneOpTail ==
    ASSUME NEW s \in Seq(Line), s # << >>, OneOpPerDoc(s)
    PROVE  /\ OneOpPerDoc(Tail(s))
           /\ Head(s).op \in DocOps => \A o \in DocOps : ~Has(Tail(s), Head(s).doc, o)
  <1>1. /\ Tail(s) \in Seq(Line) /\ Len(Tail(s)) = Len(s) - 1 /\ Len(s) \in Nat
        /\ DOMAIN s = 1 .. Len(s) /\ DOMAIN Tail(s) = 1 .. (Len(s) - 1)
        /\ \A i \in 1 .. (Len(s) - 1) : Tail(s)[i] = s[i + 1]
        /\ Head(s) = s[1] /\ Len(s) >= 1
    BY HeadTailProperties, EmptySeq
  <1>2. \A i \in 1 .. (Len(s) - 1) : i + 1 \in 1 .. Len(s) /\ Tail(s)[i] = s[i + 1] /\ i + 1 # 1
    BY <1>1
  <1>3. \A i, j \in 1 .. (Len(s) - 1) : i + 1 = j + 1 => i = j
    BY <1>1
  <1>4. 1 \in 1 .. Len(s)
    BY <1>1
  <1>5. OneOpPerDoc(Tail(s))
    BY <1>1, <1>2, <1>3 DEF OneOpPerDoc
  <1>6. ASSUME Head(s).op \in DocOps, NEW o \in DocOps, Has(Tail(s), Head(s).doc, o)
        PROVE  FALSE
    <2>1. PICK i \in 1 .. (Len(s) - 1) : Tail(s)[i].op = o /\ Tail(s)[i].doc = s[1].doc
      BY <1>1, <1>6 DEF Has
    <2> QED BY <1>1, <1>2, <1>4, <1>6, <2>1 DEF OneOpPerDoc
  <1> QED BY <1>5, <1>6

\* A line about a document that the queue does not have may join it.
LEMMA OneOpAppend ==
    ASSUME NEW s \in Seq(Line), NEW l \in Line, OneOpPerDoc(s),
           l.op \in DocOps => \A o \in DocOps : ~Has(s, l.doc, o)
    PROVE  OneOpPerDoc(Append(s, l))
  <1>1. /\ DOMAIN Append(s, l) = 1 .. (Len(s) + 1) /\ DOMAIN s = 1 .. Len(s)
        /\ Len(s) \in Nat
        /\ \A i \in 1 .. Len(s) : Append(s, l)[i] = s[i]
        /\ Append(s, l)[Len(s) + 1] = l
    BY AppendProperties
  <1>2. \A i \in 1 .. (Len(s) + 1) : i \in 1 .. Len(s) \/ i = Len(s) + 1
    BY <1>1
  <1> QED BY <1>1, <1>2 DEF OneOpPerDoc, Has

\* The elements of a longer sequence.
LEMMA ElemsAppend ==
    ASSUME NEW S, NEW s \in Seq(S), NEW x \in S
    PROVE  Elems(Append(s, x)) = Elems(s) \cup {x}
  <1>1. /\ DOMAIN Append(s, x) = 1 .. (Len(s) + 1) /\ DOMAIN s = 1 .. Len(s)
        /\ Len(s) \in Nat
        /\ \A i \in 1 .. Len(s) : Append(s, x)[i] = s[i]
        /\ Append(s, x)[Len(s) + 1] = x
    BY AppendProperties
  <1>2. \A i \in 1 .. (Len(s) + 1) : i \in 1 .. Len(s) \/ i = Len(s) + 1
    BY <1>1
  <1>3. 1 .. Len(s) \subseteq 1 .. (Len(s) + 1) /\ Len(s) + 1 \in 1 .. (Len(s) + 1)
    BY <1>1
  <1>4. ASSUME NEW y \in Elems(Append(s, x)) PROVE y \in Elems(s) \cup {x}
    <2>1. PICK i \in 1 .. (Len(s) + 1) : y = Append(s, x)[i]
      BY <1>1, <1>4 DEF Elems
    <2> QED BY <1>1, <1>2, <2>1 DEF Elems
  <1>5. ASSUME NEW y \in Elems(s) \cup {x} PROVE y \in Elems(Append(s, x))
    BY <1>1, <1>3, <1>5 DEF Elems
  <1> QED BY <1>4, <1>5

\* A new element keeps a sequence free of repetitions.
LEMMA DistinctAppend ==
    ASSUME NEW S, NEW s \in Seq(S), NEW x \in S, Distinct(s), x \notin Elems(s)
    PROVE  Distinct(Append(s, x))
  <1>1. /\ DOMAIN Append(s, x) = 1 .. (Len(s) + 1) /\ DOMAIN s = 1 .. Len(s)
        /\ Len(s) \in Nat
        /\ \A i \in 1 .. Len(s) : Append(s, x)[i] = s[i]
        /\ Append(s, x)[Len(s) + 1] = x
    BY AppendProperties
  <1>2. \A i \in 1 .. (Len(s) + 1) : i \in 1 .. Len(s) \/ i = Len(s) + 1
    BY <1>1
  <1>3. \A i \in 1 .. Len(s) : s[i] # x
    BY <1>1 DEF Elems
  <1> QED BY <1>1, <1>2, <1>3 DEF Distinct

\* The number of operations on documents is a number.
LEMMA DocLinesNat ==
    ASSUME NEW s \in Seq(Line)
    PROVE  DocLines(s) \in Nat /\ IsFiniteSet({i \in DOMAIN s : s[i].op \in DocOps})
  <1>1. IsFiniteSet(1 .. Len(s)) /\ DOMAIN s = 1 .. Len(s)
    BY FS_Interval
  <1>2. {i \in DOMAIN s : s[i].op \in DocOps} \in SUBSET (1 .. Len(s))
    BY <1>1
  <1>3. IsFiniteSet({i \in DOMAIN s : s[i].op \in DocOps})
    BY <1>1, <1>2, FS_Subset
  <1> QED BY <1>3, FS_CardinalityType DEF DocLines

\* A sent line is counted once, if it is an operation on a document.
LEMMA DocLinesAppend ==
    ASSUME NEW s \in Seq(Line), NEW l \in Line
    PROVE  DocLines(Append(s, l)) = DocLines(s) + (IF l.op \in DocOps THEN 1 ELSE 0)
  <1> DEFINE I(t) == {i \in DOMAIN t : t[i].op \in DocOps}
  <1>1. /\ DOMAIN Append(s, l) = 1 .. (Len(s) + 1) /\ DOMAIN s = 1 .. Len(s)
        /\ Len(s) \in Nat
        /\ \A i \in 1 .. Len(s) : Append(s, l)[i] = s[i]
        /\ Append(s, l)[Len(s) + 1] = l
    BY AppendProperties
  <1>2. \A i \in 1 .. (Len(s) + 1) : i \in 1 .. Len(s) \/ i = Len(s) + 1
    BY <1>1
  <1>3. 1 .. Len(s) \subseteq 1 .. (Len(s) + 1) /\ Len(s) + 1 \in 1 .. (Len(s) + 1)
        /\ Len(s) + 1 \notin 1 .. Len(s)
    BY <1>1
  <1>4. IsFiniteSet(I(s)) /\ Cardinality(I(s)) \in Nat
    BY DocLinesNat, FS_CardinalityType
  <1>5. CASE l.op \in DocOps
    <2>1. I(Append(s, l)) = I(s) \cup {Len(s) + 1} /\ Len(s) + 1 \notin I(s)
      BY <1>1, <1>2, <1>3, <1>5
    <2> QED BY <1>4, <1>5, <2>1, FS_AddElement DEF DocLines
  <1>6. CASE l.op \notin DocOps
    <2>1. I(Append(s, l)) = I(s)
      BY <1>1, <1>2, <1>3, <1>6
    <2>2. DocLines(Append(s, l)) = DocLines(s) /\ DocLines(s) \in Nat
      BY <1>4, <2>1 DEF DocLines
    <2> QED BY <1>6, <2>2
  <1> QED BY <1>5, <1>6

\* A received line leaves the count of the channel.
LEMMA DocLinesTail ==
    ASSUME NEW s \in Seq(Line), s # << >>
    PROVE  DocLines(s) = DocLines(Tail(s)) + (IF Head(s).op \in DocOps THEN 1 ELSE 0)
  <1> DEFINE I(t) == {i \in DOMAIN t : t[i].op \in DocOps}
             S == {i \in I(s) : i # 1}
             f == [i \in I(Tail(s)) |-> i + 1]
  <1>1. /\ Tail(s) \in Seq(Line) /\ Len(Tail(s)) = Len(s) - 1 /\ Len(s) \in Nat
        /\ DOMAIN s = 1 .. Len(s) /\ DOMAIN Tail(s) = 1 .. (Len(s) - 1)
        /\ \A i \in 1 .. (Len(s) - 1) : Tail(s)[i] = s[i + 1]
        /\ Head(s) = s[1] /\ Len(s) >= 1
    BY HeadTailProperties, EmptySeq
  <1>2. IsFiniteSet(I(Tail(s))) /\ Cardinality(I(Tail(s))) \in Nat
    BY <1>1, DocLinesNat, FS_CardinalityType
  <1>3. \A i \in I(Tail(s)) : i \in Nat /\ i + 1 \in S
    BY <1>1
  <1>4. \A j \in S : \E i \in I(Tail(s)) : j = i + 1
    <2> TAKE j \in S
    <2>1. j - 1 \in I(Tail(s)) /\ j = (j - 1) + 1
      BY <1>1
    <2> QED BY <2>1
  <1>5. f \in Bijection(I(Tail(s)), S)
    BY <1>3, <1>4 DEF Bijection, Injection, Surjection, IsInjective
  <1>6. IsFiniteSet(S) /\ Cardinality(S) = Cardinality(I(Tail(s)))
    BY <1>2, <1>5, FS_Bijection DEF ExistsBijection
  <1>7. CASE Head(s).op \in DocOps
    <2>1. I(s) = S \cup {1} /\ 1 \notin S
      BY <1>1, <1>7
    <2> QED BY <1>2, <1>6, <1>7, <2>1, FS_AddElement DEF DocLines
  <1>8. CASE Head(s).op \notin DocOps
    <2>1. I(s) = S
      BY <1>1, <1>8
    <2>2. DocLines(s) = DocLines(Tail(s)) /\ DocLines(Tail(s)) \in Nat
      BY <1>2, <1>6, <2>1 DEF DocLines
    <2> QED BY <1>8, <2>2
  <1> QED BY <1>7, <1>8

\* The lines that arrived are counted one by one, up to those of the body.
LEMMA DocLinesPrefix ==
    ASSUME NEW s \in Seq(Line), NEW k \in 0 .. Len(s)
    PROVE  /\ SubSeq(s, 1, k) \in Seq(Line)
           /\ DocLines(SubSeq(s, 1, k)) \in Nat
           /\ DocLines(SubSeq(s, 1, k)) <= DocLines(s)
           /\ k = Len(s) => SubSeq(s, 1, k) = s
           /\ k = 0 => SubSeq(s, 1, k) = << >>
           /\ k < Len(s) => SubSeq(s, 1, k + 1) = Append(SubSeq(s, 1, k), s[k + 1])
  <1> DEFINE I(t) == {i \in DOMAIN t : t[i].op \in DocOps}
             t == SubSeq(s, 1, k)
  <1>1. DOMAIN s = 1 .. Len(s) /\ Len(s) \in Nat /\ k \in Nat /\ \A i \in 1 .. Len(s) : s[i] \in Line
    BY ElementOfSeq
  <1>2. \A i \in 1 .. k : s[i] \in Line
    BY <1>1
  <1>3. t \in Seq(Line) /\ Len(t) = k /\ \A i \in 1 .. k : t[i] = s[i]
    BY <1>1, <1>2, SubSeqProperties
  <1>4. DocLines(t) \in Nat
    BY <1>3, DocLinesNat
  <1>5. DocLines(t) <= DocLines(s)
    <2>1. DOMAIN t = 1 .. k
      BY <1>3
    <2>2. I(t) \in SUBSET I(s)
      BY <1>1, <1>3, <2>1
    <2> QED BY <2>2, DocLinesNat, FS_Subset DEF DocLines
  <1>6. k = Len(s) => t = s
    BY SubSeqFull
  <1>7. k = 0 => t = << >>
    BY SubSeqEmpty
  <1>8. ASSUME k < Len(s) PROVE SubSeq(s, 1, k + 1) = Append(t, s[k + 1])
    <2>1. k + 1 \in 1 .. Len(s) /\ 1 \in 1 .. Len(s) /\ (k + 1) - 1 = k
      BY <1>1, <1>8
    <2>2. SubSeq(s, 1, k + 1) = SubSeq(s, 1, k) \o <<s[k + 1]>>
      BY <2>1, SubSeqRecursiveSecond
    <2> QED BY <1>1, <1>3, <2>1, <2>2, AppendIsConcat
  <1> QED BY <1>3, <1>4, <1>5, <1>6, <1>7, <1>8
-----------------------------------------------------------------------------
(* Types, and when the input is used up.                                   *)

\* The reader is behind what arrived; what waits in the channel and in the
\* micro-batch names documents; the last flush, the write phase and success
\* come after the last line was taken from the channel.
IngestTypes ==
    /\ lines \in Bodies /\ streaming \in BOOLEAN /\ declared \in BOOLEAN
    /\ got \in 0 .. 3 * Len(lines) /\ parsed \in 0 .. Len(lines)
    /\ rpc \in {"read", "last", "closed"}
    /\ rpc = "read" => parsed <= got \div 3
    /\ rpc = "last" => parsed = got \div 3
    /\ chan \in Seq(Line) /\ batch \in Seq(Line)
    /\ ppc \in {"recv", "flush", "final", "write", "reply", "done"}
    /\ docsSeen \in Nat /\ dels \in Seq(BodyDoc) /\ rows \in Seq(BodyDoc) /\ skipped \subseteq BodyDoc
    /\ \A i \in DOMAIN chan : chan[i].op \in DocOps => chan[i].doc \in BodyDoc
    /\ \A i \in DOMAIN batch : batch[i].op \in {"Inserted", "Changed"} /\ batch[i].doc \in BodyDoc
    /\ result \in {"none", "ok", "err"}
    /\ result = "ok" => ppc \in {"reply", "done"}
    /\ ppc \in {"final", "write"} \/ result = "ok" => rpc = "closed" /\ chan = << >>
    /\ ppc = "write" \/ result = "ok" => batch = << >>
    /\ ppc \in {"recv", "flush", "final", "write"} => result = "none"

\* Bodies are sequences of lines with an operation per document.
LEMMA BodyLines ==
    ASSUME IngestTypes
    PROVE  /\ lines \in Seq(Line) /\ OneOpPerDoc(lines) /\ Len(lines) \in Nat
           /\ DOMAIN lines = 1 .. Len(lines)
           /\ \A i \in DOMAIN lines : lines[i] \in Line
           /\ \A i \in DOMAIN lines : lines[i].op \in DocOps => lines[i].doc \in BodyDoc
  <1>1. lines \in Bodies
    BY DEF IngestTypes
  <1>2. lines \in Seq(Line) /\ OneOpPerDoc(lines)
        /\ \A i \in DOMAIN lines : lines[i].op \in DocOps => lines[i].doc \in BodyDoc
    BY <1>1, BodiesAssumption
  <1> QED BY <1>2, ElementOfSeq

\* What one step of the reader does to the channel: nothing; it passes over a
\* line that is no operation (or that nobody waits for); or it sends the line.
ReaderMoves ==
    \/ UNCHANGED <<parsed, chan>>
    \/ /\ parsed < Len(lines) /\ parsed' = parsed + 1 /\ UNCHANGED chan
       /\ lines[parsed + 1].op \notin DocOps \/ ppc = "done"
    \/ /\ parsed < Len(lines) /\ parsed' = parsed + 1 /\ ppc # "done"
       /\ \E l \in Line : /\ chan' = Append(chan, l)
                          /\ l = lines[parsed + 1] \/ (l.op = "Error" /\ lines[parsed + 1].op \notin DocOps)

\* The reader's steps are such moves, of a reader that has not stopped.
LEMMA ReaderStep ==
    ASSUME IngestTypes, ReadLine \/ LastLine
    PROVE  /\ ReaderMoves /\ rpc # "closed" /\ rpc' \in {"read", "closed"}
           /\ rpc' = "read" => parsed' <= got \div 3
           /\ UNCHANGED <<input, got, ppc, report, work, progress, gone, cancelToken, table, result>>
  <1>0. /\ got \in 0 .. 3 * Len(lines) /\ parsed \in 0 .. Len(lines) /\ Len(lines) \in Nat
        /\ rpc = "read" => parsed <= got \div 3
        /\ rpc = "last" => parsed = got \div 3
        /\ chan \in Seq(Line)
        /\ DOMAIN lines = 1 .. Len(lines) /\ \A i \in DOMAIN lines : lines[i] \in Line
    BY BodyLines DEF IngestTypes
  <1>1. CASE ReadLine
    <2>1. parsed < got \div 3 /\ parsed < Len(lines)
      BY <1>0, <1>1 DEF ReadLine, BufferDrained
    <2>2. lines[parsed + 1] \in Line
      BY <1>0, <2>1
    <2>3. [lines[parsed + 1] EXCEPT !.op = "Error"] \in Line
          /\ [lines[parsed + 1] EXCEPT !.op = "Error"].op = "Error"
      BY <2>2 DEF Line
    <2>4. parsed' = parsed + 1 /\ parsed' <= got \div 3
      BY <1>0, <1>1, <2>1 DEF ReadLine
    <2>5. "malformed" \notin DocOps /\ "blank" \notin DocOps
      BY DEF DocOps
    <2>6. ReaderMoves
      <3> HIDE DEF Line, DocOps
      <3>1. CASE lines[parsed + 1].op = "blank" /\ UNCHANGED chan
        BY <3>1, <2>1, <2>4, <2>5 DEF ReaderMoves
      <3>2. CASE lines[parsed + 1].op = "malformed" /\ streaming /\ Send([lines[parsed + 1] EXCEPT !.op = "Error"])
        BY <3>2, <2>1, <2>3, <2>4, <2>5 DEF ReaderMoves, Send
      <3>3. CASE lines[parsed + 1].op = "malformed" /\ UNCHANGED chan
        BY <3>3, <2>1, <2>4, <2>5 DEF ReaderMoves
      <3>4. CASE Send(lines[parsed + 1])
        BY <3>4, <2>1, <2>2, <2>4 DEF ReaderMoves, Send
      <3> QED BY <1>1, <3>1, <3>2, <3>3, <3>4 DEF ReadLine
    <2>7. rpc = "read" /\ rpc' \in {"read", "closed"}
          /\ UNCHANGED <<input, got, ppc, report, work, progress, gone, cancelToken, table, result>>
      BY <1>1 DEF ReadLine
    <2> QED BY <2>4, <2>6, <2>7
  <1>2. CASE LastLine
    <2>1. rpc = "last" /\ rpc' = "closed"
          /\ UNCHANGED <<input, got, ppc, report, work, progress, gone, cancelToken, table, result>>
      BY <1>2 DEF LastLine
    <2>2. CASE got % 3 = 2
      <3>1. parsed < Len(lines)
        BY <1>0, <2>1, <2>2
      <3>2. parsed' = parsed + 1 /\ lines[parsed + 1] \in Line
        BY <1>0, <1>2, <2>2, <3>1 DEF LastLine
      <3>3. "malformed" \notin DocOps /\ "blank" \notin DocOps
        BY DEF DocOps
      <3>4. \/ Send(lines[parsed + 1])
            \/ lines[parsed + 1].op \notin DocOps /\ UNCHANGED chan
        BY <1>2, <2>2, <3>3 DEF LastLine
      <3> HIDE DEF Line, DocOps
      <3> QED BY <2>1, <3>1, <3>2, <3>4 DEF ReaderMoves, Send
    <2>3. CASE got % 3 # 2
      BY <1>2, <2>1, <2>3 DEF LastLine, ReaderMoves
    <2> QED BY <2>2, <2>3
  <1> QED BY <1>1, <1>2

\* A move of the reader keeps the channel a sequence of lines about documents.
LEMMA ReaderKeepsTypes ==
    ASSUME IngestTypes, ReaderMoves, UNCHANGED lines
    PROVE  /\ parsed' \in 0 .. Len(lines) /\ chan' \in Seq(Line)
           /\ \A i \in DOMAIN chan' : chan'[i].op \in DocOps => chan'[i].doc \in BodyDoc
  <1>0. /\ parsed \in 0 .. Len(lines) /\ Len(lines) \in Nat /\ chan \in Seq(Line)
        /\ DOMAIN lines = 1 .. Len(lines)
        /\ \A i \in DOMAIN lines : lines[i].op \in DocOps => lines[i].doc \in BodyDoc
        /\ \A i \in DOMAIN chan : chan[i].op \in DocOps => chan[i].doc \in BodyDoc
    BY BodyLines DEF IngestTypes
  <1>1. parsed' \in 0 .. Len(lines)
    BY <1>0 DEF ReaderMoves
  <1>2. ASSUME NEW l \in Line, chan' = Append(chan, l), parsed < Len(lines),
               l = lines[parsed + 1] \/ (l.op = "Error" /\ lines[parsed + 1].op \notin DocOps)
        PROVE  /\ chan' \in Seq(Line)
               /\ \A i \in DOMAIN chan' : chan'[i].op \in DocOps => chan'[i].doc \in BodyDoc
    <2>1. l.op \in DocOps => l.doc \in BodyDoc
      BY <1>0, <1>2 DEF DocOps
    <2>2. /\ chan' \in Seq(Line) /\ DOMAIN chan' = 1 .. (Len(chan) + 1) /\ DOMAIN chan = 1 .. Len(chan)
          /\ \A i \in 1 .. Len(chan) : chan'[i] = chan[i]
          /\ chan'[Len(chan) + 1] = l /\ Len(chan) \in Nat
      BY <1>0, <1>2, AppendProperties
    <2>3. \A i \in 1 .. (Len(chan) + 1) : i \in 1 .. Len(chan) \/ i = Len(chan) + 1
      BY <2>2
    <2> QED BY <1>0, <2>1, <2>2, <2>3
  <1> HIDE DEF Line, DocOps
  <1>3. ASSUME UNCHANGED chan
        PROVE  /\ chan' \in Seq(Line)
               /\ \A i \in DOMAIN chan' : chan'[i].op \in DocOps => chan'[i].doc \in BodyDoc
    BY <1>0, <1>3
  <1> QED BY <1>1, <1>2, <1>3 DEF ReaderMoves

\* The head of a queue and what is left of it.
LEMMA QueueTypes ==
    ASSUME NEW s \in Seq(Line), s # << >>
    PROVE  /\ Head(s) \in Line /\ Tail(s) \in Seq(Line) /\ Len(Tail(s)) = Len(s) - 1
           /\ 1 \in DOMAIN s /\ Head(s) = s[1]
           /\ \A i \in DOMAIN Tail(s) : i + 1 \in DOMAIN s /\ Tail(s)[i] = s[i + 1]
  BY HeadTailProperties, EmptySeq

\* Types are kept.
LEMMA IngestTypesStep ==
    ASSUME IngestTypes, IngNext
    PROVE  IngestTypes'
  <1>0. Len(lines) \in Nat
    BY BodyLines
  <1> USE DEF IngestTypes
  <1>1. CASE ReadLine \/ LastLine
    <2>1. /\ rpc # "closed" /\ rpc' \in {"read", "closed"}
          /\ rpc' = "read" => parsed' <= got \div 3
          /\ UNCHANGED <<input, got, ppc, report, work, progress, gone, cancelToken, table, result>>
          /\ ReaderMoves
      BY <1>1, ReaderStep
    <2>2. /\ parsed' \in 0 .. Len(lines) /\ chan' \in Seq(Line)
          /\ \A i \in DOMAIN chan' : chan'[i].op \in DocOps => chan'[i].doc \in BodyDoc
      BY <2>1, ReaderKeepsTypes
    <2> HIDE DEF Line, DocOps
    <2> QED BY <2>1, <2>2
  <1>2. CASE Receive
    <2>0. /\ chan # << >> /\ ppc = "recv" /\ chan' = Tail(chan)
          /\ UNCHANGED <<input, reader, report, rows, progress, gone, cancelToken, table>>
      BY <1>2 DEF Receive
    <2>1. /\ Tail(chan) \in Seq(Line) /\ Head(chan) \in Line
          /\ Head(chan).op \in DocOps => Head(chan).doc \in BodyDoc
          /\ \A i \in DOMAIN Tail(chan) : Tail(chan)[i].op \in DocOps => Tail(chan)[i].doc \in BodyDoc
      BY <2>0, QueueTypes
    <2>2. CASE Head(chan).op \in {"Inserted", "Changed"} /\ Accept(Head(chan))
      <3>1. Head(chan).doc \in BodyDoc
        BY <2>1, <2>2 DEF DocOps
      <3>2. /\ Append(batch, Head(chan)) \in Seq(Line)
            /\ \A i \in DOMAIN Append(batch, Head(chan)) :
                  /\ Append(batch, Head(chan))[i].op \in {"Inserted", "Changed"}
                  /\ Append(batch, Head(chan))[i].doc \in BodyDoc
        <4>1. /\ Append(batch, Head(chan)) \in Seq(Line)
              /\ DOMAIN Append(batch, Head(chan)) = 1 .. (Len(batch) + 1) /\ DOMAIN batch = 1 .. Len(batch)
              /\ \A i \in 1 .. Len(batch) : Append(batch, Head(chan))[i] = batch[i]
              /\ Append(batch, Head(chan))[Len(batch) + 1] = Head(chan) /\ Len(batch) \in Nat
          BY <2>1, AppendProperties
        <4>2. \A i \in 1 .. (Len(batch) + 1) : i \in 1 .. Len(batch) \/ i = Len(batch) + 1
          BY <4>1
        <4> QED BY <2>2, <3>1, <4>1, <4>2
      <3> HIDE DEF Line, DocOps
      <3>3. /\ docsSeen' \in Nat /\ UNCHANGED <<dels, result>> /\ ppc' \in {"recv", "flush"}
            /\ \/ batch' = Append(batch, Head(chan)) /\ UNCHANGED skipped
               \/ skipped' = skipped \cup {Head(chan).doc} /\ UNCHANGED batch
        BY <2>2 DEF Accept
      <3> QED BY <2>0, <2>1, <3>1, <3>2, <3>3
    <2>3. CASE Head(chan).op = "Deleted" /\ dels' = Append(dels, Head(chan).doc)
               /\ UNCHANGED <<ppc, batch, docsSeen, skipped, result>>
      <3>1. Head(chan).doc \in BodyDoc
        BY <2>1, <2>3 DEF DocOps
      <3>2. dels' \in Seq(BodyDoc)
        BY <2>3, <3>1
      <3> HIDE DEF Line, DocOps
      <3> QED BY <2>0, <2>1, <2>3, <3>2
    <2>4. CASE UNCHANGED <<ppc, batch, docsSeen, dels, skipped, result>>
      <3> HIDE DEF Line, DocOps
      <3> QED BY <2>0, <2>1, <2>4
    <2>5. CASE result' = "err" /\ ppc' = "reply" /\ UNCHANGED <<batch, docsSeen, dels, skipped>>
      <3> HIDE DEF Line, DocOps
      <3> QED BY <2>0, <2>1, <2>5
    <2> QED BY <1>2, <2>2, <2>3, <2>4, <2>5 DEF Receive
  <1>3. CASE EmbedDoc
    <2>0. /\ batch # << >> /\ ppc \in {"flush", "final"} /\ batch' = Tail(batch)
          /\ UNCHANGED <<input, reader, chan, ppc, docsSeen, progress, gone, cancelToken, table, result>>
      BY <1>3 DEF EmbedDoc
    <2>1. /\ Tail(batch) \in Seq(Line) /\ Head(batch) \in Line /\ Head(batch).doc \in BodyDoc
          /\ \A i \in DOMAIN Tail(batch) :
                Tail(batch)[i].op \in {"Inserted", "Changed"} /\ Tail(batch)[i].doc \in BodyDoc
      BY <2>0, QueueTypes
    <2>2. dels' \in Seq(BodyDoc) /\ rows' \in Seq(BodyDoc) /\ skipped' \subseteq BodyDoc
      <3>1. Append(dels, Head(batch).doc) \in Seq(BodyDoc) /\ Append(rows, Head(batch).doc) \in Seq(BodyDoc)
        BY <2>1, AppendProperties
      <3>2. PICK e \in BodyDoc : e = Head(batch).doc
        BY <2>1
      <3> QED BY <1>3, <3>1, <3>2 DEF EmbedDoc
    <2> HIDE DEF Line, DocOps
    <2> QED BY <2>0, <2>1, <2>2
  <1>4. CASE ReadChunk
    <2>1. got' \in 0 .. 3 * Len(lines) /\ (rpc' = "read" => parsed <= got' \div 3)
      BY <1>0, <1>4 DEF ReadChunk, BufferDrained
    <2>2. rpc = "read" /\ rpc' \in {"read", "closed"}
      BY <1>4 DEF ReadChunk
    <2> HIDE DEF Line, DocOps
    <2> QED BY <1>4, <2>1, <2>2 DEF ReadChunk
  <1>5. CASE ReadEnd
    <2> HIDE DEF Line, DocOps
    <2> QED BY <1>5 DEF ReadEnd, BufferDrained
  <1> HIDE DEF Line, DocOps
  <1>6. CASE FlushDone
    BY <1>6 DEF FlushDone
  <1>7. CASE Report
    BY <1>7 DEF Report
  <1>8. CASE EndOfBody
    BY <1>8 DEF EndOfBody
  <1>9. CASE WritePhase
    BY <1>9 DEF WritePhase
  <1>10. CASE Reply
    BY <1>10 DEF Reply
  <1>11. CASE Superseded
    BY <1>11 DEF Superseded
  <1>12. CASE ReadProgress \/ Cancel
    BY <1>12 DEF ReadProgress, Cancel
  <1>13. CASE ClientLeaves
    BY <1>13 DEF ClientLeaves
  <1> HIDE DEF IngestTypes
  <1> QED BY <1>1, <1>2, <1>3, <1>4, <1>5, <1>6, <1>7, <1>8, <1>9, <1>10, <1>11, <1>12, <1>13
          DEF IngNext, ReaderTask, PipelineTask, ClientSends
-----------------------------------------------------------------------------
(* Where an operation is.                                                  *)

\* The document was skipped, or has a row or a deletion for the write phase.
Decided(d) == d \in skipped \cup Elems(rows) \cup Elems(dels)

\* An operation that arrived is in the channel, in the micro-batch, or decided,
\* and never in two of these; it is lost only if the pipeline gave up.  What is
\* collected for a document says which operation arrived.
Fate(d) ==
    /\ \A o \in DocOps : Has(chan, d, o) \/ Has(batch, d, o) => Has(Arrived, d, o)
    /\ \A o \in DocOps : Has(chan, d, o) => ~Has(batch, d, o) /\ ~Decided(d)
    /\ \A o \in DocOps : Has(batch, d, o) => ~Decided(d)
    /\ d \in Elems(rows) => Has(Arrived, d, IF d \in Elems(dels) THEN "Changed" ELSE "Inserted")
    /\ d \in Elems(dels) => Has(Arrived, d, IF d \in Elems(rows) THEN "Changed" ELSE "Deleted")
    /\ d \in skipped => /\ d \notin Elems(rows) /\ d \notin Elems(dels)
                        /\ Has(Arrived, d, "Inserted") \/ Has(Arrived, d, "Changed")
    /\ ppc # "done" \/ result = "ok" =>
          \A o \in DocOps : Has(Arrived, d, o) => Has(chan, d, o) \/ Has(batch, d, o) \/ Decided(d)

\* The table is the old one until the write phase, which applies what was collected.
Written ==
    table = IF result = "ok"
              THEN {r \in Old \X {0} : r[1] \notin Elems(dels)} \cup {<<rows[i], i>> : i \in DOMAIN rows}
              ELSE Old \X {0}

FateInv ==
    /\ \A d \in BodyDoc : Fate(d)
    /\ OneOpPerDoc(chan) /\ OneOpPerDoc(batch) /\ Distinct(rows)
    /\ Written

\* The part of a body that arrived names a document once, and the next line
\* names none of its documents.
LEMMA ArrivedOnce ==
    ASSUME IngestTypes
    PROVE  /\ Arrived \in Seq(Line)
           /\ \A d, o, p : o \in DocOps /\ p \in DocOps /\ Has(Arrived, d, o) /\ Has(Arrived, d, p) => o = p
           /\ parsed < Len(lines) =>
                /\ SubSeq(lines, 1, parsed + 1) = Append(Arrived, lines[parsed + 1])
                /\ lines[parsed + 1] \in Line
                /\ lines[parsed + 1].op \in DocOps =>
                      /\ lines[parsed + 1].doc \in BodyDoc
                      /\ \A o \in DocOps : ~Has(Arrived, lines[parsed + 1].doc, o)
  <1>1. /\ lines \in Seq(Line) /\ OneOpPerDoc(lines) /\ Len(lines) \in Nat
        /\ DOMAIN lines = 1 .. Len(lines) /\ parsed \in 0 .. Len(lines)
        /\ \A i \in DOMAIN lines : lines[i] \in Line
        /\ \A i \in DOMAIN lines : lines[i].op \in DocOps => lines[i].doc \in BodyDoc
    BY BodyLines DEF IngestTypes
  <1>2. /\ Arrived \in Seq(Line)
        /\ parsed < Len(lines) => SubSeq(lines, 1, parsed + 1) = Append(Arrived, lines[parsed + 1])
    BY <1>1, DocLinesPrefix DEF Arrived
  <1>3. DOMAIN Arrived = 1 .. parsed /\ \A i \in 1 .. parsed : Arrived[i] = lines[i] /\ i \in DOMAIN lines
    <2>1. \A i \in 1 .. parsed : lines[i] \in Line /\ i \in DOMAIN lines
      BY <1>1
    <2>2. Len(SubSeq(lines, 1, parsed)) = parsed
          /\ \A i \in 1 .. parsed : SubSeq(lines, 1, parsed)[i] = lines[i]
      BY <1>1, <2>1, SubSeqProperties
    <2> QED BY <1>2, <2>1, <2>2 DEF Arrived
  <1>4. ASSUME NEW d, NEW o \in DocOps, NEW p \in DocOps, Has(Arrived, d, o), Has(Arrived, d, p)
        PROVE  o = p
    <2>1. PICK i \in 1 .. parsed : lines[i].op = o /\ lines[i].doc = d
      BY <1>3, <1>4 DEF Has
    <2>2. PICK j \in 1 .. parsed : lines[j].op = p /\ lines[j].doc = d
      BY <1>3, <1>4 DEF Has
    <2> QED BY <1>1, <1>3, <2>1, <2>2 DEF OneOpPerDoc
  <1>5. ASSUME parsed < Len(lines), lines[parsed + 1].op \in DocOps, NEW o \in DocOps,
               Has(Arrived, lines[parsed + 1].doc, o)
        PROVE  FALSE
    <2>1. PICK i \in 1 .. parsed : lines[i].op = o /\ lines[i].doc = lines[parsed + 1].doc
      BY <1>3, <1>5 DEF Has
    <2>2. parsed + 1 \in DOMAIN lines /\ i # parsed + 1 /\ i \in DOMAIN lines
      BY <1>1, <1>5
    <2> QED BY <1>1, <1>5, <2>1, <2>2 DEF OneOpPerDoc
  <1>6. parsed < Len(lines) => parsed + 1 \in DOMAIN lines
    BY <1>1
  <1> HIDE DEF Line, DocOps, Has
  <1> QED BY <1>1, <1>2, <1>4, <1>5, <1>6

\* A line that the reader has dealt with is in the channel, or was no operation,
\* or came after the pipeline had given up.
LEMMA FateReader ==
    ASSUME IngestTypes, FateInv, ReadLine \/ LastLine
    PROVE  FateInv'
  <1> DEFINE m == lines[parsed + 1]
  <1>0. /\ ReaderMoves /\ result # "ok" /\ chan \in Seq(Line)
        /\ UNCHANGED <<lines, ppc, batch, docsSeen, dels, rows, skipped, table, result>>
    BY ReaderStep DEF IngestTypes
  <1>1. UNCHANGED <<Elems(rows), Elems(dels), skipped, ppc, result, batch>> /\ Written'
        /\ OneOpPerDoc(batch') /\ Distinct(rows')
    BY <1>0 DEF FateInv, Written, Elems
  <1>2. CASE UNCHANGED <<parsed, chan>>
    <2>1. UNCHANGED Arrived
      BY <1>0, <1>2 DEF Arrived
    <2>2. ASSUME NEW d \in BodyDoc PROVE Fate(d)'
      BY <1>0, <1>1, <1>2, <2>1 DEF Fate, Decided, FateInv
    <2> QED BY <1>0, <1>1, <1>2, <2>2 DEF FateInv
  <1>3. CASE parsed < Len(lines) /\ parsed' = parsed + 1
    <2>1. /\ Arrived' = Append(Arrived, m) /\ Arrived \in Seq(Line) /\ m \in Line
          /\ m.op \in DocOps => m.doc \in BodyDoc /\ \A o \in DocOps : ~Has(Arrived, m.doc, o)
      BY <1>0, <1>3, ArrivedOnce DEF Arrived
    <2>2. \A d, o : Has(Arrived', d, o) <=> Has(Arrived, d, o) \/ (m.op = o /\ m.doc = d)
      BY <2>1, HasAppend
    <2>3. CASE UNCHANGED chan /\ (m.op \notin DocOps \/ ppc = "done")
      <3>1. ASSUME NEW d \in BodyDoc PROVE Fate(d)'
        <4> HIDE DEF m, DocOps
        <4>1. Fate(d) /\ {"Inserted", "Changed", "Deleted"} \subseteq DocOps
          BY DEF FateInv, DocOps
        <4> QED BY <1>0, <1>1, <2>2, <2>3, <4>1 DEF Fate, Decided
      <3> QED BY <1>0, <1>1, <2>3, <3>1 DEF FateInv
    <2>4. ASSUME NEW l \in Line, chan' = Append(chan, l), ppc # "done",
                 l = m \/ (l.op = "Error" /\ m.op \notin DocOps)
          PROVE  FateInv'
      <3>1. \A d : \A o \in DocOps : Has(chan', d, o) <=> Has(chan, d, o) \/ (m.op = o /\ m.doc = d)
        BY <1>0, <2>4, HasAppend DEF DocOps
      <3>2. m.op \in DocOps => \A o \in DocOps : ~Has(chan, m.doc, o) /\ ~Has(batch, m.doc, o)
                                                 /\ ~Decided(m.doc)
        <4> SUFFICES ASSUME m.op \in DocOps PROVE \A o \in DocOps : ~Has(chan, m.doc, o)
                        /\ ~Has(batch, m.doc, o) /\ ~Decided(m.doc)
          OBVIOUS
        <4>1. Fate(m.doc) /\ \A o \in DocOps : ~Has(Arrived, m.doc, o)
          BY <2>1 DEF FateInv
        <4>2. {"Inserted", "Changed", "Deleted"} \subseteq DocOps
          BY DEF DocOps
        <4> HIDE DEF m, DocOps
        <4> QED BY <4>1, <4>2 DEF Fate, Decided
      <3>3. ASSUME NEW d \in BodyDoc PROVE Fate(d)'
        <4>1. Fate(d) /\ {"Inserted", "Changed", "Deleted"} \subseteq DocOps
          BY DEF FateInv, DocOps
        <4> HIDE DEF m, DocOps
        <4> QED BY <1>0, <1>1, <2>1, <2>2, <3>1, <3>2, <4>1 DEF Fate, Decided
      <3>4. l.op \in DocOps => \A o \in DocOps : ~Has(chan, l.doc, o)
        BY <2>4, <3>2 DEF DocOps
      <3>5. OneOpPerDoc(chan')
        BY <1>0, <2>4, <3>4, OneOpAppend DEF FateInv
      <3> QED BY <1>0, <1>1, <3>3, <3>5 DEF FateInv
    <2> QED BY <1>0, <1>2, <1>3, <2>3, <2>4 DEF ReaderMoves
  <1> QED BY <1>0, <1>2, <1>3 DEF ReaderMoves

\* A received operation moves to the micro-batch, to the deletions, or to the
\* skipped documents.
LEMMA FateReceive ==
    ASSUME IngestTypes, FateInv, Receive
    PROVE  FateInv'
  <1> DEFINE l == Head(chan)
  <1>0. /\ chan \in Seq(Line) /\ chan # << >> /\ chan' = Tail(chan) /\ batch \in Seq(Line)
        /\ dels \in Seq(BodyDoc) /\ ppc = "recv" /\ result = "none"
        /\ UNCHANGED <<lines, parsed, rows, table>>
    BY DEF Receive, IngestTypes
  <1>1. /\ l \in Line
        /\ l.op \in DocOps => l.doc \in BodyDoc
        /\ \A d, o : Has(chan, d, o) <=> Has(chan', d, o) \/ (l.op = o /\ l.doc = d)
        /\ OneOpPerDoc(chan')
        /\ l.op \in DocOps => \A o \in DocOps : ~Has(chan', l.doc, o)
    BY <1>0, QueueTypes, HasTail, OneOpTail DEF FateInv, IngestTypes
  <1>2. UNCHANGED <<Arrived, Elems(rows)>> /\ Distinct(rows')
    BY <1>0 DEF Arrived, Elems, FateInv
  <1>3. {"Inserted", "Changed", "Deleted"} \subseteq DocOps /\ "Error" \notin DocOps /\ "Abort" \notin DocOps
        /\ "Inserted" # "Changed" /\ "Inserted" # "Deleted" /\ "Changed" # "Deleted"
    BY DEF DocOps
  <1>4. l.op \in DocOps =>
           /\ Has(Arrived, l.doc, l.op) /\ ~Decided(l.doc)
           /\ \A o \in DocOps : ~Has(batch, l.doc, o)
    <2> SUFFICES ASSUME l.op \in DocOps
                 PROVE  /\ Has(Arrived, l.doc, l.op) /\ ~Decided(l.doc)
                        /\ \A o \in DocOps : ~Has(batch, l.doc, o)
      OBVIOUS
    <2>1. Fate(l.doc) /\ Has(chan, l.doc, l.op)
      BY <1>1 DEF FateInv
    <2>2. \A o \in DocOps : Has(Arrived, l.doc, o) => o = l.op
      BY <2>1, ArrivedOnce DEF Fate
    <2> HIDE DEF l, DocOps
    <2> QED BY <2>1, <2>2 DEF Fate
  <1>5. table' = Old \X {0} /\ (result' # "ok" => Written')
    BY <1>0 DEF FateInv, Written
  <1> HIDE DEF l, DocOps
  <1>6. CASE UNCHANGED <<batch, skipped, dels>> /\ l.op \notin DocOps /\ result' # "ok" /\ ppc' # "done"
    <2>1. ASSUME NEW d \in BodyDoc PROVE Fate(d)'
      <3>1. Fate(d)
        BY DEF FateInv
      <3> QED BY <1>0, <1>1, <1>2, <1>3, <1>6, <3>1 DEF Fate, Decided
    <2> QED BY <1>1, <1>2, <1>5, <1>6, <2>1 DEF FateInv
  <1>7. CASE l.op \in {"Inserted", "Changed"} /\ batch' = Append(batch, l)
             /\ UNCHANGED <<skipped, dels, result>>
    <2>1. \A d, o : Has(batch', d, o) <=> Has(batch, d, o) \/ (l.op = o /\ l.doc = d)
      BY <1>0, <1>1, <1>7, HasAppend
    <2>2. OneOpPerDoc(batch')
      BY <1>0, <1>1, <1>4, <1>7, OneOpAppend DEF FateInv
    <2>3. ASSUME NEW d \in BodyDoc PROVE Fate(d)'
      <3>1. Fate(d)
        BY DEF FateInv
      <3> QED BY <1>0, <1>1, <1>2, <1>3, <1>4, <1>7, <2>1, <3>1 DEF Fate, Decided
    <2> QED BY <1>0, <1>1, <1>2, <1>5, <1>7, <2>2, <2>3 DEF FateInv
  <1>8. CASE l.op \in {"Inserted", "Changed"} /\ skipped' = skipped \cup {l.doc}
             /\ UNCHANGED <<batch, dels, result>>
    <2>3. ASSUME NEW d \in BodyDoc PROVE Fate(d)'
      <3>1. Fate(d)
        BY DEF FateInv
      <3>2. d # l.doc => (Decided(d)' <=> Decided(d))
        BY <1>2, <1>8 DEF Decided
      <3>3. d = l.doc => Decided(d)'
        BY <1>8 DEF Decided
      <3>4. CASE d = l.doc
        BY <1>0, <1>1, <1>2, <1>3, <1>4, <1>8, <3>1, <3>3, <3>4 DEF Fate, Decided
      <3>5. CASE d # l.doc
        BY <1>0, <1>1, <1>2, <1>3, <1>8, <3>1, <3>2, <3>5 DEF Fate
      <3> QED BY <3>4, <3>5
    <2> QED BY <1>0, <1>1, <1>2, <1>5, <1>8, <2>3 DEF FateInv
  <1>9. CASE l.op = "Deleted" /\ dels' = Append(dels, l.doc) /\ UNCHANGED <<batch, skipped, result>>
    <2>0. l.doc \in BodyDoc
      BY <1>1, <1>3, <1>9
    <2>1. Elems(dels') = Elems(dels) \cup {l.doc}
      BY <1>0, <1>9, <2>0, ElemsAppend
    <2>3. ASSUME NEW d \in BodyDoc PROVE Fate(d)'
      <3>1. Fate(d)
        BY DEF FateInv
      <3>4. CASE d = l.doc
        BY <1>0, <1>1, <1>2, <1>3, <1>4, <1>9, <2>1, <3>1, <3>4 DEF Fate, Decided
      <3>5. CASE d # l.doc
        <4>1. (Decided(d)' <=> Decided(d)) /\ (d \in Elems(dels') <=> d \in Elems(dels))
          BY <1>2, <1>9, <2>1, <3>5 DEF Decided
        <4> QED BY <1>0, <1>1, <1>2, <1>3, <1>9, <3>1, <3>5, <4>1 DEF Fate
      <3> QED BY <3>4, <3>5
    <2> QED BY <1>0, <1>1, <1>2, <1>5, <1>9, <2>3 DEF FateInv
  <1>10. \/ l.op \in {"Inserted", "Changed"} /\ Accept(l)
         \/ l.op = "Deleted" /\ dels' = Append(dels, l.doc) /\ UNCHANGED <<batch, skipped, result>>
         \/ UNCHANGED <<batch, skipped, dels>> /\ l.op \in {"Error", "Abort"}
            /\ result' # "ok" /\ ppc' # "done"
    BY <1>0 DEF Receive, l
  <1> QED BY <1>3, <1>6, <1>7, <1>8, <1>9, <1>10 DEF Accept

\* An embedded document moves from the micro-batch to the rows (and deletions),
\* a failed one to the skipped documents.
LEMMA FateEmbed ==
    ASSUME IngestTypes, FateInv, EmbedDoc
    PROVE  FateInv'
  <1> DEFINE l == Head(batch)
  <1>0. /\ batch \in Seq(Line) /\ batch # << >> /\ batch' = Tail(batch)
        /\ dels \in Seq(BodyDoc) /\ rows \in Seq(BodyDoc) /\ ppc \in {"flush", "final"} /\ result = "none"
        /\ UNCHANGED <<lines, parsed, chan, table, ppc, result>>
    BY DEF EmbedDoc, IngestTypes
  <1>1. /\ l \in Line /\ l.op \in {"Inserted", "Changed"} /\ l.doc \in BodyDoc
        /\ \A d, o : Has(batch, d, o) <=> Has(batch', d, o) \/ (l.op = o /\ l.doc = d)
        /\ OneOpPerDoc(batch')
        /\ l.op \in DocOps /\ \A o \in DocOps : ~Has(batch', l.doc, o)
    <2>1. l.op \in {"Inserted", "Changed"} /\ l.doc \in BodyDoc /\ l \in Line
      BY <1>0, QueueTypes DEF IngestTypes
    <2> QED BY <1>0, <2>1, HasTail, OneOpTail DEF FateInv, DocOps
  <1>2. UNCHANGED Arrived
    BY <1>0 DEF Arrived
  <1>3. {"Inserted", "Changed", "Deleted"} \subseteq DocOps
        /\ "Inserted" # "Changed" /\ "Inserted" # "Deleted" /\ "Changed" # "Deleted"
    BY DEF DocOps
  <1>4. /\ Has(Arrived, l.doc, l.op) /\ ~Decided(l.doc)
        /\ \A o \in DocOps : ~Has(chan, l.doc, o)
    <2>1. Fate(l.doc) /\ Has(batch, l.doc, l.op)
      BY <1>1 DEF FateInv
    <2>2. \A o \in DocOps : Has(Arrived, l.doc, o) => o = l.op
      BY <1>1, <2>1, ArrivedOnce DEF Fate
    <2> HIDE DEF l, DocOps
    <2> QED BY <1>1, <2>1, <2>2 DEF Fate
  <1>5. Written'
    BY <1>0 DEF FateInv, Written
  <1> HIDE DEF l, DocOps
  <1>6. CASE skipped' = skipped \cup {l.doc} /\ UNCHANGED <<dels, rows>>
    <2>1. ASSUME NEW d \in BodyDoc PROVE Fate(d)'
      <3>1. Fate(d) /\ UNCHANGED <<Elems(rows), Elems(dels)>>
        BY <1>6 DEF FateInv, Elems
      <3>4. CASE d = l.doc
        BY <1>0, <1>1, <1>2, <1>3, <1>4, <1>6, <3>1, <3>4 DEF Fate, Decided
      <3>5. CASE d # l.doc
        <4>1. Decided(d)' <=> Decided(d)
          BY <1>6, <3>1, <3>5 DEF Decided
        <4> QED BY <1>0, <1>1, <1>2, <1>3, <1>6, <3>1, <3>5, <4>1 DEF Fate
      <3> QED BY <3>4, <3>5
    <2> QED BY <1>0, <1>1, <1>5, <1>6, <2>1 DEF FateInv
  <1>7. CASE /\ dels' = IF l.op = "Changed" THEN Append(dels, l.doc) ELSE dels
             /\ rows' = Append(rows, l.doc) /\ UNCHANGED skipped
    <2>1. Elems(rows') = Elems(rows) \cup {l.doc}
      BY <1>0, <1>1, <1>7, ElemsAppend
    <2>2. Elems(dels') = IF l.op = "Changed" THEN Elems(dels) \cup {l.doc} ELSE Elems(dels)
      <3>1. Elems(Append(dels, l.doc)) = Elems(dels) \cup {l.doc}
        BY <1>0, <1>1, ElemsAppend
      <3> QED BY <1>7, <3>1
    <2>3. ASSUME NEW d \in BodyDoc PROVE Fate(d)'
      <3>1. Fate(d)
        BY DEF FateInv
      <3>4. CASE d = l.doc
        BY <1>0, <1>1, <1>2, <1>3, <1>4, <1>7, <2>1, <2>2, <3>1, <3>4 DEF Fate, Decided
      <3>5. CASE d # l.doc
        <4>1. (Decided(d)' <=> Decided(d)) /\ (d \in Elems(dels') <=> d \in Elems(dels))
              /\ (d \in Elems(rows') <=> d \in Elems(rows))
          BY <1>7, <2>1, <2>2, <3>5 DEF Decided
        <4> QED BY <1>0, <1>1, <1>2, <1>3, <1>7, <3>1, <3>5, <4>1 DEF Fate
      <3> QED BY <3>4, <3>5
    <2>4. Distinct(rows')
      BY <1>0, <1>1, <1>4, <1>7, DistinctAppend DEF FateInv, Decided
    <2> QED BY <1>0, <1>1, <1>5, <2>3, <2>4 DEF FateInv
  <1> QED BY <1>6, <1>7 DEF EmbedDoc, l

\* Every step keeps the whereabouts of the operations.
LEMMA FateStep ==
    ASSUME IngestTypes, FateInv, IngNext
    PROVE  FateInv'
  \* Steps that leave the queues, the collected work and the table alone.
  <1>1. ASSUME UNCHANGED <<lines, parsed, chan, work, table>>,
               ppc' # "done" => ppc # "done", result' = "ok" <=> result = "ok"
        PROVE  FateInv'
    <2>1. UNCHANGED <<Arrived, Elems(rows), Elems(dels)>>
      BY <1>1 DEF Arrived, Elems
    <2>2. ASSUME NEW d \in BodyDoc PROVE Fate(d)'
      <3>1. Fate(d)
        BY DEF FateInv
      <3> QED BY <1>1, <2>1, <2>2, <3>1 DEF Fate, Decided
    <2> QED BY <1>1, <2>1, <2>2 DEF FateInv, Written
  <1>2. CASE ReadLine \/ LastLine
    BY <1>2, FateReader
  <1>3. CASE Receive
    BY <1>3, FateReceive
  <1>4. CASE EmbedDoc
    BY <1>4, FateEmbed
  <1>5. CASE WritePhase
    <2>1. /\ UNCHANGED <<lines, parsed, chan, batch, rows, dels, skipped>> /\ ppc = "write"
          /\ result = "none" /\ result' = "ok"
      BY <1>5 DEF WritePhase, IngestTypes
    <2>2. UNCHANGED <<Arrived, Elems(rows), Elems(dels)>>
      BY <2>1 DEF Arrived, Elems
    <2>3. Written'
      BY <1>5, <2>1, <2>2 DEF Written, FateInv, WritePhase
    <2>4. ASSUME NEW d \in BodyDoc PROVE Fate(d)'
      <3>1. Fate(d)
        BY DEF FateInv
      <3> QED BY <2>1, <2>2, <3>1 DEF Fate, Decided
    <2> QED BY <2>1, <2>3, <2>4 DEF FateInv
  <1>6. CASE Reply \/ Superseded
    <2>1. /\ UNCHANGED <<lines, parsed, work, table>> /\ ppc' = "done" /\ chan' = << >>
          /\ ppc # "done" /\ (result' = "ok" <=> result = "ok")
          /\ result = "ok" => chan = << >>
      BY <1>6 DEF Reply, Superseded, IngestTypes
    <2>2. UNCHANGED <<Arrived, Elems(rows), Elems(dels)>>
      BY <2>1 DEF Arrived, Elems
    <2>3. \A d, o : ~Has(chan', d, o)
      BY <2>1 DEF Has
    <2>4. ASSUME NEW d \in BodyDoc PROVE Fate(d)'
      <3>1. Fate(d)
        BY DEF FateInv
      <3>2. result = "ok" => \A o : Has(chan, d, o) <=> Has(chan', d, o)
        BY <2>1
      <3> QED BY <2>1, <2>2, <2>3, <3>1, <3>2 DEF Fate, Decided
    <2>5. OneOpPerDoc(chan')
      BY <2>1 DEF OneOpPerDoc
    <2> QED BY <2>1, <2>2, <2>4, <2>5 DEF FateInv, Written
  <1>7. CASE FlushDone \/ Report \/ EndOfBody \/ ClientSends \/ ReadProgress \/ ClientLeaves \/ Cancel
    <2>1. UNCHANGED <<lines, parsed, chan, work, table>> /\ (ppc' # "done" => ppc # "done")
      BY <1>7 DEF FlushDone, Report, EndOfBody, ClientSends, ReadChunk, ReadEnd, ReadProgress,
                  ClientLeaves, Cancel
    <2>2. result' = "ok" <=> result = "ok"
      BY <1>7 DEF FlushDone, Report, EndOfBody, ClientSends, ReadChunk, ReadEnd, ReadProgress,
                  ClientLeaves, Cancel, IngestTypes
    <2> QED BY <1>1, <2>1, <2>2
  <1> QED BY <1>2, <1>3, <1>4, <1>5, <1>6, <1>7 DEF IngNext, ReaderTask, PipelineTask

\* What the write phase has to apply is what arrived.
LEMMA FateMatches ==
    ASSUME IngestTypes, FateInv
    PROVE  PushMatchesOps
  <1> SUFFICES ASSUME result = "ok", NEW d \in BodyDoc
               PROVE  /\ <<d, 0>> \in table <=> d \in Old /\ Applied(d) \cap {"Changed", "Deleted"} = {}
                      /\ Cardinality({r \in table : r[1] = d /\ r[2] # 0})
                            = Cardinality(Applied(d) \cap {"Inserted", "Changed"})
    BY DEF PushMatchesOps
  <1>1. chan = << >> /\ batch = << >> /\ rows \in Seq(BodyDoc) /\ DOMAIN rows = 1 .. Len(rows)
    BY DEF IngestTypes
  <1>2. \A o : ~Has(chan, d, o) /\ ~Has(batch, d, o)
    BY <1>1 DEF Has
  <1>3. /\ \A o, p \in DocOps : Has(Arrived, d, o) /\ Has(Arrived, d, p) => o = p
        /\ {"Inserted", "Changed", "Deleted"} \subseteq DocOps
        /\ \A o \in DocOps : o \in {"Inserted", "Changed", "Deleted"}
    BY ArrivedOnce DEF DocOps
  <1>4. \A o : o \in Applied(d) <=> o \in DocOps /\ Has(Arrived, d, o) /\ d \notin skipped
    <2>1. ASSUME NEW o \in Applied(d) PROVE o \in DocOps /\ Has(Arrived, d, o) /\ d \notin skipped
      <3>1. PICK m \in Elems(Arrived) : m.op = o /\ m.op \in DocOps /\ m.doc = d /\ d \notin skipped
        BY <2>1 DEF Applied
      <3> QED BY <3>1 DEF Elems, Has
    <2>2. ASSUME NEW o \in DocOps, Has(Arrived, d, o), d \notin skipped PROVE o \in Applied(d)
      <3>1. PICK i \in DOMAIN Arrived : Arrived[i].op = o /\ Arrived[i].doc = d
        BY <2>2 DEF Has
      <3>2. Arrived[i] \in Elems(Arrived)
        BY <3>1 DEF Elems
      <3> QED BY <2>2, <3>1, <3>2 DEF Applied
    <2> QED BY <2>1, <2>2
  <1>5. Fate(d) /\ Distinct(rows)
    BY DEF FateInv
  <1>6. d \in Elems(dels) <=> Applied(d) \cap {"Changed", "Deleted"} # {}
    <2> HIDE DEF DocOps
    <2>1. ASSUME d \in Elems(dels) PROVE "Changed" \in Applied(d) \/ "Deleted" \in Applied(d)
      BY <1>3, <1>4, <1>5, <2>1 DEF Fate
    <2>2. ASSUME "Changed" \in Applied(d) \/ "Deleted" \in Applied(d) PROVE d \in Elems(dels)
      BY <1>2, <1>3, <1>4, <1>5, <2>2 DEF Fate, Decided
    <2> QED BY <2>1, <2>2
  <1>7. d \in Elems(rows) <=> Applied(d) \cap {"Inserted", "Changed"} # {}
    <2> HIDE DEF DocOps
    <2>1. ASSUME d \in Elems(rows) PROVE "Changed" \in Applied(d) \/ "Inserted" \in Applied(d)
      BY <1>3, <1>4, <1>5, <2>1 DEF Fate
    <2>2. ASSUME "Changed" \in Applied(d) \/ "Inserted" \in Applied(d) PROVE d \in Elems(rows)
      BY <1>2, <1>3, <1>4, <1>5, <2>2 DEF Fate, Decided
    <2> QED BY <2>1, <2>2
  <1>8. table = {r \in Old \X {0} : r[1] \notin Elems(dels)} \cup {<<rows[i], i>> : i \in DOMAIN rows}
    BY DEF FateInv, Written
  <1>9. \A i \in DOMAIN rows : i # 0
    BY <1>1
  <1>10. <<d, 0>> \in table <=> d \in Old /\ d \notin Elems(dels)
    BY <1>8, <1>9
  <1>11. {r \in table : r[1] = d /\ r[2] # 0} = {<<d, i>> : i \in {j \in DOMAIN rows : rows[j] = d}}
    <2>1. ASSUME NEW r \in table, r[1] = d, r[2] # 0
          PROVE  \E i \in {j \in DOMAIN rows : rows[j] = d} : r = <<d, i>>
      BY <1>8, <2>1
    <2>2. ASSUME NEW i \in DOMAIN rows, rows[i] = d
          PROVE  <<d, i>> \in table /\ <<d, i>>[1] = d /\ <<d, i>>[2] # 0
      BY <1>8, <1>9, <2>2
    <2> QED BY <2>1, <2>2
  <1>12. CASE d \in Elems(rows)
    <2>1. PICK i \in DOMAIN rows : rows[i] = d
      BY <1>12 DEF Elems
    <2>2. {j \in DOMAIN rows : rows[j] = d} = {i}
      BY <1>5, <2>1 DEF Distinct
    <2>3. {r \in table : r[1] = d /\ r[2] # 0} = {<<d, i>>}
      BY <1>11, <2>2
    <2>4. \E o : Applied(d) \cap {"Inserted", "Changed"} = {o}
      <3>1. PICK o : o \in Applied(d) \cap {"Inserted", "Changed"}
        BY <1>7, <1>12
      <3>2. \A p \in Applied(d) : p = o
        BY <1>3, <1>4, <3>1
      <3> QED BY <3>1, <3>2
    <2> QED BY <1>6, <1>10, <2>3, <2>4, FS_Singleton
  <1>13. CASE d \notin Elems(rows)
    <2>1. {j \in DOMAIN rows : rows[j] = d} = {}
      BY <1>13 DEF Elems
    <2>2. {r \in table : r[1] = d /\ r[2] # 0} = {} /\ Applied(d) \cap {"Inserted", "Changed"} = {}
      BY <1>7, <1>11, <1>13, <2>1
    <2> QED BY <1>6, <1>10, <2>2
  <1> QED BY <1>12, <1>13

-----------------------------------------------------------------------------
(* What the counters say.                                                  *)

\* Received and waiting operations cover those that arrived, exactly so before
\* the first micro-batch is full; a push fails only for a reason.
CountInv ==
    /\ Len(batch) <= docsSeen
    /\ ppc = "flush" => docsSeen >= BatchDocs
    /\ ppc \in {"recv", "flush"} =>
          /\ Received + DocLines(chan) >= DocLines(Arrived)
          /\ docsSeen < BatchDocs => Received + DocLines(chan) = DocLines(Arrived)
    /\ ppc \in {"final", "write"} \/ result = "ok" =>
          (declared /\ docsSeen < BatchDocs => DocLines(Arrived) = DocLines(lines))
    /\ \A i \in DOMAIN chan : chan[i].op = "Abort" => \E j \in DOMAIN lines : lines[j].op = "Abort"
    /\ result = "err" => \/ cancelToken \/ (rpc = "closed" /\ parsed # Len(lines))
                         \/ \E j \in DOMAIN lines : lines[j].op = "Abort"

\* The body says that it is aborted.
Aborts == \E j \in DOMAIN lines : lines[j].op = "Abort"

\* The counters are numbers.
LEMMA CountTypes ==
    ASSUME IngestTypes
    PROVE  /\ DocLines(chan) \in Nat /\ DocLines(Arrived) \in Nat /\ DocLines(lines) \in Nat
           /\ DocLines(Arrived) <= DocLines(lines)
           /\ parsed = Len(lines) => DocLines(Arrived) = DocLines(lines)
           /\ Len(batch) \in Nat /\ Len(dels) \in Nat /\ docsSeen \in Nat /\ BatchDocs \in Nat
           /\ DocLines(<< >>) = 0 /\ << >> \in Seq(Line)
  <1>1. /\ lines \in Seq(Line) /\ parsed \in 0 .. Len(lines) /\ chan \in Seq(Line)
        /\ batch \in Seq(Line) /\ dels \in Seq(BodyDoc) /\ docsSeen \in Nat
    BY BodyLines DEF IngestTypes
  <1>2. DocLines(chan) \in Nat /\ DocLines(lines) \in Nat
    BY <1>1, DocLinesNat
  <1>3. /\ DocLines(Arrived) \in Nat /\ DocLines(Arrived) <= DocLines(lines)
        /\ parsed = Len(lines) => Arrived = lines
    BY <1>1, DocLinesPrefix DEF Arrived
  <1>4. DocLines(<< >>) = 0
    <2>1. {i \in DOMAIN << >> : << >>[i].op \in DocOps} = {}
      OBVIOUS
    <2> QED BY <2>1, FS_EmptySet DEF DocLines
  <1>5. BatchDocs \in Nat
    BY CapAssumption
  <1> QED BY <1>1, <1>2, <1>3, <1>4, <1>5

\* The reader's steps: what it adds to the lines that arrived, it adds to the channel.
LEMMA CountReader ==
    ASSUME IngestTypes, CountInv, ReadLine \/ LastLine
    PROVE  CountInv'
  <1> DEFINE m == lines[parsed + 1]
  <1>0. /\ ReaderMoves /\ rpc # "closed" /\ chan \in Seq(Line) /\ result # "ok"
        /\ ppc \notin {"final", "write"} /\ DOMAIN lines = 1 .. Len(lines) /\ Len(lines) \in Nat
        /\ parsed \in 0 .. Len(lines)
        /\ UNCHANGED <<lines, declared, ppc, batch, docsSeen, dels, cancelToken, result>>
    BY ReaderStep, BodyLines DEF IngestTypes
  <1>1. CASE UNCHANGED <<parsed, chan>>
    <2>1. UNCHANGED <<Arrived, Received>>
      BY <1>0, <1>1 DEF Arrived, Received
    <2> QED BY <1>0, <1>1, <2>1 DEF CountInv
  <1>2. CASE parsed < Len(lines) /\ parsed' = parsed + 1
    <2>1. Arrived' = Append(Arrived, m) /\ Arrived \in Seq(Line) /\ m \in Line
      BY <1>0, <1>2, ArrivedOnce DEF Arrived
    <2>2. DocLines(Arrived') = DocLines(Arrived) + (IF m.op \in DocOps THEN 1 ELSE 0)
      BY <2>1, DocLinesAppend
    <2>3. UNCHANGED Received /\ Received \in Nat /\ DocLines(Arrived) \in Nat /\ DocLines(chan) \in Nat
          /\ BatchDocs \in Nat /\ docsSeen \in Nat
      <3>1. UNCHANGED Received
        BY <1>0 DEF Received
      <3> QED BY <3>1, CountTypes DEF Received
    <2>4. m.op = "Abort" => Aborts
      BY <1>0, <1>2 DEF Aborts
    <2>5. CASE UNCHANGED chan /\ (m.op \notin DocOps \/ ppc = "done")
      <3>1. ppc \in {"recv", "flush"} => DocLines(Arrived') = DocLines(Arrived)
        BY <2>2, <2>3, <2>5
      <3>2. UNCHANGED <<DocLines(chan), chan>>
        BY <2>5
      <3> HIDE DEF m
      <3> QED BY <1>0, <2>3, <3>1, <3>2 DEF CountInv
    <2>6. ASSUME NEW l \in Line, chan' = Append(chan, l),
                 l = m \/ (l.op = "Error" /\ m.op \notin DocOps)
          PROVE  CountInv'
      <3>1. DocLines(chan') = DocLines(chan) + (IF l.op \in DocOps THEN 1 ELSE 0)
        BY <1>0, <2>6, DocLinesAppend
      <3>2. l.op \in DocOps <=> m.op \in DocOps
        BY <2>6 DEF DocOps
      <3>3. \A i \in DOMAIN chan' : chan'[i].op = "Abort" => Aborts
        <4>1. /\ DOMAIN chan' = 1 .. (Len(chan) + 1) /\ DOMAIN chan = 1 .. Len(chan)
              /\ \A i \in 1 .. Len(chan) : chan'[i] = chan[i]
              /\ chan'[Len(chan) + 1] = l /\ Len(chan) \in Nat
          BY <1>0, <2>6, AppendProperties
        <4>2. \A i \in 1 .. (Len(chan) + 1) : i \in 1 .. Len(chan) \/ i = Len(chan) + 1
          BY <4>1
        <4>3. l.op = "Abort" => Aborts
          BY <2>4, <2>6
        <4>4. \A i \in DOMAIN chan : chan[i].op = "Abort" => Aborts
          BY DEF CountInv, Aborts
        <4> QED BY <4>1, <4>2, <4>3, <4>4
      <3>4. Aborts' <=> Aborts
        BY <1>0 DEF Aborts
      <3>5. DocLines(chan') - DocLines(chan) = DocLines(Arrived') - DocLines(Arrived)
            /\ DocLines(chan') \in Nat /\ DocLines(Arrived') \in Nat
        BY <2>2, <2>3, <3>1, <3>2
      <3>6. /\ ppc \in {"recv", "flush"} =>
                /\ Received' + DocLines(chan') >= DocLines(Arrived')
                /\ docsSeen < BatchDocs => Received' + DocLines(chan') = DocLines(Arrived')
        BY <2>3, <3>5 DEF CountInv
      <3> HIDE DEF m, DocOps
      <3> QED BY <1>0, <3>3, <3>4, <3>6 DEF CountInv, Aborts
    <2> QED BY <1>0, <1>1, <1>2, <2>5, <2>6 DEF ReaderMoves
  <1> QED BY <1>0, <1>1, <1>2 DEF ReaderMoves

\* A received operation goes from the channel to a counter.
LEMMA CountReceive ==
    ASSUME IngestTypes, CountInv, Receive
    PROVE  CountInv'
  <1> DEFINE l == Head(chan)
  <1>0. /\ chan \in Seq(Line) /\ chan # << >> /\ chan' = Tail(chan) /\ batch \in Seq(Line)
        /\ dels \in Seq(BodyDoc) /\ ppc = "recv" /\ result = "none" /\ docsSeen \in Nat
        /\ UNCHANGED <<lines, parsed, declared, rpc, cancelToken>>
    BY DEF Receive, IngestTypes
  <1>1. /\ DocLines(chan) = DocLines(chan') + (IF l.op \in DocOps THEN 1 ELSE 0)
        /\ l \in Line /\ chan' \in Seq(Line)
    BY <1>0, DocLinesTail, QueueTypes
  <1>2. /\ DocLines(chan') \in Nat /\ DocLines(Arrived) \in Nat /\ UNCHANGED Arrived
        /\ BatchDocs \in Nat /\ Len(batch) \in Nat /\ Len(dels) \in Nat
    BY <1>0, <1>1, CountTypes, DocLinesNat DEF Arrived
  <1>3. /\ Received + DocLines(chan) >= DocLines(Arrived)
        /\ docsSeen < BatchDocs => Received + DocLines(chan) = DocLines(Arrived)
        /\ Len(batch) <= docsSeen
    BY <1>0 DEF CountInv
  <1>4. \A i \in DOMAIN chan' : chan'[i].op = "Abort" => Aborts
    BY <1>0, QueueTypes DEF CountInv, Aborts
  <1>5. l.op = "Abort" => Aborts
    BY <1>0, QueueTypes DEF CountInv, Aborts
  <1>6. Aborts' <=> Aborts
    BY <1>0 DEF Aborts
  <1>7. CASE l.op \in {"Inserted", "Changed"} /\ Accept(l)
    <2>1. l.op \in DocOps /\ docsSeen' = docsSeen + 1 /\ UNCHANGED <<dels, result>>
          /\ ppc' = (IF BatchFull(batch') THEN "flush" ELSE "recv")
          /\ Len(batch') <= docsSeen + 1 /\ Len(batch') \in Nat
      <3>1. batch' = batch \/ batch' = Append(batch, l)
        BY <1>7 DEF Accept
      <3>2. Len(Append(batch, l)) = Len(batch) + 1
        BY <1>0, <1>1, AppendProperties
      <3> QED BY <1>0, <1>2, <1>3, <1>7, <3>1, <3>2 DEF Accept, DocOps
    <2>2. /\ Received' = Received + 1 /\ Received \in Nat
          /\ Received' + DocLines(chan') = Received + DocLines(chan)
      <3>1. DocLines(chan) = DocLines(chan') + 1
        BY <1>1, <2>1
      <3>2. Received' = docsSeen + 1 + Len(dels)
        BY <2>1 DEF Received
      <3>3. Received = docsSeen + Len(dels) /\ Received \in Nat
        BY <1>0, <1>2 DEF Received
      <3>4. Received' = Received + 1
        BY <1>0, <1>2, <3>2, <3>3
      <3> QED BY <1>2, <3>1, <3>3, <3>4
    <2> HIDE DEF l, DocOps
    <2> QED BY <1>0, <1>2, <1>3, <1>4, <1>6, <2>1, <2>2 DEF CountInv, Aborts, BatchFull
  <1>8. CASE l.op = "Deleted" /\ dels' = Append(dels, l.doc) /\ UNCHANGED <<ppc, batch, docsSeen, result>>
    <2>1. l.op \in DocOps /\ l.doc \in BodyDoc
      BY <1>0, <1>8, QueueTypes DEF DocOps, IngestTypes
    <2>2. Len(dels') = Len(dels) + 1
      BY <1>0, <1>8, <2>1, AppendProperties
    <2>3. Received' + DocLines(chan') = Received + DocLines(chan)
      BY <1>0, <1>1, <1>2, <1>8, <2>1, <2>2 DEF Received
    <2> HIDE DEF l, DocOps
    <2> QED BY <1>0, <1>2, <1>3, <1>4, <1>6, <1>8, <2>3 DEF CountInv, Aborts
  <1>9. CASE l.op = "Error" /\ UNCHANGED <<ppc, batch, docsSeen, dels, result>>
    <2>1. l.op \notin DocOps /\ UNCHANGED Received
      BY <1>9 DEF DocOps, Received
    <2>2. Received' + DocLines(chan') = Received + DocLines(chan)
      BY <1>1, <1>2, <2>1
    <2> HIDE DEF l, DocOps
    <2> QED BY <1>0, <1>2, <1>3, <1>4, <1>6, <1>9, <2>2 DEF CountInv, Aborts
  <1>10. CASE l.op = "Abort" /\ result' = "err" /\ ppc' = "reply" /\ UNCHANGED <<batch, docsSeen, dels>>
    <2> HIDE DEF l, DocOps
    <2> QED BY <1>0, <1>2, <1>3, <1>4, <1>5, <1>6, <1>10 DEF CountInv, Aborts
  <1> QED BY <1>7, <1>8, <1>9, <1>10 DEF Receive

\* Every step keeps what the counters say.
LEMMA CountStep ==
    ASSUME IngestTypes, CountInv, IngNext
    PROVE  CountInv'
  <1>0. /\ DocLines(chan) \in Nat /\ DocLines(Arrived) \in Nat /\ DocLines(lines) \in Nat
        /\ DocLines(Arrived) <= DocLines(lines)
        /\ parsed = Len(lines) => DocLines(Arrived) = DocLines(lines)
        /\ Len(batch) \in Nat /\ Len(dels) \in Nat /\ docsSeen \in Nat /\ BatchDocs \in Nat
        /\ DocLines(<< >>) = 0
    BY CountTypes
  <1>1. CASE ReadLine \/ LastLine
    BY <1>1, CountReader
  <1>2. CASE Receive
    BY <1>2, CountReceive
  <1>3. CASE EmbedDoc
    <2>0. /\ batch # << >> /\ ppc \in {"flush", "final"} /\ batch' = Tail(batch) /\ batch \in Seq(Line)
          /\ dels \in Seq(BodyDoc) /\ rpc' = rpc
          /\ UNCHANGED <<input, reader, chan, ppc, docsSeen, progress, gone, cancelToken, table, result>>
      BY <1>3 DEF EmbedDoc, IngestTypes
    <2>1. Len(batch') = Len(batch) - 1 /\ UNCHANGED Arrived
      BY <2>0, QueueTypes DEF Arrived
    <2>2. Len(dels') \in Nat /\ Len(dels') >= Len(dels)
      <3>1. Head(batch).doc \in BodyDoc
        BY <2>0, QueueTypes DEF IngestTypes
      <3>2. Len(Append(dels, Head(batch).doc)) = Len(dels) + 1
        BY <2>0, <3>1, AppendProperties
      <3>3. dels' = dels \/ dels' = Append(dels, Head(batch).doc)
        BY <1>3 DEF EmbedDoc
      <3> QED BY <1>0, <3>2, <3>3
    <2>3. ppc = "flush" => Received' + DocLines(chan') >= DocLines(Arrived') /\ docsSeen >= BatchDocs
      BY <1>0, <2>0, <2>1, <2>2 DEF CountInv, Received
    <2> HIDE DEF DocOps
    <2> QED BY <1>0, <2>0, <2>1, <2>3 DEF CountInv
  <1>4. CASE FlushDone
    <2>1. UNCHANGED <<Arrived, Received, lines, declared, chan, batch, docsSeen, result, cancelToken, rpc, parsed>>
          /\ \/ ppc = "flush" /\ ppc' = "recv"
             \/ ppc = "final" /\ ppc' = "write"
      BY <1>4 DEF FlushDone, Arrived, Received
    <2> QED BY <2>1 DEF CountInv
  <1>5. CASE EndOfBody
    <2>1. UNCHANGED <<Arrived, Received, lines, declared, chan, batch, docsSeen, cancelToken, rpc, parsed>>
          /\ ppc = "recv" /\ chan = << >> /\ rpc = "closed" /\ result = "none"
      BY <1>5 DEF EndOfBody, Arrived, Received, IngestTypes
    <2>2. Received \in Nat /\ Received >= DocLines(Arrived)
          /\ (docsSeen < BatchDocs => Received = DocLines(Arrived))
      BY <1>0, <2>1 DEF CountInv, Received
    <2>3. CASE declared /\ Received < DocLines(lines) /\ result' = "err" /\ ppc' = "reply"
      <3>1. parsed # Len(lines)
        BY <1>0, <2>2, <2>3
      <3> QED BY <2>1, <2>3, <3>1 DEF CountInv
    <2>4. CASE (~declared \/ Received >= DocLines(lines)) /\ ppc' = "final" /\ UNCHANGED result
      <3>1. declared /\ docsSeen < BatchDocs => DocLines(Arrived) = DocLines(lines)
        BY <1>0, <2>2, <2>4
      <3> QED BY <2>1, <2>4, <3>1 DEF CountInv
    <2> QED BY <1>5, <2>3, <2>4 DEF EndOfBody
  <1>6. CASE WritePhase
    <2>1. UNCHANGED <<Arrived, Received, lines, declared, chan, batch, docsSeen, cancelToken, rpc, parsed>>
          /\ ppc = "write" /\ ppc' = "reply" /\ result' = "ok"
      BY <1>6 DEF WritePhase, Arrived, Received
    <2> QED BY <2>1 DEF CountInv
  <1>7. CASE Reply \/ Superseded
    <2>1. /\ UNCHANGED <<Arrived, Received, lines, declared, batch, docsSeen, cancelToken, rpc, parsed>>
          /\ ppc' = "done" /\ chan' = << >>
          /\ UNCHANGED result \/ (result' = "err" /\ cancelToken)
      BY <1>7 DEF Reply, Superseded, Arrived, Received
    <2> QED BY <2>1 DEF CountInv
  <1>8. CASE ClientSends \/ ClientLeaves
    <2>1. /\ UNCHANGED <<Arrived, Received, lines, declared, chan, batch, docsSeen, ppc, result, cancelToken, parsed>>
          /\ rpc = "closed" => rpc' = "closed"
      BY <1>8 DEF ClientSends, ReadChunk, ReadEnd, ClientLeaves, Arrived, Received
    <2> QED BY <2>1 DEF CountInv
  <1>9. CASE Report \/ ReadProgress \/ Cancel
    <2>1. UNCHANGED <<Arrived, Received, lines, declared, chan, batch, docsSeen, ppc, result, rpc, parsed>>
      BY <1>9 DEF Report, ReadProgress, Cancel, Arrived, Received
    <2>2. cancelToken' = cancelToken \/ cancelToken'
      BY <1>9, Zenon DEF Report, ReadProgress, Cancel
    <2> QED BY <2>1, <2>2 DEF CountInv
  <1> QED BY <1>1, <1>2, <1>3, <1>4, <1>5, <1>6, <1>7, <1>8, <1>9 DEF IngNext, ReaderTask, PipelineTask

-----------------------------------------------------------------------------
(* The results.                                                            *)

IngestInv == IngestTypes /\ FateInv /\ CountInv

\* The invariant of the body's way from the stream to the table.
LEMMA IngestInvariant == IngSpec => []IngestInv
  <1>1. IngInit => IngestInv
    <2> SUFFICES ASSUME IngInit PROVE IngestInv
      OBVIOUS
    <2>1. IngInit
      OBVIOUS
    <2>2. IngestTypes
      <3>1. lines \in Seq(Line)
        BY BodiesAssumption DEF IngInit
      <3>2. Len(lines) \in Nat
        BY <3>1
      <3> HIDE DEF Line, DocOps
      <3> QED BY <3>2 DEF IngInit, IngestTypes
    <2>3. Arrived = << >> /\ Received = 0
      <3>1. SubSeq(lines, 1, 0) = << >>
        BY SubSeqEmpty
      <3> QED BY <3>1 DEF IngInit, Arrived, Received
    <2>4. FateInv
      <3>1. \A d, o : ~Has(<< >>, d, o)
        BY DEF Has
      <3>2. Elems(<< >>) = {}
        BY DEF Elems
      <3>3. ASSUME NEW d \in BodyDoc PROVE Fate(d)
        BY <2>3, <3>1, <3>2 DEF IngInit, Fate, Decided
      <3>4. OneOpPerDoc(<< >>) /\ Distinct(<< >>)
        BY DEF OneOpPerDoc, Distinct
      <3> QED BY <3>3, <3>4 DEF IngInit, FateInv, Written
    <2>5. CountInv
      BY <2>2, <2>3, CountTypes DEF IngInit, CountInv
    <2> QED BY <2>2, <2>4, <2>5 DEF IngestInv
  <1>2. IngestInv /\ [IngNext]_ingVars => IngestInv'
    <2>1. ASSUME IngestInv, IngNext PROVE IngestInv'
      BY <2>1, IngestTypesStep, FateStep, CountStep DEF IngestInv
    <2>2. ASSUME IngestInv, UNCHANGED ingVars PROVE IngestInv'
      <3>1. UNCHANGED <<lines, streaming, declared, got, parsed, rpc, chan, ppc, batch, docsSeen, dels,
                        rows, skipped, cancelToken, table, result, Arrived, Received, Elems(rows), Elems(dels)>>
        BY <2>2 DEF ingVars, Arrived, Received, Elems
      <3>2. IngestTypes'
        <4> HIDE DEF Line, DocOps
        <4> QED BY <2>2, <3>1 DEF IngestInv, IngestTypes
      <3>3. \A d \in BodyDoc : Fate(d)'
        BY <2>2, <3>1 DEF IngestInv, FateInv, Fate, Decided
      <3>4. FateInv'
        BY <2>2, <3>1, <3>3 DEF IngestInv, FateInv, Written
      <3>5. CountInv'
        BY <2>2, <3>1 DEF IngestInv, CountInv
      <3> QED BY <3>2, <3>4, <3>5 DEF IngestInv
    <2> QED BY <2>1, <2>2
  <1> QED BY <1>1, <1>2, PTL DEF IngSpec

\* A push that succeeds leaves exactly the rows that its operations call for,
\* for every body with one operation per document, every cut of the stream into
\* chunks and every failure to chunk or to embed (io_run_index_pipeline_stream).
THEOREM PushAppliesItsOps == IngSpec => []PushMatchesOps
  <1>1. IngestInv => PushMatchesOps
    BY FateMatches DEF IngestInv
  <1> QED BY <1>1, IngestInvariant, PTL

\* The count check refuses no complete push, and accepts no truncated one that
\* fits in a micro-batch, whatever BatchDocs and the channel's capacity.
THEOREM CountCheckIsRight == IngSpec => []CountChecked
  <1>1. ASSUME IngestInv PROVE CountChecked
    <2>1. ASSUME BodyComplete, ~cancelToken PROVE result # "err"
      BY <1>1, <2>1 DEF IngestInv, CountInv, BodyComplete
    <2>2. ASSUME result = "ok", declared, docsSeen < BatchDocs PROVE DocLines(Arrived) = DocLines(lines)
      BY <1>1, <2>2 DEF IngestInv, CountInv
    <2> QED BY <2>1, <2>2 DEF CountChecked
  <1> QED BY <1>1, IngestInvariant, PTL
=============================================================================
