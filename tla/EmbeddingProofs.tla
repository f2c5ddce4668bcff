-------------------------- MODULE EmbeddingProofs --------------------------
(***************************************************************************)
(* Proofs about Embedding: the vectors that are stored and answered belong *)
(* to their texts, every token of an indexed document is in the text of a  *)
(* row, and a failure costs only what it must.                             *)
(*                                                                         *)
(* The invariant EmbInv says of every call where its texts stand between   *)
(* the documents and the answers: the batches that are left are, one after *)
(* the other, the texts behind those already answered (Aligned), what was  *)
(* answered is good for the text at its place, and failures of texts that  *)
(* the provider would take are paid for by transient failures.             *)
(*                                                                         *)
(* The recursive functions of the model (the chunker's and io_embed's      *)
(* loops, the flattening) are shown to have a value and then reasoned      *)
(* about by induction over a set of numbers.                               *)
(***************************************************************************)
EXTENDS Embedding, SequenceTheorems, FiniteSetTheorems, WellFoundedInduction, TLAPS

Batch == [texts : Seq(Seq(Nat)), single : BOOLEAN]
RolePrefixes == {"passage", "query", "clustering", "search_document", "search_query", ""}
Vectors == {"e5", "plain", "nomic"} \X RolePrefixes \X Seq(Nat)
Value == Vectors \cup {Zero, Failed, Missing}
CallType ==
    [pc : {"idle", "lookup", "request", "done"}, kind : {"none", "push", "query"},
     domain : {"on", "off"}, docs : Seq(Seq(Nat)),
     role : {"Document", "Clustering", "Query"}, work : Seq(Batch),
     hits : Seq(Value), got : Seq(Value), first : Seq(Value), blips : Nat]

\* The texts of a call, in the order of their vectors.
Flat(r) == IF r.kind = "push" THEN FlatTexts(r.docs) ELSE r.docs

\* The vector of the text in that role, or zeros that were primed.
Good(v, role, text) == v = VectorOf(role, text) \/ (primed /\ v = Zero)

\* The batches of work are, one after the other, the texts after the first n.
Aligned(work, texts, n) ==
    \E pos \in [1 .. Len(work) + 1 -> 0 .. Len(texts)] :
        /\ pos[1] = n /\ pos[Len(work) + 1] = Len(texts)
        /\ \A j \in 1 .. Len(work) :
              /\ pos[j + 1] = pos[j] + Len(work[j].texts)
              /\ \A k \in 1 .. Len(work[j].texts) : work[j].texts[k] = texts[pos[j] + k]

\* What has been delivered belongs to the texts in their order.
GotOK(r) ==
    \A k \in 1 .. Len(r.got) :
        IF r.role = "Clustering" /\ r.domain = "off" THEN r.got[k] = Zero
        ELSE Good(r.got[k], r.role, Flat(r)[k]) \/ (r.got[k] = Failed /\ r.kind = "push")
FirstOK(r) ==
    IF r.role = "Clustering"
    THEN /\ Len(r.first) = Len(Flat(r))
         /\ \A k \in 1 .. Len(r.first) :
               Good(r.first[k], "Document", Flat(r)[k]) \/ r.first[k] = Failed
    ELSE r.first = << >>

\* A request is for the texts that were not in the cache.
HitsOK(r) ==
    r.pc = "request" =>
        /\ r.work # << >> /\ Len(r.hits) = Len(r.work[1].texts)
        /\ \E i \in 1 .. Len(r.hits) : r.hits[i] = Missing
        /\ \A i \in 1 .. Len(r.hits) :
              r.hits[i] = Missing \/ Good(r.hits[i], r.role, r.work[1].texts[i])

\* Failures of texts that the provider would accept, and who pays for them.
Innocent(s, texts) == {k \in 1 .. Len(s) : s[k] = Failed /\ ~Toxic(texts[k])}
Charged(r) == Cardinality(Innocent(r.first, Flat(r))) + Cardinality(Innocent(r.got, Flat(r)))
ChargeOK(r) ==
    /\ Charged(r) <= r.blips
    /\ \/ \E i \in 1 .. Len(r.docs) : Toxic(r.docs[i])
       \/ Charged(r) < r.blips
       \/ Charged(r) = 0 /\ \A j \in 1 .. Len(r.work) : ~r.work[j].single

CallOK(r) ==
    /\ r \in CallType
    /\ r.pc = "idle" => r.kind = "none"
    /\ r.pc = "done" => r.work = << >> /\ r.role # "Document"
    /\ r.pc # "idle" =>
          /\ r.kind # "none" /\ (r.kind = "query" <=> r.role = "Query")
          /\ r.kind = "query" => Len(r.docs) = 1
          /\ r.role = "Clustering" /\ r.domain = "off" => r.work = << >>
          /\ \A j \in 1 .. Len(r.work) :
                r.work[j].single \/ r.kind = "query" => Len(r.work[j].texts) = 1
          /\ Aligned(r.work, Flat(r), Len(r.got))
          /\ GotOK(r) /\ FirstOK(r) /\ HitsOK(r)
          /\ r.kind = "push" => ChargeOK(r)

\* An entry of the cache is the vector that its key stands for.
CacheOK ==
    /\ DOMAIN cache \subseteq Vectors
    /\ \A k \in DOMAIN cache : cache[k] = k \/ (primed /\ cache[k] = Zero)

\* A stored row has the vectors of its own text.
RowsOK ==
    \A r \in stored :
        /\ r.text \in Seq(Nat) /\ Good(r.embedding, "Document", r.text)
        /\ IF r.domain = "on" THEN Good(r.clustering, "Clustering", r.text)
           ELSE r.clustering = Zero

\* The models never change.
Slots == slot1 \in {"e5", "plain"} /\ slot2 \in {slot1, "nomic"}

\* The inductive invariant.
EmbInv ==
    /\ Slots /\ primed \in BOOLEAN /\ embUp \in BOOLEAN
    /\ call \in [Callers -> CallType] /\ CacheOK /\ RowsOK /\ EveryTokenIndexed
    /\ \A c \in Callers : CallOK(call[c])

-----------------------------------------------------------------------------
(* Induction over numbers, and functions defined by recursion over them.   *)

\* A set of numbers that has 0 and every successor up to n has all up to n.
LEMMA Induct ==
    ASSUME NEW n \in Nat, NEW P, 0 \in P, \A i \in 1 .. n : i - 1 \in P => i \in P
    PROVE  \A i \in 0 .. n : i \in P
  <1> DEFINE B == {i \in 0 .. n : i \notin P}
  <1>1. SUFFICES ASSUME B # {}
                 PROVE  FALSE
    OBVIOUS
  <1>2. PICK m \in B : \A y \in B : ~(<<y, m>> \in OpToRel(<, Nat))
    <2>1. B \in SUBSET Nat
      OBVIOUS
    <2> HIDE DEF B
    <2> QED BY <1>1, <2>1, NatLessThanWellFounded, WFMin
  <1>3. m \in 0 .. n /\ m \notin P
    OBVIOUS
  <1>4. m \in 1 .. n /\ m - 1 \in 0 .. n /\ m \in Nat /\ m - 1 \in Nat /\ m - 1 < m
    BY <1>3
  <1>5. m - 1 \in B
    BY <1>3, <1>4
  <1>6. <<m - 1, m>> \in {p \in Nat \X Nat : p[1] < p[2]}
    BY <1>4
  <1> HIDE DEF B
  <1> QED BY <1>2, <1>5, <1>6 DEF OpToRel

\* f starts with a, and F gives each value from the one before.
Steps(f, n, a, F) == f[0] = a /\ \A i \in 1 .. n : f[i] = F[<<i, f[i - 1]>>]

\* Such a function exists.
LEMMA StepsExist ==
    ASSUME NEW S, NEW n \in Nat, NEW a \in S, NEW F \in [(1 .. n) \X S -> S]
    PROVE  \E f \in [0 .. n -> S] : Steps(f, n, a, F)
  <1> DEFINE P == {m \in 0 .. n : \E f \in [0 .. m -> S] : Steps(f, m, a, F)}
  <1>1. 0 \in P
    <2>1. PICK f : f = [i \in 0 .. 0 |-> a]
      OBVIOUS
    <2>2. f \in [0 .. 0 -> S] /\ f[0] = a
      BY <2>1
    <2> QED BY <2>2 DEF Steps
  <1>2. ASSUME NEW m \in 1 .. n, m - 1 \in P
        PROVE  m \in P
    <2>1. PICK f \in [0 .. m - 1 -> S] : Steps(f, m - 1, a, F)
      BY <1>2
    <2>2. PICK v : v = F[<<m, f[m - 1]>>]
      OBVIOUS
    <2>3. v \in S
      <3>1. m - 1 \in 0 .. m - 1
        OBVIOUS
      <3>2. <<m, f[m - 1]>> \in (1 .. n) \X S
        BY <3>1
      <3> QED BY <2>2, <3>2
    <2>4. PICK g : g = [i \in 0 .. m |-> IF i = m THEN v ELSE f[i]]
      OBVIOUS
    <2>5. g \in [0 .. m -> S]
      <3>1. \A i \in 0 .. m : i # m => i \in 0 .. m - 1
        OBVIOUS
      <3> QED BY <2>3, <2>4, <3>1
    <2>6. g[m] = v /\ \A i \in 0 .. m - 1 : g[i] = f[i]
      BY <2>4
    <2>7. Steps(g, m, a, F)
      <3>1. g[0] = a
        BY <2>1, <2>6 DEF Steps
      <3>2. ASSUME NEW i \in 1 .. m
            PROVE  g[i] = F[<<i, g[i - 1]>>]
        <4>1. i - 1 \in 0 .. m - 1 /\ g[i - 1] = f[i - 1]
          BY <2>6
        <4>2. CASE i = m
          BY <2>2, <2>6, <4>1, <4>2
        <4>3. CASE i # m
          <5>1. i \in 1 .. m - 1 /\ i \in 0 .. m - 1
            BY <4>3
          <5> QED BY <2>1, <2>6, <4>1, <5>1 DEF Steps
        <4> QED BY <4>2, <4>3
      <3> QED BY <3>1, <3>2 DEF Steps
    <2> QED BY <2>5, <2>7
  <1> HIDE DEF P
  <1>3. n \in P
    BY <1>1, <1>2, Induct
  <1> QED BY <1>3 DEF P

-----------------------------------------------------------------------------
(* The recursive definitions of Embedding.                                 *)

\* The loop of io_embed over the results of the lookups.
IsMissLoop(hits, n, f) ==
    f = [i \in 0 .. n |-> IF i = 0 THEN << >>
                          ELSE IF hits[i] = Missing THEN Append(f[i - 1], i) ELSE f[i - 1]]

\* The loop has a value.
LEMMA MissLoopExists ==
    ASSUME NEW hits, NEW n \in Nat
    PROVE  \E f : IsMissLoop(hits, n, f)
  <1>1. PICK F : F = [x \in (1 .. n) \X Seq(Nat) |->
                        IF hits[x[1]] = Missing THEN Append(x[2], x[1]) ELSE x[2]]
    OBVIOUS
  <1>2. F \in [(1 .. n) \X Seq(Nat) -> Seq(Nat)]
    <2>1. ASSUME NEW x \in (1 .. n) \X Seq(Nat)
          PROVE  (IF hits[x[1]] = Missing THEN Append(x[2], x[1]) ELSE x[2]) \in Seq(Nat)
      <3>1. x[1] \in Nat /\ x[2] \in Seq(Nat)
        OBVIOUS
      <3>2. Append(x[2], x[1]) \in Seq(Nat)
        BY <3>1, AppendProperties
      <3> QED BY <3>1, <3>2
    <2> QED BY <1>1, <2>1
  <1>3. << >> \in Seq(Nat)
    BY EmptySeq
  <1>4. PICK f \in [0 .. n -> Seq(Nat)] : Steps(f, n, << >>, F)
    BY <1>2, <1>3, StepsExist
  <1>5. ASSUME NEW i \in 0 .. n
        PROVE  f[i] = IF i = 0 THEN << >>
                      ELSE IF hits[i] = Missing THEN Append(f[i - 1], i) ELSE f[i - 1]
    <2>1. CASE i = 0
      BY <1>4, <2>1 DEF Steps
    <2>2. CASE i # 0
      <3>1. i \in 1 .. n /\ i - 1 \in 0 .. n
        BY <2>2
      <3>2. f[i] = F[<<i, f[i - 1]>>] /\ <<i, f[i - 1]>> \in (1 .. n) \X Seq(Nat)
        BY <1>4, <3>1 DEF Steps
      <3>3. F[<<i, f[i - 1]>>] = IF hits[i] = Missing THEN Append(f[i - 1], i) ELSE f[i - 1]
        BY <1>1, <3>2
      <3> QED BY <2>2, <3>2, <3>3
    <2> QED BY <2>1, <2>2
  <1> QED BY <1>5 DEF IsMissLoop

\* miss_indices are the places where a lookup found nothing.
LEMMA MissMeans ==
    ASSUME NEW c, Len(call[c].hits) \in Nat
    PROVE  /\ MissIndices(c) \in Seq(1 .. Len(call[c].hits))
           /\ \A k \in 1 .. Len(MissIndices(c)) : call[c].hits[MissIndices(c)[k]] = Missing
           /\ \A i \in 1 .. Len(call[c].hits) : call[c].hits[i] = Missing =>
                 \E k \in 1 .. Len(MissIndices(c)) : MissIndices(c)[k] = i
  <1>1. PICK hits, n : hits = call[c].hits /\ n = Len(hits)
    OBVIOUS
  <1>2. PICK f : f = CHOOSE g : IsMissLoop(hits, n, g)
    OBVIOUS
  <1>3. MissIndices(c) = f[n]
    BY <1>1, <1>2 DEF MissIndices, IsMissLoop
  <1>4. n \in Nat
    BY <1>1
  <1>5. IsMissLoop(hits, n, f)
    BY <1>2, <1>4, MissLoopExists
  <1> DEFINE P == {i \in 0 .. n :
                     /\ f[i] \in Seq(1 .. n)
                     /\ \A k \in 1 .. Len(f[i]) : hits[f[i][k]] = Missing
                     /\ \A j \in 1 .. i : hits[j] = Missing =>
                           \E k \in 1 .. Len(f[i]) : f[i][k] = j}
  <1>6. 0 \in P
    <2>1. f[0] = << >>
      BY <1>4, <1>5 DEF IsMissLoop
    <2>2. << >> \in Seq(1 .. n) /\ Len(<< >>) = 0
      BY EmptySeq
    <2>3. /\ \A k \in 1 .. Len(f[0]) : hits[f[0][k]] = Missing
          /\ \A j \in 1 .. 0 : hits[j] = Missing => \E k \in 1 .. Len(f[0]) : f[0][k] = j
      BY <2>1, <2>2
    <2>4. 0 \in 0 .. n /\ f[0] \in Seq(1 .. n)
      BY <1>4, <2>1, <2>2
    <2> QED BY <2>3, <2>4, Zenon
  <1>7. ASSUME NEW m \in 1 .. n, m - 1 \in P
        PROVE  m \in P
    <2>1. f[m] = IF hits[m] = Missing THEN Append(f[m - 1], m) ELSE f[m - 1]
      <3>1. m \in 0 .. n /\ m # 0
        OBVIOUS
      <3> HIDE DEF P
      <3> QED BY <1>5, <3>1 DEF IsMissLoop
    <2>2. PICK s : s = f[m - 1]
      OBVIOUS
    <2>3. /\ s \in Seq(1 .. n) /\ m \in 0 .. n
          /\ \A k \in 1 .. Len(s) : hits[s[k]] = Missing
          /\ \A j \in 1 .. m - 1 : hits[j] = Missing => \E k \in 1 .. Len(s) : s[k] = j
      BY <1>7, <2>2
    <2> HIDE DEF P
    <2>4. CASE hits[m] # Missing
      <3>1. f[m] = s
        BY <2>1, <2>2, <2>4
      <3>2. \A j \in 1 .. m : hits[j] = Missing => j \in 1 .. m - 1
        BY <2>4
      <3> QED BY <2>3, <3>1, <3>2 DEF P
    <2>5. CASE hits[m] = Missing
      <3>1. PICK t : t = Append(s, m)
        OBVIOUS
      <3>2. /\ t \in Seq(1 .. n) /\ Len(t) = Len(s) + 1 /\ Len(s) \in Nat
            /\ \A k \in 1 .. Len(s) : t[k] = s[k]
            /\ t[Len(s) + 1] = m
        BY <2>3, <3>1, AppendProperties, LenProperties
      <3>3. f[m] = t
        BY <2>1, <2>2, <2>5, <3>1
      <3>4. ASSUME NEW k \in 1 .. Len(t)
            PROVE  hits[t[k]] = Missing
        <4>1. CASE k \in 1 .. Len(s)
          BY <2>3, <3>2, <4>1
        <4>2. CASE k \notin 1 .. Len(s)
          <5>1. k = Len(s) + 1
            BY <3>2, <4>2
          <5> QED BY <2>5, <3>2, <5>1
        <4> QED BY <4>1, <4>2
      <3>5. ASSUME NEW j \in 1 .. m, hits[j] = Missing
            PROVE  \E k \in 1 .. Len(t) : t[k] = j
        <4>1. CASE j = m
          BY <3>2, <4>1
        <4>2. CASE j # m
          <5>1. j \in 1 .. m - 1
            BY <4>2
          <5>2. PICK k \in 1 .. Len(s) : s[k] = j
            BY <2>3, <3>5, <5>1
          <5>3. k \in 1 .. Len(t)
            BY <3>2
          <5> QED BY <3>2, <5>2, <5>3
        <4> QED BY <4>1, <4>2
      <3> QED BY <2>3, <3>2, <3>3, <3>4, <3>5 DEF P
    <2> QED BY <2>4, <2>5
  <1> HIDE DEF P
  <1>8. n \in P
    BY <1>4, <1>6, <1>7, Induct
  <1>9. /\ f[n] \in Seq(1 .. n)
        /\ \A k \in 1 .. Len(f[n]) : hits[f[n][k]] = Missing
        /\ \A j \in 1 .. n : hits[j] = Missing => \E k \in 1 .. Len(f[n]) : f[n][k] = j
    BY <1>8, Zenon DEF P
  <1>10. call[c].hits = hits /\ Len(call[c].hits) = n
    BY <1>1
  <1> QED BY ONLY <1>3, <1>9, <1>10

\* f[i] is what the first i sequences of s are one after the other.
Joins(f, s, n) == f[0] = << >> /\ \A i \in 1 .. n : f[i] = f[i - 1] \o s[i]

\* Sequences can be joined.
LEMMA JoinsExist ==
    ASSUME NEW T, NEW s \in Seq(Seq(T))
    PROVE  \E f \in [0 .. Len(s) -> Seq(T)] : Joins(f, s, Len(s))
  <1>1. PICK n \in Nat : n = Len(s)
    BY LenProperties
  <1>2. \A i \in 1 .. n : s[i] \in Seq(T)
    BY <1>1, ElementOfSeq
  <1>3. PICK F : F = [x \in (1 .. n) \X Seq(T) |-> x[2] \o s[x[1]]]
    OBVIOUS
  <1>4. F \in [(1 .. n) \X Seq(T) -> Seq(T)]
    <2>1. ASSUME NEW x \in (1 .. n) \X Seq(T)
          PROVE  x[2] \o s[x[1]] \in Seq(T)
      BY <1>2, ConcatProperties
    <2> QED BY <1>3, <2>1
  <1>5. << >> \in Seq(T)
    BY EmptySeq
  <1>6. PICK f \in [0 .. n -> Seq(T)] : Steps(f, n, << >>, F)
    BY <1>4, <1>5, StepsExist
  <1>7. ASSUME NEW i \in 1 .. n
        PROVE  f[i] = f[i - 1] \o s[i]
    <2>1. i - 1 \in 0 .. n
      OBVIOUS
    <2>2. <<i, f[i - 1]>> \in (1 .. n) \X Seq(T)
      BY <2>1
    <2>3. F[<<i, f[i - 1]>>] = f[i - 1] \o s[i]
      BY <1>3, <2>2
    <2> QED BY <1>6, <2>3 DEF Steps
  <1>8. Joins(f, s, n)
    BY <1>6, <1>7 DEF Joins, Steps
  <1> QED BY <1>1, <1>8

IsFlatten(s, n, g) == g = [i \in 1 .. n |-> IF i = 1 THEN s[i] ELSE g[i - 1] \o s[i]]

\* FlattenSeq joins them.
LEMMA FlattenJoins ==
    ASSUME NEW T, NEW s \in Seq(Seq(T)), NEW f \in [0 .. Len(s) -> Seq(T)],
           Joins(f, s, Len(s))
    PROVE  FlattenSeq(s) = f[Len(s)]
  <1>1. PICK n \in Nat : n = Len(s)
    BY LenProperties
  <1>2. CASE n = 0
    <2>1. s = << >>
      BY <1>1, <1>2, EmptySeq
    <2> QED BY <1>1, <1>2, <2>1 DEF FlattenSeq, Joins
  <1>3. CASE n # 0
    <2>1. PICK g : g = CHOOSE h : IsFlatten(s, n, h)
      OBVIOUS
    <2>2. FlattenSeq(s) = g[n]
      BY <1>1, <1>3, <2>1 DEF FlattenSeq, IsFlatten
    <2>3. 1 \in 1 .. n /\ f[1] = s[1]
      <3>1. 1 \in 1 .. n
        BY <1>3
      <3>2. s[1] \in Seq(T)
        BY <1>1, <3>1, ElementOfSeq
      <3>3. \A i \in 1 .. n : f[i] = f[i - 1] \o s[i]
        BY <1>1 DEF Joins
      <3>4. f[1] = f[1 - 1] \o s[1]
        BY <3>1, <3>3
      <3>5. f[0] = << >> /\ 1 - 1 = 0
        BY DEF Joins
      <3>6. f[1] = << >> \o s[1]
        BY <3>4, <3>5
      <3> QED BY <3>1, <3>2, <3>6, ConcatEmptySeq
    <2>4. PICK h : h = [i \in 1 .. n |-> f[i]]
      OBVIOUS
    <2>5. IsFlatten(s, n, h)
      <3>1. ASSUME NEW i \in 1 .. n
            PROVE  h[i] = IF i = 1 THEN s[i] ELSE h[i - 1] \o s[i]
        <4>1. h[i] = f[i] /\ f[i] = f[i - 1] \o s[i]
          BY <1>1, <2>4 DEF Joins
        <4>2. CASE i = 1
          BY <2>3, <4>1, <4>2
        <4>3. CASE i # 1
          <5>1. i - 1 \in 1 .. n
            BY <4>3
          <5>2. h[i - 1] = f[i - 1]
            BY <2>4, <5>1
          <5> QED BY <4>1, <4>3, <5>2
        <4> QED BY <4>2, <4>3
      <3> QED BY <2>4, <3>1 DEF IsFlatten
    <2>6. IsFlatten(s, n, g)
      BY <2>1, <2>5
    <2> DEFINE P == {i \in 0 .. n : i # 0 => g[i] = f[i]}
    <2>7. 0 \in P
      OBVIOUS
    <2>8. ASSUME NEW m \in 1 .. n, m - 1 \in P
          PROVE  m \in P
      <3>1. m \in 0 .. n /\ (m - 1 # 0 => g[m - 1] = f[m - 1])
        BY <2>8
      <3> HIDE DEF P
      <3>2. g[m] = IF m = 1 THEN s[m] ELSE g[m - 1] \o s[m]
        BY <2>6 DEF IsFlatten
      <3>3. f[m] = f[m - 1] \o s[m]
        BY <1>1 DEF Joins
      <3>4. CASE m = 1
        BY <2>3, <3>1, <3>2, <3>4 DEF P
      <3>5. CASE m # 1
        <4>1. m - 1 # 0
          BY <3>5
        <4>2. g[m] = f[m]
          BY <3>1, <3>2, <3>3, <3>5, <4>1
        <4> QED BY <3>1, <4>2 DEF P
      <3> QED BY <3>4, <3>5
    <2> HIDE DEF P
    <2>9. n \in P
      <3>1. n \in Nat /\ n \in 0 .. n
        OBVIOUS
      <3>2. \A i \in 0 .. n : i \in P
        BY ONLY <2>7, <2>8, <3>1, Induct
      <3> QED BY <3>1, <3>2
    <2> QED BY <1>1, <1>3, <2>2, <2>9 DEF P
  <1> QED BY <1>2, <1>3

\* What has been joined stays in front.
LEMMA JoinsGrow ==
    ASSUME NEW n \in Nat, NEW s \in Seq(Seq(Seq(Nat))), Len(s) = n,
           NEW f \in [0 .. n -> Seq(Seq(Nat))], Joins(f, s, n),
           NEW i \in 0 .. n, NEW j \in i .. n
    PROVE  Len(f[i]) <= Len(f[j]) /\ \A k \in 1 .. Len(f[i]) : f[j][k] = f[i][k]
  <1>1. n = Len(s)
    OBVIOUS
  <1> DEFINE P == {d \in 0 .. n - i :
                     Len(f[i]) <= Len(f[i + d]) /\ \A k \in 1 .. Len(f[i]) : f[i + d][k] = f[i][k]}
  <1>2. n - i \in Nat
    BY <1>1
  <1>3. 0 \in P
    <2>1. i + 0 = i /\ Len(f[i]) \in Nat /\ 0 \in 0 .. n - i
      BY <1>1, <1>2, LenProperties
    <2> QED BY <2>1
  <1>4. ASSUME NEW d \in 1 .. n - i, d - 1 \in P
        PROVE  d \in P
    <2>1. PICK a, b : a = f[i] /\ b = f[i + d - 1]
      OBVIOUS
    <2>2. i + d \in 1 .. n /\ i + d - 1 \in 0 .. n /\ i + (d - 1) = i + d - 1 /\ d \in 0 .. n - i
      BY <1>1, <1>2
    <2>3. Len(a) <= Len(b) /\ \A k \in 1 .. Len(a) : b[k] = a[k]
      BY <1>4, <2>1, <2>2
    <2> HIDE DEF P
    <2>4. a \in Seq(Seq(Nat)) /\ b \in Seq(Seq(Nat)) /\ s[i + d] \in Seq(Seq(Nat))
      BY <1>1, <2>1, <2>2, ElementOfSeq
    <2>5. f[i + d] = b \o s[i + d]
      <3>1. PICK m \in 1 .. n : m = i + d
        BY <2>2
      <3>2. f[m] = f[m - 1] \o s[m]
        BY <1>1, <3>1 DEF Joins
      <3>3. m - 1 = i + d - 1
        BY <3>1
      <3> QED BY <2>1, <3>1, <3>2, <3>3
    <2>6. /\ Len(b \o s[i + d]) = Len(b) + Len(s[i + d])
          /\ \A k \in 1 .. Len(b) : (b \o s[i + d])[k] = b[k]
          /\ Len(b) \in Nat /\ Len(a) \in Nat /\ Len(s[i + d]) \in Nat
      <3>1. PICK t \in Seq(Seq(Nat)) : t = s[i + d]
        BY <2>4
      <3>2. Len(b \o t) = Len(b) + Len(t) /\ \A k \in 1 .. Len(b) : (b \o t)[k] = b[k]
        <4>1. /\ Len(b \o t) = Len(b) + Len(t) /\ Len(b) \in Nat /\ Len(t) \in Nat
              /\ \A k \in 1 .. Len(b) + Len(t) :
                    (b \o t)[k] = IF k <= Len(b) THEN b[k] ELSE t[k - Len(b)]
          BY <2>4, ConcatProperties, LenProperties
        <4> QED BY <4>1
      <3> QED BY <2>4, <3>1, <3>2, LenProperties
    <2>7. /\ Len(a) <= Len(f[i + d]) /\ \A k \in 1 .. Len(a) : f[i + d][k] = a[k]
      <3>1. \A k \in 1 .. Len(a) : k \in 1 .. Len(b)
        BY <2>3, <2>6
      <3>2. Len(a) <= Len(b) + Len(s[i + d])
        BY <2>3, <2>6
      <3> QED BY ONLY <2>3, <2>5, <2>6, <3>1, <3>2
    <2> QED BY <2>1, <2>2, <2>7 DEF P
  <1> HIDE DEF P
  <1>5. j - i \in 0 .. n - i /\ i + (j - i) = j
    BY <1>2
  <1>6. j - i \in P
    BY <1>2, <1>3, <1>4, <1>5, Induct
  <1> QED BY <1>5, <1>6 DEF P

\* A chunk begins after the one before it, and not behind its end.
LEMMA StepBounds ==
    ASSUME NEW max \in Nat \ {0}
    PROVE  Step(max) \in 1 .. max
  <1>1. OverlapDiv \in Nat \ {0}
    BY EmbAssumption
  <1>2. PICK q : q = max \div OverlapDiv
    OBVIOUS
  <1>3. q \in Int /\ q >= 0
    BY <1>1, <1>2
  <1>4. Step(max) = IF q >= max THEN 1 ELSE max - q
    BY <1>2 DEF Step
  <1> QED BY <1>3, <1>4

\* The rest of the loop of chunk_text from position s, with f for what follows.
FromValue(f, n, max, s) ==
    LET e == IF s + max < n THEN s + max ELSE n
    IN  <<<<s, e>>>> \o (IF e = n THEN << >> ELSE f[s + Step(max)])
IsFrom(f, n, max, a) == f = [s \in a .. n |-> FromValue(f, n, max, s)]

\* The loop has a value from every position.
LEMMA FromExists ==
    ASSUME NEW n \in Nat, NEW max \in Nat \ {0}
    PROVE  \E f : IsFrom(f, n, max, 0)
  <1> DEFINE P == {d \in 0 .. n : \E f : IsFrom(f, n, max, n - d)}
  <1>1. Step(max) \in 1 .. max
    BY StepBounds
  <1>2. ASSUME NEW f, NEW a \in 0 .. n, NEW b \in 0 .. n, a <= b, a >= b - 1,
               b = n \/ IsFrom(f, n, max, b)
        PROVE  \E g : IsFrom(g, n, max, a)
    <2>1. PICK g : g = [s \in a .. n |-> FromValue(f, n, max, s)]
      OBVIOUS
    <2>2. ASSUME NEW s \in a .. n
          PROVE  FromValue(g, n, max, s) = FromValue(f, n, max, s)
      <3>1. PICK e : e = IF s + max < n THEN s + max ELSE n
        OBVIOUS
      <3>2. CASE e = n
        BY <3>1, <3>2 DEF FromValue
      <3>3. CASE e # n
        <4>1. s + Step(max) \in b .. n /\ s + Step(max) \in a .. n /\ b # n
          BY <1>1, <1>2, <3>1, <3>3
        <4>2. g[s + Step(max)] = FromValue(f, n, max, s + Step(max))
          BY <2>1, <4>1
        <4>3. f[s + Step(max)] = FromValue(f, n, max, s + Step(max))
          <5>1. PICK u \in b .. n : u = s + Step(max)
            BY <4>1
          <5>2. IsFrom(f, n, max, b)
            BY <1>2, <4>1
          <5>3. f[u] = FromValue(f, n, max, u)
            BY ONLY <5>2, u \in b .. n DEF IsFrom
          <5> QED BY <5>1, <5>3
        <4>4. g[s + Step(max)] = f[s + Step(max)]
          BY <4>2, <4>3
        <4> QED BY <4>4 DEF FromValue
      <3> QED BY <3>2, <3>3
    <2>3. [s \in a .. n |-> FromValue(g, n, max, s)] = [s \in a .. n |-> FromValue(f, n, max, s)]
      BY <2>2
    <2> QED BY <2>1, <2>3 DEF IsFrom
  <1>3. 0 \in P
    <2>1. PICK f : f = << >>
      OBVIOUS
    <2>2. n \in 0 .. n /\ n <= n /\ n >= n - 1 /\ n - 0 = n /\ 0 \in 0 .. n
      OBVIOUS
    <2>3. \E g : IsFrom(g, n, max, n)
      BY <1>2, <2>2
    <2> QED BY <2>2, <2>3
  <1>4. ASSUME NEW d \in 1 .. n, d - 1 \in P
        PROVE  d \in P
    <2>1. PICK f : IsFrom(f, n, max, n - (d - 1))
      BY <1>4
    <2>2. /\ n - d \in 0 .. n /\ n - (d - 1) \in 0 .. n /\ d \in 0 .. n
          /\ n - d <= n - (d - 1) /\ n - d >= (n - (d - 1)) - 1
      OBVIOUS
    <2>3. \E g : IsFrom(g, n, max, n - d)
      BY <1>2, <2>1, <2>2
    <2> QED BY <2>2, <2>3
  <1> HIDE DEF P
  <1>5. n \in P
    BY <1>3, <1>4, Induct
  <1> QED BY <1>5 DEF P

\* The ranges are within the text, no longer than max, and cover it from s on.
Covers(r, n, max, s) ==
    /\ r \in Seq(Nat \X Nat) /\ r # << >>
    /\ \A i \in 1 .. Len(r) :
          r[i][1] <= r[i][2] /\ r[i][2] <= n /\ r[i][2] - r[i][1] <= max
    /\ \A t \in s + 1 .. n : \E i \in 1 .. Len(r) : t \in r[i][1] + 1 .. r[i][2]

\* A range and those that follow.
LEMMA CoversMore ==
    ASSUME NEW n \in Nat, NEW max \in Nat, NEW s \in Nat, NEW e \in s .. n, e - s <= max,
           NEW r, NEW u \in Nat, (r = << >> /\ e = n) \/ (Covers(r, n, max, u) /\ u <= e)
    PROVE  Covers(<<<<s, e>>>> \o r, n, max, s)
  <1>1. e \in Nat /\ <<s, e>> \in Nat \X Nat
    OBVIOUS
  <1>2. r \in Seq(Nat \X Nat)
    BY EmptySeq DEF Covers
  <1>3. PICK a : a = <<<<s, e>>>>
    OBVIOUS
  <1>4. a \in Seq(Nat \X Nat) /\ Len(a) = 1 /\ a[1] = <<s, e>>
    BY <1>1, <1>3
  <1>5. PICK b : b = a \o r
    OBVIOUS
  <1>6. /\ b \in Seq(Nat \X Nat) /\ Len(b) = 1 + Len(r) /\ Len(r) \in Nat
        /\ \A k \in 1 .. 1 + Len(r) : b[k] = IF k <= 1 THEN a[k] ELSE r[k - 1]
    <2>1. /\ b \in Seq(Nat \X Nat) /\ Len(b) = Len(a) + Len(r) /\ Len(r) \in Nat
          /\ \A k \in 1 .. Len(a) + Len(r) :
                b[k] = IF k <= Len(a) THEN a[k] ELSE r[k - Len(a)]
      <3> HIDE DEF Covers
      <3> QED BY <1>2, <1>4, <1>5, ConcatProperties, LenProperties
    <2> QED BY <1>4, <2>1
  <1>7. 1 \in 1 .. Len(b) /\ b[1] = <<s, e>> /\ b # << >>
    BY <1>4, <1>6, EmptySeq
  <1>8. ASSUME NEW i \in 1 .. Len(r)
        PROVE  i + 1 \in 1 .. Len(b) /\ b[i + 1] = r[i]
    <2>1. i + 1 \in 1 .. 1 + Len(r) /\ ~(i + 1 <= 1) /\ (i + 1) - 1 = i
      BY <1>6
    <2> QED BY <1>6, <2>1
  <1>9. ASSUME NEW i \in 1 .. Len(b)
        PROVE  b[i][1] <= b[i][2] /\ b[i][2] <= n /\ b[i][2] - b[i][1] <= max
    <2>1. CASE i = 1
      BY <1>7, <2>1
    <2>2. CASE i # 1
      <3>1. i - 1 \in 1 .. Len(r) /\ b[i] = r[i - 1]
        BY <1>6, <2>2
      <3>2. r # << >>
        BY <3>1
      <3>3. Covers(r, n, max, u)
        BY <3>2
      <3> QED BY <3>1, <3>3 DEF Covers
    <2> QED BY <2>1, <2>2
  <1>10. ASSUME NEW t \in s + 1 .. n
         PROVE  \E i \in 1 .. Len(b) : t \in b[i][1] + 1 .. b[i][2]
    <2>1. CASE t <= e
      <3>1. t \in b[1][1] + 1 .. b[1][2]
        BY <1>1, <1>7, <2>1
      <3> QED BY <1>7, <3>1
    <2>2. CASE ~(t <= e)
      <3>1. Covers(r, n, max, u) /\ u <= e
        BY <2>2
      <3>2. t \in u + 1 .. n
        BY <1>1, <2>2, <3>1
      <3>3. PICK i \in 1 .. Len(r) : t \in r[i][1] + 1 .. r[i][2]
        BY <3>1, <3>2 DEF Covers
      <3>4. i + 1 \in 1 .. Len(b) /\ b[i + 1] = r[i]
        BY <1>8
      <3>5. t \in b[i + 1][1] + 1 .. b[i + 1][2]
        BY <3>3, <3>4
      <3> QED BY <3>4, <3>5
    <2> QED BY <2>1, <2>2
  <1> HIDE DEF Covers
  <1>11. Covers(b, n, max, s)
    BY <1>6, <1>7, <1>9, <1>10 DEF Covers
  <1> QED BY <1>3, <1>5, <1>11

\* The chunks cover the text.
LEMMA RangesCover ==
    ASSUME NEW n \in Nat, NEW max \in Nat \ {0}
    PROVE  Covers(Ranges(n, max), n, max, 0)
  <1>1. CASE n <= max
    <2>1. Ranges(n, max) = <<<<0, n>>>>
      BY <1>1 DEF Ranges
    <2>2. Covers(<<<<0, n>>>> \o << >>, n, max, 0)
      <3>1. n \in 0 .. n /\ n - 0 <= max /\ max \in Nat /\ 0 \in Nat
        BY <1>1
      <3> QED BY <3>1, CoversMore
    <2>3. <<<<0, n>>>> \o << >> = <<<<0, n>>>>
      <3>1. <<<<0, n>>>> \in Seq(Nat \X Nat)
        OBVIOUS
      <3> QED BY <3>1, ConcatEmptySeq
    <2> QED BY <2>1, <2>2, <2>3
  <1>2. CASE ~(n <= max)
    <2>1. PICK f : f = CHOOSE g : IsFrom(g, n, max, 0)
      OBVIOUS
    <2>2. IsFrom(f, n, max, 0)
      BY <2>1, FromExists
    <2>3. Ranges(n, max) = f[0]
      BY <1>2, <2>1 DEF Ranges, IsFrom, FromValue
    <2>4. Step(max) \in 1 .. max
      BY StepBounds
    <2> DEFINE P == {d \in 0 .. n : \A s \in n - d .. n : Covers(f[s], n, max, s)}
    <2>5. ASSUME NEW s \in 0 .. n, \A u \in s + 1 .. n : Covers(f[u], n, max, u)
          PROVE  Covers(f[s], n, max, s)
      <3>1. f[s] = FromValue(f, n, max, s)
        BY ONLY <2>2, s \in 0 .. n DEF IsFrom
      <3>2. PICK e : e = IF s + max < n THEN s + max ELSE n
        OBVIOUS
      <3>3. e \in s .. n /\ e - s <= max /\ s \in Nat /\ max \in Nat
        BY <3>2
      <3>4. PICK u : u = s + Step(max)
        OBVIOUS
      <3>5. u \in Nat
        BY <2>4, <3>4
      <3>6. PICK r : r = IF e = n THEN << >> ELSE f[u]
        OBVIOUS
      <3>7. e # n => u \in s + 1 .. n /\ u <= e
        BY <2>4, <3>2, <3>4
      <3>8. (r = << >> /\ e = n) \/ (Covers(r, n, max, u) /\ u <= e)
        BY <2>5, <3>6, <3>7
      <3>9. Covers(<<<<s, e>>>> \o r, n, max, s)
        BY <3>3, <3>5, <3>8, CoversMore
      <3>10. f[s] = <<<<s, e>>>> \o r
        BY <3>1, <3>2, <3>4, <3>6 DEF FromValue
      <3> QED BY <3>9, <3>10
    <2>6. 0 \in P
      <3>1. \A s \in n - 0 .. n : s \in 0 .. n /\ \A u \in s + 1 .. n : FALSE
        OBVIOUS
      <3> QED BY <2>5, <3>1
    <2>7. ASSUME NEW d \in 1 .. n, d - 1 \in P
          PROVE  d \in P
      <3>1. \A s \in n - (d - 1) .. n : Covers(f[s], n, max, s)
        BY <2>7
      <3>2. ASSUME NEW s \in n - d .. n
            PROVE  Covers(f[s], n, max, s)
        <4>1. s \in 0 .. n /\ \A u \in s + 1 .. n : u \in n - (d - 1) .. n
          OBVIOUS
        <4> QED BY <2>5, <3>1, <4>1
      <3>3. d \in 0 .. n
        OBVIOUS
      <3> QED BY <3>2, <3>3
    <2> HIDE DEF P
    <2>8. n \in P
      BY <2>6, <2>7, Induct
    <2>9. 0 \in n - n .. n
      OBVIOUS
    <2> QED BY <2>3, <2>8, <2>9 DEF P
  <1> QED BY <1>1, <1>2

-----------------------------------------------------------------------------
(* Chunks.                                                                 *)

Chunk == [range : Nat \X Nat, text : Seq(Nat)]

\* Every function on 1 .. n is a sequence.
LEMMA FunIsSeq ==
    ASSUME NEW n \in Nat, NEW S, NEW f \in [1 .. n -> S]
    PROVE  f \in Seq(S) /\ Len(f) = n
  OBVIOUS

\* The prefix of a role fits in the window together with a chunk.
LEMMA BudgetFits ==
    ASSUME Slots
    PROVE  /\ ChunkBudget \in Nat
           /\ ChunkBudget # 0 => \A role \in {"Document", "Clustering"} :
                 PrefixTokens(RolePrefix(role)) + ChunkBudget <= Window
           /\ Window > 2 => ChunkBudget # 0
  <1>1. PICK a, b : a = RolePrefix("Document") /\ b = RolePrefix("Clustering")
    OBVIOUS
  <1>2. /\ a \in {"passage", ""} /\ b \in {"query", "clustering", ""}
    BY <1>1 DEF Slots, RolePrefix, prefixes_for_model, embed_route
  <1>3. /\ PrefixTokens("") = 0 /\ PrefixTokens("passage") = 1 /\ PrefixTokens("query") = 1
        /\ PrefixTokens("clustering") = 2
    BY DEF PrefixTokens
  <1>4. PICK A : A = {a, b} \ {""}
    OBVIOUS
  <1>5. ChunkBudget = IF A = {} THEN DefaultBudget ELSE Min({params_for_window(p) : p \in A})
    BY <1>1, <1>4 DEF ChunkBudget
  <1>6. Window \in Nat \ {0} /\ DefaultBudget \in Nat \ {0} /\ DefaultBudget <= Window
    BY EmbAssumption
  <1>7. \A t \in {0, 1, 2} : (IF Window > t THEN Window - t ELSE 0) \in Nat
    BY <1>6
  <1>8. ASSUME NEW p \in {"", "passage", "query", "clustering"}
        PROVE  \E t \in {0, 1, 2}, w \in Nat :
                  /\ PrefixTokens(p) = t /\ params_for_window(p) = w
                  /\ w = IF Window > t THEN Window - t ELSE 0
    <2>1. PICK t : t = PrefixTokens(p)
      OBVIOUS
    <2>2. t \in {0, 1, 2}
      BY <1>3, <2>1
    <2>3. params_for_window(p) = IF Window > t THEN Window - t ELSE 0
      BY <2>1 DEF params_for_window
    <2>4. (IF Window > t THEN Window - t ELSE 0) \in Nat
      BY <1>7, <2>2, Zenon
    <2> QED BY <2>1, <2>2, <2>3, <2>4
  <1>9. CASE A = {}
    <2>1. a = "" /\ b = ""
      BY <1>4, <1>9
    <2>2. ChunkBudget = DefaultBudget
      BY <1>5, <1>9
    <2>3. \A role \in {"Document", "Clustering"} : PrefixTokens(RolePrefix(role)) = 0
      BY <1>1, <1>3, <2>1
    <2>4. \A role \in {"Document", "Clustering"} :
              PrefixTokens(RolePrefix(role)) + ChunkBudget <= Window
      BY <1>6, <2>2, <2>3
    <2> QED BY <1>6, <2>2, <2>4
  <1>10. CASE A # {}
    <2>1. PICK S : S = {params_for_window(p) : p \in A}
      OBVIOUS
    <2>2. A \subseteq {"", "passage", "query", "clustering"}
      BY <1>2, <1>4
    <2>3. \A p \in A : params_for_window(p) \in Nat
      BY <1>8, <2>2
    <2>4. PICK m \in S : \A y \in S : m <= y
      <3>1. PICK p \in A : \A q \in A : params_for_window(p) <= params_for_window(q)
        <4>1. PICK x, y : x = params_for_window(a) /\ y = params_for_window(b)
          OBVIOUS
        <4>2. CASE a = ""
          <5>1. A = {b}
            BY <1>4, <1>10, <4>2
          <5>2. y \in Nat /\ y <= y
            BY <2>3, <4>1, <5>1
          <5> QED BY <4>1, <5>1, <5>2
        <4>3. CASE b = ""
          <5>1. A = {a}
            BY <1>4, <1>10, <4>3
          <5>2. x \in Nat /\ x <= x
            BY <2>3, <4>1, <5>1
          <5> QED BY <4>1, <5>1, <5>2
        <4>4. CASE a # "" /\ b # ""
          <5>1. a \in A /\ b \in A /\ \A q \in A : q = a \/ q = b
            BY <1>4, <4>4
          <5>2. x \in Nat /\ y \in Nat
            BY <2>3, <4>1, <5>1
          <5>3. CASE x <= y
            BY <4>1, <5>1, <5>2, <5>3
          <5>4. CASE y <= x
            BY <4>1, <5>1, <5>2, <5>4
          <5> QED BY <5>2, <5>3, <5>4
        <4> QED BY <4>2, <4>3, <4>4
      <3> QED BY <2>1, <3>1
    <2>5. Min(S) \in S /\ \A y \in S : Min(S) <= y
      BY <2>4 DEF Min
    <2>6. PICK p \in A : ChunkBudget = params_for_window(p)
      BY <1>5, <1>10, <2>1, <2>5
    <2>7. \A q \in A : ChunkBudget <= params_for_window(q)
      BY <1>5, <1>10, <2>1, <2>5
    <2>8. ChunkBudget \in Nat /\ (Window > 2 => ChunkBudget # 0) /\ ChunkBudget <= Window
      <3>1. PICK t \in {0, 1, 2}, w \in Nat :
                /\ PrefixTokens(p) = t /\ params_for_window(p) = w
                /\ w = IF Window > t THEN Window - t ELSE 0
        BY <1>8, <2>2
      <3> QED BY <1>6, <2>6, <3>1
    <2>9. ASSUME ChunkBudget # 0, NEW q \in {a, b}
          PROVE  PrefixTokens(q) + ChunkBudget <= Window
      <3>1. CASE q = ""
        <4>1. PrefixTokens(q) = 0
          BY <1>3, <3>1
        <4> QED BY <1>6, <2>8, <4>1
      <3>2. CASE q # ""
        <4>1. q \in A
          BY <1>4, <2>9, <3>2
        <4>2. PICK t \in {0, 1, 2}, w \in Nat :
                /\ PrefixTokens(q) = t /\ params_for_window(q) = w
                /\ w = IF Window > t THEN Window - t ELSE 0
          BY <1>8, <2>2, <4>1
        <4>3. ChunkBudget <= w
          BY <2>7, <4>1, <4>2
        <4> QED BY <1>6, <2>8, <2>9, <4>2, <4>3
      <3> QED BY <3>1, <3>2
    <2> QED BY <1>1, <2>8, <2>9
  <1> QED BY <1>9, <1>10

\* Walking to a character boundary ends, on the right side of the offset.
LEMMA SnapsEnd ==
    ASSUME NEW text \in Seq(Nat), NEW p \in 0 .. Len(text)
    PROVE  /\ snap_to_char_boundary_down(text, p) \in 0 .. p
           /\ snap_to_char_boundary_up(text, p) \in p .. Len(text)
  <1>1. PICK n \in Nat : n = Len(text)
    BY LenProperties
  <1>2. p \in 0 .. n /\ p \in Nat
    BY <1>1
  <1>3. PICK B : B = {q \in 0 .. n : is_char_boundary(text, q)}
    OBVIOUS
  <1>4. 0 \in B /\ n \in B /\ B \subseteq 0 .. n
    BY <1>1, <1>3 DEF is_char_boundary
  <1>5. {q \in 0 .. p : is_char_boundary(text, q)} = {q \in 0 .. p : q \in B}
    BY <1>2, <1>3
  <1>6. {q \in p .. Len(text) : is_char_boundary(text, q)} = {q \in p .. n : q \in B}
    BY <1>1, <1>2, <1>3
  <1>7. \E q \in 0 .. p : q \in B /\ \A x \in q + 1 .. p : x \notin B
    <2> DEFINE P == {i \in 0 .. p : \E q \in 0 .. i : q \in B /\ \A x \in q + 1 .. i : x \notin B}
    <2>1. 0 \in P
      BY <1>2, <1>4
    <2>2. ASSUME NEW i \in 1 .. p, i - 1 \in P
          PROVE  i \in P
      <3>1. PICK q \in 0 .. i - 1 : q \in B /\ \A x \in q + 1 .. i - 1 : x \notin B
        BY <2>2
      <3>2. CASE i \in B
        <4>1. i \in 0 .. i /\ \A x \in i + 1 .. i : x \notin B
          OBVIOUS
        <4> QED BY <1>2, <3>2, <4>1
      <3>3. CASE i \notin B
        <4>1. q \in 0 .. i /\ \A x \in q + 1 .. i : x \notin B
          <5>1. \A x \in q + 1 .. i : x = i \/ x \in q + 1 .. i - 1
            OBVIOUS
          <5> QED BY <3>1, <3>3, <5>1
        <4> QED BY <1>2, <3>1, <4>1
      <3> QED BY <3>2, <3>3
    <2> HIDE DEF P
    <2>3. p \in P
      <3>1. \A i \in 0 .. p : i \in P
        BY <1>2, <2>1, <2>2, Induct
      <3> QED BY <1>2, <3>1
    <2> QED BY <2>3 DEF P
  <1>8. \E q \in p .. n : q \in B /\ \A x \in p .. q - 1 : x \notin B
    <2> DEFINE P == {i \in 0 .. n : \E q \in n - i .. n : q \in B /\ \A x \in n - i .. q - 1 : x \notin B}
    <2>1. 0 \in P
      BY <1>4
    <2>2. ASSUME NEW i \in 1 .. n, i - 1 \in P
          PROVE  i \in P
      <3>1. PICK q \in n - (i - 1) .. n : q \in B /\ \A x \in n - (i - 1) .. q - 1 : x \notin B
        BY <2>2
      <3>2. CASE n - i \in B
        <4>1. n - i \in n - i .. n /\ \A x \in n - i .. (n - i) - 1 : x \notin B
          OBVIOUS
        <4> QED BY <3>2, <4>1
      <3>3. CASE n - i \notin B
        <4>1. q \in n - i .. n /\ \A x \in n - i .. q - 1 : x \notin B
          <5>1. \A x \in n - i .. q - 1 : x = n - i \/ x \in n - (i - 1) .. q - 1
            OBVIOUS
          <5> QED BY <3>1, <3>3, <5>1
        <4> QED BY <3>1, <4>1
      <3> QED BY <3>2, <3>3
    <2>3. n - p \in 0 .. n /\ n - (n - p) = p
      BY <1>2
    <2> HIDE DEF P
    <2>4. n - p \in P
      BY <2>1, <2>2, <2>3, Induct
    <2>5. \E q \in n - (n - p) .. n : q \in B /\ \A x \in n - (n - p) .. q - 1 : x \notin B
      BY <2>4 DEF P
    <2> QED BY <2>3, <2>5
  <1>9. snap_to_char_boundary_down(text, p) \in 0 .. p
    <2>1. PICK q \in 0 .. p : q \in B /\ \A x \in q + 1 .. p : x \notin B
      BY <1>7
    <2>2. PICK S : S = {y \in 0 .. p : y \in B}
      OBVIOUS
    <2>3. q \in S /\ \A y \in S : q >= y
      <3>1. \A y \in 0 .. p : y \in q + 1 .. p \/ q >= y
        BY <1>2
      <3> QED BY <2>1, <2>2, <3>1
    <2>4. Max(S) \in S
      BY <2>3 DEF Max
    <2> QED BY <1>5, <2>2, <2>4 DEF snap_to_char_boundary_down
  <1>10. snap_to_char_boundary_up(text, p) \in p .. n
    <2>1. PICK q \in p .. n : q \in B /\ \A x \in p .. q - 1 : x \notin B
      BY <1>8
    <2>2. PICK S : S = {y \in p .. n : y \in B}
      OBVIOUS
    <2>3. q \in S /\ \A y \in S : q <= y
      <3>1. \A y \in p .. n : y \in p .. q - 1 \/ q <= y
        BY <1>2
      <3> QED BY <2>1, <2>2, <3>1
    <2>4. Min(S) \in S
      BY <2>3 DEF Min
    <2> QED BY <1>6, <2>2, <2>4 DEF snap_to_char_boundary_up
  <1> QED BY <1>1, <1>9, <1>10

\* A row's text has its whole range, and the range is no longer than a budget.
Cut(doc, range, text, max) ==
    /\ range[2] - range[1] <= max
    /\ \E a \in 0 .. range[1], b \in range[2] .. Len(doc) : text = SubSeq(doc, a + 1, b)

\* The chunks of a text are pieces of it that leave nothing out.
LEMMA ChunksMean ==
    ASSUME Slots, NEW text \in Seq(Nat)
    PROVE  /\ chunk_text(text) \in Seq(Chunk)
           /\ Window > 2 => chunk_text(text) # << >>
           /\ \A i \in 1 .. Len(chunk_text(text)) :
                 /\ ChunkBudget # 0
                 /\ Cut(text, chunk_text(text)[i].range, chunk_text(text)[i].text, ChunkBudget)
                 /\ ToSet(chunk_text(text)[i].text) \subseteq ToSet(text)
           /\ chunk_text(text) # << >> => \A t \in 1 .. Len(text) :
                 \E i \in 1 .. Len(chunk_text(text)) :
                    t \in chunk_text(text)[i].range[1] + 1 .. chunk_text(text)[i].range[2]
  <1>1. ChunkBudget \in Nat /\ (Window > 2 => ChunkBudget # 0)
    BY BudgetFits
  <1>2. PICK n \in Nat : n = Len(text)
    BY LenProperties
  <1>3. CASE ChunkBudget = 0
    <2>1. chunk_text(text) = << >>
      BY <1>3 DEF chunk_text
    <2>2. << >> \in Seq(Chunk) /\ Len(<< >>) = 0
      BY EmptySeq
    <2> QED BY <1>1, <1>3, <2>1, <2>2
  <1>4. CASE ChunkBudget # 0
    <2>1. PICK max \in Nat \ {0} : max = ChunkBudget
      BY <1>1, <1>4
    <2>2. PICK r : r = Ranges(n, max)
      OBVIOUS
    <2>3. Covers(r, n, max, 0)
      BY <2>2, RangesCover
    <2>4. Len(r) \in Nat /\ Len(r) # 0
      BY <2>3, EmptySeq, LenProperties DEF Covers
    <2>5. PICK s : s = chunk_text(text)
      OBVIOUS
    <2>6. s = [i \in 1 .. Len(r) |-> [range |-> r[i], text |-> Slice(text, r[i])]]
      BY <1>2, <1>4, <2>1, <2>2, <2>5 DEF chunk_text
    <2>7. ASSUME NEW i \in 1 .. Len(r)
          PROVE  /\ r[i] \in Nat \X Nat /\ Slice(text, r[i]) \in Seq(Nat)
                 /\ Cut(text, r[i], Slice(text, r[i]), max)
                 /\ ToSet(Slice(text, r[i])) \subseteq ToSet(text)
      <3>1. r[i] \in Nat \X Nat
        BY <2>3, ElementOfSeq DEF Covers
      <3>2. r[i][1] \in Nat /\ r[i][2] \in Nat /\ r[i][1] <= r[i][2] /\ r[i][2] <= n
            /\ r[i][2] - r[i][1] <= max
        BY <2>3, <3>1 DEF Covers
      <3>3. PICK a, b : /\ a = snap_to_char_boundary_down(text, r[i][1])
                        /\ b = snap_to_char_boundary_up(text, r[i][2])
        OBVIOUS
      <3>4. a \in 0 .. r[i][1] /\ b \in r[i][2] .. n
        <4>1. r[i][1] \in 0 .. Len(text) /\ r[i][2] \in 0 .. Len(text)
          BY <1>2, <3>2
        <4> QED BY <1>2, <3>3, <4>1, SnapsEnd
      <3>5. a \in Nat /\ b \in Nat /\ a <= b /\ b <= n
        BY <3>2, <3>4
      <3>6. \A k \in a + 1 .. b : k \in 1 .. Len(text) /\ text[k] \in ToSet(text)
        <4>1. DOMAIN text = 1 .. n
          BY <1>2, LenProperties
        <4> QED BY <1>2, <3>5, <4>1 DEF ToSet
      <3>7. \A k \in a + 1 .. b : text[k] \in Nat
        BY <3>6, ElementOfSeq
      <3>8. PICK u : u = SubSeq(text, a + 1, b)
        OBVIOUS
      <3>9. u \in Seq(Nat)
        BY <3>5, <3>7, <3>8, SubSeqProperties
      <3>10. u \in Seq(ToSet(text))
        <4>1. \A k \in a + 1 .. b : text[k] \in ToSet(text)
          BY <3>6
        <4> QED BY <3>5, <3>8, <4>1, SubSeqProperties
      <3>11. ToSet(u) \subseteq ToSet(text)
        <4>1. DOMAIN u = 1 .. Len(u) /\ \A k \in 1 .. Len(u) : u[k] \in ToSet(text)
          BY <3>10, LenProperties, ElementOfSeq
        <4> QED BY <4>1 DEF ToSet
      <3>12. Slice(text, r[i]) = u
        BY <3>3, <3>8 DEF Slice
      <3>13. Cut(text, r[i], u, max)
        BY <1>2, <3>2, <3>4, <3>8 DEF Cut
      <3> QED BY <3>1, <3>9, <3>11, <3>12, <3>13
    <2>8. \A i \in 1 .. Len(r) : /\ s[i].range = r[i]
                                 /\ s[i].text = Slice(text, r[i])
                                 /\ s[i] \in Chunk
      BY <2>6, <2>7 DEF Chunk
    <2>9. s \in [1 .. Len(r) -> Chunk]
      BY <2>6, <2>8
    <2>10. s \in Seq(Chunk) /\ Len(s) = Len(r)
      BY <2>4, <2>9, FunIsSeq
    <2>11. s # << >>
      BY <2>4, <2>10
    <2>12. \A t \in 1 .. Len(text) : \E i \in 1 .. Len(s) : t \in s[i].range[1] + 1 .. s[i].range[2]
      <3>1. \A t \in 0 + 1 .. n : \E i \in 1 .. Len(r) : t \in r[i][1] + 1 .. r[i][2]
        BY <2>3 DEF Covers
      <3>2. ASSUME NEW t \in 1 .. n
            PROVE  \E i \in 1 .. Len(s) : t \in s[i].range[1] + 1 .. s[i].range[2]
        <4>1. PICK i \in 1 .. Len(r) : t \in r[i][1] + 1 .. r[i][2]
          BY <3>1
        <4>2. s[i].range = r[i] /\ i \in 1 .. Len(s)
          BY <2>8, <2>10
        <4>3. t \in s[i].range[1] + 1 .. s[i].range[2]
          BY <4>1, <4>2
        <4> QED BY <4>2, <4>3
      <3> QED BY <1>2, <3>2
    <2>13. \A i \in 1 .. Len(s) : /\ Cut(text, s[i].range, s[i].text, ChunkBudget)
                                  /\ ToSet(s[i].text) \subseteq ToSet(text)
      BY <2>1, <2>7, <2>8, <2>10
    <2> QED BY <1>4, <2>5, <2>10, <2>11, <2>12, <2>13
  <1> QED BY <1>3, <1>4

\* The texts of the chunks of a document.
ChunkTexts(d) == [k \in 1 .. Len(chunk_text(d)) |-> chunk_text(d)[k].text]

\* They are a sequence of texts.
LEMMA ChunkTextsMean ==
    ASSUME Slots, NEW d \in Seq(Nat)
    PROVE  /\ ChunkTexts(d) \in Seq(Seq(Nat)) /\ Len(chunk_text(d)) \in Nat
           /\ Len(ChunkTexts(d)) = Len(chunk_text(d))
           /\ \A k \in 1 .. Len(chunk_text(d)) : ChunkTexts(d)[k] = chunk_text(d)[k].text
  <1>1. PICK s \in Seq(Chunk) : s = chunk_text(d)
    BY ChunksMean
  <1>2. Len(s) \in Nat /\ \A k \in 1 .. Len(s) : s[k] \in Chunk
    BY LenProperties, ElementOfSeq
  <1>3. ChunkTexts(d) = [k \in 1 .. Len(s) |-> s[k].text]
    BY <1>1 DEF ChunkTexts
  <1>4. ChunkTexts(d) \in [1 .. Len(s) -> Seq(Nat)]
    BY <1>2, <1>3 DEF Chunk
  <1>5. ChunkTexts(d) \in Seq(Seq(Nat)) /\ Len(ChunkTexts(d)) = Len(s)
    BY <1>2, <1>4, FunIsSeq
  <1> QED BY <1>1, <1>2, <1>3, <1>5

\* The flat list of the first j documents is that of the first j - 1 and the
\* chunks of the next.
LEMMA FlatSteps ==
    ASSUME Slots, NEW docs \in Seq(Seq(Nat))
    PROVE  \E s \in Seq(Seq(Seq(Nat))), f \in [0 .. Len(docs) -> Seq(Seq(Nat))] :
              /\ Len(s) = Len(docs) /\ Joins(f, s, Len(docs))
              /\ \A i \in 1 .. Len(docs) : s[i] = ChunkTexts(docs[i])
              /\ FlatTexts(docs) = f[Len(docs)]
              /\ \A j \in 0 .. Len(docs) : FlatTexts(SubSeq(docs, 1, j)) = f[j]
  <1>1. PICK n \in Nat : n = Len(docs)
    BY LenProperties
  <1>2. \A i \in 1 .. n : docs[i] \in Seq(Nat) /\ ChunkTexts(docs[i]) \in Seq(Seq(Nat))
    BY <1>1, ElementOfSeq, ChunkTextsMean
  <1>3. PICK s : s = [i \in 1 .. n |-> ChunkTexts(docs[i])]
    OBVIOUS
  <1>4. s \in Seq(Seq(Seq(Nat))) /\ Len(s) = n /\ \A i \in 1 .. n : s[i] = ChunkTexts(docs[i])
    <2>1. s \in [1 .. n -> Seq(Seq(Nat))]
      BY <1>2, <1>3
    <2> QED BY <1>1, <1>3, <2>1, FunIsSeq
  <1>5. PICK f \in [0 .. n -> Seq(Seq(Nat))] : Joins(f, s, n)
    BY <1>4, JoinsExist
  <1>6. ASSUME NEW j \in 0 .. n
        PROVE  FlatTexts(SubSeq(docs, 1, j)) = f[j]
    <2>1. PICK d : d = SubSeq(docs, 1, j)
      OBVIOUS
    <2>2. Len(d) = j /\ \A i \in 1 .. j : d[i] = docs[i]
      <3>1. \A i \in 1 .. j : docs[i] \in Seq(Nat) /\ 1 + i - 1 = i
        BY <1>2
      <3>2. j \in Int /\ 1 \in Int /\ j - 1 + 1 = j
        OBVIOUS
      <3>3. /\ Len(d) = IF 1 <= j THEN j - 1 + 1 ELSE 0
            /\ \A i \in 1 .. j - 1 + 1 : d[i] = docs[1 + i - 1]
        BY <2>1, <3>1, <3>2, SubSeqProperties
      <3> QED BY <3>1, <3>2, <3>3
    <2>3. PICK t : t = [i \in 1 .. j |-> ChunkTexts(docs[i])]
      OBVIOUS
    <2>4. FlatTexts(d) = FlattenSeq(t)
      <3>1. FlatTexts(d) = FlattenSeq([i \in 1 .. j |-> ChunkTexts(d[i])])
        BY <2>2 DEF FlatTexts, ChunkTexts
      <3>2. [i \in 1 .. j |-> ChunkTexts(d[i])] = t
        BY <2>2, <2>3
      <3> QED BY <3>1, <3>2
    <2>5. t \in Seq(Seq(Seq(Nat))) /\ Len(t) = j /\ \A i \in 1 .. j : t[i] = s[i]
      <3>1. j \in Nat /\ \A i \in 1 .. j : i \in 1 .. n
        OBVIOUS
      <3>2. t \in [1 .. j -> Seq(Seq(Nat))]
        BY <1>2, <2>3, <3>1
      <3>3. t \in Seq(Seq(Seq(Nat))) /\ Len(t) = j
        BY <3>1, <3>2, FunIsSeq
      <3> QED BY <1>4, <2>3, <3>1, <3>3
    <2>6. PICK g : g = [i \in 0 .. j |-> f[i]]
      OBVIOUS
    <2>7. g \in [0 .. Len(t) -> Seq(Seq(Nat))]
      <3>1. \A i \in 0 .. j : i \in 0 .. n
        OBVIOUS
      <3> QED BY <2>5, <2>6, <3>1
    <2>8. Joins(g, t, Len(t))
      <3>1. g[0] = << >>
        BY <1>5, <2>6 DEF Joins
      <3>2. ASSUME NEW i \in 1 .. j
            PROVE  g[i] = g[i - 1] \o t[i]
        <4>1. i \in 1 .. n /\ i \in 0 .. j /\ i - 1 \in 0 .. j
          OBVIOUS
        <4>2. f[i] = f[i - 1] \o s[i]
          BY <1>5, <4>1 DEF Joins
        <4>3. g[i] = f[i] /\ g[i - 1] = f[i - 1] /\ t[i] = s[i]
          BY <2>5, <2>6, <4>1
        <4> QED BY <4>2, <4>3
      <3> QED BY <2>5, <3>1, <3>2 DEF Joins
    <2>9. FlattenSeq(t) = g[Len(t)]
      BY <2>5, <2>7, <2>8, FlattenJoins
    <2>10. g[j] = f[j]
      BY <2>6
    <2> QED BY <2>1, <2>4, <2>5, <2>9, <2>10
  <1>7. FlatTexts(docs) = f[n]
    <2>1. SubSeq(docs, 1, n) = docs
      BY <1>1, SubSeqFull
    <2>2. n \in 0 .. n
      OBVIOUS
    <2>3. FlatTexts(SubSeq(docs, 1, n)) = f[n]
      BY <1>6, <2>2
    <2> QED BY ONLY <2>1, <2>3
  <1> QED BY <1>1, <1>4, <1>5, <1>6, <1>7

\* Where the chunks of document i are in the flat list.
At(docs, i, o) ==
    LET m == Len(chunk_text(docs[i]))
    IN  /\ FlatRange(docs, i) = o + 1 .. o + m
        /\ o + m <= Len(FlatTexts(docs))
        /\ \A k \in 1 .. m : FlatTexts(docs)[o + k] = chunk_text(docs[i])[k].text

\* Every document has a slice of its own, and the slices are all of the list.
LEMMA FlatMeans ==
    ASSUME Slots, NEW docs \in Seq(Seq(Nat))
    PROVE  /\ FlatTexts(docs) \in Seq(Seq(Nat))
           /\ \A i \in 1 .. Len(docs) : \E o \in Nat : At(docs, i, o)
           /\ \A i, j \in 1 .. Len(docs) :
                 i # j => FlatRange(docs, i) \cap FlatRange(docs, j) = {}
           /\ \A k \in 1 .. Len(FlatTexts(docs)) : \E i \in 1 .. Len(docs) :
                 k \in FlatRange(docs, i)
  <1>1. PICK n \in Nat : n = Len(docs)
    BY LenProperties
  <1>2. PICK s \in Seq(Seq(Seq(Nat))), f \in [0 .. n -> Seq(Seq(Nat))] :
              /\ Len(s) = n /\ Joins(f, s, n)
              /\ \A i \in 1 .. n : s[i] = ChunkTexts(docs[i])
              /\ FlatTexts(docs) = f[n]
              /\ \A j \in 0 .. n : FlatTexts(SubSeq(docs, 1, j)) = f[j]
    BY <1>1, FlatSteps
  <1>3. \A i \in 0 .. n : f[i] \in Seq(Seq(Nat)) /\ Len(f[i]) \in Nat
    BY LenProperties
  <1>4. ASSUME NEW i \in 0 .. n, NEW j \in i .. n
        PROVE  Len(f[i]) <= Len(f[j]) /\ \A k \in 1 .. Len(f[i]) : f[j][k] = f[i][k]
    BY <1>2, JoinsGrow
  <1>5. ASSUME NEW i \in 1 .. n
        PROVE  /\ Len(f[i]) = Len(f[i - 1]) + Len(chunk_text(docs[i]))
               /\ Len(chunk_text(docs[i])) \in Nat
               /\ FlatRange(docs, i) = Len(f[i - 1]) + 1 .. Len(f[i])
               /\ \A k \in 1 .. Len(chunk_text(docs[i])) :
                     f[i][Len(f[i - 1]) + k] = chunk_text(docs[i])[k].text
    <2>1. i - 1 \in 0 .. n /\ i \in 0 .. n
      OBVIOUS
    <2>2. docs[i] \in Seq(Nat)
      BY <1>1, ElementOfSeq
    <2>3. PICK c \in Seq(Seq(Nat)) : c = ChunkTexts(docs[i])
      BY <2>2, ChunkTextsMean
    <2>4. /\ Len(chunk_text(docs[i])) \in Nat /\ Len(c) = Len(chunk_text(docs[i]))
          /\ \A k \in 1 .. Len(c) : c[k] = chunk_text(docs[i])[k].text
      BY <2>2, <2>3, ChunkTextsMean
    <2>5. PICK a \in Seq(Seq(Nat)) : a = f[i - 1]
      BY <1>3, <2>1
    <2>6. f[i] = a \o c
      BY <1>2, <2>3, <2>5 DEF Joins
    <2>7. /\ Len(a \o c) = Len(a) + Len(c) /\ Len(a) \in Nat
          /\ \A k \in 1 .. Len(a) + Len(c) :
                (a \o c)[k] = IF k <= Len(a) THEN a[k] ELSE c[k - Len(a)]
      BY ConcatProperties, LenProperties
    <2>8. ASSUME NEW k \in 1 .. Len(c)
          PROVE  (a \o c)[Len(a) + k] = c[k]
      <3>1. PICK la \in Nat, lc \in Nat : la = Len(a) /\ lc = Len(c)
        BY <2>4, <2>7
      <3>2. k \in 1 .. lc /\ la + k \in 1 .. la + lc /\ ~(la + k <= la) /\ (la + k) - la = k
        BY <3>1
      <3>3. (a \o c)[la + k] = IF la + k <= la THEN a[la + k] ELSE c[(la + k) - la]
        BY <2>7, <3>1, <3>2
      <3> QED BY <3>1, <3>2, <3>3
    <2>9. FlatRange(docs, i) = Len(a) + 1 .. Len(a) + Len(c)
      <3>1. FlatTexts(SubSeq(docs, 1, i - 1)) = a
        BY <1>2, <2>1, <2>5
      <3> QED BY <2>4, <3>1 DEF FlatRange
    <2> QED BY <2>4, <2>5, <2>6, <2>7, <2>8, <2>9
  <1>6. FlatTexts(docs) \in Seq(Seq(Nat))
    BY <1>2
  <1>7. ASSUME NEW i \in 1 .. n
        PROVE  \E o \in Nat : At(docs, i, o)
    <2>1. PICK o \in Nat : o = Len(f[i - 1])
      <3>1. i - 1 \in 0 .. n
        OBVIOUS
      <3> QED BY <1>3, <3>1
    <2>2. PICK m \in Nat : m = Len(chunk_text(docs[i]))
      BY <1>5
    <2>3. /\ Len(f[i]) = o + m /\ FlatRange(docs, i) = o + 1 .. o + m
          /\ \A k \in 1 .. m : f[i][o + k] = chunk_text(docs[i])[k].text
      BY <1>5, <2>1, <2>2
    <2>4. /\ Len(f[i]) <= Len(f[n]) /\ \A k \in 1 .. Len(f[i]) : f[n][k] = f[i][k]
      <3>1. i \in 0 .. n /\ n \in i .. n
        OBVIOUS
      <3> QED BY <1>4, <3>1
    <2>5. \A k \in 1 .. m : o + k \in 1 .. Len(f[i])
      BY <2>3
    <2>6. \A k \in 1 .. m : FlatTexts(docs)[o + k] = chunk_text(docs[i])[k].text
      BY <1>2, <2>3, <2>4, <2>5
    <2>7. o + m <= Len(FlatTexts(docs))
      BY <1>2, <2>3, <2>4
    <2> QED BY <2>2, <2>3, <2>6, <2>7 DEF At
  <1>8. ASSUME NEW i \in 1 .. n, NEW j \in 1 .. n, i < j
        PROVE  FlatRange(docs, i) \cap FlatRange(docs, j) = {}
    <2>1. i \in 0 .. n /\ j - 1 \in i .. n /\ j - 1 \in 0 .. n
      BY <1>8
    <2>2. Len(f[i]) <= Len(f[j - 1]) /\ Len(f[i]) \in Nat /\ Len(f[j - 1]) \in Nat
      BY <1>3, <1>4, <2>1
    <2>3. /\ FlatRange(docs, i) = Len(f[i - 1]) + 1 .. Len(f[i])
          /\ FlatRange(docs, j) = Len(f[j - 1]) + 1 .. Len(f[j])
      BY <1>5
    <2>4. \A k \in FlatRange(docs, i) : k <= Len(f[i]) /\ k \in Int
      <3>1. i - 1 \in 0 .. n
        OBVIOUS
      <3> QED BY <1>3, <2>2, <2>3, <3>1
    <2>5. \A k \in FlatRange(docs, j) : k > Len(f[j - 1]) /\ k \in Int
      <3>1. j \in 0 .. n
        OBVIOUS
      <3> QED BY <1>3, <2>2, <2>3, <3>1
    <2> QED BY <2>2, <2>4, <2>5
  <1>9. ASSUME NEW i \in 1 .. n, NEW j \in 1 .. n, i # j
        PROVE  FlatRange(docs, i) \cap FlatRange(docs, j) = {}
    <2>1. i < j \/ j < i
      BY <1>9
    <2> QED BY <1>8, <2>1
  <1> DEFINE P == {i \in 0 .. n : \A k \in 1 .. Len(f[i]) : \E j \in 1 .. n : k \in FlatRange(docs, j)}
  <1>10. 0 \in P
    <2>1. f[0] = << >> /\ Len(<< >>) = 0
      BY <1>2 DEF Joins
    <2> QED BY <2>1
  <1>11. ASSUME NEW i \in 1 .. n, i - 1 \in P
         PROVE  i \in P
    <2>1. \A k \in 1 .. Len(f[i - 1]) : \E j \in 1 .. n : k \in FlatRange(docs, j)
      BY <1>11
    <2>2. FlatRange(docs, i) = Len(f[i - 1]) + 1 .. Len(f[i]) /\ i \in 0 .. n /\ i - 1 \in 0 .. n
      <3>1. i \in 0 .. n /\ i - 1 \in 0 .. n
        OBVIOUS
      <3> HIDE DEF P
      <3> QED BY <1>5, <3>1
    <2>3. ASSUME NEW k \in 1 .. Len(f[i])
          PROVE  \E j \in 1 .. n : k \in FlatRange(docs, j)
      <3>1. k \in 1 .. Len(f[i - 1]) \/ k \in Len(f[i - 1]) + 1 .. Len(f[i])
        BY <1>3, <2>2
      <3> QED BY <2>1, <2>2, <3>1
    <2> QED BY <2>2, <2>3
  <1> HIDE DEF P
  <1>12. n \in P
    <2>1. n \in Nat /\ n \in 0 .. n
      OBVIOUS
    <2>2. \A i \in 0 .. n : i \in P
      BY ONLY <1>10, <1>11, <2>1, Induct
    <2> QED BY <2>1, <2>2
  <1>13. \A k \in 1 .. Len(f[n]) : \E j \in 1 .. n : k \in FlatRange(docs, j)
    BY <1>12 DEF P
  <1> QED BY <1>1, <1>2, <1>6, <1>7, <1>9, <1>13

-----------------------------------------------------------------------------
(* The state that a call depends on.                                       *)

Roles == {"Document", "Clustering", "Query"}

\* No vector of a text is one of the markers, and these differ.
LEMMA Distinct ==
    /\ \A v \in Vectors : v # Zero /\ v # Failed /\ v # Missing /\ v # BadVector
    /\ Zero # Failed /\ Zero # Missing /\ Zero # BadVector
    /\ Failed # Missing /\ Failed # BadVector /\ Missing # BadVector
  <1>1. ASSUME NEW v \in Vectors
        PROVE  Len(v) = 3
    BY DEF Vectors
  <1>2. Len(Zero) = 1 /\ Len(Failed) = 1 /\ Len(Missing) = 1 /\ Len(BadVector) = 1
    BY DEF Zero, Failed, Missing, BadVector
  <1>3. /\ Zero[1] = "zeros" /\ Failed[1] = "failed"
        /\ Missing[1] = "missing" /\ BadVector[1] = "bad vector"
    BY DEF Zero, Failed, Missing, BadVector
  <1>4. ASSUME NEW v \in Vectors
        PROVE  v # Zero /\ v # Failed /\ v # Missing /\ v # BadVector
    <2>1. Len(v) # 1
      BY <1>1
    <2> QED BY <1>2, <2>1
  <1>5. /\ Zero[1] # Failed[1] /\ Zero[1] # Missing[1] /\ Zero[1] # BadVector[1]
        /\ Failed[1] # Missing[1] /\ Failed[1] # BadVector[1] /\ Missing[1] # BadVector[1]
    BY <1>3
  <1> QED BY <1>4, <1>5

\* The vector of a text is a vector, and the key under which it is cached.
LEMMA VectorType ==
    ASSUME Slots, NEW role \in Roles, NEW text \in Seq(Nat)
    PROVE  VectorOf(role, text) \in Vectors /\ cache_key(role, text) = VectorOf(role, text)
  <1>1. PICK m : m = embed_route(role)
    OBVIOUS
  <1>2. m \in {"e5", "plain", "nomic"}
    BY <1>1 DEF embed_route, Slots
  <1>3. PICK p : p = prefixes_for_model(m, role)
    OBVIOUS
  <1>4. p \in RolePrefixes
    BY <1>2, <1>3, Zenon DEF prefixes_for_model, RolePrefixes
  <1>5. apply_prefix(role, text) = <<m, p, text>>
    BY <1>1, <1>3 DEF apply_prefix
  <1>6. <<m, p, text>> \in Vectors
    BY <1>2, <1>4 DEF Vectors
  <1> QED BY <1>5, <1>6 DEF VectorOf, cache_key

\* Vectors and chunks depend on the models only.
LEMMA SameModels ==
    ASSUME UNCHANGED models
    PROVE  /\ \A role, text : VectorOf(role, text)' = VectorOf(role, text)
           /\ ChunkBudget' = ChunkBudget
           /\ \A d : chunk_text(d)' = chunk_text(d)
           /\ \A docs : FlatTexts(docs)' = FlatTexts(docs)
           /\ \A role : RolePrefix(role)' = RolePrefix(role)
  <1>1. slot1' = slot1 /\ slot2' = slot2
    BY DEF models
  <1>2. \A role, text : VectorOf(role, text)' = VectorOf(role, text)
    BY <1>1 DEF VectorOf, apply_prefix, embed_route
  <1>3. \A role : RolePrefix(role)' = RolePrefix(role)
    BY <1>1 DEF RolePrefix, embed_route
  <1>4. ChunkBudget' = ChunkBudget
    BY <1>3, Zenon DEF ChunkBudget
  <1>5. \A d : chunk_text(d)' = chunk_text(d)
    BY <1>4, Zenon DEF chunk_text
  <1>6. \A docs : FlatTexts(docs)' = FlatTexts(docs)
    BY <1>5 DEF FlatTexts
  <1> QED BY <1>2, <1>3, <1>4, <1>5, <1>6

\* What holds of a call keeps holding while others work.
LEMMA CallStable ==
    ASSUME UNCHANGED models, primed => primed'
    PROVE  /\ \A v, role, text : Good(v, role, text) => Good(v, role, text)'
           /\ \A r : CallOK(r) => CallOK(r)'
  <1>1. \A v, role, text : Good(v, role, text) => Good(v, role, text)'
    BY SameModels DEF Good
  <1>2. \A r : Flat(r)' = Flat(r)
    BY SameModels DEF Flat
  <1>3. \A r : GotOK(r) => GotOK(r)'
    BY <1>1, <1>2 DEF GotOK
  <1>4. \A r : FirstOK(r) => FirstOK(r)'
    BY <1>1, <1>2 DEF FirstOK
  <1>5. \A r : HitsOK(r) => HitsOK(r)'
    BY <1>1 DEF HitsOK
  <1>6. \A r : ChargeOK(r) => ChargeOK(r)'
    BY <1>2 DEF ChargeOK, Charged
  <1>7. \A r : Aligned(r.work, Flat(r), Len(r.got)) => Aligned(r.work, Flat(r), Len(r.got))'
    BY <1>2
  <1>8. ASSUME NEW r, CallOK(r)
        PROVE  CallOK(r)'
    BY <1>3, <1>4, <1>5, <1>6, <1>7, <1>8 DEF CallOK
  <1> QED BY <1>1, <1>8

-----------------------------------------------------------------------------
(* The batches of a call keep to the order of its texts.                   *)

\* Division by the batch size.
LEMMA DivBounds ==
    ASSUME NEW a \in Nat, NEW b \in Nat \ {0}
    PROVE  a \div b \in Nat /\ (a \div b) * b <= a /\ a < (a \div b) * b + b
  OBVIOUS

\* Products are monotone.
LEMMA MulMono ==
    ASSUME NEW i \in Nat, NEW j \in Nat, NEW e \in Nat, i <= j
    PROVE  i * e <= j * e /\ i * e \in Nat /\ j * e \in Nat
  <1>1. PICK d \in Nat : d = j - i
    OBVIOUS
  <1>2. d * e \in Nat /\ j = i + d
    BY <1>1
  <1>3. (i + d) * e = i * e + d * e
    OBVIOUS
  <1>4. i * e \in Nat /\ j * e \in Nat
    OBVIOUS
  <1> QED BY <1>2, <1>3, <1>4

\* When nothing is left to do, everything has been delivered.
LEMMA AlignedEnd ==
    ASSUME NEW texts, NEW n, Aligned(<< >>, texts, n)
    PROVE  n = Len(texts)
  <1>1. Len(<< >>) = 0 /\ 0 + 1 = 1
    OBVIOUS
  <1> QED BY <1>1 DEF Aligned

\* The batch at the head of the list is for the next texts.
LEMMA AlignedHead ==
    ASSUME NEW work \in Seq(Batch), NEW texts \in Seq(Seq(Nat)), NEW n \in Nat,
           work # << >>, Aligned(work, texts, n)
    PROVE  /\ Head(work) = work[1] /\ work[1] \in Batch /\ Tail(work) \in Seq(Batch)
           /\ n + Len(work[1].texts) <= Len(texts) /\ Len(work[1].texts) \in Nat
           /\ \A k \in 1 .. Len(work[1].texts) : work[1].texts[k] = texts[n + k]
           /\ Aligned(Tail(work), texts, n + Len(work[1].texts))
           /\ Len(work) \in Nat \ {0} /\ Len(Tail(work)) = Len(work) - 1
           /\ \A j \in 1 .. Len(work) - 1 : Tail(work)[j] = work[j + 1]
  <1>1. PICK m \in Nat \ {0} : m = Len(work)
    BY EmptySeq, LenProperties
  <1>2. /\ Head(work) = work[1] /\ Tail(work) \in Seq(Batch) /\ Len(Tail(work)) = m - 1
        /\ \A j \in 1 .. m - 1 : Tail(work)[j] = work[j + 1]
    BY <1>1, HeadTailProperties
  <1>3. \A j \in 1 .. m : work[j] \in Batch
    BY <1>1, ElementOfSeq
  <1>4. \A j \in 1 .. m : Len(work[j].texts) \in Nat
    BY <1>3, LenProperties DEF Batch
  <1>5. PICK pos \in [1 .. m + 1 -> 0 .. Len(texts)] :
            /\ pos[1] = n /\ pos[m + 1] = Len(texts)
            /\ \A j \in 1 .. m :
                  /\ pos[j + 1] = pos[j] + Len(work[j].texts)
                  /\ \A k \in 1 .. Len(work[j].texts) : work[j].texts[k] = texts[pos[j] + k]
    BY <1>1 DEF Aligned
  <1>6. Len(texts) \in Nat /\ 1 \in 1 .. m /\ 2 \in 1 .. m + 1
    BY LenProperties
  <1>7. /\ pos[2] = n + Len(work[1].texts) /\ pos[2] <= Len(texts)
        /\ \A k \in 1 .. Len(work[1].texts) : work[1].texts[k] = texts[n + k]
    BY <1>5, <1>6
  <1>8. Aligned(Tail(work), texts, n + Len(work[1].texts))
    <2>1. PICK q : q = [j \in 1 .. m |-> pos[j + 1]]
      OBVIOUS
    <2>2. q \in [1 .. m -> 0 .. Len(texts)] /\ \A j \in 1 .. m : q[j] = pos[j + 1]
      <3>1. \A j \in 1 .. m : j + 1 \in 1 .. m + 1
        OBVIOUS
      <3> QED BY <2>1, <3>1
    <2>3. q[1] = n + Len(work[1].texts) /\ q[m] = Len(texts)
      BY <1>5, <1>6, <1>7, <2>2
    <2>4. ASSUME NEW j \in 1 .. m - 1
          PROVE  /\ q[j + 1] = q[j] + Len(Tail(work)[j].texts)
                 /\ \A k \in 1 .. Len(Tail(work)[j].texts) :
                       Tail(work)[j].texts[k] = texts[q[j] + k]
      <3>1. j \in 1 .. m /\ j + 1 \in 1 .. m
        OBVIOUS
      <3>2. q[j] = pos[j + 1] /\ q[j + 1] = pos[(j + 1) + 1] /\ Tail(work)[j] = work[j + 1]
        BY <1>2, <2>2, <3>1
      <3>3. /\ pos[(j + 1) + 1] = pos[j + 1] + Len(work[j + 1].texts)
            /\ \A k \in 1 .. Len(work[j + 1].texts) :
                  work[j + 1].texts[k] = texts[pos[j + 1] + k]
        BY <1>5, <3>1
      <3> QED BY <3>2, <3>3
    <2>5. Len(Tail(work)) = m - 1 /\ Len(Tail(work)) + 1 = m
      BY <1>2
    <2>6. /\ q \in [1 .. Len(Tail(work)) + 1 -> 0 .. Len(texts)]
          /\ q[Len(Tail(work)) + 1] = Len(texts)
      BY ONLY <2>2, <2>3, <2>5
    <2>7. \A j \in 1 .. Len(Tail(work)) :
             /\ q[j + 1] = q[j] + Len(Tail(work)[j].texts)
             /\ \A k \in 1 .. Len(Tail(work)[j].texts) :
                   Tail(work)[j].texts[k] = texts[q[j] + k]
      BY ONLY <2>4, <2>5
    <2> QED BY ONLY <2>3, <2>6, <2>7, Zenon DEF Aligned
  <1> QED BY <1>1, <1>2, <1>3, <1>4, <1>6, <1>7, <1>8

\* The work that is left when the first batch is taken apart.
SplitWork(work) == Singles(work[1].texts) \o Tail(work)

\* A batch may be taken apart into its texts.
LEMMA AlignedSplit ==
    ASSUME NEW work \in Seq(Batch), NEW texts \in Seq(Seq(Nat)), NEW n \in Nat,
           work # << >>, Aligned(work, texts, n)
    PROVE  /\ SplitWork(work) \in Seq(Batch) /\ Aligned(SplitWork(work), texts, n)
           /\ \A j \in 1 .. Len(SplitWork(work)) :
                 \/ SplitWork(work)[j].single /\ Len(SplitWork(work)[j].texts) = 1
                 \/ \E i \in 1 .. Len(work) : SplitWork(work)[j] = work[i]
  <1>1. PICK m \in Nat \ {0} : m = Len(work)
    BY EmptySeq, LenProperties
  <1>2. PICK h : h = work[1].texts
    OBVIOUS
  <1>3. h \in Seq(Seq(Nat))
    BY <1>2, AlignedHead DEF Batch
  <1>4. PICK l \in Nat : l = Len(h)
    BY <1>3, LenProperties
  <1>5. PICK s : s = Singles(h)
    OBVIOUS
  <1>6. s \in Seq(Batch) /\ Len(s) = l /\ \A i \in 1 .. l : s[i] = [texts |-> <<h[i]>>, single |-> TRUE]
    <2>1. s = [i \in 1 .. l |-> [texts |-> <<h[i]>>, single |-> TRUE]]
      BY <1>4, <1>5 DEF Singles
    <2>2. ASSUME NEW i \in 1 .. l
          PROVE  [texts |-> <<h[i]>>, single |-> TRUE] \in Batch
      <3>1. h[i] \in Seq(Nat)
        BY <1>3, <1>4, ElementOfSeq
      <3>2. <<h[i]>> \in Seq(Seq(Nat))
        BY <3>1
      <3> QED BY <3>2 DEF Batch
    <2>3. s \in [1 .. l -> Batch]
      BY <2>1, <2>2
    <2> QED BY <2>1, <2>3, FunIsSeq
  <1>7. PICK t \in Seq(Batch) : t = Tail(work) /\ Len(t) = m - 1 /\ \A j \in 1 .. m - 1 : t[j] = work[j + 1]
    BY <1>1, AlignedHead
  <1>8. PICK w : w = s \o t
    OBVIOUS
  <1>9. /\ w \in Seq(Batch) /\ Len(w) = l + (m - 1)
        /\ \A j \in 1 .. l + (m - 1) : w[j] = IF j <= l THEN s[j] ELSE t[j - l]
    <2>1. /\ s \o t \in Seq(Batch) /\ Len(s \o t) = Len(s) + Len(t)
          /\ \A j \in 1 .. Len(s) + Len(t) : (s \o t)[j] = IF j <= Len(s) THEN s[j] ELSE t[j - Len(s)]
      BY <1>6, ConcatProperties
    <2>2. Len(s) = l /\ Len(t) = m - 1
      BY <1>6, <1>7
    <2> QED BY ONLY <1>8, <2>1, <2>2
  <1>10. ASSUME NEW j \in 1 .. Len(w)
         PROVE  (w[j].single /\ Len(w[j].texts) = 1) \/ \E i \in 1 .. Len(work) : w[j] = work[i]
    <2>1. CASE j <= l
      <3>1. j \in 1 .. l /\ j \in 1 .. l + (m - 1)
        BY <1>9, <2>1
      <3>2. w[j] = [texts |-> <<h[j]>>, single |-> TRUE]
        BY ONLY <1>6, <1>9, <2>1, <3>1
      <3> QED BY <3>2
    <2>2. CASE ~(j <= l)
      <3>1. PICK i \in 1 .. m - 1 : i = j - l
        BY <1>9, <2>2
      <3>2. w[j] = work[i + 1] /\ i + 1 \in 1 .. m
        BY <1>7, <1>9, <2>2, <3>1
      <3> QED BY <1>1, <3>2
    <2> QED BY <2>1, <2>2
  <1>11. PICK pos \in [1 .. m + 1 -> 0 .. Len(texts)] :
            /\ pos[1] = n /\ pos[m + 1] = Len(texts)
            /\ \A j \in 1 .. m :
                  /\ pos[j + 1] = pos[j] + Len(work[j].texts)
                  /\ \A k \in 1 .. Len(work[j].texts) : work[j].texts[k] = texts[pos[j] + k]
    BY <1>1 DEF Aligned
  <1>12. /\ n + l <= Len(texts) /\ Len(texts) \in Nat /\ pos[2] = n + l
         /\ \A k \in 1 .. l : h[k] = texts[n + k]
    <2>1. 1 \in 1 .. m /\ 1 + 1 = 2
      OBVIOUS
    <2>2. pos[2] = n + l
      BY <1>2, <1>4, <1>11, <2>1
    <2> QED BY <1>2, <1>4, <2>2, AlignedHead, LenProperties
  <1>13. PICK q : q = [j \in 1 .. l + m |-> IF j <= l THEN n + j - 1 ELSE pos[j - l + 1]]
    OBVIOUS
  <1>14. q \in [1 .. l + m -> 0 .. Len(texts)]
    <2>1. ASSUME NEW j \in 1 .. l + m
          PROVE  (IF j <= l THEN n + j - 1 ELSE pos[j - l + 1]) \in 0 .. Len(texts)
      <3>1. CASE j <= l
        BY <1>12, <3>1
      <3>2. CASE ~(j <= l)
        <4>1. j - l + 1 \in 1 .. m + 1
          BY <3>2
        <4> QED BY <3>2, <4>1
      <3> QED BY <3>1, <3>2
    <2> QED BY <1>13, <2>1
  <1>15. q[1] = n /\ q[l + m] = Len(texts)
    <2>1. 1 \in 1 .. l + m /\ l + m \in 1 .. l + m /\ ~(l + m <= l) /\ (l + m) - l + 1 = m + 1
      OBVIOUS
    <2>2. q[l + m] = pos[m + 1]
      BY <1>13, <2>1
    <2>3. q[1] = IF 1 <= l THEN n + 1 - 1 ELSE pos[1 - l + 1]
      BY <1>13, <2>1
    <2>4. CASE l = 0
      <3>1. q[1] = pos[2] /\ pos[2] = n + 0
        BY <1>12, <2>3, <2>4
      <3> QED BY <1>11, <2>2, <3>1
    <2>5. CASE l # 0
      BY <1>11, <2>2, <2>3, <2>5
    <2> QED BY <2>4, <2>5
  <1>16. ASSUME NEW j \in 1 .. l + (m - 1)
         PROVE  /\ q[j + 1] = q[j] + Len(w[j].texts)
                /\ \A k \in 1 .. Len(w[j].texts) : w[j].texts[k] = texts[q[j] + k]
    <2>1. j \in 1 .. l + m /\ j + 1 \in 1 .. l + m
      OBVIOUS
    <2>2. /\ q[j] = IF j <= l THEN n + j - 1 ELSE pos[j - l + 1]
          /\ q[j + 1] = IF j + 1 <= l THEN n + (j + 1) - 1 ELSE pos[(j + 1) - l + 1]
      BY <1>13, <2>1
    <2>3. CASE j <= l
      <3>1. j \in 1 .. l
        BY <2>3
      <3>2. w[j] = [texts |-> <<h[j]>>, single |-> TRUE]
        BY ONLY <1>6, <1>9, <1>16, <2>3, <3>1
      <3>3. Len(w[j].texts) = 1 /\ w[j].texts[1] = h[j]
        BY ONLY <3>2
      <3>4. q[j] = n + j - 1 /\ (n + j - 1) + 1 = n + j
        BY <2>2, <2>3
      <3>5. q[j + 1] = n + j
        <4>1. CASE j + 1 <= l
          BY <2>2, <4>1
        <4>2. CASE ~(j + 1 <= l)
          <5>1. j = l /\ (j + 1) - l + 1 = 2
            BY <2>3, <4>2
          <5> QED BY <1>12, <2>2, <4>2, <5>1
        <4> QED BY <4>1, <4>2
      <3>6. h[j] = texts[n + j]
        BY <1>12, <3>1
      <3>7. q[j + 1] = q[j] + 1
        BY <3>4, <3>5
      <3>8. ASSUME NEW k \in 1 .. 1
            PROVE  w[j].texts[k] = texts[q[j] + k]
        <4>1. k = 1 /\ q[j] + k = n + j
          BY <3>4
        <4> QED BY <3>3, <3>6, <4>1
      <3> QED BY <3>3, <3>7, <3>8
    <2>4. CASE ~(j <= l)
      <3>1. PICK i \in 1 .. m - 1 : i = j - l
        BY <2>4
      <3>2. w[j] = work[i + 1] /\ i + 1 \in 1 .. m
        <4>1. w[j] = t[j - l]
          BY ONLY <1>9, <1>16, <2>4
        <4>2. t[i] = work[i + 1] /\ i + 1 \in 1 .. m
          BY <1>7
        <4> QED BY <3>1, <4>1, <4>2
      <3>3. j - l + 1 = i + 1 /\ (j + 1) - l + 1 = (i + 1) + 1 /\ ~(j + 1 <= l)
        BY <2>4, <3>1
      <3>4. q[j] = pos[i + 1] /\ q[j + 1] = pos[(i + 1) + 1]
        BY <2>2, <2>4, <3>3
      <3> QED BY <1>11, <3>2, <3>4
    <2> QED BY <2>3, <2>4
  <1>17. Len(w) = l + (m - 1) /\ Len(w) + 1 = l + m
    BY <1>9
  <1>18. Aligned(w, texts, n)
    <2>1. q \in [1 .. Len(w) + 1 -> 0 .. Len(texts)] /\ q[Len(w) + 1] = Len(texts)
      BY ONLY <1>14, <1>15, <1>17
    <2>2. \A j \in 1 .. Len(w) :
             /\ q[j + 1] = q[j] + Len(w[j].texts)
             /\ \A k \in 1 .. Len(w[j].texts) : w[j].texts[k] = texts[q[j] + k]
      BY ONLY <1>16, <1>17
    <2> QED BY ONLY <1>15, <2>1, <2>2, Zenon DEF Aligned
  <1>19. w = SplitWork(work)
    BY ONLY <1>2, <1>5, <1>7, <1>8 DEF SplitWork
  <1> QED BY ONLY <1>9, <1>10, <1>18, <1>19

\* The batches of a list of texts are the list.
LEMMA BatchesAligned ==
    ASSUME NEW texts \in Seq(Seq(Nat))
    PROVE  /\ BatchCalls(texts) \in Seq(Batch)
           /\ \A j \in 1 .. Len(BatchCalls(texts)) : ~BatchCalls(texts)[j].single
           /\ Aligned(BatchCalls(texts), texts, 0)
  <1>1. PICK e \in Nat \ {0} : e = EmbBatch
    BY EmbAssumption
  <1>2. PICK n \in Nat : n = Len(texts)
    BY LenProperties
  <1>3. PICK m \in Nat : m = (n + e - 1) \div e /\ n <= m * e /\ m * e <= n + e - 1
    <2>1. PICK a \in Nat : a = n + e - 1
      OBVIOUS
    <2>2. PICK m \in Nat : m = a \div e /\ m * e <= a /\ a < m * e + e
      BY DivBounds
    <2>3. PICK x \in Nat : x = m * e
      BY MulMono
    <2>4. n <= x /\ x <= n + e - 1
      BY <2>1, <2>2, <2>3
    <2>5. m = (n + e - 1) \div e /\ n <= m * e /\ m * e <= n + e - 1
      BY ONLY <2>1, <2>2, <2>3, <2>4
    <2> QED BY ONLY <2>5, m \in Nat
  <1>4. PICK pos : pos = [j \in 1 .. m + 1 |-> IF (j - 1) * e < n THEN (j - 1) * e ELSE n]
    OBVIOUS
  <1>5. pos \in [1 .. m + 1 -> 0 .. n]
    <2>1. ASSUME NEW j \in 1 .. m + 1
          PROVE  (IF (j - 1) * e < n THEN (j - 1) * e ELSE n) \in 0 .. n
      <3>1. PICK i \in Nat : i = j - 1
        OBVIOUS
      <3>2. PICK x \in Nat : x = i * e
        BY MulMono
      <3> QED BY <3>1, <3>2
    <2> QED BY <1>4, <2>1
  <1>6. pos[1] = 0 /\ pos[m + 1] = n
    <2>1. (1 - 1) * e = 0 /\ (m + 1) - 1 = m /\ 1 \in 1 .. m + 1 /\ m + 1 \in 1 .. m + 1
      OBVIOUS
    <2>2. pos[1] = IF (1 - 1) * e < n THEN (1 - 1) * e ELSE n
      BY <1>4, <2>1
    <2>3. pos[m + 1] = IF ((m + 1) - 1) * e < n THEN ((m + 1) - 1) * e ELSE n
      BY <1>4, <2>1
    <2>4. pos[m + 1] = IF m * e < n THEN m * e ELSE n
      BY ONLY <2>1, <2>3
    <2>5. PICK x \in Nat : x = m * e
      BY MulMono
    <2> QED BY <1>3, <2>1, <2>2, <2>4, <2>5
  <1>7. PICK w : w = BatchCalls(texts)
    OBVIOUS
  <1>8. ASSUME NEW b \in 1 .. m
        PROVE  \E s \in Seq(Seq(Nat)) :
                  /\ [texts |-> SubSeq(texts, (b - 1) * e + 1, IF b * e < n THEN b * e ELSE n),
                      single |-> FALSE] = [texts |-> s, single |-> FALSE]
                  /\ pos[b + 1] = pos[b] + Len(s)
                  /\ \A k \in 1 .. Len(s) : s[k] = texts[pos[b] + k]
    <2>1. PICK i \in Nat : i = b - 1 /\ b = i + 1 /\ i <= m - 1 /\ m - 1 \in Nat
      OBVIOUS
    <2>2. PICK lo \in Nat : lo = i * e
      BY MulMono
    <2>3. b * e = lo + e
      <3>1. (i + 1) * e = i * e + e
        OBVIOUS
      <3> QED BY <2>1, <2>2, <3>1
    <2>4. lo < n
      <3>1. i * e <= (m - 1) * e
        BY <2>1, MulMono
      <3>2. (m - 1) * e = m * e - e
        OBVIOUS
      <3>3. PICK x \in Int : x = m * e
        OBVIOUS
      <3> QED BY <1>3, <2>2, <3>1, <3>2, <3>3
    <2>5. PICK hi \in Nat : hi = (IF b * e < n THEN b * e ELSE n)
      BY <2>3
    <2>6. lo < hi /\ hi <= n
      BY <2>3, <2>4, <2>5
    <2>7. pos[b] = lo /\ pos[b + 1] = hi
      <3>1. b \in 1 .. m + 1 /\ b + 1 \in 1 .. m + 1 /\ (b + 1) - 1 = b
        OBVIOUS
      <3>2. pos[b] = IF (b - 1) * e < n THEN (b - 1) * e ELSE n
        BY <1>4, <3>1
      <3>3. pos[b + 1] = IF ((b + 1) - 1) * e < n THEN ((b + 1) - 1) * e ELSE n
        BY <1>4, <3>1
      <3>4. pos[b + 1] = IF b * e < n THEN b * e ELSE n
        BY ONLY <3>1, <3>3
      <3> QED BY <2>1, <2>2, <2>4, <2>5, <3>2, <3>4
    <2>8. PICK s : s = SubSeq(texts, lo + 1, hi)
      OBVIOUS
    <2>9. /\ s \in Seq(Seq(Nat)) /\ Len(s) = hi - lo
          /\ \A k \in 1 .. Len(s) : s[k] = texts[lo + k]
      <3>1. \A k \in lo + 1 .. hi : texts[k] \in Seq(Nat)
        <4>1. \A k \in lo + 1 .. hi : k \in 1 .. Len(texts)
          BY <1>2, <2>6
        <4> QED BY <4>1, ElementOfSeq
      <3>2. /\ s \in Seq(Seq(Nat))
            /\ Len(s) = IF lo + 1 <= hi THEN hi - (lo + 1) + 1 ELSE 0
            /\ \A k \in 1 .. hi - (lo + 1) + 1 : s[k] = texts[(lo + 1) + k - 1]
        BY <2>8, <3>1, SubSeqProperties
      <3>3. Len(s) = hi - lo /\ hi - (lo + 1) + 1 = hi - lo
        BY <2>6, <3>2
      <3>4. ASSUME NEW k \in 1 .. hi - lo
            PROVE  s[k] = texts[lo + k]
        <4>1. (lo + 1) + k - 1 = lo + k
          OBVIOUS
        <4>2. s[k] = texts[(lo + 1) + k - 1]
          BY <3>2, <3>3
        <4> QED BY <4>1, <4>2
      <3> QED BY <3>2, <3>3, <3>4
    <2>10. (b - 1) * e + 1 = lo + 1
      BY <2>1, <2>2
    <2>11. hi = lo + (hi - lo)
      OBVIOUS
    <2> QED BY ONLY <2>5, <2>7, <2>8, <2>9, <2>10, <2>11
  <1>9. w = [b \in 1 .. m |-> [texts |-> SubSeq(texts, (b - 1) * e + 1,
                                                 IF b * e < n THEN b * e ELSE n),
                               single |-> FALSE]]
    BY ONLY <1>1, <1>2, <1>3, <1>7 DEF BatchCalls
  <1>10. ASSUME NEW b \in 1 .. m
         PROVE  /\ w[b] \in Batch /\ ~w[b].single
                /\ pos[b + 1] = pos[b] + Len(w[b].texts)
                /\ \A k \in 1 .. Len(w[b].texts) : w[b].texts[k] = texts[pos[b] + k]
    <2>1. PICK s \in Seq(Seq(Nat)) :
                  /\ [texts |-> SubSeq(texts, (b - 1) * e + 1, IF b * e < n THEN b * e ELSE n),
                      single |-> FALSE] = [texts |-> s, single |-> FALSE]
                  /\ pos[b + 1] = pos[b] + Len(s)
                  /\ \A k \in 1 .. Len(s) : s[k] = texts[pos[b] + k]
      BY <1>8
    <2>2. w[b] = [texts |-> s, single |-> FALSE]
      BY ONLY <1>9, <2>1, b \in 1 .. m
    <2>3. w[b].texts = s /\ ~w[b].single /\ w[b] \in Batch
      BY <2>2 DEF Batch
    <2> QED BY ONLY <2>1, <2>3
  <1>11. w \in Seq(Batch) /\ Len(w) = m
    <2>1. w \in [1 .. m -> Batch]
      BY ONLY <1>9, <1>10
    <2> QED BY <2>1, FunIsSeq
  <1>12. Aligned(w, texts, 0)
    <2>1. pos \in [1 .. Len(w) + 1 -> 0 .. Len(texts)] /\ pos[Len(w) + 1] = Len(texts)
      BY ONLY <1>2, <1>5, <1>6, <1>11
    <2>2. \A j \in 1 .. Len(w) :
             /\ pos[j + 1] = pos[j] + Len(w[j].texts)
             /\ \A k \in 1 .. Len(w[j].texts) : w[j].texts[k] = texts[pos[j] + k]
      BY ONLY <1>10, <1>11
    <2> QED BY ONLY <1>6, <2>1, <2>2, Zenon DEF Aligned
  <1> QED BY ONLY <1>7, <1>10, <1>11, <1>12

\* So is the one call for a question.
LEMMA QuestionAligned ==
    ASSUME NEW q \in Seq(Nat)
    PROVE  /\ Singles(<<q>>) \in Seq(Batch) /\ Len(Singles(<<q>>)) = 1
           /\ Singles(<<q>>)[1] = [texts |-> <<q>>, single |-> TRUE]
           /\ Aligned(Singles(<<q>>), <<q>>, 0)
  <1>1. PICK w : w = Singles(<<q>>)
    OBVIOUS
  <1>2. Len(<<q>>) = 1 /\ <<q>>[1] = q /\ <<q>> \in Seq(Seq(Nat))
    OBVIOUS
  <1>3. w = [i \in 1 .. 1 |-> [texts |-> << <<q>>[i] >>, single |-> TRUE]]
    BY ONLY <1>1, <1>2 DEF Singles
  <1>4. w[1] = [texts |-> <<q>>, single |-> TRUE]
    <2>1. 1 \in 1 .. 1
      OBVIOUS
    <2>2. w[1] = [texts |-> << <<q>>[1] >>, single |-> TRUE]
      BY <1>3, <2>1
    <2> QED BY ONLY <1>2, <2>2
  <1>5. [texts |-> <<q>>, single |-> TRUE] \in Batch
    BY <1>2 DEF Batch
  <1>6. w \in Seq(Batch) /\ Len(w) = 1
    <2>1. \A i \in 1 .. 1 : i = 1
      OBVIOUS
    <2>2. w \in [1 .. 1 -> Batch]
      BY <1>3, <1>4, <1>5, <2>1
    <2> QED BY <2>2, FunIsSeq
  <1>7. PICK pos : pos = [j \in 1 .. 2 |-> j - 1]
    OBVIOUS
  <1>8. pos \in [1 .. 2 -> 0 .. 1] /\ pos[1] = 0 /\ pos[2] = 1
    BY <1>7
  <1>9. Aligned(w, <<q>>, 0)
    <2>1. pos \in [1 .. Len(w) + 1 -> 0 .. Len(<<q>>)] /\ pos[Len(w) + 1] = Len(<<q>>)
      <3>1. Len(w) + 1 = 2
        BY <1>6
      <3> QED BY ONLY <1>2, <1>8, <3>1
    <2>2. ASSUME NEW j \in 1 .. Len(w)
          PROVE  /\ pos[j + 1] = pos[j] + Len(w[j].texts)
                 /\ \A k \in 1 .. Len(w[j].texts) : w[j].texts[k] = <<q>>[pos[j] + k]
      <3>1. j = 1
        BY <1>6
      <3>2. w[j].texts = <<q>>
        BY <1>4, <3>1
      <3>3. \A k \in 1 .. 1 : pos[j] + k = k
        BY <1>8, <3>1
      <3> QED BY <1>2, <1>8, <3>1, <3>2, <3>3
    <2> QED BY ONLY <1>8, <2>1, <2>2, Zenon DEF Aligned
  <1> QED BY ONLY <1>1, <1>4, <1>6, <1>9

-----------------------------------------------------------------------------
(* What a step leaves alone stays as it should be.                         *)

\* The rows.
LEMMA RowsStable ==
    ASSUME RowsOK, EveryTokenIndexed, UNCHANGED <<models, stored>>, primed => primed'
    PROVE  RowsOK' /\ EveryTokenIndexed'
  <1>1. \A v, role, text : Good(v, role, text) => Good(v, role, text)'
    BY CallStable
  <1>2. RowsOK'
    BY <1>1 DEF RowsOK
  <1>3. \A role : RolePrefix(role)' = RolePrefix(role)
    BY SameModels
  <1>4. EveryTokenIndexed'
    BY <1>3 DEF EveryTokenIndexed
  <1> QED BY <1>2, <1>4

\* A step of one call that writes no rows.
LEMMA CallStep ==
    ASSUME EmbInv, UNCHANGED <<models, stored, embUp, primed>>, CacheOK',
           NEW c \in Callers, NEW r, Update(c, r), CallOK(r)
    PROVE  EmbInv'
  <1>1. \A x : CallOK(x) => CallOK(x)'
    BY CallStable
  <1>2. call' = [call EXCEPT ![c] = r] /\ call \in [Callers -> CallType] /\ r \in CallType
    BY DEF Update, EmbInv, CallOK
  <1>3. call' \in [Callers -> CallType] /\ call'[c] = r
    BY <1>2
  <1>4. ASSUME NEW x \in Callers
        PROVE  CallOK(call[x])'
    <2>1. CASE x = c
      <3>1. r = call'[x] /\ CallOK(r)'
        BY <1>1, <1>3, <2>1
      <3> QED BY <3>1
    <2>2. CASE x # c
      <3>1. PICK s : s = call[x]
        OBVIOUS
      <3>2. s = call'[x] /\ CallOK(s)
        BY <1>2, <2>2, <3>1 DEF EmbInv
      <3>3. CallOK(s)'
        BY <1>1, <3>2
      <3> QED BY <3>2, <3>3
    <2> QED BY <2>1, <2>2
  <1>5. RowsOK' /\ EveryTokenIndexed'
    BY RowsStable DEF EmbInv
  <1>6. Slots' /\ primed' \in BOOLEAN /\ embUp' \in BOOLEAN
    BY DEF EmbInv, Slots, models
  <1> QED BY <1>3, <1>4, <1>5, <1>6 DEF EmbInv

\* The cache, as long as nobody writes to it.
LEMMA CacheStable ==
    ASSUME CacheOK, UNCHANGED <<cache, primed>>
    PROVE  CacheOK'
  BY DEF CacheOK

\* A call that is over.
LEMMA NoCallOK ==
    ASSUME NEW n \in Nat
    PROVE  CallOK([NoCall EXCEPT !.blips = n]) /\ CallOK(NoCall)
  <1>1. << >> \in Seq(Seq(Nat)) /\ << >> \in Seq(Batch) /\ << >> \in Seq(Value)
    BY EmptySeq
  <1>2. NoCall \in CallType /\ NoCall.pc = "idle" /\ NoCall.kind = "none"
    BY <1>1 DEF NoCall, CallType
  <1>3. PICK r : r = [NoCall EXCEPT !.blips = n]
    OBVIOUS
  <1>4. r \in CallType /\ r.pc = "idle" /\ r.kind = "none"
    BY <1>2, <1>3 DEF CallType, NoCall
  <1> QED BY <1>2, <1>3, <1>4 DEF CallOK

\* An empty sequence has no failures.
LEMMA NoFailures ==
    ASSUME NEW texts
    PROVE  Innocent(<< >>, texts) = {} /\ Cardinality(Innocent(<< >>, texts)) = 0
  <1>1. Len(<< >>) = 0
    OBVIOUS
  <1>2. Innocent(<< >>, texts) = {}
    BY <1>1 DEF Innocent
  <1> QED BY <1>2, FS_EmptySet

\* A push begins.
LEMMA StartPushStep ==
    ASSUME EmbInv, NEW c \in Callers, StartPush(c)
    PROVE  EmbInv'
  <1>1. PICK docs \in DocLists, d \in {"on", "off"} :
           Update(c, [NoCall EXCEPT !.pc = "lookup", !.kind = "push", !.domain = d,
                         !.docs = docs, !.work = BatchCalls(FlatTexts(docs))])
    BY DEF StartPush
  <1>2. docs \in Seq(Seq(Nat))
    BY EmbAssumption
  <1>3. PICK texts : texts = FlatTexts(docs)
    OBVIOUS
  <1>4. texts \in Seq(Seq(Nat))
    BY <1>2, <1>3, FlatMeans DEF EmbInv
  <1>5. PICK w : w = BatchCalls(texts)
    OBVIOUS
  <1>6. w \in Seq(Batch) /\ Aligned(w, texts, 0) /\ \A j \in 1 .. Len(w) : ~w[j].single
    BY <1>4, <1>5, BatchesAligned
  <1>7. PICK r : r = [NoCall EXCEPT !.pc = "lookup", !.kind = "push", !.domain = d,
                         !.docs = docs, !.work = w]
    OBVIOUS
  <1>8. Update(c, r)
    BY ONLY <1>1, <1>3, <1>5, <1>7
  <1>9. /\ r.pc = "lookup" /\ r.kind = "push" /\ r.role = "Document" /\ r.work = w
        /\ r.got = << >> /\ r.first = << >> /\ r.blips = 0 /\ r.docs = docs /\ r.domain = d
    BY ONLY <1>7 DEF NoCall
  <1>10. r \in CallType
    <2>1. NoCall \in CallType
      BY NoCallOK DEF CallOK
    <2> QED BY <1>2, <1>6, <1>7, <2>1 DEF CallType
  <1>11. Flat(r) = texts /\ Len(r.got) = 0
    BY <1>3, <1>9 DEF Flat
  <1>12. GotOK(r) /\ FirstOK(r) /\ HitsOK(r)
    BY <1>9, <1>11 DEF GotOK, FirstOK, HitsOK
  <1>13. ChargeOK(r)
    <2>1. Charged(r) = 0
      BY <1>9, NoFailures DEF Charged
    <2> QED BY <1>6, <1>9, <2>1 DEF ChargeOK
  <1>14. CallOK(r)
    BY <1>6, <1>9, <1>10, <1>11, <1>12, <1>13 DEF CallOK
  <1>15. CacheOK' /\ UNCHANGED <<models, stored, embUp, primed>>
    BY CacheStable DEF StartPush, EmbInv
  <1> QED BY <1>8, <1>14, <1>15, CallStep

\* A search begins.
LEMMA StartQueryStep ==
    ASSUME EmbInv, NEW c \in Callers, StartQuery(c)
    PROVE  EmbInv'
  <1>1. PICK q \in Questions :
           Update(c, [NoCall EXCEPT !.pc = "lookup", !.kind = "query", !.role = "Query",
                         !.docs = <<q>>, !.work = Singles(<<q>>)])
    BY DEF StartQuery
  <1>2. q \in Seq(Nat)
    BY EmbAssumption
  <1>3. PICK texts : texts = <<q>>
    OBVIOUS
  <1>4. texts \in Seq(Seq(Nat)) /\ Len(texts) = 1
    BY <1>2, <1>3
  <1>5. PICK w : w = Singles(texts)
    OBVIOUS
  <1>6. w \in Seq(Batch) /\ Aligned(w, texts, 0) /\ Len(w) = 1 /\ Len(w[1].texts) = 1
    <2>1. /\ Singles(<<q>>) \in Seq(Batch) /\ Len(Singles(<<q>>)) = 1
          /\ Singles(<<q>>)[1] = [texts |-> <<q>>, single |-> TRUE]
          /\ Aligned(Singles(<<q>>), <<q>>, 0)
      BY <1>2, QuestionAligned
    <2>2. /\ w \in Seq(Batch) /\ Aligned(w, texts, 0) /\ Len(w) = 1
          /\ w[1] = [texts |-> texts, single |-> TRUE]
      BY ONLY <1>3, <1>5, <2>1
    <2> QED BY <1>4, <2>2
  <1>7. PICK r : r = [NoCall EXCEPT !.pc = "lookup", !.kind = "query", !.role = "Query",
                         !.docs = texts, !.work = w]
    OBVIOUS
  <1>8. Update(c, r)
    BY ONLY <1>1, <1>3, <1>5, <1>7
  <1>9. /\ r.pc = "lookup" /\ r.kind = "query" /\ r.role = "Query" /\ r.work = w
        /\ r.got = << >> /\ r.first = << >> /\ r.blips = 0 /\ r.docs = texts
    BY ONLY <1>7 DEF NoCall
  <1>10. r \in CallType
    <2>1. NoCall \in CallType
      BY NoCallOK DEF CallOK
    <2> QED BY <1>4, <1>6, <1>7, <2>1 DEF CallType
  <1>11. Flat(r) = texts /\ Len(r.got) = 0
    BY <1>9 DEF Flat
  <1>12. GotOK(r) /\ FirstOK(r) /\ HitsOK(r)
    BY <1>9, <1>11 DEF GotOK, FirstOK, HitsOK
  <1>13. \A j \in 1 .. Len(r.work) : Len(r.work[j].texts) = 1
    <2>1. \A j \in 1 .. 1 : j = 1
      OBVIOUS
    <2> QED BY ONLY <1>6, <1>9, <2>1
  <1>14. CallOK(r)
    BY <1>4, <1>6, <1>9, <1>10, <1>11, <1>12, <1>13 DEF CallOK
  <1>15. CacheOK' /\ UNCHANGED <<models, stored, embUp, primed>>
    BY CacheStable DEF StartQuery, EmbInv
  <1> QED BY <1>8, <1>14, <1>15, CallStep

-----------------------------------------------------------------------------
(* io_embed and its retries.                                               *)

\* The texts of a call are texts.
LEMMA FlatType ==
    ASSUME Slots, NEW r \in CallType
    PROVE  Flat(r) \in Seq(Seq(Nat)) /\ Len(Flat(r)) \in Nat
  <1>1. r.docs \in Seq(Seq(Nat))
    BY DEF CallType
  <1>2. FlatTexts(r.docs) \in Seq(Seq(Nat))
    BY <1>1, FlatMeans
  <1>3. Flat(r) \in Seq(Seq(Nat))
    BY <1>1, <1>2 DEF Flat
  <1> QED BY <1>3, LenProperties

\* A finite number of texts may fail.
LEMMA InnocentFinite ==
    ASSUME NEW s \in Seq(Value), NEW texts
    PROVE  IsFiniteSet(Innocent(s, texts)) /\ Cardinality(Innocent(s, texts)) \in Nat
  <1>1. IsFiniteSet(1 .. Len(s))
    BY LenProperties, FS_Interval
  <1>2. Innocent(s, texts) \subseteq 1 .. Len(s)
    BY DEF Innocent
  <1> QED BY <1>1, <1>2, FS_Subset, FS_CardinalityType

\* What a delivery adds to the failures.
LEMMA InnocentGrow ==
    ASSUME NEW s \in Seq(Value), NEW vs \in Seq(Value), NEW texts
    PROVE  /\ (\A i \in 1 .. Len(vs) : vs[i] = Failed => Toxic(texts[Len(s) + i]))
              => Innocent(s \o vs, texts) = Innocent(s, texts)
           /\ Len(vs) = 1 => Cardinality(Innocent(s \o vs, texts))
                                <= Cardinality(Innocent(s, texts)) + 1
  <1>1. PICK n \in Nat, l \in Nat : n = Len(s) /\ l = Len(vs)
    BY LenProperties
  <1>2. /\ s \o vs \in Seq(Value) /\ Len(s \o vs) = n + l
        /\ \A k \in 1 .. n + l : (s \o vs)[k] = IF k <= n THEN s[k] ELSE vs[k - n]
    <2>1. /\ s \o vs \in Seq(Value) /\ Len(s \o vs) = Len(s) + Len(vs)
          /\ \A k \in 1 .. Len(s) + Len(vs) :
                (s \o vs)[k] = IF k <= Len(s) THEN s[k] ELSE vs[k - Len(s)]
      BY ConcatProperties
    <2> QED BY ONLY <1>1, <2>1
  <1>3. PICK t : t = s \o vs
    OBVIOUS
  <1>4. /\ \A k \in 1 .. n : t[k] = s[k] /\ k \in 1 .. n + l
        /\ \A i \in 1 .. l : t[n + i] = vs[i]
    <2>1. ASSUME NEW i \in 1 .. l
          PROVE  t[n + i] = vs[i]
      <3>1. n + i \in 1 .. n + l /\ ~(n + i <= n) /\ (n + i) - n = i
        OBVIOUS
      <3>2. t[n + i] = vs[(n + i) - n]
        BY ONLY <1>2, <1>3, <3>1
      <3> QED BY <3>1, <3>2
    <2> QED BY <1>2, <1>3, <2>1
  <1>5. /\ Innocent(s, texts) = {k \in 1 .. n : s[k] = Failed /\ ~Toxic(texts[k])}
        /\ Innocent(t, texts) = {k \in 1 .. n + l : t[k] = Failed /\ ~Toxic(texts[k])}
    BY ONLY <1>1, <1>2, <1>3 DEF Innocent
  <1>6. ASSUME NEW k \in 1 .. n + l, k \notin 1 .. n
        PROVE  \E i \in 1 .. l : k = n + i
    <2>1. k - n \in 1 .. l /\ k = n + (k - n)
      BY <1>6
    <2> QED BY <2>1
  <1>7. ASSUME \A i \in 1 .. l : vs[i] = Failed => Toxic(texts[n + i])
        PROVE  Innocent(t, texts) = Innocent(s, texts)
    <2>1. ASSUME NEW k \in Innocent(t, texts)
          PROVE  k \in Innocent(s, texts)
      <3>1. k \in 1 .. n + l /\ t[k] = Failed /\ ~Toxic(texts[k])
        BY <1>5, <2>1
      <3>2. CASE k \in 1 .. n
        BY ONLY <1>4, <1>5, <3>1, <3>2
      <3>3. CASE k \notin 1 .. n
        <4>1. PICK i \in 1 .. l : k = n + i
          BY <1>6, <3>1, <3>3
        <4> QED BY ONLY <1>4, <1>7, <3>1, <4>1
      <3> QED BY <3>2, <3>3
    <2>2. ASSUME NEW k \in Innocent(s, texts)
          PROVE  k \in Innocent(t, texts)
      BY ONLY <1>4, <1>5, <2>2
    <2> QED BY <2>1, <2>2
  <1>8. ASSUME l = 1
        PROVE  Cardinality(Innocent(t, texts)) <= Cardinality(Innocent(s, texts)) + 1
    <2>1. ASSUME NEW k \in Innocent(t, texts)
          PROVE  k \in Innocent(s, texts) \cup {n + 1}
      <3>1. k \in 1 .. n + l /\ t[k] = Failed /\ ~Toxic(texts[k])
        BY <1>5, <2>1
      <3>2. CASE k \in 1 .. n
        BY ONLY <1>4, <1>5, <3>1, <3>2
      <3>3. CASE k \notin 1 .. n
        <4>1. k = n + 1
          BY <1>8, <3>1, <3>3
        <4> QED BY <4>1
      <3> QED BY <3>2, <3>3
    <2>2. PICK A, B : A = Innocent(s, texts) /\ B = Innocent(t, texts)
      OBVIOUS
    <2>3. IsFiniteSet(A) /\ Cardinality(A) \in Nat
      BY <2>2, InnocentFinite
    <2>4. /\ IsFiniteSet(A \cup {n + 1}) /\ Cardinality(A \cup {n + 1}) \in Nat
          /\ Cardinality(A \cup {n + 1}) <= Cardinality(A) + 1
      <3>1. CASE n + 1 \in A
        <4>1. A \cup {n + 1} = A
          BY <3>1
        <4>2. PICK a \in Nat : a = Cardinality(A)
          BY <2>3
        <4>3. a <= a + 1
          OBVIOUS
        <4> QED BY ONLY <2>3, <4>1, <4>2, <4>3
      <3>2. CASE n + 1 \notin A
        <4>1. /\ IsFiniteSet(A \cup {n + 1})
              /\ Cardinality(A \cup {n + 1}) = Cardinality(A) + 1
          BY <2>3, <3>2, FS_AddElement
        <4>2. PICK a \in Nat : a = Cardinality(A)
          BY <2>3
        <4>3. a + 1 \in Nat /\ a + 1 <= a + 1
          OBVIOUS
        <4> QED BY ONLY <2>3, <4>1, <4>2, <4>3
      <3> QED BY <3>1, <3>2
    <2>5. B \subseteq A \cup {n + 1}
      BY <2>1, <2>2
    <2>6. /\ Cardinality(B) <= Cardinality(A \cup {n + 1}) /\ IsFiniteSet(B)
          /\ Cardinality(B) \in Nat
      BY <2>4, <2>5, FS_Subset, FS_CardinalityType
    <2>7. Cardinality(B) <= Cardinality(A) + 1
      BY <2>3, <2>4, <2>6
    <2> QED BY ONLY <2>2, <2>7
  <1> QED BY ONLY <1>1, <1>3, <1>7, <1>8

\* The vectors vs of the first batch are delivered.
IsDelivery(r, d, vs) ==
    /\ d \in CallType /\ d.pc = "lookup" /\ d.kind = r.kind /\ d.domain = r.domain
    /\ d.docs = r.docs /\ d.role = r.role /\ d.first = r.first
    /\ d.work = Tail(r.work) /\ d.got = r.got \o vs

\* Who pays for the failures among them.
DeliveryCharge(r, d, vs) ==
    \/ /\ d.blips = r.blips
       /\ \A i \in 1 .. Len(vs) : vs[i] = Failed => Toxic(r.work[1].texts[i])
    \/ d.blips = r.blips + 1 /\ r.work[1].single

\* The failures remain paid for.
LEMMA DeliveryPaid ==
    ASSUME Slots, NEW r, CallOK(r), r.pc # "idle", r.work # << >>, r.kind = "push",
           NEW vs \in Seq(Value), Len(vs) = Len(r.work[1].texts),
           NEW d, IsDelivery(r, d, vs), DeliveryCharge(r, d, vs)
    PROVE  ChargeOK(d)
  <1>1. r \in CallType /\ d \in CallType /\ Flat(d) = Flat(r) /\ d.first = r.first /\ d.docs = r.docs
    BY DEF CallOK, IsDelivery, Flat
  <1>2. PICK t : t = Flat(r)
    OBVIOUS
  <1>3. t \in Seq(Seq(Nat)) /\ r.work \in Seq(Batch) /\ r.got \in Seq(Value) /\ r.first \in Seq(Value)
    BY <1>1, <1>2, FlatType DEF CallType
  <1>4. PICK n \in Nat : n = Len(r.got)
    BY <1>3, LenProperties
  <1>5. Aligned(r.work, t, n) /\ ChargeOK(r)
    BY <1>2, <1>4 DEF CallOK
  <1>6. /\ \A k \in 1 .. Len(r.work[1].texts) : r.work[1].texts[k] = t[n + k]
        /\ Len(r.work) \in Nat \ {0} /\ Len(Tail(r.work)) = Len(r.work) - 1
        /\ \A j \in 1 .. Len(r.work) - 1 : Tail(r.work)[j] = r.work[j + 1]
    BY <1>3, <1>5, AlignedHead
  <1>7. PICK a \in Nat, b \in Nat, f \in Nat :
            /\ a = Cardinality(Innocent(r.got, t)) /\ b = Cardinality(Innocent(d.got, t))
            /\ f = Cardinality(Innocent(r.first, t))
    <2>1. d.got \in Seq(Value)
      BY <1>1 DEF CallType
    <2> QED BY <1>3, <2>1, InnocentFinite
  <1>8. Charged(r) = f + a /\ Charged(d) = f + b
    BY ONLY <1>1, <1>2, <1>7 DEF Charged
  <1>9. PICK x \in Nat, y \in Nat : x = r.blips /\ y = d.blips
    BY <1>1 DEF CallType
  <1>10. /\ f + a <= x
         /\ \/ \E i \in 1 .. Len(r.docs) : Toxic(r.docs[i])
            \/ f + a < x
            \/ f + a = 0 /\ \A j \in 1 .. Len(r.work) : ~r.work[j].single
    BY ONLY <1>5, <1>8, <1>9 DEF ChargeOK
  <1>11. SUFFICES /\ f + b <= y
                  /\ \/ \E i \in 1 .. Len(r.docs) : Toxic(r.docs[i])
                     \/ f + b < y
                     \/ f + b = 0 /\ \A j \in 1 .. Len(d.work) : ~d.work[j].single
    <2>1. Charged(d) = f + b /\ d.blips = y /\ d.docs = r.docs
      BY ONLY <1>1, <1>8, <1>9
    <2>2. Charged(d) <= d.blips
      BY ONLY <1>11, <2>1
    <2>3. \/ \E i \in 1 .. Len(d.docs) : Toxic(d.docs[i])
          \/ Charged(d) < d.blips
          \/ Charged(d) = 0 /\ \A j \in 1 .. Len(d.work) : ~d.work[j].single
      BY ONLY <1>11, <2>1
    <2> QED BY ONLY <2>2, <2>3 DEF ChargeOK
  <1>12. (\A j \in 1 .. Len(r.work) : ~r.work[j].single)
           => \A j \in 1 .. Len(d.work) : ~d.work[j].single
    <2>1. d.work = Tail(r.work)
      BY DEF IsDelivery
    <2>2. \A j \in 1 .. Len(r.work) - 1 : j + 1 \in 1 .. Len(r.work)
      BY <1>6
    <2> QED BY ONLY <1>6, <2>1, <2>2
  <1>13. CASE y = x /\ \A i \in 1 .. Len(vs) : vs[i] = Failed => Toxic(r.work[1].texts[i])
    <2>1. \A i \in 1 .. Len(vs) : vs[i] = Failed => Toxic(t[n + i])
      BY ONLY <1>6, <1>13, Len(vs) = Len(r.work[1].texts)
    <2>2. Innocent(r.got \o vs, t) = Innocent(r.got, t)
      BY ONLY <1>3, <1>4, <2>1, vs \in Seq(Value), InnocentGrow
    <2>3. d.got = r.got \o vs
      BY DEF IsDelivery
    <2>4. b = a
      BY ONLY <1>7, <2>2, <2>3
    <2> QED BY ONLY <1>10, <1>12, <1>13, <2>4
  <1>14. CASE y = x + 1 /\ r.work[1].single
    <2>1. 1 \in 1 .. Len(r.work)
      BY <1>6
    <2>2. Len(vs) = 1
      BY <1>14, <2>1 DEF CallOK
    <2>3. Cardinality(Innocent(r.got \o vs, t)) <= Cardinality(Innocent(r.got, t)) + 1
      BY <1>3, <2>2, InnocentGrow
    <2>4. d.got = r.got \o vs
      BY DEF IsDelivery
    <2>5. b <= a + 1
      BY ONLY <1>7, <2>3, <2>4
    <2>6. ~(\A j \in 1 .. Len(r.work) : ~r.work[j].single)
      BY <1>14, <2>1
    <2>7. f + b <= y /\ (f + a < x => f + b < y)
      BY <1>10, <1>14, <2>5
    <2> QED BY ONLY <1>10, <2>6, <2>7
  <1>15. \/ y = x /\ \A i \in 1 .. Len(vs) : vs[i] = Failed => Toxic(r.work[1].texts[i])
         \/ y = x + 1 /\ r.work[1].single
    BY ONLY <1>9, DeliveryCharge(r, d, vs) DEF DeliveryCharge
  <1> QED BY ONLY <1>13, <1>14, <1>15

\* The vectors of the first batch go behind the others.
LEMMA DeliverOK ==
    ASSUME Slots, NEW r, CallOK(r), r.pc # "idle", r.work # << >>,
           NEW vs \in Seq(Value), Len(vs) = Len(r.work[1].texts),
           \A i \in 1 .. Len(vs) : \/ Good(vs[i], r.role, r.work[1].texts[i])
                                   \/ vs[i] = Failed /\ r.kind = "push",
           NEW d, IsDelivery(r, d, vs), r.kind = "push" => DeliveryCharge(r, d, vs)
    PROVE  CallOK(d)
  <1>1. /\ r \in CallType /\ d \in CallType /\ Flat(d) = Flat(r) /\ d.first = r.first
        /\ d.docs = r.docs /\ d.role = r.role /\ d.kind = r.kind /\ d.domain = r.domain
        /\ d.pc = "lookup" /\ d.work = Tail(r.work) /\ d.got = r.got \o vs
    BY DEF CallOK, IsDelivery, Flat
  <1>2. PICK t : t = Flat(r)
    OBVIOUS
  <1>3. t \in Seq(Seq(Nat)) /\ r.work \in Seq(Batch) /\ r.got \in Seq(Value)
    BY <1>1, <1>2, FlatType DEF CallType
  <1>4. PICK n \in Nat : n = Len(r.got)
    BY <1>3, LenProperties
  <1>5. PICK l \in Nat : l = Len(vs)
    BY LenProperties
  <1>6. Aligned(r.work, t, n) /\ GotOK(r) /\ FirstOK(r)
    BY <1>2, <1>4 DEF CallOK
  <1>7. /\ \A k \in 1 .. l : r.work[1].texts[k] = t[n + k]
        /\ Aligned(Tail(r.work), t, n + l)
        /\ Len(r.work) \in Nat \ {0} /\ Len(Tail(r.work)) = Len(r.work) - 1
        /\ \A j \in 1 .. Len(r.work) - 1 : Tail(r.work)[j] = r.work[j + 1]
    <2>1. /\ \A k \in 1 .. Len(r.work[1].texts) : r.work[1].texts[k] = t[n + k]
          /\ Aligned(Tail(r.work), t, n + Len(r.work[1].texts))
          /\ Len(r.work) \in Nat \ {0} /\ Len(Tail(r.work)) = Len(r.work) - 1
          /\ \A j \in 1 .. Len(r.work) - 1 : Tail(r.work)[j] = r.work[j + 1]
      BY <1>3, <1>6, AlignedHead
    <2>2. Len(r.work[1].texts) = l
      BY <1>5
    <2> QED BY ONLY <2>1, <2>2
  <1>8. /\ Len(d.got) = n + l
        /\ \A k \in 1 .. n + l : d.got[k] = IF k <= n THEN r.got[k] ELSE vs[k - n]
    <2>1. /\ Len(r.got \o vs) = Len(r.got) + Len(vs)
          /\ \A k \in 1 .. Len(r.got) + Len(vs) :
                (r.got \o vs)[k] = IF k <= Len(r.got) THEN r.got[k] ELSE vs[k - Len(r.got)]
      <3>1. r.got \in Seq(Value) /\ vs \in Seq(Value)
        BY <1>3
      <3> QED BY ONLY <3>1, ConcatProperties
    <2> QED BY ONLY <1>1, <1>4, <1>5, <2>1
  <1>9. Aligned(d.work, Flat(d), Len(d.got))
    BY ONLY <1>1, <1>2, <1>7, <1>8
  <1>10. ~(r.role = "Clustering" /\ r.domain = "off")
    BY DEF CallOK
  <1>11. GotOK(d)
    <2>1. ASSUME NEW k \in 1 .. n + l
          PROVE  Good(d.got[k], r.role, t[k]) \/ (d.got[k] = Failed /\ r.kind = "push")
      <3>1. CASE k <= n
        <4>1. k \in 1 .. Len(r.got) /\ d.got[k] = r.got[k]
          BY <1>4, <1>8, <3>1
        <4> QED BY ONLY <1>2, <1>6, <1>10, <4>1 DEF GotOK
      <3>2. CASE ~(k <= n)
        <4>1. PICK i \in 1 .. l : i = k - n /\ k = n + i
          BY <3>2
        <4>2. d.got[k] = vs[i]
          BY ONLY <1>8, <2>1, <3>2, <4>1
        <4>3. r.work[1].texts[i] = t[k]
          BY ONLY <1>7, <4>1
        <4>4. \/ Good(vs[i], r.role, r.work[1].texts[i])
              \/ vs[i] = Failed /\ r.kind = "push"
          BY <1>5
        <4> QED BY ONLY <4>2, <4>3, <4>4
      <3> QED BY <3>1, <3>2
    <2> QED BY ONLY <1>1, <1>2, <1>8, <1>10, <2>1 DEF GotOK
  <1>12. FirstOK(d)
    BY ONLY <1>1, <1>6 DEF FirstOK
  <1>13. HitsOK(d)
    BY ONLY <1>1 DEF HitsOK
  <1>14. d.kind = "push" => ChargeOK(d)
    BY <1>1, DeliveryPaid
  <1>15. ASSUME NEW j \in 1 .. Len(d.work), d.work[j].single \/ d.kind = "query"
         PROVE  Len(d.work[j].texts) = 1
    <2>1. j + 1 \in 1 .. Len(r.work) /\ d.work[j] = r.work[j + 1]
      <3>1. j \in 1 .. Len(r.work) - 1
        BY ONLY <1>1, <1>7, <1>15
      <3> QED BY <1>1, <1>7, <3>1
    <2>2. r.work[j + 1].single \/ r.kind = "query"
      BY ONLY <1>1, <1>15, <2>1
    <2> QED BY <2>1, <2>2 DEF CallOK
  <1>16. r.kind # "none" /\ (r.kind = "query" <=> r.role = "Query")
         /\ (r.kind = "query" => Len(r.docs) = 1)
    BY DEF CallOK
  <1> QED BY ONLY <1>1, <1>9, <1>10, <1>11, <1>12, <1>13, <1>14, <1>15, <1>16 DEF CallOK

\* A chunk has only tokens of its document.
LEMMA FlatPart ==
    ASSUME Slots, NEW docs \in Seq(Seq(Nat)), NEW i \in 1 .. Len(docs),
           NEW k \in FlatRange(docs, i)
    PROVE  /\ k \in 1 .. Len(FlatTexts(docs))
           /\ Toxic(FlatTexts(docs)[k]) => Toxic(docs[i])
  <1>1. docs[i] \in Seq(Nat)
    BY ElementOfSeq
  <1>2. PICK m \in Nat : m = Len(chunk_text(docs[i]))
    BY <1>1, ChunksMean, LenProperties
  <1>3. PICK o \in Nat : At(docs, i, o)
    BY FlatMeans
  <1>4. /\ k \in o + 1 .. o + m /\ o + m <= Len(FlatTexts(docs))
        /\ \A j \in 1 .. m : FlatTexts(docs)[o + j] = chunk_text(docs[i])[j].text
    BY ONLY <1>2, <1>3, k \in FlatRange(docs, i) DEF At
  <1>5. PICK j \in 1 .. m : k = o + j
    <2>1. k - o \in 1 .. m /\ k = o + (k - o)
      BY <1>4
    <2> QED BY <2>1
  <1>6. FlatTexts(docs)[k] = chunk_text(docs[i])[j].text
    BY ONLY <1>4, <1>5
  <1>7. ToSet(chunk_text(docs[i])[j].text) \subseteq ToSet(docs[i])
    BY <1>1, <1>2, ChunksMean
  <1>8. FlatTexts(docs) \in Seq(Seq(Nat)) /\ Len(FlatTexts(docs)) \in Nat
    BY FlatMeans, LenProperties
  <1>9. k \in 1 .. Len(FlatTexts(docs))
    BY <1>4, <1>5, <1>8
  <1> QED BY <1>6, <1>7, <1>9 DEF Toxic

\* The first batch is replaced by its texts.
IsSplit(r, d) ==
    /\ d \in CallType /\ d.pc = "lookup" /\ d.kind = r.kind /\ d.domain = r.domain
    /\ d.docs = r.docs /\ d.role = r.role /\ d.first = r.first /\ d.got = r.got
    /\ d.work = Singles(r.work[1].texts) \o Tail(r.work)

\* A batch is split after a failure of the provider, or because of a bad token.
LEMMA SplitOK ==
    ASSUME Slots, NEW r, CallOK(r), r.pc # "idle", r.work # << >>, r.kind = "push",
           NEW d, IsSplit(r, d),
           \/ d.blips = r.blips /\ \E i \in 1 .. Len(r.docs) : Toxic(r.docs[i])
           \/ d.blips = r.blips + 1
    PROVE  CallOK(d)
  <1>1. /\ r \in CallType /\ d \in CallType /\ Flat(d) = Flat(r) /\ d.first = r.first
        /\ d.docs = r.docs /\ d.role = r.role /\ d.kind = r.kind /\ d.domain = r.domain
        /\ d.pc = "lookup" /\ d.got = r.got
        /\ d.work = Singles(r.work[1].texts) \o Tail(r.work)
    BY DEF CallOK, IsSplit, Flat
  <1>2. Flat(r) \in Seq(Seq(Nat)) /\ r.work \in Seq(Batch) /\ Len(r.got) \in Nat
    BY <1>1, FlatType, LenProperties DEF CallType
  <1>3. Aligned(r.work, Flat(r), Len(r.got)) /\ GotOK(r) /\ FirstOK(r) /\ ChargeOK(r)
    BY DEF CallOK
  <1>4. /\ Aligned(d.work, Flat(d), Len(d.got))
        /\ \A j \in 1 .. Len(d.work) :
              \/ d.work[j].single /\ Len(d.work[j].texts) = 1
              \/ \E i \in 1 .. Len(r.work) : d.work[j] = r.work[i]
    <2>1. d.work = SplitWork(r.work)
      BY ONLY <1>1 DEF SplitWork
    <2>2. /\ Aligned(SplitWork(r.work), Flat(r), Len(r.got))
          /\ \A j \in 1 .. Len(SplitWork(r.work)) :
                \/ SplitWork(r.work)[j].single /\ Len(SplitWork(r.work)[j].texts) = 1
                \/ \E i \in 1 .. Len(r.work) : SplitWork(r.work)[j] = r.work[i]
      BY <1>2, <1>3, AlignedSplit
    <2> QED BY ONLY <1>1, <2>1, <2>2
  <1>5. ~(r.role = "Clustering" /\ r.domain = "off")
    BY DEF CallOK
  <1>6. GotOK(d)
    BY ONLY <1>1, <1>3 DEF GotOK
  <1>7. FirstOK(d)
    BY ONLY <1>1, <1>3 DEF FirstOK
  <1>8. HitsOK(d)
    BY ONLY <1>1 DEF HitsOK
  <1>9. ChargeOK(d)
    <2>1. Charged(d) = Charged(r)
      BY ONLY <1>1 DEF Charged
    <2>2. Charged(r) \in Nat
      <3>1. r.got \in Seq(Value) /\ r.first \in Seq(Value)
        BY <1>1 DEF CallType
      <3>2. PICK a \in Nat, b \in Nat : /\ a = Cardinality(Innocent(r.first, Flat(r)))
                                        /\ b = Cardinality(Innocent(r.got, Flat(r)))
        BY <3>1, InnocentFinite
      <3> QED BY <3>2 DEF Charged
    <2>3. r.blips \in Nat /\ Charged(r) <= r.blips
      BY <1>1, <1>3 DEF CallType, ChargeOK
    <2>4. CASE d.blips = r.blips + 1
      <3>1. Charged(d) < d.blips /\ Charged(d) <= d.blips
        BY <2>1, <2>2, <2>3, <2>4
      <3> QED BY ONLY <3>1 DEF ChargeOK
    <2>5. CASE d.blips = r.blips /\ \E i \in 1 .. Len(r.docs) : Toxic(r.docs[i])
      <3>1. Charged(d) <= d.blips /\ \E i \in 1 .. Len(d.docs) : Toxic(d.docs[i])
        BY ONLY <1>1, <2>1, <2>3, <2>5
      <3> QED BY ONLY <3>1 DEF ChargeOK
    <2> QED BY <2>4, <2>5
  <1>10. ASSUME NEW j \in 1 .. Len(d.work), d.work[j].single \/ d.kind = "query"
         PROVE  Len(d.work[j].texts) = 1
    <2>1. CASE \E i \in 1 .. Len(r.work) : d.work[j] = r.work[i]
      <3>1. PICK i \in 1 .. Len(r.work) : d.work[j] = r.work[i]
        BY <2>1
      <3>2. r.work[i].single \/ r.kind = "query"
        BY ONLY <1>1, <1>10, <3>1
      <3>3. Len(r.work[i].texts) = 1
        BY <3>2 DEF CallOK
      <3> QED BY ONLY <3>1, <3>3
    <2> QED BY <1>4, <2>1
  <1>11. r.kind # "none" /\ (r.kind = "query" <=> r.role = "Query")
         /\ (r.kind = "query" => Len(r.docs) = 1)
    BY DEF CallOK
  <1> QED BY ONLY <1>1, <1>4, <1>5, <1>6, <1>7, <1>8, <1>9, <1>10, <1>11 DEF CallOK

\* The first lookup of a text finds its vector or nothing.
LEMMA LookupStep ==
    ASSUME EmbInv, NEW c \in Callers, Lookup(c)
    PROVE  EmbInv'
  <1>1. PICK r : r = call[c]
    OBVIOUS
  <1>2. CallOK(r) /\ r \in CallType /\ Slots /\ CacheOK
    BY <1>1 DEF EmbInv, CallOK
  <1>3. r.pc = "lookup" /\ r.work # << >> /\ Head(r.work) = Current(c)
    BY <1>1 DEF Lookup, Current
  <1>4. Flat(r) \in Seq(Seq(Nat)) /\ r.work \in Seq(Batch) /\ Len(r.got) \in Nat /\ r.role \in Roles
    BY <1>2, FlatType, LenProperties DEF CallType, Roles
  <1>5. Aligned(r.work, Flat(r), Len(r.got))
    BY <1>2, <1>3 DEF CallOK
  <1>6. Head(r.work) = r.work[1] /\ r.work[1] \in Batch /\ Tail(r.work) \in Seq(Batch)
    BY <1>3, <1>4, <1>5, AlignedHead
  <1>7. PICK texts : texts = r.work[1].texts
    OBVIOUS
  <1>8. texts \in Seq(Seq(Nat)) /\ Current(c).texts = texts
    BY <1>3, <1>6, <1>7 DEF Batch
  <1>9. PICK n \in Nat : n = Len(texts)
    BY <1>8, LenProperties
  <1>10. PICK found : found = [i \in 1 .. Len(texts) |->
                                 IF Key(c, texts[i]) \in DOMAIN cache
                                 THEN cache[Key(c, texts[i])] ELSE Missing]
    OBVIOUS
  <1>11. ASSUME NEW i \in 1 .. n
         PROVE  found[i] \in Value /\ (found[i] = Missing \/ Good(found[i], r.role, texts[i]))
    <2>1. texts[i] \in Seq(Nat)
      BY <1>8, <1>9, ElementOfSeq
    <2>2. PICK v : v = VectorOf(r.role, texts[i])
      OBVIOUS
    <2>3. v \in Vectors /\ Key(c, texts[i]) = v
      BY <1>1, <1>2, <1>4, <2>1, <2>2, VectorType DEF Key
    <2>4. found[i] = IF v \in DOMAIN cache THEN cache[v] ELSE Missing
      BY <1>9, <1>10, <2>3
    <2>5. CASE v \in DOMAIN cache
      <3>1. cache[v] = v \/ (primed /\ cache[v] = Zero)
        BY <1>2, <2>5 DEF CacheOK
      <3>2. Good(cache[v], r.role, texts[i])
        BY ONLY <2>2, <3>1 DEF Good
      <3> QED BY ONLY <2>3, <2>4, <2>5, <3>1, <3>2 DEF Value
    <2>6. CASE v \notin DOMAIN cache
      BY ONLY <2>4, <2>6 DEF Value
    <2> QED BY <2>5, <2>6
  <1>12. found \in Seq(Value) /\ Len(found) = n
    <2>1. found = [i \in 1 .. n |-> found[i]]
      BY <1>9, <1>10
    <2>2. found \in [1 .. n -> Value]
      BY ONLY <1>11, <2>1
    <2> QED BY <2>2, FunIsSeq
  <1>13. CacheOK' /\ UNCHANGED <<models, stored, embUp, primed>>
    BY CacheStable DEF Lookup, EmbInv
  <1>14. IF Missing \in ToSet(found)
         THEN Update(c, [call[c] EXCEPT !.pc = "request", !.hits = found])
         ELSE Update(c, Delivered(c, found))
    BY ONLY Lookup(c), <1>8, <1>10 DEF Lookup
  <1>15. CASE Missing \in ToSet(found)
    <2>1. PICK d : d = [r EXCEPT !.pc = "request", !.hits = found]
      OBVIOUS
    <2>2. /\ d \in CallType /\ d.pc = "request" /\ d.hits = found /\ d.kind = r.kind
          /\ d.domain = r.domain /\ d.docs = r.docs /\ d.role = r.role /\ d.work = r.work
          /\ d.got = r.got /\ d.first = r.first /\ d.blips = r.blips
      BY ONLY <1>2, <1>12, <2>1 DEF CallType
    <2>3. Flat(d) = Flat(r)
      BY ONLY <2>2 DEF Flat
    <2>4. HitsOK(d)
      <3>1. \E i \in 1 .. Len(found) : found[i] = Missing
        <4>1. Missing \in {found[i] : i \in DOMAIN found}
          BY ONLY <1>15 DEF ToSet
        <4>2. DOMAIN found = 1 .. Len(found)
          BY <1>12, LenProperties
        <4> QED BY ONLY <4>1, <4>2
      <3> QED BY ONLY <1>3, <1>7, <1>9, <1>11, <1>12, <2>2, <3>1 DEF HitsOK
    <2>5. GotOK(d) /\ FirstOK(d)
      <3>1. GotOK(r) /\ FirstOK(r)
        BY <1>2, <1>3 DEF CallOK
      <3> QED BY ONLY <2>2, <2>3, <3>1 DEF GotOK, FirstOK
    <2>6. d.kind = "push" => ChargeOK(d)
      <3>1. r.kind = "push" => ChargeOK(r)
        BY <1>2, <1>3 DEF CallOK
      <3> QED BY ONLY <2>2, <2>3, <3>1 DEF ChargeOK, Charged
    <2>7. CallOK(d)
      BY ONLY <1>2, <1>3, <1>5, <2>2, <2>3, <2>4, <2>5, <2>6 DEF CallOK
    <2>8. Update(c, d)
      BY ONLY <1>1, <1>14, <1>15, <2>1
    <2> QED BY <1>13, <2>7, <2>8, CallStep
  <1>16. CASE Missing \notin ToSet(found)
    <2>1. \A i \in 1 .. Len(found) : found[i] # Missing
      <3>1. DOMAIN found = 1 .. Len(found)
        BY <1>12, LenProperties
      <3> QED BY ONLY <1>16, <3>1 DEF ToSet
    <2>2. PICK d : d = [r EXCEPT !.pc = "lookup", !.work = Tail(@), !.hits = << >>,
                                 !.got = @ \o found]
      OBVIOUS
    <2>3. IsDelivery(r, d, found) /\ d.blips = r.blips
      <3>1. r.got \o found \in Seq(Value) /\ << >> \in Seq(Value)
        <4>1. r.got \in Seq(Value)
          BY <1>2 DEF CallType
        <4> QED BY <1>12, <4>1, ConcatProperties, EmptySeq
      <3> QED BY ONLY <1>2, <1>6, <2>2, <3>1 DEF IsDelivery, CallType
    <2>4. ASSUME NEW i \in 1 .. Len(found)
          PROVE  Good(found[i], r.role, r.work[1].texts[i]) /\ found[i] # Failed
      <3>1. i \in 1 .. n /\ texts[i] \in Seq(Nat) /\ Good(found[i], r.role, texts[i])
        BY <1>8, <1>9, <1>11, <1>12, <2>1, ElementOfSeq
      <3>2. VectorOf(r.role, texts[i]) # Failed /\ Zero # Failed
        BY <1>2, <1>4, <3>1, VectorType, Distinct
      <3> QED BY ONLY <1>7, <3>1, <3>2 DEF Good
    <2>5. Len(found) = Len(r.work[1].texts)
      BY <1>7, <1>9, <1>12
    <2>6. DeliveryCharge(r, d, found)
      BY ONLY <2>3, <2>4 DEF DeliveryCharge
    <2>7. CallOK(d)
      BY ONLY <1>2, <1>3, <1>12, <2>3, <2>4, <2>5, <2>6, DeliverOK
    <2>8. Update(c, d)
      BY ONLY <1>1, <1>14, <1>16, <2>2 DEF Delivered
    <2> QED BY <1>13, <2>7, <2>8, CallStep
  <1> QED BY <1>15, <1>16

\* What is requested: the texts that were not found, and at least one.
Requested(c, r) ==
    /\ r.work[1].texts \in Seq(Seq(Nat)) /\ Current(c) = r.work[1]
    /\ Len(r.hits) = Len(r.work[1].texts) /\ Len(r.hits) \in Nat
    /\ Len(MissIndices(c)) \in Nat \ {0}
    /\ \A k \in 1 .. Len(MissIndices(c)) : MissIndices(c)[k] \in 1 .. Len(r.hits)
    /\ \A i \in 1 .. Len(r.hits) : r.hits[i] = Missing =>
          \E k \in 1 .. Len(MissIndices(c)) : MissIndices(c)[k] = i
    /\ Len(MissTexts(c)) = Len(MissIndices(c))
    /\ \A k \in 1 .. Len(MissIndices(c)) :
          MissTexts(c)[k] = Current(c).texts[MissIndices(c)[k]]
    /\ Len(Right(c)) = Len(MissIndices(c)) /\ DOMAIN Right(c) = 1 .. Len(MissIndices(c))
    /\ \A k \in 1 .. Len(MissIndices(c)) :
          Right(c)[k] = VectorOf(r.role, MissTexts(c)[k])

\* That is what a request is for.
LEMMA MissFacts ==
    ASSUME Slots, NEW c, NEW r, r = call[c], CallOK(r), r.pc = "request"
    PROVE  Requested(c, r)
  <1>1. /\ r \in CallType /\ r.work # << >> /\ Len(r.hits) = Len(r.work[1].texts)
        /\ \E i \in 1 .. Len(r.hits) : r.hits[i] = Missing
    BY DEF CallOK, HitsOK
  <1>2. r.hits \in Seq(Value) /\ r.work \in Seq(Batch)
    BY <1>1 DEF CallType
  <1>3. PICK n \in Nat : n = Len(r.hits)
    BY <1>2, LenProperties
  <1>4. PICK miss : miss = MissIndices(c)
    OBVIOUS
  <1>5. /\ miss \in Seq(1 .. n)
        /\ \A i \in 1 .. n : r.hits[i] = Missing => \E k \in 1 .. Len(miss) : miss[k] = i
    <2>1. Len(call[c].hits) = n
      BY <1>3
    <2>2. /\ MissIndices(c) \in Seq(1 .. Len(call[c].hits))
          /\ \A i \in 1 .. Len(call[c].hits) : call[c].hits[i] = Missing =>
                 \E k \in 1 .. Len(MissIndices(c)) : MissIndices(c)[k] = i
      BY <1>3, <2>1, MissMeans
    <2> QED BY ONLY <1>4, <2>1, <2>2, r = call[c]
  <1>6. PICK m \in Nat : m = Len(miss)
    BY <1>5, LenProperties
  <1>7. m # 0
    BY <1>1, <1>3, <1>5, <1>6
  <1>8. \A k \in 1 .. m : miss[k] \in 1 .. n
    BY <1>5, <1>6, ElementOfSeq
  <1>9. MissTexts(c) = [k \in 1 .. m |-> Current(c).texts[miss[k]]]
    BY ONLY <1>4, <1>6 DEF MissTexts
  <1>10. Len(MissTexts(c)) = m /\ \A k \in 1 .. m : MissTexts(c)[k] = Current(c).texts[miss[k]]
    BY <1>9
  <1>11. Right(c) = [k \in 1 .. m |-> VectorOf(r.role, MissTexts(c)[k])]
    BY ONLY <1>10, r = call[c] DEF Right
  <1>12. /\ Len(Right(c)) = m /\ DOMAIN Right(c) = 1 .. m
         /\ \A k \in 1 .. m : Right(c)[k] = VectorOf(r.role, MissTexts(c)[k])
    BY <1>11
  <1>13. r.work[1].texts \in Seq(Seq(Nat)) /\ Current(c) = r.work[1]
    <2>1. Flat(r) \in Seq(Seq(Nat)) /\ Len(r.got) \in Nat
      BY <1>1, FlatType, LenProperties DEF CallType
    <2>2. Aligned(r.work, Flat(r), Len(r.got))
      BY DEF CallOK
    <2>3. Head(r.work) = r.work[1] /\ r.work[1] \in Batch
      BY <1>1, <1>2, <2>1, <2>2, AlignedHead
    <2> QED BY <2>3 DEF Current, Batch
  <1>14. Len(r.hits) \in Nat /\ m \in Nat \ {0}
    BY <1>3, <1>6, <1>7
  <1> QED BY ONLY <1>1, <1>3, <1>4, <1>5, <1>6, <1>8, <1>10, <1>12, <1>13, <1>14 DEF Requested

\* A request fails: for a transient reason, or because of a bad token in one
\* of its texts.
LEMMA FailureOK ==
    ASSUME EmbInv, NEW c \in Callers, call[c].pc = "request",
           NEW d, NEW r, r = call[c],
           \/ d = [AfterFailure(c) EXCEPT !.blips = r.blips + 1]
           \/ /\ d = AfterFailure(c)
              /\ \E i \in 1 .. Len(r.work[1].texts) : Toxic(r.work[1].texts[i])
    PROVE  CallOK(d)
  <1>1. CallOK(r) /\ r \in CallType /\ Slots /\ r.pc = "request" /\ r.work # << >>
        /\ r.pc # "idle"
    BY DEF EmbInv, CallOK, HitsOK
  <1>2. /\ r.work[1].texts \in Seq(Seq(Nat)) /\ Current(c) = r.work[1]
    BY <1>1, MissFacts DEF Requested
  <1>3. r.blips \in Nat /\ r.got \in Seq(Value) /\ r.work \in Seq(Batch)
    BY <1>1 DEF CallType
  <1>4. /\ Flat(r) \in Seq(Seq(Nat)) /\ Len(r.got) \in Nat
        /\ Aligned(r.work, Flat(r), Len(r.got))
    BY <1>1, <1>3, FlatType, LenProperties DEF CallOK
  <1>5. Tail(r.work) \in Seq(Batch) /\ << >> \in Seq(Value)
    BY <1>1, <1>3, <1>4, AlignedHead, EmptySeq
  <1>6. CASE r.kind = "query"
    <2>1. AfterFailure(c) = NoCall
      BY <1>6 DEF AfterFailure
    <2>2. PICK n \in Nat : n = r.blips + 1
      BY <1>3
    <2>3. d = [NoCall EXCEPT !.blips = n] \/ d = NoCall
      BY ONLY <2>1, <2>2, \/ d = [AfterFailure(c) EXCEPT !.blips = r.blips + 1]
                          \/ d = AfterFailure(c)
    <2> QED BY ONLY n \in Nat, <2>3, NoCallOK
  <1>7. CASE r.kind # "query" /\ r.work[1].single
    <2>1. r.kind = "push"
      BY <1>1, <1>7 DEF CallOK, CallType
    <2>2. AfterFailure(c) = [r EXCEPT !.pc = "lookup", !.work = Tail(@), !.hits = << >>,
                                      !.got = @ \o <<Failed>>]
      BY ONLY <1>2, <1>7, r = call[c] DEF AfterFailure, Delivered
    <2>3. PICK vs : vs = <<Failed>>
      OBVIOUS
    <2>4. vs \in Seq(Value) /\ Len(vs) = 1 /\ vs[1] = Failed
      BY <2>3 DEF Value
    <2>5. Len(r.work[1].texts) = 1
      <3>1. Len(r.work) \in Nat \ {0}
        BY <1>1, <1>3, <1>4, AlignedHead
      <3>2. 1 \in 1 .. Len(r.work)
        BY <3>1
      <3> QED BY <1>1, <1>7, <3>2 DEF CallOK
    <2>6. r.got \o vs \in Seq(Value)
      BY <1>3, <2>4, ConcatProperties
    <2>7. IsDelivery(r, d, vs)
      <3>1. CASE d = [AfterFailure(c) EXCEPT !.blips = r.blips + 1]
        <4>1. PICK a : a = AfterFailure(c)
          OBVIOUS
        <4>2. IsDelivery(r, a, vs)
          BY ONLY <1>1, <1>3, <1>5, <2>2, <2>3, <2>6, <4>1 DEF IsDelivery, CallType
        <4>3. d = [a EXCEPT !.blips = r.blips + 1] /\ r.blips + 1 \in Nat
          BY <1>3, <3>1, <4>1
        <4> QED BY ONLY <4>2, <4>3 DEF IsDelivery, CallType
      <3>2. CASE d = AfterFailure(c)
        BY ONLY <1>1, <1>3, <1>5, <2>2, <2>3, <2>6, <3>2 DEF IsDelivery, CallType
      <3> QED BY <3>1, <3>2
    <2>8. DeliveryCharge(r, d, vs)
      <3>1. CASE d = [AfterFailure(c) EXCEPT !.blips = r.blips + 1]
        <4>1. d.blips = r.blips + 1
          BY ONLY <1>1, <2>2, <3>1 DEF CallType
        <4> QED BY ONLY <1>7, <4>1 DEF DeliveryCharge
      <3>2. CASE d = AfterFailure(c) /\ \E i \in 1 .. Len(r.work[1].texts) : Toxic(r.work[1].texts[i])
        <4>1. d.blips = r.blips
          BY ONLY <1>1, <2>2, <3>2 DEF CallType
        <4>2. \A i \in 1 .. 1 : i = 1
          OBVIOUS
        <4>3. \A i \in 1 .. Len(vs) : Toxic(r.work[1].texts[i])
          BY ONLY <2>4, <2>5, <3>2, <4>2
        <4> QED BY ONLY <4>1, <4>3 DEF DeliveryCharge
      <3> QED BY <3>1, <3>2
    <2>9. Len(vs) = Len(r.work[1].texts) /\ \A i \in 1 .. Len(vs) : vs[i] = Failed /\ r.kind = "push"
      <3>1. \A i \in 1 .. 1 : i = 1
        OBVIOUS
      <3> QED BY ONLY <2>1, <2>4, <2>5, <3>1
    <2> QED BY ONLY <1>1, <2>4, <2>7, <2>8, <2>9, DeliverOK
  <1>8. CASE r.kind # "query" /\ ~r.work[1].single
    <2>1. r.kind = "push"
      BY <1>1, <1>8 DEF CallOK, CallType
    <2>2. AfterFailure(c) = [r EXCEPT !.pc = "lookup", !.hits = << >>,
                                      !.work = Singles(r.work[1].texts) \o Tail(@)]
      BY ONLY <1>2, <1>8, r = call[c] DEF AfterFailure
    <2>3. Singles(r.work[1].texts) \o Tail(r.work) \in Seq(Batch)
      BY <1>1, <1>3, <1>4, AlignedSplit DEF SplitWork
    <2>4. IsSplit(r, d)
      <3>1. CASE d = [AfterFailure(c) EXCEPT !.blips = r.blips + 1]
        <4>1. PICK a : a = AfterFailure(c)
          OBVIOUS
        <4>2. IsSplit(r, a)
          BY ONLY <1>1, <1>3, <1>5, <2>2, <2>3, <4>1 DEF IsSplit, CallType
        <4>3. d = [a EXCEPT !.blips = r.blips + 1] /\ r.blips + 1 \in Nat
          BY <1>3, <3>1, <4>1
        <4> QED BY ONLY <4>2, <4>3 DEF IsSplit, CallType
      <3>2. CASE d = AfterFailure(c)
        BY ONLY <1>1, <1>3, <1>5, <2>2, <2>3, <3>2 DEF IsSplit, CallType
      <3> QED BY <3>1, <3>2
    <2>5. CASE d = [AfterFailure(c) EXCEPT !.blips = r.blips + 1]
      <3>1. d.blips = r.blips + 1
        BY ONLY <1>1, <2>2, <2>5 DEF CallType
      <3> QED BY ONLY <1>1, <2>1, <2>4, <3>1, SplitOK
    <2>6. CASE d = AfterFailure(c) /\ \E i \in 1 .. Len(r.work[1].texts) : Toxic(r.work[1].texts[i])
      <3>1. d.blips = r.blips
        BY ONLY <1>1, <2>2, <2>6 DEF CallType
      <3>2. PICK i \in 1 .. Len(r.work[1].texts) : Toxic(r.work[1].texts[i])
        BY <2>6
      <3>3. PICK k \in 1 .. Len(Flat(r)) : Flat(r)[k] = r.work[1].texts[i]
        <4>1. PICK n \in Nat, l \in Nat, t \in Nat :
                  n = Len(r.got) /\ l = Len(r.work[1].texts) /\ t = Len(Flat(r))
          BY <1>2, <1>4, LenProperties
        <4>2. n + l <= t /\ \A k \in 1 .. l : r.work[1].texts[k] = Flat(r)[n + k]
          <5>1. /\ Len(r.got) + Len(r.work[1].texts) <= Len(Flat(r))
                /\ \A k \in 1 .. Len(r.work[1].texts) :
                      r.work[1].texts[k] = Flat(r)[Len(r.got) + k]
            BY <1>1, <1>3, <1>4, AlignedHead
          <5> QED BY ONLY <4>1, <5>1
        <4>3. i \in 1 .. l
          BY ONLY <4>1, i \in 1 .. Len(r.work[1].texts)
        <4>4. n + i \in 1 .. t
          BY ONLY n \in Nat, l \in Nat, t \in Nat, <4>2, <4>3
        <4> QED BY ONLY <4>1, <4>2, <4>3, <4>4
      <3>4. r.docs \in Seq(Seq(Nat)) /\ Flat(r) = FlatTexts(r.docs)
        BY <1>1, <2>1 DEF CallType, Flat
      <3>5. PICK x \in 1 .. Len(r.docs) : k \in FlatRange(r.docs, x)
        BY <1>1, <3>3, <3>4, FlatMeans
      <3>6. Toxic(r.docs[x])
        <4>1. Toxic(FlatTexts(r.docs)[k])
          BY ONLY <3>2, <3>3, <3>4
        <4> QED BY <1>1, <3>4, <3>5, <4>1, FlatPart
      <3>7. \E j \in 1 .. Len(r.docs) : Toxic(r.docs[j])
        BY <3>6
      <3> QED BY ONLY <1>1, <2>1, <2>4, <3>1, <3>7, SplitOK
    <2> QED BY <2>5, <2>6
  <1> QED BY <1>6, <1>7, <1>8

\* The answer of the provider goes where the lookups found nothing, and into
\* the cache.
LEMMA SucceedStep ==
    ASSUME EmbInv, NEW c \in Callers, call[c].pc = "request", Succeed(c, Right(c)),
           UNCHANGED <<models, stored, embUp, primed>>
    PROVE  EmbInv'
  <1>1. PICK r : r = call[c]
    OBVIOUS
  <1>2. CallOK(r) /\ r \in CallType /\ Slots /\ CacheOK /\ r.pc = "request"
    BY <1>1 DEF EmbInv, CallOK
  <1>3. PICK texts, miss, reply : /\ texts = r.work[1].texts /\ miss = MissIndices(c)
                                  /\ reply = Right(c)
    OBVIOUS
  <1>4. PICK n, m : n = Len(r.hits) /\ m = Len(miss)
    OBVIOUS
  <1>5. /\ texts \in Seq(Seq(Nat)) /\ Current(c) = r.work[1] /\ Len(texts) = n /\ n \in Nat
        /\ m \in Nat \ {0} /\ \A k \in 1 .. m : miss[k] \in 1 .. n
        /\ \A i \in 1 .. n : r.hits[i] = Missing => \E k \in 1 .. m : miss[k] = i
        /\ Len(reply) = m /\ \A k \in 1 .. m : reply[k] = VectorOf(r.role, texts[miss[k]])
    <2>1. Requested(c, r)
      BY <1>1, <1>2, MissFacts
    <2>2. /\ texts \in Seq(Seq(Nat)) /\ Current(c) = r.work[1] /\ Len(texts) = n /\ n \in Nat
          /\ m \in Nat \ {0} /\ \A k \in 1 .. m : miss[k] \in 1 .. n
          /\ \A i \in 1 .. n : r.hits[i] = Missing => \E k \in 1 .. m : miss[k] = i
      BY ONLY <1>3, <1>4, <2>1 DEF Requested
    <2>3. Len(reply) = m /\ \A k \in 1 .. m : reply[k] = VectorOf(r.role, MissTexts(c)[k])
      BY ONLY <1>3, <1>4, <2>1 DEF Requested
    <2>4. \A k \in 1 .. m : MissTexts(c)[k] = texts[miss[k]]
      BY ONLY <1>3, <1>4, <2>1 DEF Requested
    <2> QED BY ONLY <2>2, <2>3, <2>4
  <1>6. r.role \in Roles /\ r.work # << >>
    BY <1>2 DEF CallType, Roles, CallOK, HitsOK
  <1>7. \A i \in 1 .. n : r.hits[i] = Missing \/ Good(r.hits[i], r.role, texts[i])
    BY ONLY <1>2, <1>3, <1>4 DEF CallOK, HitsOK
  <1>8. \A i \in 1 .. n : texts[i] \in Seq(Nat) /\ VectorOf(r.role, texts[i]) \in Vectors
                          /\ Key(c, texts[i]) = VectorOf(r.role, texts[i])
    <2>1. \A i \in 1 .. n : texts[i] \in Seq(Nat)
      BY <1>5, ElementOfSeq
    <2> QED BY <1>1, <1>2, <1>6, <2>1, VectorType DEF Key
  <1>9. PICK M : M = Merged(c, reply)
    OBVIOUS
  <1>10. M = [i \in 1 .. n |-> IF r.hits[i] # Missing THEN r.hits[i]
                               ELSE LET k == CHOOSE x \in 1 .. m : miss[x] = i
                                    IN  reply[IF k <= Len(reply) THEN k ELSE Len(reply)]]
    BY ONLY <1>1, <1>3, <1>4, <1>9 DEF Merged
  <1>11. ASSUME NEW i \in 1 .. n
         PROVE  /\ r.hits[i] = Missing => M[i] = VectorOf(r.role, texts[i])
                /\ Good(M[i], r.role, texts[i]) /\ M[i] \in Value /\ M[i] # Failed
    <2>1. CASE r.hits[i] = Missing
      <3>1. PICK k : k = CHOOSE x \in 1 .. m : miss[x] = i
        OBVIOUS
      <3>2. k \in 1 .. m /\ miss[k] = i
        BY ONLY <1>5, <1>11, <2>1, <3>1
      <3>3. k <= Len(reply)
        BY <1>5, <3>2
      <3>4. M[i] = reply[k]
        BY ONLY <1>10, <1>11, <2>1, <3>1, <3>3
      <3>5. M[i] = VectorOf(r.role, texts[i])
        BY ONLY <1>5, <3>2, <3>4
      <3>6. M[i] \in Vectors
        BY ONLY <1>8, <1>11, <3>5
      <3> QED BY ONLY <3>5, <3>6, Distinct DEF Good, Value
    <2>2. CASE r.hits[i] # Missing
      <3>1. M[i] = r.hits[i] /\ Good(M[i], r.role, texts[i])
        BY ONLY <1>7, <1>10, <1>11, <2>2
      <3>2. VectorOf(r.role, texts[i]) \in Vectors
        BY <1>8
      <3> QED BY ONLY <2>2, <3>1, <3>2, Distinct DEF Good, Value
    <2> QED BY <2>1, <2>2
  <1>12. M \in Seq(Value) /\ Len(M) = n
    <2>1. M = [i \in 1 .. n |-> M[i]]
      BY ONLY <1>10
    <2>2. M \in [1 .. n -> Value]
      BY ONLY <1>11, <2>1
    <2> QED BY <1>5, <2>2, FunIsSeq
  <1>13. PICK d : d = [r EXCEPT !.pc = "lookup", !.work = Tail(@), !.hits = << >>,
                                !.got = @ \o M]
    OBVIOUS
  <1>14. Update(c, d)
    BY ONLY Succeed(c, Right(c)), <1>1, <1>3, <1>9, <1>13 DEF Succeed, Delivered
  <1>15. CallOK(d)
    <2>1. r.got \in Seq(Value) /\ r.work \in Seq(Batch)
      BY <1>2 DEF CallType
    <2>2. Tail(r.work) \in Seq(Batch)
      BY <1>6, <2>1
    <2>3. r.got \o M \in Seq(Value) /\ << >> \in Seq(Value)
      BY <1>12, <2>1, ConcatProperties, EmptySeq
    <2>4. IsDelivery(r, d, M) /\ d.blips = r.blips
      BY ONLY <1>2, <1>13, <2>2, <2>3 DEF IsDelivery, CallType
    <2>5. Len(M) = Len(r.work[1].texts)
      BY <1>3, <1>5, <1>12
    <2>6. \A i \in 1 .. Len(M) : Good(M[i], r.role, r.work[1].texts[i]) /\ M[i] # Failed
      BY ONLY <1>3, <1>11, <1>12
    <2>7. DeliveryCharge(r, d, M) /\ r.pc # "idle"
      BY ONLY <1>2, <2>4, <2>6 DEF DeliveryCharge
    <2> QED BY ONLY <1>2, <1>6, <1>12, <2>4, <2>5, <2>6, <2>7, DeliverOK
  <1>16. CacheOK'
    <2>1. PICK put : put = {i \in 1 .. n : r.hits[i] = Missing}
      OBVIOUS
    <2>2. PICK keys : keys = {Key(c, texts[i]) : i \in put}
      OBVIOUS
    <2>3. cache' = [k \in DOMAIN cache \cup keys |->
                       IF k \in keys THEN M[CHOOSE i \in put : Key(c, texts[i]) = k]
                       ELSE cache[k]]
      <3>1. Current(c).texts = texts /\ Len(texts) = n
        BY <1>3, <1>5
      <3> QED BY ONLY Succeed(c, Right(c)), <1>1, <1>3, <1>9, <2>1, <2>2, <3>1 DEF Succeed
    <2>4. DOMAIN cache \subseteq Vectors
          /\ \A k \in DOMAIN cache : cache[k] = k \/ (primed /\ cache[k] = Zero)
      BY <1>2 DEF CacheOK
    <2>5. ASSUME NEW k \in keys
          PROVE  k \in Vectors /\ cache'[k] = k
      <3>1. PICK i : i = CHOOSE x \in put : Key(c, texts[x]) = k
        OBVIOUS
      <3>2. i \in put /\ Key(c, texts[i]) = k
        BY ONLY <2>2, <2>5, <3>1
      <3>3. i \in 1 .. n /\ M[i] = VectorOf(r.role, texts[i])
        BY ONLY <1>11, <2>1, <3>2
      <3>4. cache'[k] = M[i]
        BY ONLY <2>3, <2>5, <3>1
      <3> QED BY ONLY <1>8, <3>2, <3>3, <3>4
    <2>6. ASSUME NEW k \in DOMAIN cache, k \notin keys
          PROVE  cache'[k] = cache[k]
      BY ONLY <2>3, <2>6
    <2>7. DOMAIN cache' = DOMAIN cache \cup keys
      BY ONLY <2>3
    <2>8. \A k \in DOMAIN cache' : k \in Vectors /\ (cache'[k] = k \/ (primed' /\ cache'[k] = Zero))
      BY ONLY <2>4, <2>5, <2>6, <2>7, primed' = primed
    <2> QED BY ONLY <2>8 DEF CacheOK
  <1> QED BY <1>14, <1>15, <1>16, CallStep

\* The provider answers.
LEMMA ReplyStep ==
    ASSUME EmbInv, NEW c \in Callers, Reply(c)
    PROVE  EmbInv'
  <1>1. call[c].pc = "request" /\ UNCHANGED <<models, stored, embUp, primed>>
    BY DEF Reply
  <1>2. CASE \E k \in 1 .. Len(MissTexts(c)) : Toxic(MissTexts(c)[k])
    <2>1. Update(c, AfterFailure(c)) /\ UNCHANGED cache
      BY ONLY Reply(c), <1>2 DEF Reply
    <2>2. PICK d, r : d = AfterFailure(c) /\ r = call[c]
      OBVIOUS
    <2>3. CallOK(r) /\ Slots /\ r.pc = "request"
      BY <1>1, <2>2 DEF EmbInv
    <2>4. Requested(c, r)
      BY <2>2, <2>3, MissFacts
    <2>5. \E i \in 1 .. Len(r.work[1].texts) : Toxic(r.work[1].texts[i])
      <3>1. PICK k \in 1 .. Len(MissTexts(c)) : Toxic(MissTexts(c)[k])
        BY <1>2
      <3>2. k \in 1 .. Len(MissIndices(c))
        BY ONLY k \in 1 .. Len(MissTexts(c)), <2>4 DEF Requested
      <3>3. /\ MissTexts(c)[k] = r.work[1].texts[MissIndices(c)[k]]
            /\ MissIndices(c)[k] \in 1 .. Len(r.work[1].texts)
        BY ONLY <2>4, <3>2 DEF Requested
      <3> QED BY ONLY <3>1, <3>3
    <2>6. CallOK(d)
      BY <1>1, <2>2, <2>5, FailureOK
    <2>7. CacheOK'
      BY <1>1, <2>1, CacheStable DEF EmbInv
    <2>8. Update(c, d)
      BY ONLY <2>1, <2>2
    <2> QED BY <1>1, <2>6, <2>7, <2>8, CallStep
  <1>3. CASE ~(\E k \in 1 .. Len(MissTexts(c)) : Toxic(MissTexts(c)[k]))
    <2>1. Succeed(c, Right(c))
      BY ONLY Reply(c), <1>3 DEF Reply
    <2> QED BY <1>1, <2>1, SucceedStep
  <1> QED BY <1>2, <1>3

\* A reply that is not what was asked for is a failure.
LEMMA BlipStep ==
    ASSUME EmbInv, NEW c \in Callers, Blip(c)
    PROVE  EmbInv'
  <1>1. call[c].pc = "request" /\ UNCHANGED <<models, stored, embUp, primed>>
    BY DEF Blip
  <1>2. PICK reply \in {<< >>, Front(Right(c)), [Right(c) EXCEPT ![1] = BadVector]} :
           IF Acceptable(c, reply)
           THEN Succeed(c, reply)
           ELSE call' = [call EXCEPT ![c] = [AfterFailure(c) EXCEPT !.blips = call[c].blips + 1]]
                /\ UNCHANGED cache
    BY DEF Blip
  <1>3. PICK r : r = call[c]
    OBVIOUS
  <1>4. CallOK(r) /\ Slots /\ r.pc = "request"
    BY <1>1, <1>3 DEF EmbInv
  <1>5. PICK m, s : /\ m \in Nat \ {0} /\ m = Len(MissIndices(c)) /\ s = Right(c)
                    /\ Len(s) = m /\ DOMAIN s = 1 .. m
    <2>1. Requested(c, r)
      BY <1>3, <1>4, MissFacts
    <2> QED BY ONLY <2>1 DEF Requested
  <1>6. ~Acceptable(c, reply)
    <2>1. CASE reply = << >>
      BY <1>5, <2>1 DEF Acceptable
    <2>2. CASE reply = Front(s)
      <3>1. Len(Front(s)) = m - 1
        <4>1. Front(s) = [i \in 1 .. m - 1 |-> s[i]]
          BY <1>5 DEF Front
        <4> QED BY ONLY <1>5, <4>1
      <3> QED BY <1>5, <2>2, <3>1 DEF Acceptable
    <2>3. CASE reply = [s EXCEPT ![1] = BadVector]
      <3>1. 1 \in DOMAIN s
        BY <1>5
      <3>2. reply[1] = BadVector /\ 1 \in DOMAIN reply
        BY ONLY <2>3, <3>1
      <3>3. BadVector \in ToSet(reply)
        BY ONLY <3>2 DEF ToSet
      <3> QED BY <3>3 DEF Acceptable
    <2> QED BY ONLY <1>2, <1>5, <2>1, <2>2, <2>3
  <1>7. PICK d : d = [AfterFailure(c) EXCEPT !.blips = r.blips + 1]
    OBVIOUS
  <1>8. Update(c, d) /\ UNCHANGED cache
    BY ONLY <1>2, <1>3, <1>6, <1>7 DEF Update
  <1>9. CallOK(d)
    BY <1>1, <1>3, <1>7, FailureOK
  <1>10. CacheOK'
    BY <1>1, <1>8, CacheStable DEF EmbInv
  <1> QED BY <1>1, <1>8, <1>9, <1>10, CallStep

-----------------------------------------------------------------------------
(* The end of a call.                                                      *)

\* A call is given up, or is over.
LEMMA EndStep ==
    ASSUME EmbInv, NEW c \in Callers, Superseded(c) \/ Return(c)
    PROVE  EmbInv'
  <1>1. UNCHANGED <<models, cache, stored, embUp, primed>> /\ Update(c, NoCall)
    BY DEF Superseded, Return
  <1>2. CacheOK'
    BY <1>1, CacheStable DEF EmbInv
  <1>3. CallOK(NoCall)
    <2>1. 0 \in Nat
      OBVIOUS
    <2> QED BY <2>1, NoCallOK
  <1>4. PICK r : r = NoCall
    OBVIOUS
  <1>5. CallOK(r) /\ Update(c, r)
    BY ONLY <1>1, <1>3, <1>4
  <1> QED BY <1>1, <1>2, <1>5, CallStep

\* Marking a call as done changes nothing else about it.
LEMMA DoneOK ==
    ASSUME NEW r, CallOK(r), r.pc = "lookup", r.work = << >>, r.role # "Document",
           NEW d, d = [r EXCEPT !.pc = "done"]
    PROVE  CallOK(d)
  <1>1. r \in CallType
    BY DEF CallOK
  <1>2. /\ d \in CallType /\ d.pc = "done" /\ d.hits = r.hits /\ d.kind = r.kind
        /\ d.domain = r.domain /\ d.docs = r.docs /\ d.role = r.role /\ d.work = r.work
        /\ d.got = r.got /\ d.first = r.first /\ d.blips = r.blips
    BY ONLY <1>1, d = [r EXCEPT !.pc = "done"] DEF CallType
  <1>3. Flat(d) = Flat(r)
    BY ONLY <1>2 DEF Flat
  <1>4. GotOK(r) /\ FirstOK(r) /\ (r.kind = "push" => ChargeOK(r))
    BY DEF CallOK
  <1>5. GotOK(d) /\ FirstOK(d) /\ HitsOK(d)
    BY ONLY <1>2, <1>3, <1>4 DEF GotOK, FirstOK, HitsOK
  <1>6. d.kind = "push" => ChargeOK(d)
    BY ONLY <1>2, <1>3, <1>4 DEF ChargeOK, Charged
  <1>7. Aligned(d.work, Flat(d), Len(d.got))
    <2>1. Aligned(r.work, Flat(r), Len(r.got))
      BY DEF CallOK
    <2> QED BY ONLY <1>2, <1>3, <2>1
  <1>8. /\ r.kind # "none" /\ (r.kind = "query" <=> r.role = "Query")
        /\ r.kind = "query" => Len(r.docs) = 1
        /\ \A j \in 1 .. Len(r.work) :
                r.work[j].single \/ r.kind = "query" => Len(r.work[j].texts) = 1
    BY DEF CallOK
  <1> QED BY ONLY <1>2, <1>5, <1>6, <1>7, <1>8, r.work = << >>, r.role # "Document" DEF CallOK

\* A search has its vector.
LEMMA AnswerQueryStep ==
    ASSUME EmbInv, NEW c \in Callers, AnswerQuery(c)
    PROVE  EmbInv'
  <1>1. /\ UNCHANGED <<models, cache, stored, embUp, primed>>
        /\ Update(c, [call[c] EXCEPT !.pc = "done"])
        /\ call[c].pc = "lookup" /\ call[c].work = << >> /\ call[c].kind = "query"
    BY DEF AnswerQuery
  <1>2. CacheOK'
    BY <1>1, CacheStable DEF EmbInv
  <1>3. PICK r, d : r = call[c] /\ d = [r EXCEPT !.pc = "done"]
    OBVIOUS
  <1>4. CallOK(r)
    BY <1>3 DEF EmbInv
  <1>5. r.role # "Document"
    BY <1>1, <1>3, <1>4 DEF CallOK
  <1>6. CallOK(d)
    BY <1>1, <1>3, <1>4, <1>5, DoneOK
  <1>7. Update(c, d)
    BY ONLY <1>1, <1>3
  <1> QED BY <1>1, <1>2, <1>6, <1>7, CallStep

\* The document role is done, and the clustering role begins.
LEMMA SecondRoleStep ==
    ASSUME EmbInv, NEW c \in Callers, SecondRole(c)
    PROVE  EmbInv'
  <1>1. PICK r : r = call[c]
    OBVIOUS
  <1>2. PICK w, g : /\ w = (IF r.domain = "on" THEN BatchCalls(FlatTexts(r.docs)) ELSE << >>)
                    /\ g = (IF r.domain = "on" THEN << >> ELSE [i \in 1 .. Len(r.got) |-> Zero])
    OBVIOUS
  <1>3. PICK d : d = [r EXCEPT !.role = "Clustering", !.first = @ \o r.got, !.work = w, !.got = g]
    OBVIOUS
  <1>4. /\ r.pc = "lookup" /\ r.work = << >> /\ r.kind = "push" /\ r.role = "Document"
        /\ UNCHANGED <<models, cache, stored, embUp, primed>>
    BY <1>1 DEF SecondRole
  <1>5. Update(c, d)
    BY ONLY SecondRole(c), <1>1, <1>2, <1>3 DEF SecondRole
  <1>6. CallOK(r) /\ r \in CallType /\ Slots
    BY <1>1 DEF EmbInv, CallOK
  <1>7. /\ r.first = << >> /\ GotOK(r) /\ ChargeOK(r) /\ Aligned(r.work, Flat(r), Len(r.got))
    BY <1>4, <1>6 DEF CallOK, FirstOK
  <1>8. PICK t : t = Flat(r)
    OBVIOUS
  <1>9. /\ t \in Seq(Seq(Nat)) /\ Len(t) \in Nat /\ r.got \in Seq(Value)
        /\ Len(r.got) = Len(t) /\ t = FlatTexts(r.docs)
    <2>1. t \in Seq(Seq(Nat)) /\ Len(t) \in Nat /\ r.got \in Seq(Value)
      BY <1>6, <1>8, FlatType DEF CallType
    <2>2. Len(r.got) = Len(t)
      BY ONLY <1>4, <1>7, <1>8, AlignedEnd
    <2>3. t = FlatTexts(r.docs)
      BY ONLY <1>4, <1>8 DEF Flat
    <2> QED BY <2>1, <2>2, <2>3
  <1>10. << >> \o r.got = r.got
    BY <1>9, ConcatEmptySeq
  <1>11. /\ w \in Seq(Batch) /\ g \in Seq(Value) /\ Aligned(w, t, Len(g))
         /\ \A j \in 1 .. Len(w) : ~w[j].single
         /\ Cardinality(Innocent(g, t)) = 0
         /\ r.domain = "off" => w = << >> /\ \A k \in 1 .. Len(g) : g[k] = Zero
         /\ r.domain = "on" => g = << >>
    <2>1. CASE r.domain = "on"
      <3>1. w = BatchCalls(t) /\ g = << >>
        BY ONLY <1>2, <1>9, <2>1
      <3>2. Len(<< >>) = 0 /\ << >> \in Seq(Value)
        BY EmptySeq
      <3>3. w \in Seq(Batch) /\ Aligned(w, t, 0) /\ \A j \in 1 .. Len(w) : ~w[j].single
        BY <1>9, <3>1, BatchesAligned
      <3>4. Cardinality(Innocent(g, t)) = 0
        BY <3>1, NoFailures
      <3> QED BY ONLY <2>1, <3>1, <3>2, <3>3, <3>4
    <2>2. CASE r.domain # "on"
      <3>1. w = << >> /\ g = [i \in 1 .. Len(r.got) |-> Zero]
        BY ONLY <1>2, <2>2
      <3>2. Len(<< >>) = 0 /\ << >> \in Seq(Batch)
        BY EmptySeq
      <3>3. g \in Seq(Value) /\ Len(g) = Len(t) /\ \A k \in 1 .. Len(g) : g[k] = Zero
        <4>1. PICK n \in Nat : n = Len(r.got) /\ n = Len(t)
          BY <1>9
        <4>2. g \in [1 .. n -> Value] /\ \A k \in 1 .. n : g[k] = Zero
          BY <3>1, <4>1 DEF Value
        <4>3. g \in Seq(Value) /\ Len(g) = n
          BY <4>2, FunIsSeq
        <4> QED BY ONLY <4>1, <4>2, <4>3
      <3>4. Innocent(g, t) = {}
        BY ONLY <3>3, Distinct DEF Innocent
      <3>5. Cardinality(Innocent(g, t)) = 0
        BY <3>4, FS_EmptySet
      <3>6. Aligned(w, t, Len(g))
        BY ONLY <1>4, <1>7, <1>8, <1>9, <3>1, <3>3
      <3> QED BY ONLY <2>2, <3>1, <3>2, <3>3, <3>5, <3>6
    <2> QED BY <2>1, <2>2
  <1>12. /\ d \in CallType /\ d.pc = "lookup" /\ d.kind = "push"
         /\ d.domain = r.domain /\ d.docs = r.docs /\ d.role = "Clustering" /\ d.work = w
         /\ d.got = g /\ d.first = r.got /\ d.blips = r.blips
    BY ONLY <1>3, <1>4, <1>6, <1>7, <1>9, <1>10, <1>11 DEF CallType
  <1>13. Flat(d) = t
    BY ONLY <1>9, <1>12 DEF Flat
  <1>14. GotOK(d)
    <2>1. r.domain \in {"on", "off"} /\ Len(<< >>) = 0
      BY <1>6 DEF CallType
    <2>2. CASE r.domain = "on"
      <3>1. \A k \in 1 .. Len(d.got) : FALSE
        BY <1>11, <1>12, <2>1, <2>2
      <3> QED BY ONLY <3>1 DEF GotOK
    <2>3. CASE r.domain = "off"
      BY ONLY <1>11, <1>12, <2>3 DEF GotOK
    <2> QED BY <2>1, <2>2, <2>3
  <1>15. FirstOK(d)
    BY ONLY <1>4, <1>7, <1>8, <1>9, <1>12, <1>13 DEF FirstOK, GotOK
  <1>16. ChargeOK(d)
    <2>1. PICK a \in Nat : a = Cardinality(Innocent(r.got, t))
      BY <1>9, InnocentFinite
    <2>2. Cardinality(Innocent(r.first, t)) = 0
      BY <1>7, NoFailures
    <2>3. Charged(r) = 0 + a /\ Charged(d) = a + 0
      BY ONLY <1>8, <1>11, <1>12, <1>13, <2>1, <2>2 DEF Charged
    <2>4. Charged(r) = Charged(d)
      BY <2>3
    <2> QED BY ONLY <1>7, <1>11, <1>12, <2>4 DEF ChargeOK
  <1>17. HitsOK(d)
    BY ONLY <1>12 DEF HitsOK
  <1>18. Aligned(d.work, Flat(d), Len(d.got))
    BY ONLY <1>11, <1>12, <1>13
  <1>19. CallOK(d)
    BY ONLY <1>11, <1>12, <1>14, <1>15, <1>16, <1>17, <1>18 DEF CallOK
  <1>20. CacheOK'
    BY <1>4, CacheStable DEF EmbInv
  <1> QED BY <1>4, <1>5, <1>19, <1>20, CallStep

\* The rows of a document: one for every chunk, with the two vectors at the
\* place of the chunk in the flat list.
RowsFit(c, r, i) ==
    /\ chunk_text(r.docs[i]) # << >>
    /\ \A q \in DocRows(c, i) :
          /\ q.domain = r.domain /\ q.doc = r.docs[i]
          /\ \E k \in 1 .. Len(chunk_text(r.docs[i])) :
                /\ q.range = chunk_text(r.docs[i])[k].range
                /\ q.text = chunk_text(r.docs[i])[k].text
          /\ Good(q.embedding, "Document", q.text)
          /\ IF q.domain = "on" THEN Good(q.clustering, "Clustering", q.text)
             ELSE q.clustering = Zero
    /\ \A k \in 1 .. Len(chunk_text(r.docs[i])) : \E q \in DocRows(c, i) :
          q.range = chunk_text(r.docs[i])[k].range

\* These are the rows of a document that is not skipped.
LEMMA RowsOfDocument ==
    ASSUME NEW c, NEW r, r = call[c], CallOK(r), Slots, r.pc = "lookup", r.work = << >>,
           r.role = "Clustering", NEW i \in 1 .. Len(r.docs), ~Skipped(c, i)
    PROVE  RowsFit(c, r, i)
  <1>1. r \in CallType /\ r.kind = "push" /\ GotOK(r) /\ FirstOK(r)
        /\ Aligned(r.work, Flat(r), Len(r.got))
    BY DEF CallOK, CallType
  <1>2. r.docs \in Seq(Seq(Nat)) /\ Flat(r) = FlatTexts(r.docs) /\ r.domain \in {"on", "off"}
    BY <1>1 DEF CallType, Flat
  <1>3. PICK docs, t, ch : docs = r.docs /\ t = FlatTexts(docs) /\ ch = chunk_text(docs[i])
    OBVIOUS
  <1>4. docs[i] \in Seq(Nat) /\ ch \in Seq(Chunk)
    BY <1>2, <1>3, ElementOfSeq, ChunksMean
  <1>5. PICK m \in Nat : m = Len(ch)
    BY <1>4, LenProperties
  <1>6. PICK o \in Nat : At(docs, i, o)
    BY <1>2, <1>3, FlatMeans
  <1>7. /\ FlatRange(docs, i) = o + 1 .. o + m /\ o + m <= Len(t)
        /\ \A k \in 1 .. m : t[o + k] = ch[k].text
    BY ONLY <1>3, <1>5, <1>6 DEF At
  <1>8. /\ Len(r.first) = Len(t) /\ Len(r.got) = Len(t) /\ Len(t) \in Nat
    <2>1. Len(r.first) = Len(t)
      BY ONLY <1>1, <1>2, <1>3, r.role = "Clustering" DEF FirstOK
    <2>2. Len(r.got) = Len(t)
      BY ONLY <1>1, <1>2, <1>3, r.work = << >>, AlignedEnd
    <2>3. t \in Seq(Seq(Nat))
      BY <1>2, <1>3, FlatMeans
    <2> QED BY <2>1, <2>2, <2>3, LenProperties
  <1>9. ch # << >> /\ \A k \in o + 1 .. o + m : r.first[k] # Failed /\ r.got[k] # Failed
    BY ONLY ~Skipped(c, i), r = call[c], <1>3, <1>7 DEF Skipped
  <1>10. m # 0
    BY <1>4, <1>5, <1>9, EmptySeq
  <1>11. PICK offset : offset = CHOOSE x \in 0 .. Len(r.first) :
              \A k \in FlatRange(docs, i) : k > x /\ (x + 1) \in FlatRange(docs, i)
    OBVIOUS
  <1>12. offset = o
    <2>1. o \in 0 .. Len(r.first)
      BY <1>7, <1>8
    <2>2. \A k \in o + 1 .. o + m : k > o /\ (o + 1) \in o + 1 .. o + m
      BY <1>10
    <2>3. ASSUME NEW x \in 0 .. Len(r.first),
                 \A k \in o + 1 .. o + m : k > x /\ (x + 1) \in o + 1 .. o + m
          PROVE  x = o
      <3>1. o + 1 \in o + 1 .. o + m
        BY <1>10
      <3>2. o + 1 > x /\ (x + 1) \in o + 1 .. o + m
        BY <2>3, <3>1
      <3> QED BY <1>8, <3>2
    <2>4. offset = CHOOSE x \in 0 .. Len(r.first) :
              \A k \in o + 1 .. o + m : k > x /\ (x + 1) \in o + 1 .. o + m
      BY ONLY <1>7, <1>11
    <2> QED BY ONLY <2>1, <2>2, <2>3, <2>4
  <1>13. DocRows(c, i) = {[domain |-> r.domain, doc |-> docs[i], range |-> ch[k].range,
            text |-> ch[k].text, embedding |-> r.first[o + k],
            clustering |-> r.got[o + k]] : k \in 1 .. m}
    <2>1. PICK x : x = CHOOSE y \in 0 .. Len(call[c].first) :
              \A k \in FlatRange(call[c].docs, i) : k > y /\ (y + 1) \in FlatRange(call[c].docs, i)
      OBVIOUS
    <2>2. DocRows(c, i) =
            {[domain |-> call[c].domain, doc |-> call[c].docs[i],
              range |-> chunk_text(call[c].docs[i])[k].range,
              text |-> chunk_text(call[c].docs[i])[k].text,
              embedding |-> call[c].first[x + k], clustering |-> call[c].got[x + k]]
                : k \in 1 .. Len(chunk_text(call[c].docs[i]))}
      BY ONLY <2>1, Zenon DEF DocRows
    <2>3. x = o
      <3>1. call[c].first = r.first /\ call[c].docs = docs
        BY <1>3
      <3> QED BY ONLY <1>11, <1>12, <2>1, <3>1
    <2>4. chunk_text(call[c].docs[i]) = ch /\ call[c].docs[i] = docs[i]
      BY <1>3
    <2>5. Len(chunk_text(call[c].docs[i])) = m
      BY ONLY <1>5, <2>4
    <2> QED BY ONLY r = call[c], <2>2, <2>3, <2>4, <2>5
  <1>14. ASSUME NEW k \in 1 .. m
         PROVE  /\ Good(r.first[o + k], "Document", ch[k].text)
                /\ IF r.domain = "on" THEN Good(r.got[o + k], "Clustering", ch[k].text)
                   ELSE r.got[o + k] = Zero
    <2>1. PICK x \in 1 .. Len(t) : x = o + k
      BY <1>7, <1>8
    <2>2. t[x] = ch[k].text /\ r.first[x] # Failed /\ r.got[x] # Failed
      <3>1. x \in o + 1 .. o + m
        BY <2>1
      <3> QED BY ONLY <1>7, <1>9, <1>14, <2>1, <3>1
    <2>3. Good(r.first[x], "Document", t[x])
      BY ONLY <1>1, <1>2, <1>3, <1>8, <2>1, <2>2, r.role = "Clustering" DEF FirstOK
    <2>4. IF r.domain = "on" THEN Good(r.got[x], "Clustering", t[x]) ELSE r.got[x] = Zero
      <3>1. IF r.role = "Clustering" /\ r.domain = "off" THEN r.got[x] = Zero
            ELSE Good(r.got[x], r.role, t[x]) \/ (r.got[x] = Failed /\ r.kind = "push")
        BY ONLY <1>1, <1>2, <1>3, <1>8, x \in 1 .. Len(t) DEF GotOK
      <3> QED BY ONLY <1>2, <2>2, <3>1, r.role = "Clustering"
    <2> QED BY ONLY <2>1, <2>2, <2>3, <2>4
  <1>15. ASSUME NEW q \in DocRows(c, i)
         PROVE  /\ q.domain = r.domain /\ q.doc = docs[i]
                /\ \E k \in 1 .. m : q.range = ch[k].range /\ q.text = ch[k].text
                /\ Good(q.embedding, "Document", q.text)
                /\ IF q.domain = "on" THEN Good(q.clustering, "Clustering", q.text)
                   ELSE q.clustering = Zero
    <2>1. PICK k \in 1 .. m :
              q = [domain |-> r.domain, doc |-> docs[i], range |-> ch[k].range,
                   text |-> ch[k].text, embedding |-> r.first[o + k],
                   clustering |-> r.got[o + k]]
      BY ONLY <1>13, <1>15
    <2>2. /\ q.domain = r.domain /\ q.doc = docs[i] /\ q.range = ch[k].range
          /\ q.text = ch[k].text /\ q.embedding = r.first[o + k]
          /\ q.clustering = r.got[o + k]
      BY ONLY <2>1
    <2> QED BY ONLY <1>14, <2>2, k \in 1 .. m
  <1>16. ASSUME NEW k \in 1 .. m
         PROVE  \E q \in DocRows(c, i) : q.range = ch[k].range
    <2>1. PICK q : q = [domain |-> r.domain, doc |-> docs[i], range |-> ch[k].range,
                        text |-> ch[k].text, embedding |-> r.first[o + k],
                        clustering |-> r.got[o + k]]
      OBVIOUS
    <2>2. q \in DocRows(c, i) /\ q.range = ch[k].range
      BY ONLY <1>13, <1>16, <2>1
    <2> QED BY <2>2
  <1> QED BY ONLY <1>3, <1>5, <1>9, <1>15, <1>16 DEF RowsFit

\* A row has its whole range, which fits in the window.
FitsWindow(q) ==
    /\ \E a \in 0 .. q.range[1], b \in q.range[2] .. Len(q.doc) :
          q.text = SubSeq(q.doc, a + 1, b)
    /\ \A role \in {"Document", "Clustering"} :
          PrefixTokens(RolePrefix(role)) + (q.range[2] - q.range[1]) <= Window

\* The rows of a push are written.
LEMMA ScatterStep ==
    ASSUME EmbInv, NEW c \in Callers, Scatter(c)
    PROVE  EmbInv'
  <1>1. PICK r, d : r = call[c] /\ d = [r EXCEPT !.pc = "done"]
    OBVIOUS
  <1>2. /\ r.pc = "lookup" /\ r.work = << >> /\ r.role = "Clustering"
        /\ UNCHANGED <<models, cache, embUp, primed>> /\ Update(c, d)
    BY <1>1 DEF Scatter
  <1>3. PICK I : I = {j \in 1 .. Len(r.docs) : ~Skipped(c, j)}
    OBVIOUS
  <1>4. stored' = stored \cup UNION {DocRows(c, i) : i \in I}
    BY ONLY Scatter(c), <1>1, <1>3 DEF Scatter
  <1>5. CallOK(r) /\ r \in CallType /\ Slots
    BY <1>1 DEF EmbInv, CallOK
  <1>6. CallOK(d)
    BY <1>1, <1>2, <1>5, DoneOK
  <1>7. \A x : CallOK(x) => CallOK(x)'
    BY <1>2, CallStable
  <1>8. call' \in [Callers -> CallType] /\ \A x \in Callers : CallOK(call[x])'
    <2>1. call' = [call EXCEPT ![c] = d] /\ call \in [Callers -> CallType] /\ d \in CallType
      BY <1>2, <1>6 DEF Update, EmbInv, CallOK
    <2>2. ASSUME NEW x \in Callers
          PROVE  CallOK(call[x])'
      <3>1. PICK s : s = call'[x]
        OBVIOUS
      <3>2. CallOK(s)
        <4>1. CASE x = c
          <5>1. s = d
            BY <2>1, <3>1, <4>1
          <5> QED BY ONLY <1>6, <5>1
        <4>2. CASE x # c
          <5>1. s = call[x] /\ CallOK(call[x])
            BY <2>1, <3>1, <4>2 DEF EmbInv
          <5> QED BY ONLY <5>1
        <4> QED BY <4>1, <4>2
      <3>3. CallOK(s)'
        BY <1>7, <3>2
      <3> QED BY ONLY <3>1, <3>3
    <2> QED BY <2>1, <2>2
  <1>9. \A v, role, text : Good(v, role, text) => Good(v, role, text)'
    BY <1>2, CallStable
  <1>10. \A role : RolePrefix(role)' = RolePrefix(role)
    BY <1>2, SameModels
  <1>11. ASSUME NEW i \in I
         PROVE  i \in 1 .. Len(r.docs) /\ ~Skipped(c, i) /\ r.docs[i] \in Seq(Nat)
    <2>1. r.docs \in Seq(Seq(Nat))
      BY <1>5 DEF CallType
    <2> QED BY <1>3, <2>1, ElementOfSeq
  <1>12. ASSUME NEW q \in stored', q \notin stored
         PROVE  \E i \in I : q \in DocRows(c, i)
    BY ONLY <1>4, <1>12
  <1>13. ASSUME NEW i \in I, NEW q \in DocRows(c, i)
         PROVE  /\ q.text \in Seq(Nat) /\ Good(q.embedding, "Document", q.text)
                /\ IF q.domain = "on" THEN Good(q.clustering, "Clustering", q.text)
                   ELSE q.clustering = Zero
                /\ q.domain = r.domain /\ q.doc = r.docs[i]
                /\ FitsWindow(q)
    <2>1. RowsFit(c, r, i)
      BY <1>1, <1>2, <1>5, <1>11, RowsOfDocument
    <2>2. PICK ch : ch = chunk_text(r.docs[i])
      OBVIOUS
    <2>3. PICK k \in 1 .. Len(ch) : q.text = ch[k].text /\ q.range = ch[k].range
      BY ONLY <1>13, <2>1, <2>2 DEF RowsFit
    <2>4. /\ ch \in Seq(Chunk) /\ ChunkBudget # 0
          /\ Cut(r.docs[i], ch[k].range, ch[k].text, ChunkBudget)
      BY <1>5, <1>11, <2>2, ChunksMean
    <2>5. ch[k].text \in Seq(Nat) /\ ch[k].range \in Nat \X Nat
      <3>1. ch[k] \in Chunk
        BY <2>4, ElementOfSeq
      <3> QED BY <3>1 DEF Chunk
    <2>6. PICK l, b : l = ch[k].range[2] - ch[k].range[1] /\ b = ChunkBudget /\ b \in Nat
      BY <1>5, BudgetFits
    <2>7. \A role \in {"Document", "Clustering"} :
             PrefixTokens(RolePrefix(role)) + b <= Window
      BY <1>5, <2>4, <2>6, BudgetFits
    <2>8. \A role : PrefixTokens(RolePrefix(role)) \in Nat
      BY ONLY Zenon DEF PrefixTokens
    <2>9. ASSUME NEW role \in {"Document", "Clustering"}
          PROVE  PrefixTokens(RolePrefix(role)) + l <= Window
      <3>1. PICK p \in Nat : p = PrefixTokens(RolePrefix(role))
        BY <2>8
      <3>2. l \in Int /\ l <= b
        BY <2>4, <2>5, <2>6 DEF Cut
      <3>3. p + b <= Window /\ Window \in Nat
        BY <2>7, <3>1, EmbAssumption
      <3> QED BY <2>6, <3>1, <3>2, <3>3
    <2>10. q.domain = r.domain /\ q.doc = r.docs[i]
      BY ONLY <1>13, <2>1 DEF RowsFit
    <2>11. FitsWindow(q)
      BY ONLY <2>3, <2>4, <2>6, <2>9, <2>10 DEF FitsWindow, Cut
    <2> QED BY ONLY <1>13, <2>1, <2>3, <2>5, <2>11 DEF RowsFit
  <1>14. ASSUME NEW i \in I, NEW x \in 1 .. Len(r.docs[i])
         PROVE  \E q \in stored' : /\ q.domain = r.domain /\ q.doc = r.docs[i]
                                   /\ x \in q.range[1] + 1 .. q.range[2]
    <2>1. PICK ch : ch = chunk_text(r.docs[i])
      OBVIOUS
    <2>2. ch # << >> /\ \A k \in 1 .. Len(ch) : \E q \in DocRows(c, i) : q.range = ch[k].range
      <3>1. RowsFit(c, r, i)
        BY <1>1, <1>2, <1>5, <1>11, RowsOfDocument
      <3> QED BY ONLY <2>1, <3>1 DEF RowsFit
    <2>3. PICK k \in 1 .. Len(ch) : x \in ch[k].range[1] + 1 .. ch[k].range[2]
      BY <1>5, <1>11, <2>1, <2>2, ChunksMean
    <2>4. PICK q \in DocRows(c, i) : q.range = ch[k].range
      BY ONLY <2>2, k \in 1 .. Len(ch)
    <2>5. q \in stored'
      BY ONLY <1>4, <1>14, q \in DocRows(c, i)
    <2>6. q.domain = r.domain /\ q.doc = r.docs[i]
      BY <1>13
    <2> QED BY ONLY <2>3, <2>4, <2>5, <2>6
  <1>15. RowsOK'
    <2>1. ASSUME NEW q \in stored'
          PROVE  /\ q.text \in Seq(Nat) /\ Good(q.embedding, "Document", q.text)
                 /\ IF q.domain = "on" THEN Good(q.clustering, "Clustering", q.text)
                    ELSE q.clustering = Zero
      <3>1. CASE q \in stored
        BY <3>1 DEF EmbInv, RowsOK
      <3>2. CASE q \notin stored
        BY <1>12, <1>13, <3>2
      <3> QED BY <3>1, <3>2
    <2> QED BY ONLY <1>9, <2>1 DEF RowsOK
  <1>16. EveryTokenIndexed'
    <2>1. ASSUME NEW q \in stored'
          PROVE  /\ \A x \in 1 .. Len(q.doc) : \E p \in stored' :
                       p.domain = q.domain /\ p.doc = q.doc /\ x \in p.range[1] + 1 .. p.range[2]
                 /\ FitsWindow(q)
      <3>1. CASE q \in stored
        <4>1. EveryTokenIndexed
          BY DEF EmbInv
        <4> QED BY ONLY <1>4, <3>1, <4>1 DEF EveryTokenIndexed, FitsWindow
      <3>2. CASE q \notin stored
        <4>1. PICK i \in I : q \in DocRows(c, i)
          BY <1>12, <3>2
        <4>2. /\ q.domain = r.domain /\ q.doc = r.docs[i]
              /\ FitsWindow(q)
          BY <1>13, <4>1
        <4> QED BY ONLY <1>14, i \in I, <4>2
      <3> QED BY <3>1, <3>2
    <2> QED BY ONLY <1>10, <2>1 DEF EveryTokenIndexed, FitsWindow
  <1>17. CacheOK'
    BY <1>2, CacheStable DEF EmbInv
  <1>18. Slots' /\ primed' \in BOOLEAN /\ embUp' \in BOOLEAN
    BY <1>2 DEF EmbInv, Slots, models
  <1> QED BY ONLY <1>8, <1>15, <1>16, <1>17, <1>18 DEF EmbInv

-----------------------------------------------------------------------------
(* The server and prime-embed-cache.                                       *)

\* A stop ends all calls and may lose what was put into the cache last.
LEMMA StopStep ==
    ASSUME EmbInv, StopServer
    PROVE  EmbInv'
  <1>1. PICK K \in {{}} \cup {{k} : k \in DOMAIN cache} :
            cache' = [k \in DOMAIN cache \ K |-> cache[k]]
    BY DEF StopServer
  <1>2. UNCHANGED <<models, stored, primed>> /\ embUp' = FALSE /\ call' = [c \in Callers |-> NoCall]
    BY DEF StopServer
  <1>3. CacheOK'
    BY <1>1, <1>2 DEF CacheOK, EmbInv
  <1>4. RowsOK' /\ EveryTokenIndexed'
    BY <1>2, RowsStable DEF EmbInv
  <1>5. CallOK(NoCall) /\ NoCall \in CallType
    <2>1. 0 \in Nat
      OBVIOUS
    <2> QED BY <2>1, NoCallOK DEF CallOK
  <1>6. ASSUME NEW c \in Callers
        PROVE  CallOK(call[c])'
    <2>1. PICK r : r = NoCall
      OBVIOUS
    <2>2. CallOK(r)'
      BY <1>2, <1>5, <2>1, CallStable
    <2>3. call'[c] = r
      BY <1>2, <2>1
    <2> QED BY ONLY <2>2, <2>3
  <1>7. call' \in [Callers -> CallType]
    BY <1>2, <1>5
  <1>8. Slots' /\ primed' \in BOOLEAN /\ embUp' \in BOOLEAN
    BY <1>2 DEF EmbInv, Slots, models
  <1> QED BY ONLY <1>3, <1>4, <1>6, <1>7, <1>8 DEF EmbInv

\* Nothing but the server's state or the cache changes.
LEMMA IdleStep ==
    ASSUME EmbInv, UNCHANGED <<models, stored, call>>, CacheOK', primed => primed',
           primed' \in BOOLEAN, embUp' \in BOOLEAN
    PROVE  EmbInv'
  <1>1. RowsOK' /\ EveryTokenIndexed'
    BY RowsStable DEF EmbInv
  <1>2. ASSUME NEW c \in Callers
        PROVE  CallOK(call[c])'
    <2>1. PICK r : r = call[c]
      OBVIOUS
    <2>2. CallOK(r)
      BY <2>1 DEF EmbInv
    <2>3. CallOK(r)'
      BY <2>2, CallStable
    <2>4. call'[c] = r
      BY <2>1
    <2> QED BY ONLY <2>3, <2>4
  <1>3. Slots' /\ call' \in [Callers -> CallType]
    BY DEF EmbInv, Slots, models
  <1> QED BY <1>1, <1>2, <1>3 DEF EmbInv

\* The stored vectors become entries under the keys of their texts.
LEMMA PrimeStep ==
    ASSUME EmbInv, prime_embed_cache
    PROVE  EmbInv'
  <1>1. PICK d \in {"on", "off"}, include_clustering \in BOOLEAN :
         LET of == {r \in stored : r.domain = d}
             asDoc == {<<cache_key("Document", r.text), r.embedding>> : r \in of}
             asClu == IF include_clustering
                      THEN {<<cache_key("Clustering", r.text), r.clustering>> : r \in of}
                      ELSE {}
             cluKeys == {e[1] : e \in asClu}
             entries == asClu \cup {e \in asDoc : e[1] \notin cluKeys}
             keys == {e[1] : e \in entries}
         IN  /\ of # {}
             /\ cache' = [k \in DOMAIN cache \cup keys |->
                            IF k \in keys THEN (CHOOSE e \in entries : e[1] = k)[2]
                            ELSE cache[k]]
             /\ primed' = (primed \/ \E e \in entries : e[2] = Zero)
    BY DEF prime_embed_cache
  <1>2. PICK asDoc : asDoc = {<<cache_key("Document", r.text), r.embedding>> :
                                 r \in {r \in stored : r.domain = d}}
    OBVIOUS
  <1>3. PICK asClu : asClu = IF include_clustering
                      THEN {<<cache_key("Clustering", r.text), r.clustering>> :
                               r \in {r \in stored : r.domain = d}}
                      ELSE {}
    OBVIOUS
  <1>4. PICK entries : entries = asClu \cup {e \in asDoc : e[1] \notin {x[1] : x \in asClu}}
    OBVIOUS
  <1>5. PICK keys : keys = {e[1] : e \in entries}
    OBVIOUS
  <1>6. /\ cache' = [k \in DOMAIN cache \cup keys |->
                            IF k \in keys THEN (CHOOSE e \in entries : e[1] = k)[2]
                            ELSE cache[k]]
        /\ primed' = (primed \/ \E e \in entries : e[2] = Zero)
    BY ONLY <1>1, <1>2, <1>3, <1>4, <1>5
  <1>7. RowsOK /\ CacheOK /\ Slots /\ primed \in BOOLEAN /\ embUp \in BOOLEAN
    BY DEF EmbInv
  <1>8. ASSUME NEW r \in stored, NEW role \in {"Document", "Clustering"}
        PROVE  r.text \in Seq(Nat) /\ VectorOf(role, r.text) \in Vectors
               /\ cache_key(role, r.text) = VectorOf(role, r.text)
    BY <1>7, VectorType DEF RowsOK, Roles
  <1>9. ASSUME NEW e \in entries
        PROVE  e[1] \in Vectors /\ (e[2] = e[1] \/ e[2] = Zero)
    <2>1. CASE e \in asDoc
      <3>1. PICK r \in stored : e = <<cache_key("Document", r.text), r.embedding>>
        BY ONLY <1>2, <2>1
      <3>2. e[1] = VectorOf("Document", r.text) /\ e[1] \in Vectors /\ e[2] = r.embedding
        BY <1>8, <3>1
      <3>3. Good(r.embedding, "Document", r.text)
        BY <1>7 DEF RowsOK
      <3> QED BY ONLY <3>2, <3>3 DEF Good
    <2>2. CASE e \in asClu
      <3>1. PICK r \in stored : e = <<cache_key("Clustering", r.text), r.clustering>>
        BY ONLY <1>3, <2>2
      <3>2. e[1] = VectorOf("Clustering", r.text) /\ e[1] \in Vectors /\ e[2] = r.clustering
        BY <1>8, <3>1
      <3>3. Good(r.clustering, "Clustering", r.text) \/ r.clustering = Zero
        BY <1>7 DEF RowsOK
      <3> QED BY ONLY <3>2, <3>3 DEF Good
    <2> QED BY ONLY <1>4, <1>9, <2>1, <2>2
  <1>10. ASSUME NEW k \in keys
         PROVE  k \in Vectors /\ (cache'[k] = k \/ (primed' /\ cache'[k] = Zero))
    <2>1. PICK e : e = CHOOSE x \in entries : x[1] = k
      OBVIOUS
    <2>2. e \in entries /\ e[1] = k
      BY ONLY <1>5, <1>10, <2>1
    <2>3. cache'[k] = e[2]
      BY ONLY <1>6, <1>10, <2>1
    <2>4. e[2] = Zero => primed'
      BY ONLY <1>6, <2>2
    <2> QED BY ONLY <1>9, <2>2, <2>3, <2>4
  <1>11. primed => primed'
    BY ONLY <1>6
  <1>12. ASSUME NEW k \in DOMAIN cache, k \notin keys
         PROVE  k \in Vectors /\ (cache'[k] = k \/ (primed' /\ cache'[k] = Zero))
    <2>1. cache'[k] = cache[k]
      BY ONLY <1>6, <1>12
    <2> QED BY ONLY <1>7, <1>11, <1>12, <2>1 DEF CacheOK
  <1>13. CacheOK'
    <2>1. DOMAIN cache' = DOMAIN cache \cup keys
      BY ONLY <1>6
    <2> QED BY ONLY <1>10, <1>12, <2>1 DEF CacheOK
  <1>14. primed' \in BOOLEAN
    BY ONLY <1>6, Zenon
  <1>15. UNCHANGED <<models, stored, call>> /\ embUp' = embUp
    BY DEF prime_embed_cache
  <1> QED BY <1>7, <1>11, <1>13, <1>14, <1>15, IdleStep

-----------------------------------------------------------------------------
(* The theorems.                                                           *)

\* Initially nothing has been embedded.
LEMMA EmbInitOK ==
    ASSUME EmbInit
    PROVE  EmbInv
  <1>1. CallOK(NoCall) /\ NoCall \in CallType
    <2>1. 0 \in Nat
      OBVIOUS
    <2> QED BY <2>1, NoCallOK DEF CallOK
  <1>2. call = [c \in Callers |-> NoCall] /\ cache = << >> /\ stored = {}
    BY DEF EmbInit
  <1>3. call \in [Callers -> CallType] /\ \A c \in Callers : CallOK(call[c])
    <2>1. \A c \in Callers : call[c] = NoCall
      BY <1>2
    <2> QED BY ONLY <1>1, <1>2, <2>1
  <1>4. DOMAIN cache = {}
    BY <1>2
  <1>5. CacheOK
    BY <1>4 DEF CacheOK
  <1>6. RowsOK /\ EveryTokenIndexed
    BY <1>2 DEF RowsOK, EveryTokenIndexed
  <1>7. Slots /\ primed \in BOOLEAN /\ embUp \in BOOLEAN
    BY DEF EmbInit, Slots
  <1> QED BY <1>3, <1>5, <1>6, <1>7 DEF EmbInv

\* Every step preserves the invariant.
LEMMA EmbStep ==
    ASSUME EmbInv, [EmbNext]_embVars
    PROVE  EmbInv'
  <1>1. CASE UNCHANGED embVars
    <2>1. UNCHANGED <<models, stored, call, cache, primed, embUp>>
      BY <1>1 DEF embVars
    <2>2. CacheOK'
      BY <2>1, CacheStable DEF EmbInv
    <2>3. primed' \in BOOLEAN /\ embUp' \in BOOLEAN /\ (primed => primed')
      BY <2>1 DEF EmbInv
    <2> QED BY <2>1, <2>2, <2>3, IdleStep
  <1>2. ASSUME NEW c \in Callers,
               \/ StartPush(c) \/ StartQuery(c) \/ Lookup(c) \/ Reply(c) \/ Blip(c)
               \/ Superseded(c) \/ SecondRole(c) \/ Scatter(c) \/ AnswerQuery(c) \/ Return(c)
        PROVE  EmbInv'
    BY <1>2, StartPushStep, StartQueryStep, LookupStep, ReplyStep, BlipStep, EndStep,
       SecondRoleStep, ScatterStep, AnswerQueryStep
  <1>3. CASE StartServer
    <2>1. UNCHANGED <<models, stored, call, cache, primed>> /\ embUp' = TRUE
      BY <1>3 DEF StartServer
    <2>2. CacheOK'
      BY <2>1, CacheStable DEF EmbInv
    <2>3. primed' \in BOOLEAN /\ embUp' \in BOOLEAN /\ (primed => primed')
      BY <2>1 DEF EmbInv
    <2> QED BY <2>1, <2>2, <2>3, IdleStep
  <1> QED BY <1>1, <1>2, <1>3, StopStep, PrimeStep DEF EmbNext

\* The invariant holds.
LEMMA EmbInvHolds == EmbSpec => []EmbInv
  <1>1. EmbInit => EmbInv
    BY EmbInitOK
  <1>2. EmbInv /\ [EmbNext]_embVars => EmbInv'
    BY EmbStep
  <1> QED BY <1>1, <1>2, PTL DEF EmbSpec

\* The requests, the keys of the cache and the flags keep their types.
THEOREM EmbeddingTypes == EmbSpec => []EmbTypeOK
  <1>1. EmbInv => EmbTypeOK
    <2>1. ASSUME NEW k \in Vectors
          PROVE  Len(k) = 3
      BY DEF Vectors
    <2> QED BY <2>1 DEF EmbInv, CacheOK, CallType, EmbTypeOK
  <1> QED BY <1>1, EmbInvHolds, PTL

\* io_embed, the cache and the scatter never give a text, model or role the
\* vector of another, however batches, retries, restarts and concurrent
\* requests interleave; only primed zeros may stand in for a vector.
THEOREM VectorsAreOwn == EmbSpec => []OwnVectors
  <1>1. EmbInv => OwnVectors
    <2>1. SUFFICES ASSUME EmbInv
                   PROVE  OwnVectors
      OBVIOUS
    <2>2. \A r \in stored :
              /\ Good(r.embedding, "Document", r.text)
              /\ IF r.domain = "on" THEN Good(r.clustering, "Clustering", r.text)
                 ELSE r.clustering = Zero
      BY <2>1 DEF EmbInv, RowsOK
    <2>3. ASSUME NEW c \in Callers, call[c].kind = "query", call[c].got # << >>
          PROVE  Good(call[c].got[1], "Query", call[c].docs[1])
      <3>1. PICK r : r = call[c]
        OBVIOUS
      <3>2. CallOK(r) /\ r \in CallType /\ r.kind = "query"
        BY <2>1, <2>3, <3>1 DEF EmbInv, CallOK
      <3>3. GotOK(r) /\ r.role = "Query" /\ Flat(r) = r.docs
        BY <3>2 DEF CallOK, Flat
      <3>4. 1 \in 1 .. Len(r.got)
        <4>1. r.got \in Seq(Value) /\ r.got # << >>
          BY <2>3, <3>1, <3>2 DEF CallType
        <4>2. Len(r.got) \in Nat \ {0}
          BY <4>1, EmptySeq, LenProperties
        <4> QED BY <4>2
      <3> QED BY ONLY <3>1, <3>2, <3>3, <3>4 DEF GotOK
    <2> QED BY ONLY <2>2, <2>3 DEF OwnVectors, Good
  <1> QED BY <1>1, EmbInvHolds, PTL

\* chunk_text leaves out no token of an indexed document, the text of a row has
\* every token of its range, and by the chunker's count a range with the prefix
\* of either role is no longer than the window.
THEOREM TokensAreIndexed == EmbSpec => []EveryTokenIndexed
  <1>1. EmbInv => EveryTokenIndexed
    BY DEF EmbInv
  <1> QED BY <1>1, EmbInvHolds, PTL

\* Every document that is lost without a bad token of its own has a chunk
\* whose failure was charged, and no two share one.
LEMMA LostAreCharged ==
    ASSUME Slots, Window > 2, NEW c, NEW r, r = call[c], CallOK(r), r.pc = "done",
           r.kind = "push", NEW lost,
           lost = {i \in 1 .. Len(r.docs) : ~Toxic(r.docs[i]) /\ Skipped(c, i)}
    PROVE  /\ Cardinality(lost) \in Nat /\ Charged(r) \in Nat
           /\ Cardinality(lost) <= Charged(r)
  <1>1. /\ r \in CallType /\ r.work = << >> /\ r.role = "Clustering" /\ FirstOK(r)
        /\ Aligned(r.work, Flat(r), Len(r.got))
    BY DEF CallOK, CallType
  <1>2. PICK docs, t : docs = r.docs /\ t = FlatTexts(docs)
    OBVIOUS
  <1>3. /\ docs \in Seq(Seq(Nat)) /\ t = Flat(r) /\ r.first \in Seq(Value) /\ r.got \in Seq(Value)
    BY <1>1, <1>2 DEF CallType, Flat
  <1>4. Len(r.first) = Len(t) /\ Len(r.got) = Len(t)
    <2>1. Len(r.first) = Len(t)
      BY ONLY <1>1, <1>3 DEF FirstOK
    <2>2. Len(r.got) = Len(t)
      BY ONLY <1>1, <1>3, AlignedEnd
    <2> QED BY <2>1, <2>2
  <1>5. PICK A, B : A = Innocent(r.first, t) /\ B = Innocent(r.got, t)
    OBVIOUS
  <1>6. IsFiniteSet(A) /\ IsFiniteSet(B) /\ Cardinality(A) \in Nat /\ Cardinality(B) \in Nat
    BY <1>3, <1>5, InnocentFinite
  <1>7. Charged(r) = Cardinality(A) + Cardinality(B)
    BY ONLY <1>3, <1>5 DEF Charged
  <1>8. /\ IsFiniteSet(A \cup B) /\ Cardinality(A \cup B) \in Nat
        /\ Cardinality(A \cup B) <= Cardinality(A) + Cardinality(B)
    <2>1. /\ IsFiniteSet(A \cup B)
          /\ Cardinality(A \cup B) = Cardinality(A) + Cardinality(B) - Cardinality(A \cap B)
      BY <1>6, FS_Union
    <2>2. IsFiniteSet(A \cap B)
      <3>1. A \cap B \subseteq A
        OBVIOUS
      <3> QED BY <1>6, <3>1, FS_Subset
    <2>3. Cardinality(A \cap B) \in Nat /\ Cardinality(A \cup B) \in Nat
      BY <2>1, <2>2, FS_CardinalityType
    <2> QED BY <1>6, <2>1, <2>3
  <1>9. ASSUME NEW i \in lost
        PROVE  \E k \in A \cup B : k \in FlatRange(docs, i)
    <2>1. i \in 1 .. Len(docs) /\ ~Toxic(docs[i]) /\ Skipped(c, i)
      BY <1>2, <1>9
    <2>2. chunk_text(docs[i]) # << >>
      <3>1. docs[i] \in Seq(Nat)
        BY <1>3, <2>1, ElementOfSeq
      <3> QED BY <3>1, ChunksMean
    <2>3. PICK k \in FlatRange(docs, i) : r.first[k] = Failed \/ r.got[k] = Failed
      BY ONLY <1>2, <2>1, <2>2, r = call[c] DEF Skipped
    <2>4. k \in 1 .. Len(t) /\ ~Toxic(t[k])
      BY <1>2, <1>3, <2>1, <2>3, FlatPart
    <2>5. k \in A \cup B
      BY ONLY <1>4, <1>5, <2>3, <2>4 DEF Innocent
    <2> QED BY <2>3, <2>5
  <1>10. PICK f : f = [i \in lost |-> CHOOSE k \in A \cup B : k \in FlatRange(docs, i)]
    OBVIOUS
  <1>11. f \in [lost -> A \cup B] /\ \A i \in lost : f[i] \in FlatRange(docs, i)
    BY ONLY <1>9, <1>10
  <1>12. \A i, j \in lost : i # j => f[i] # f[j]
    <2>1. \A i \in lost : i \in 1 .. Len(docs)
      BY <1>2
    <2>2. \A i, j \in 1 .. Len(docs) : i # j => FlatRange(docs, i) \cap FlatRange(docs, j) = {}
      BY <1>3, FlatMeans
    <2> QED BY ONLY <1>11, <2>1, <2>2
  <1>13. IsFiniteSet(lost) /\ Cardinality(lost) \in Nat
    <2>1. lost \subseteq 1 .. Len(docs) /\ Len(docs) \in Nat
      BY <1>2, <1>3, LenProperties
    <2>2. IsFiniteSet(1 .. Len(docs))
      BY <2>1, FS_Interval
    <2>3. IsFiniteSet(lost)
      BY ONLY <2>1, <2>2, FS_Subset
    <2> QED BY ONLY <2>3, FS_CardinalityType
  <1>14. ~(Cardinality(A \cup B) < Cardinality(lost))
    BY ONLY <1>8, <1>11, <1>12, <1>13, FS_PigeonHole
  <1> QED BY ONLY <1>6, <1>7, <1>8, <1>13, <1>14

\* io_embed_batched confines failures: of the documents without a bad token
\* no more are lost than requests failed for a transient reason, and fewer
\* when no rejected text had split the batches.  The window must hold the
\* longest prefix, or no document could be chunked.
THEOREM FailuresAreIsolated ==
    ASSUME Window > 2
    PROVE  EmbSpec => []IsolatedFailures
  <1>1. EmbInv => IsolatedFailures
    <2>1. SUFFICES ASSUME EmbInv, NEW c \in Callers, call[c].pc = "done", call[c].kind = "push"
                   PROVE  LET docs == 1 .. Len(call[c].docs)
                              toxic == {i \in docs : Toxic(call[c].docs[i])}
                              lost == Cardinality({i \in docs \ toxic : Skipped(c, i)})
                          IN  /\ lost <= call[c].blips
                              /\ toxic = {} /\ lost > 0 => lost < call[c].blips
      BY DEF IsolatedFailures
    <2>2. PICK r : r = call[c]
      OBVIOUS
    <2>3. CallOK(r) /\ Slots /\ r.pc = "done" /\ r.kind = "push" /\ ChargeOK(r) /\ r.blips \in Nat
      BY <2>1, <2>2 DEF EmbInv, CallOK, CallType
    <2>4. PICK lost : lost = {i \in 1 .. Len(r.docs) : ~Toxic(r.docs[i]) /\ Skipped(c, i)}
      OBVIOUS
    <2>5. /\ Cardinality(lost) \in Nat /\ Charged(r) \in Nat
          /\ Cardinality(lost) <= Charged(r)
      BY <2>2, <2>3, <2>4, LostAreCharged
    <2>6. PICK toxic : toxic = {i \in 1 .. Len(r.docs) : Toxic(r.docs[i])}
      OBVIOUS
    <2>7. {i \in (1 .. Len(r.docs)) \ toxic : Skipped(c, i)} = lost
      BY ONLY <2>4, <2>6
    <2>8. Cardinality(lost) <= r.blips
      BY <2>3, <2>5 DEF ChargeOK
    <2>9. ASSUME toxic = {}, Cardinality(lost) > 0
          PROVE  Cardinality(lost) < r.blips
      <3>1. ~(\E i \in 1 .. Len(r.docs) : Toxic(r.docs[i]))
        BY ONLY <2>6, <2>9
      <3>2. Charged(r) < r.blips \/ Charged(r) = 0
        BY ONLY <2>3, <3>1 DEF ChargeOK
      <3> QED BY <2>3, <2>5, <2>9, <3>2
    <2> QED BY ONLY <2>2, <2>6, <2>7, <2>8, <2>9
  <1> QED BY <1>1, EmbInvHolds, PTL

=============================================================================
