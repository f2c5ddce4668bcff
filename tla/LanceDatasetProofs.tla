------------------------- MODULE LanceDatasetProofs -------------------------
(***************************************************************************)
(* What the operators of LanceDataset return and preserve.  The idea that  *)
(* carries the store's theorems is Grows: a history is only ever appended  *)
(* to, so a version that a tag names keeps its rows.                       *)
(***************************************************************************)
EXTENDS LanceDataset, SequenceTheorems, TLAPS

\* h2 has every version of h1, with the same rows.
Grows(h1, h2) ==
    \A b \in Branch :
        /\ Len(h1[b]) <= Len(h2[b])
        /\ \A v \in 1 .. Len(h1[b]) : h2[b][v] = h1[b][v]

\* A branch exists only in a dataset that exists.
Rooted(h) == \A b \in Branch : BranchExists(h, b) => DatasetExists(h)

\* A branch exists exactly if its history has a version.
LEMMA ExistsLen ==
    ASSUME NEW h \in Histories, NEW b \in Branch
    PROVE  /\ Len(h[b]) \in Nat
           /\ BranchExists(h, b) <=> Len(h[b]) > 0
  BY EmptySeq, LenProperties DEF Histories, BranchExists

\* The newest version of an existing branch is a set of rows.
LEMMA HeadRowsType ==
    ASSUME NEW h \in Histories, NEW b \in Branch, BranchExists(h, b)
    PROVE  HeadRows(h, b) \in SUBSET Row
  <1>1. Len(h[b]) \in 1 .. Len(h[b])
    BY ExistsLen
  <1> QED BY <1>1, ElementOfSeq DEF HeadRows, Histories

\* Opening by the creating path keeps what is there.
LEMMA EnsureDatasetGrows ==
    ASSUME NEW h \in Histories
    PROVE  /\ EnsureDataset(h) \in Histories
           /\ DatasetExists(EnsureDataset(h))
           /\ Rooted(EnsureDataset(h))
           /\ Grows(h, EnsureDataset(h))
  <1> USE MainAssumption
  <1>1. CASE DatasetExists(h)
    BY <1>1, ExistsLen DEF EnsureDataset, Rooted, Grows
  <1>2. CASE ~DatasetExists(h)
    <2> DEFINE one == << {} >>
    <2>1. /\ one \in Seq(SUBSET Row) /\ Len(one) = 1 /\ one # << >>
      OBVIOUS
    <2>2. EnsureDataset(h) = [h EXCEPT ![Main] = one]
      BY <1>2 DEF EnsureDataset
    <2>3. EnsureDataset(h) \in Histories /\ EnsureDataset(h)[Main] = one
      BY <2>1, <2>2 DEF Histories
    <2>4. \A b \in Branch \ {Main} : EnsureDataset(h)[b] = h[b]
      BY <2>2 DEF Histories
    <2>5. Len(h[Main]) = 0
      BY <1>2, ExistsLen DEF DatasetExists, BranchExists
    <2> HIDE DEF one
    <2> QED BY <2>1, <2>3, <2>4, <2>5, ExistsLen
            DEF Rooted, Grows, DatasetExists, BranchExists
  <1> QED BY <1>1, <1>2

\* A write appends one version to one branch.
LEMMA AddVersionGrows ==
    ASSUME NEW h \in Histories, NEW b \in Branch, NEW rows \in SUBSET Row,
           BranchExists(h, b)
    PROVE  /\ AddVersion(h, b, rows) \in Histories
           /\ Grows(h, AddVersion(h, b, rows))
           /\ Rooted(h) => Rooted(AddVersion(h, b, rows))
           /\ AddVersion(h, b, rows)[b] = Append(h[b], rows)
  <1> USE MainAssumption
  <1> DEFINE g == AddVersion(h, b, rows)
  <1>1. /\ Append(h[b], rows) \in Seq(SUBSET Row)
        /\ Len(Append(h[b], rows)) = Len(h[b]) + 1
        /\ \A v \in 1 .. Len(h[b]) : Append(h[b], rows)[v] = h[b][v]
    BY AppendProperties DEF Histories
  <1>2. g \in Histories /\ g[b] = Append(h[b], rows)
    BY <1>1 DEF Histories, AddVersion
  <1>3. \A c \in Branch \ {b} : g[c] = h[c]
    BY DEF Histories, AddVersion
  <1>4. Grows(h, g)
    BY <1>1, <1>2, <1>3, ExistsLen DEF Grows
  <1>5. Rooted(h) => Rooted(g)
    BY <1>1, <1>2, <1>3, ExistsLen DEF Rooted, DatasetExists, BranchExists
  <1> QED BY <1>2, <1>4, <1>5

\* A fork of an existing version creates its branch and nothing else.
LEMMA ForkAtGrows ==
    ASSUME NEW h \in Histories, NEW b \in Branch, ~BranchExists(h, b),
           NEW src \in Branch, NEW v \in 1 .. Len(h[src]), Rooted(h)
    PROVE  /\ ForkAt(h, b, src, v) \in Histories
           /\ Grows(h, ForkAt(h, b, src, v))
           /\ Rooted(ForkAt(h, b, src, v))
  <1> USE MainAssumption
  <1> DEFINE g == ForkAt(h, b, src, v)
  <1>1. h[src] \in Seq(SUBSET Row) /\ Len(h[src]) \in Nat /\ Len(h[b]) = 0
    BY ExistsLen DEF Histories
  <1>2. /\ SubSeq(h[src], 1, v) \in Seq(SUBSET Row)
        /\ Len(SubSeq(h[src], 1, v)) = v
    BY <1>1, SubSeqProperties
  <1>3. g \in Histories /\ g[b] = SubSeq(h[src], 1, v)
    BY <1>2 DEF Histories, ForkAt
  <1>4. \A c \in Branch \ {b} : g[c] = h[c]
    BY DEF Histories, ForkAt
  <1>5. Grows(h, g)
    <2>1. ASSUME NEW c \in Branch
          PROVE  /\ Len(h[c]) <= Len(g[c])
                 /\ \A w \in 1 .. Len(h[c]) : g[c][w] = h[c][w]
      <3> HIDE DEF g
      <3>1. CASE c = b
        BY <1>1, <1>2, <1>3, <3>1
      <3>2. CASE c # b
        BY <1>4, <3>2, ExistsLen
      <3> QED BY <3>1, <3>2
    <2> QED BY <2>1 DEF Grows
  <1>6. DatasetExists(h) /\ b # Main
    BY <1>1, ExistsLen DEF Rooted, DatasetExists, BranchExists
  <1>7. Rooted(g)
    BY <1>4, <1>6 DEF Rooted, DatasetExists, BranchExists
  <1> QED BY <1>3, <1>5, <1>7

\* Growing keeps branches, versions and the rows they show.
LEMMA GrowsKeeps ==
    ASSUME NEW h \in Histories, NEW g \in Histories, Grows(h, g),
           NEW b \in Branch
    PROVE  /\ BranchExists(h, b) => BranchExists(g, b)
           /\ \A pr, v : VersionExists(h, pr, b, v) =>
                 VersionExists(g, pr, b, v) /\ g[b][v] = h[b][v]
  <1>1. /\ Len(h[b]) \in Nat /\ Len(g[b]) \in Nat /\ Len(h[b]) <= Len(g[b])
        /\ \A v \in 1 .. Len(h[b]) : g[b][v] = h[b][v]
    BY ExistsLen DEF Grows
  <1>2. BranchExists(h, b) => BranchExists(g, b)
    BY <1>1, ExistsLen
  <1>3. ASSUME NEW pr, NEW v, VersionExists(h, pr, b, v)
        PROVE  VersionExists(g, pr, b, v) /\ g[b][v] = h[b][v]
    BY <1>1, <1>3 DEF VersionExists
  <1> QED BY <1>2, <1>3
=============================================================================
