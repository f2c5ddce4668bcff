----------------------------- MODULE SearchProofs -----------------------------
(***************************************************************************)
(* Theorems about Search, for any chain of commits, any deltas, requests   *)
(* and faults: what a request reads is the content of the commit it serves *)
(* (SnapshotReads), no nearer commit is passed over (ServedNearest), and a *)
(* 404 of the resolution is true (NotFoundIsTrue).                         *)
(***************************************************************************)
EXTENDS Search, LanceDatasetProofs, FiniteSetTheorems, WellFoundedInduction

\* What the push of c makes of the rows X.
After(c, X) == WithDocs(WithoutDocs(X, Delta[c].del), Delta[c].add, c)
Newest == IF DatasetExists(hist) THEN HeadRows(hist, Main) ELSE {}

PushType == [commit : Commit \cup {None}, pc : {"idle", "delete", "append", "tag", "cache"}]
StoreTypes ==
    /\ hist \in Histories /\ tags \in Tags
    /\ wip \in PushType
    /\ wip.pc = "idle" => wip = NoPush
    /\ wip.pc # "idle" => wip.commit \in Commit /\ DatasetExists(hist)

\* Tags are on the default branch and show the content of their commit.
TagsShow == \A c \in Tagged : /\ tags[c].branch = Main /\ tags[c].version \in 1 .. Len(hist[Main])
                              /\ hist[Main][tags[c].version] = Content[c]

\* The push in progress, or the next one after a failure, completes the content of its
\* commit.
StoreInv ==
    /\ TagsShow
    /\ wip.pc \in {"delete", "append", "tag"} => Tagged = 1 .. (wip.commit - 1)
    /\ \A c \in Commit : Tagged = 1 .. (c - 1) => After(c, Newest) = Content[c]
    /\ wip.pc = "append" => WithDocs(Newest, Delta[wip.commit].add, wip.commit) = Content[wip.commit]
    /\ wip.pc = "tag" => Newest = Content[wip.commit]

\* Types of the request; what is known at each of its steps.
ReaderTypes ==
    /\ rpc \in {"idle", "latest", "list", "lineage", "probe", "scan", "fetch", "answered"}
    /\ rpc # "idle" => rq \in ReadType
    /\ rpc = "idle" => rq = None
    /\ known \subseteq Commit /\ before \subseteq Commit
    /\ served \in Commit \cup {None} /\ got \in Seq(SUBSET Row)
    /\ rpc \in {"idle", "latest", "list", "lineage"} => served = None
    /\ rpc = "latest" => rq.commit = None
    /\ rpc \in {"list", "lineage"} => rq.commit \in Commit
    /\ rpc \in {"probe", "scan", "fetch"} => served \in Commit
    /\ served = None => got = << >>
Asked == IF rq.commit = None THEN rq.branch ELSE rq.path
NothingNearer(n) == /\ rq.commit \notin before
                    /\ \A i \in 1 .. n : rq.window[i] \notin before
ReaderInv ==
    /\ ~gone => before \subseteq Tagged
    /\ rpc = "lineage" => rq.commit \notin known /\ (~gone => before \subseteq known)
    /\ served # None /\ rq.commit # None /\ served # rq.commit =>
          \E i \in DOMAIN rq.window : served = rq.window[i] /\ (~gone => NothingNearer(i - 1))
    /\ Answered("notFound") /\ served = None /\ ~gone =>
          Asked # Main \/ NothingNearer(Len(rq.window))

-----------------------------------------------------------------------------
(* Numbers and contents.                                                   *)

\* A set of numbers has a smallest one.
LEMMA LeastNumber ==
    ASSUME NEW S \in SUBSET Nat, S # {}
    PROVE  Min(S) \in S /\ \A y \in S : Min(S) <= y
  <1>1. PICK x \in S : \A y \in S : ~(<<y, x>> \in OpToRel(<, Nat))
    BY NatLessThanWellFounded, WFMin
  <1>2. ASSUME NEW y \in S
        PROVE  x <= y
    <2>1. x \in Nat /\ y \in Nat
      OBVIOUS
    <2>2. <<y, x>> \notin {p \in Nat \X Nat : p[1] < p[2]}
      BY <1>1 DEF OpToRel
    <2>3. ~(y < x)
      BY <2>1, <2>2
    <2> QED BY <2>1, <2>3
  <1> QED BY <1>2 DEF Min

\* The commits are the numbers up to their count.
LEMMA CommitNumbers ==
    /\ Cardinality(Commit) \in Nat
    /\ \A c \in Commit : c \in Nat /\ c > 0 /\ c - 1 \in 0 .. Cardinality(Commit)
                         /\ c \in 0 .. Cardinality(Commit)
  <1>1. Cardinality(Commit) \in Nat
    BY ChainAssumption, FS_CardinalityType
  <1> QED BY <1>1, ChainAssumption

\* Content is what its recursive definition says: the least number up to which no
\* function solves the equations would be the successor of one up to which one does.
LEMMA ContentValue ==
    \A c \in 0 .. Cardinality(Commit) :
        Content[c] = IF c = 0 THEN {} ELSE After(c, Content[c - 1])
  <1> DEFINE N == Cardinality(Commit)
             Good(n, f) == f = [c \in 0 .. n |-> IF c = 0 THEN {} ELSE After(c, f[c - 1])]
             Bad == {n \in Nat : ~\E f : Good(n, f)}
  <1>0. N \in Nat
    BY CommitNumbers
  <1>1. Bad = {}
    <2>1. SUFFICES ASSUME Bad # {}
                   PROVE  FALSE
      OBVIOUS
    <2>2. PICK m \in Bad : \A n \in Bad : m <= n
      <3> HIDE DEF Bad
      <3>1. Bad \in SUBSET Nat
        BY DEF Bad
      <3> QED BY <2>1, <3>1, LeastNumber
    <2>3. m # 0
      <3> DEFINE f == [c \in 0 .. 0 |-> {}]
      <3>1. Good(0, f)
        OBVIOUS
      <3> QED BY <3>1
    <2>4. m - 1 \in Nat /\ m - 1 \notin Bad
      <3>1. m \in Nat
        OBVIOUS
      <3> HIDE DEF Bad
      <3>2. m - 1 \in Nat /\ ~(m <= m - 1)
        BY <2>3, <3>1
      <3> QED BY <2>2, <3>2
    <2>5. PICK f : Good(m - 1, f)
      BY <2>4
    <2> DEFINE g == [c \in 0 .. m |-> IF c = m THEN After(m, f[m - 1]) ELSE f[c]]
    <2>6. ASSUME NEW c \in 0 .. m
          PROVE  g[c] = IF c = 0 THEN {} ELSE After(c, g[c - 1])
      <3>1. CASE c = m
        <4>1. m - 1 \in 0 .. m /\ m - 1 # m
          BY <2>4
        <4>2. g[m - 1] = f[m - 1] /\ g[c] = After(m, f[m - 1])
          BY <3>1, <4>1
        <4> QED BY <2>3, <3>1, <4>2
      <3>2. CASE c # m
        <4>1. c \in 0 .. m - 1 /\ g[c] = f[c]
          BY <2>4, <3>2
        <4>2. f[c] = IF c = 0 THEN {} ELSE After(c, f[c - 1])
          BY <2>5, <4>1
        <4>3. c # 0 => c - 1 \in 0 .. m /\ c - 1 # m /\ g[c - 1] = f[c - 1]
          BY <2>4, <4>1
        <4> QED BY <4>1, <4>2, <4>3
      <3> QED BY <3>1, <3>2
    <2>7. Good(m, g)
      BY <2>6
    <2> QED BY <2>2, <2>7
  <1>2. PICK f : Good(N, f)
    BY <1>0, <1>1
  <1>3. Content = CHOOSE f_1 : Good(N, f_1)
    BY DEF Content, After
  <1>4. Good(N, Content)
    <2> HIDE DEF Good
    <2> QED BY <1>2, <1>3
  <1> QED BY <1>4

\* Repeating the delete, or the whole push, changes nothing.
LEMMA AfterAgain ==
    ASSUME NEW c \in Commit, NEW X \in SUBSET Row
    PROVE  /\ After(c, X) \in SUBSET Row /\ WithoutDocs(X, Delta[c].del) \in SUBSET Row
           /\ WithDocs(X, Delta[c].add, c) \in SUBSET Row
           /\ After(c, WithoutDocs(X, Delta[c].del)) = After(c, X)
           /\ After(c, After(c, X)) = After(c, X)
  <1> DEFINE del == Delta[c].del
             add == Delta[c].add
  <1>1. del \subseteq Doc /\ add \subseteq Doc /\ c \in Push
    BY DeltaAssumption, ChainAssumption
  <1> HIDE DEF del, add
  <1>2. add \X {c} \subseteq Row
    BY <1>1 DEF Row
  <1>3. \A Y : After(c, Y) = {r \in Y : r[1] \notin del} \cup (add \X {c})
    BY DEF After, WithDocs, WithoutDocs, del, add
  <1>4. /\ WithoutDocs(X, Delta[c].del) = {r \in X : r[1] \notin del}
        /\ WithDocs(X, Delta[c].add, c) = X \cup (add \X {c})
    BY DEF WithDocs, WithoutDocs, del, add
  <1> QED BY <1>2, <1>3, <1>4

\* A write to the default branch.
LEMMA Appended ==
    ASSUME NEW h \in Histories, DatasetExists(h), NEW R \in SUBSET Row, NEW g,
           g = AddVersion(h, Main, R)
    PROVE  /\ g \in Histories /\ DatasetExists(g) /\ HeadRows(g, Main) = R /\ Grows(h, g)
  <1>1. BranchExists(h, Main)
    BY DEF DatasetExists, BranchExists
  <1>2. g \in Histories /\ Grows(h, g) /\ g[Main] = Append(h[Main], R)
    BY <1>1, MainAssumption, AddVersionGrows
  <1>3. h[Main] \in Seq(SUBSET Row)
    BY MainAssumption DEF Histories
  <1>4. g[Main] # << >> /\ g[Main][Len(g[Main])] = R
    BY <1>2, <1>3
  <1> QED BY <1>2, <1>4 DEF DatasetExists, HeadRows

\* The default branch of an existing dataset shows rows.
LEMMA NewestType ==
    ASSUME hist \in Histories
    PROVE  Newest \in SUBSET Row
  BY MainAssumption, HeadRowsType DEF Newest, DatasetExists, BranchExists

\* Tags keep what they show while the history grows.
LEMMA TagsStillShow ==
    ASSUME hist \in Histories, hist' \in Histories, Grows(hist, hist'), TagsShow, tags' = tags
    PROVE  TagsShow'
  <1>1. /\ Len(hist[Main]) \in Nat /\ Len(hist'[Main]) \in Nat /\ Len(hist[Main]) <= Len(hist'[Main])
        /\ \A v \in 1 .. Len(hist[Main]) : hist'[Main][v] = hist[Main][v]
    BY MainAssumption, ExistsLen DEF Grows
  <1> QED BY <1>1 DEF TagsShow, Tagged

-----------------------------------------------------------------------------
(* The store.                                                              *)

\* An interval names its end.
LEMMA SamePrefix ==
    ASSUME NEW a \in Nat, NEW b \in Nat, 1 .. a = 1 .. b
    PROVE  a = b
  <1>1. a > 0 => a \in 1 .. b
    OBVIOUS
  <1>2. b > 0 => b \in 1 .. a
    OBVIOUS
  <1> QED BY <1>1, <1>2

\* A step that leaves the dataset alone, with no push in progress after it or the same.
LEMMA StoreIdle ==
    ASSUME StoreTypes, StoreInv, UNCHANGED <<hist, tags>>, wip' = wip \/ wip' = NoPush
    PROVE  StoreTypes' /\ StoreInv'
  <1>1. NoPush \in PushType /\ NoPush.pc = "idle"
    BY DEF NoPush, PushType
  <1>2. StoreTypes'
    BY <1>1 DEF StoreTypes
  <1>3. Tagged' = Tagged /\ Newest' = Newest
    BY DEF Tagged, Newest
  <1>4. StoreInv'
    <2>1. CASE wip' = wip
      BY <1>3, <2>1 DEF StoreInv, TagsShow
    <2>2. CASE wip' = NoPush
      BY <1>1, <1>3, <2>2 DEF StoreInv, TagsShow
    <2> QED BY <2>1, <2>2
  <1> QED BY <1>2, <1>4

\* The first step of a push opens the dataset.
LEMMA BeginKeeps ==
    ASSUME StoreTypes, StoreInv, NEW c \in Commit, PushBegin(c)
    PROVE  StoreTypes' /\ StoreInv'
  <1>0. /\ hist \in Histories /\ hist' = EnsureDataset(hist) /\ tags' = tags /\ Tagged = 1 .. (c - 1)
        /\ wip' = [commit |-> c, pc |-> "delete"]
    BY DEF StoreTypes, PushBegin
  <1>1. hist' \in Histories /\ DatasetExists(hist') /\ Grows(hist, hist')
    BY <1>0, EnsureDatasetGrows
  <1>2. Newest' = Newest
    <2>1. CASE DatasetExists(hist)
      BY <1>0, <2>1 DEF EnsureDataset, Newest
    <2>2. CASE ~DatasetExists(hist)
      <3>1. hist'[Main] = << {} >>
        BY <1>0, <2>2, MainAssumption DEF EnsureDataset, Histories
      <3>2. HeadRows(hist', Main) = {}
        BY <3>1 DEF HeadRows
      <3> QED BY <1>1, <2>2, <3>2 DEF Newest, HeadRows, DatasetExists
    <2> QED BY <2>1, <2>2
  <1>3. wip'.pc = "delete" /\ wip'.commit = c /\ wip' \in PushType
    BY <1>0 DEF PushType
  <1>4. StoreTypes'
    BY <1>0, <1>1, <1>3 DEF StoreTypes, DatasetExists
  <1>5. TagsShow'
    BY <1>0, <1>1, TagsStillShow DEF StoreInv, TagsShow
  <1>6. Tagged' = Tagged
    BY <1>0 DEF Tagged
  <1>7. StoreInv'
    BY <1>0, <1>2, <1>3, <1>5, <1>6 DEF StoreInv, TagsShow
  <1> QED BY <1>4, <1>7

\* The delete and the append of a push complete the content of its commit.
LEMMA WriteKeeps ==
    ASSUME StoreTypes, StoreInv, PushDelete \/ PushAppend
    PROVE  StoreTypes' /\ StoreInv'
  <1>0. PICK c : c = wip.commit
    OBVIOUS
  <1> DEFINE del == Delta[c].del
             add == Delta[c].add
  <1>1. /\ hist \in Histories /\ tags' = tags /\ wip \in PushType /\ wip.pc \in {"delete", "append"}
        /\ c \in Commit /\ DatasetExists(hist) /\ Tagged = 1 .. (c - 1)
    BY <1>0 DEF StoreTypes, StoreInv, PushDelete, PushAppend
  <1>2. Newest \in SUBSET Row /\ After(c, Newest) = Content[c] /\ Newest = HeadRows(hist, Main)
    BY <1>1, NewestType DEF StoreInv, Newest
  <1>a. Tagged' = Tagged
    BY <1>1 DEF Tagged
  <1>3. ASSUME NEW R \in SUBSET Row, hist' = AddVersion(hist, Main, R)
        PROVE  hist' \in Histories /\ DatasetExists(hist') /\ Newest' = R /\ TagsShow'
    <2>1. hist' \in Histories /\ DatasetExists(hist') /\ HeadRows(hist', Main) = R /\ Grows(hist, hist')
      BY <1>1, <1>3, Appended
    <2>2. Newest' = R
      BY <2>1 DEF Newest, DatasetExists, HeadRows
    <2> QED BY <1>1, <2>1, <2>2, TagsStillShow DEF StoreInv, TagsShow
  <1>4. ASSUME hist' = hist
        PROVE  hist' \in Histories /\ DatasetExists(hist') /\ Newest' = Newest /\ TagsShow'
    BY <1>1, <1>4, <1>a DEF StoreInv, TagsShow, Newest, DatasetExists
  <1>b. ASSUME hist' \in Histories, DatasetExists(hist'), wip' \in PushType, wip'.pc # "idle", wip'.commit = c
        PROVE  StoreTypes'
    BY <1>1, <1>b DEF StoreTypes, DatasetExists
  <1>c. ASSUME TagsShow', After(c, Newest') = Content[c], wip'.commit = c,
               wip'.pc = "append" => WithDocs(Newest', add, c) = Content[c],
               wip'.pc = "tag" => Newest' = Content[c]
        PROVE  StoreInv'
    <2>1. ASSUME NEW x \in Commit, Tagged' = 1 .. (x - 1)
          PROVE  After(x, Newest') = Content[x]
      <3>1. x - 1 \in Nat /\ c - 1 \in Nat
        BY <1>1, CommitNumbers
      <3>2. x - 1 = c - 1
        BY <1>1, <1>a, <2>1, <3>1, SamePrefix
      <3>3. x = c
        BY <1>1, <3>2, CommitNumbers
      <3> QED BY <1>c, <3>3
    <2> QED BY <1>1, <1>a, <1>c, <2>1 DEF StoreInv, TagsShow, After
  <1>5. CASE PushDelete
    <2>1. wip'.pc = "append" /\ wip'.commit = c /\ wip' \in PushType
      BY <1>0, <1>1, <1>5 DEF PushDelete, PushType
    <2>2. /\ hist' \in Histories /\ DatasetExists(hist') /\ TagsShow'
          /\ Newest' = WithoutDocs(Newest, del)
      <3>1. CASE del = {}
        <4>1. hist' = hist
          BY <1>0, <1>5, <3>1 DEF PushDelete
        <4>2. WithoutDocs(Newest, del) = Newest
          BY <3>1 DEF WithoutDocs
        <4> QED BY <1>4, <4>1, <4>2
      <3>2. CASE del # {}
        <4>1. hist' = AddVersion(hist, Main, WithoutDocs(Newest, del))
          BY <1>0, <1>2, <1>5, <3>2 DEF PushDelete
        <4>2. WithoutDocs(Newest, del) \in SUBSET Row
          BY <1>1, <1>2, AfterAgain
        <4> QED BY <1>3, <4>1, <4>2
      <3> QED BY <3>1, <3>2
    <2>3. After(c, Newest') = Content[c] /\ WithDocs(Newest', add, c) = Content[c]
      BY <1>1, <1>2, <2>2, AfterAgain DEF After
    <2> QED BY <1>b, <1>c, <2>1, <2>2, <2>3
  <1>6. CASE PushAppend
    <2>1. wip'.pc = "tag" /\ wip'.commit = c /\ wip' \in PushType
      BY <1>0, <1>1, <1>6 DEF PushAppend, PushType
    <2>2. WithDocs(Newest, add, c) = Content[c]
      BY <1>0, <1>6 DEF StoreInv, PushAppend
    <2>3. /\ hist' \in Histories /\ DatasetExists(hist') /\ TagsShow'
          /\ Newest' = WithDocs(Newest, add, c)
      <3>1. CASE add = {}
        <4>1. hist' = hist
          BY <1>0, <1>6, <3>1 DEF PushAppend
        <4>2. WithDocs(Newest, add, c) = Newest
          BY <3>1 DEF WithDocs
        <4> QED BY <1>4, <4>1, <4>2
      <3>2. CASE add # {}
        <4>1. hist' = AddVersion(hist, Main, WithDocs(Newest, add, c))
          BY <1>0, <1>2, <1>6, <3>2 DEF PushAppend
        <4>2. WithDocs(Newest, add, c) \in SUBSET Row
          BY <1>1, <1>2, AfterAgain
        <4> QED BY <1>3, <4>1, <4>2
      <3> QED BY <3>1, <3>2
    <2>4. After(c, Newest') = Content[c]
      <3>1. Newest' = After(c, Newest)
        BY <1>2, <2>2, <2>3
      <3>2. After(c, After(c, Newest)) = After(c, Newest)
        BY <1>1, <1>2, AfterAgain
      <3> QED BY <1>2, <3>1, <3>2
    <2> QED BY <1>b, <1>c, <2>1, <2>2, <2>3, <2>4
  <1> QED BY <1>5, <1>6

\* The tag is put on a version that has the content of the commit.
LEMMA TagKeeps ==
    ASSUME StoreTypes, StoreInv, PushTag
    PROVE  StoreTypes' /\ StoreInv'
  <1>0. PICK c : c = wip.commit
    OBVIOUS
  <1> DEFINE t == [branch |-> Main, version |-> Len(hist[Main]), at |-> c]
  <1>1. /\ hist \in Histories /\ tags \in Tags /\ wip \in PushType /\ c \in Commit /\ c \in Nat
        /\ DatasetExists(hist) /\ Tagged = 1 .. (c - 1) /\ Newest = Content[c]
    BY <1>0, CommitNumbers DEF StoreTypes, StoreInv, PushTag
  <1>2. /\ tags' = [tags EXCEPT ![c] = t] /\ hist' = hist
        /\ wip'.pc = "cache" /\ wip'.commit = c /\ wip' \in PushType
    BY <1>0, <1>1 DEF PushTag, PushType
  <1>3. Len(hist[Main]) \in Nat /\ Len(hist[Main]) \in 1 .. Len(hist[Main])
    BY <1>1, MainAssumption, ExistsLen DEF DatasetExists, BranchExists
  <1>4. /\ t \in Tag /\ t.branch = Main /\ t.version = Len(hist[Main]) /\ t # None
    BY <1>1, <1>3, MainAssumption, NoTagAssumption DEF Tag
  <1> HIDE DEF t
  <1>5. /\ tags' \in Tags /\ tags'[c] = t /\ \A x \in Commit \ {c} : tags'[x] = tags[x]
    BY <1>1, <1>2, <1>4 DEF Tags
  <1>6. StoreTypes'
    BY <1>1, <1>2, <1>5 DEF StoreTypes, DatasetExists
  <1>7. Tagged' = Tagged \cup {c}
    BY <1>1, <1>4, <1>5 DEF Tagged
  <1>8. TagsShow'
    <2>1. hist[Main][Len(hist[Main])] = Content[c]
      BY <1>1 DEF Newest, HeadRows
    <2>2. \A x \in Tagged \ {c} : x \in Commit /\ tags'[x] = tags[x]
      BY <1>5 DEF Tagged
    <2> QED BY <1>2, <1>3, <1>4, <1>5, <1>7, <2>1, <2>2 DEF TagsShow, StoreInv
  <1>9. Tagged' = 1 .. c
    BY <1>1, <1>7, CommitNumbers
  <1>10. ASSUME NEW x \in Commit, Tagged' = 1 .. (x - 1)
         PROVE  After(x, Newest') = Content[x]
    <2>1. x \in Nat /\ x - 1 \in Nat /\ x # 0 /\ x \in 0 .. Cardinality(Commit)
      BY CommitNumbers
    <2>2. x - 1 = c
      BY <1>1, <1>9, <1>10, <2>1, SamePrefix
    <2>3. Newest' = Content[x - 1]
      BY <1>1, <1>2, <2>2 DEF Newest
    <2> QED BY <2>1, <2>3, ContentValue
  <1>11. StoreInv'
    BY <1>2, <1>8, <1>10 DEF StoreInv, TagsShow, After
  <1> QED BY <1>6, <1>11

\* DELETE /domain starts the chain again.
LEMMA RemoveKeeps ==
    ASSUME StoreTypes, StoreInv, DeleteDomainRemove
    PROVE  StoreTypes' /\ StoreInv'
  <1>1. hist' = NoDataset /\ tags' = NoTags /\ wip' = NoPush /\ NoPush \in PushType /\ NoPush.pc = "idle"
    BY DEF DeleteDomainRemove, NoPush, PushType
  <1>2. hist' \in Histories /\ tags' \in Tags /\ ~DatasetExists(hist')
    BY <1>1, MainAssumption DEF NoDataset, NoTags, Histories, Tags, DatasetExists
  <1>3. Tagged' = {}
    BY <1>1 DEF Tagged, NoTags
  <1>4. Newest' = {}
    BY <1>2 DEF Newest, DatasetExists
  <1>5. ASSUME NEW c \in Commit, Tagged' = 1 .. (c - 1)
        PROVE  After(c, {}) = Content[c]
    <2>1. c \in Nat /\ c # 0 /\ c \in 0 .. Cardinality(Commit) /\ c - 1 \in Nat
          /\ 0 \in 0 .. Cardinality(Commit)
      BY CommitNumbers
    <2>2. 1 .. 0 = {}
      OBVIOUS
    <2>3. c - 1 = 0
      BY <1>3, <1>5, <2>1, <2>2, SamePrefix
    <2> QED BY <2>1, <2>3, ContentValue
  <1> QED BY <1>1, <1>2, <1>3, <1>4, <1>5 DEF StoreTypes, StoreInv, TagsShow, After

\* The store at the start, and after every step.
LEMMA StoreStep ==
    ASSUME StoreTypes, StoreInv, [Next]_vars
    PROVE  StoreTypes' /\ StoreInv'
  <1>1. CASE WriterNext
    <2>1. CASE PushCache \/ PushFails \/ DeleteDomainPurge
      BY <2>1, StoreIdle DEF PushCache, PushFails, DeleteDomainPurge
    <2> QED BY <1>1, <2>1, BeginKeeps, WriteKeeps, TagKeeps, RemoveKeeps DEF WriterNext
  <1>2. CASE ReaderNext \/ Restart
    <2>1. UNCHANGED <<hist, tags>> /\ (wip' = wip \/ wip' = NoPush)
      BY <1>2 DEF ReaderNext, Restart, Ask, Derive, Latest, ListTags, WalkAncestors, Probe, Scan, Fetch,
          ReadFails, store
    <2> QED BY <2>1, StoreIdle
  <1>3. CASE UNCHANGED vars
    BY <1>3, StoreIdle DEF vars, store
  <1> QED BY <1>1, <1>2, <1>3 DEF Next

\* There is no dataset at the start.
LEMMA StoreInit ==
    ASSUME Init
    PROVE  StoreTypes /\ StoreInv
  <1>1. hist = NoDataset /\ tags = NoTags /\ wip = NoPush /\ NoPush \in PushType /\ NoPush.pc = "idle"
    BY DEF Init, NoPush, PushType
  <1>2. hist \in Histories /\ tags \in Tags /\ ~DatasetExists(hist)
    BY <1>1, MainAssumption DEF NoDataset, NoTags, Histories, Tags, DatasetExists
  <1>3. Tagged = {} /\ Newest = {}
    BY <1>1, <1>2 DEF Tagged, NoTags, Newest
  <1>4. ASSUME NEW c \in Commit, Tagged = 1 .. (c - 1)
        PROVE  After(c, {}) = Content[c]
    <2>1. c \in Nat /\ c # 0 /\ c \in 0 .. Cardinality(Commit) /\ c - 1 \in Nat
          /\ 0 \in 0 .. Cardinality(Commit)
      BY CommitNumbers
    <2>2. 1 .. 0 = {}
      OBVIOUS
    <2>3. c - 1 = 0
      BY <1>3, <1>4, <2>1, <2>2, SamePrefix
    <2> QED BY <2>1, <2>3, ContentValue
  <1> QED BY <1>1, <1>2, <1>3, <1>4 DEF StoreTypes, StoreInv, TagsShow

-----------------------------------------------------------------------------
(* The reader.                                                             *)

ReaderFacts == ReaderTypes /\ ReaderInv /\ SnapshotReads

\* The walk finds the first commit of the window that is known, if there is one.
LEMMA NearestKnownProperties ==
    ASSUME NEW w \in Seq(Commit), known \subseteq Commit
    PROVE  LET c == NearestKnown(w)
           IN  /\ c = None => \A i \in 1 .. Len(w) : w[i] \notin known
               /\ c # None => \E i \in 1 .. Len(w) :
                     c = w[i] /\ c \in known /\ \A j \in 1 .. (i - 1) : w[j] \notin known
  <1> DEFINE I == {i \in 1 .. Len(w) : w[i] \in known}
  <1>1. NearestKnown(w) = IF I # {} THEN w[Min(I)] ELSE None
    <2>1. I # {} => Min(I) # 0
      <3>1. I \in SUBSET Nat /\ 0 \notin I
        OBVIOUS
      <3> HIDE DEF I
      <3> QED BY <3>1, LeastNumber
    <2> QED BY <2>1 DEF NearestKnown, SelectInSeq
  <1>2. CASE I = {}
    BY <1>1, <1>2
  <1>3. CASE I # {}
    <2>1. PICK i : i = Min(I)
      OBVIOUS
    <2>2. i \in I /\ \A j \in I : i <= j
      <3>1. I \in SUBSET Nat
        OBVIOUS
      <3> HIDE DEF I
      <3> QED BY <1>3, <2>1, <3>1, LeastNumber
    <2>3. i \in 1 .. Len(w) /\ w[i] \in known /\ w[i] # None
      BY <2>2, NoneAssumption
    <2>4. \A j \in 1 .. (i - 1) : w[j] \notin known
      BY <2>2, <2>3
    <2> QED BY <1>1, <1>3, <2>1, <2>3, <2>4
  <1> QED BY <1>2, <1>3

\* A step of a writer, or none: tags go only with the domain.
LEMMA WriterLeavesReader ==
    ASSUME StoreTypes, StoreInv, ReaderFacts, WriterNext \/ UNCHANGED vars
    PROVE  ReaderFacts'
  <1>1. UNCHANGED <<rpc, rq, known, served, got, status, before>>
    BY DEF WriterNext, PushBegin, PushDelete, PushAppend, PushTag, PushCache, PushFails, DeleteDomainRemove,
           DeleteDomainPurge, vars, reader
  <1>2. gone' = TRUE \/ (gone' = gone /\ Tagged \subseteq Tagged')
    <2>1. CASE DeleteDomainRemove
      BY <2>1 DEF DeleteDomainRemove
    <2>2. CASE PushTag
      <3> DEFINE t == [branch |-> Main, version |-> Len(hist[Main]), at |-> wip.commit]
      <3>0. wip.commit \in Commit /\ hist \in Histories /\ tags \in Tags
        BY <2>2 DEF StoreTypes, PushTag
      <3>1. t \in Tag
        <4>1. Len(hist[Main]) \in Nat /\ wip.commit \in Nat
          BY <3>0, MainAssumption, ExistsLen, CommitNumbers
        <4> QED BY <4>1, MainAssumption DEF Tag
      <3>2. gone' = gone /\ tags' = [tags EXCEPT ![wip.commit] = t]
        BY <2>2 DEF PushTag
      <3>3. t # None
        BY <3>1, NoTagAssumption
      <3> HIDE DEF t
      <3> QED BY <3>0, <3>2, <3>3 DEF Tagged, Tags
    <2>3. CASE gone' = gone /\ tags' = tags
      BY <2>3 DEF Tagged
    <2> QED BY <2>1, <2>2, <2>3 DEF WriterNext, PushBegin, PushDelete, PushAppend, PushCache, PushFails,
              DeleteDomainPurge, vars, store
  <1>3. ReaderTypes'
    BY <1>1 DEF ReaderFacts, ReaderTypes
  <1>4. ReaderInv'
    BY <1>1, <1>2 DEF ReaderFacts, ReaderInv, NothingNearer, Asked, Answered
  <1>5. SnapshotReads'
    BY <1>1 DEF ReaderFacts, SnapshotReads
  <1> QED BY <1>3, <1>4, <1>5 DEF ReaderFacts

\* No request, at the start and after a restart; and a new one.
LEMMA NewRequest ==
    ASSUME \/ rq' = None /\ rpc' = "idle"
           \/ rq' \in ReadType /\ rpc' = IF rq'.commit = None THEN "latest" ELSE "list",
           before' \subseteq Tagged', known' = {}, served' = None, got' = << >>
    PROVE  ReaderFacts'
  <1>1. before' \subseteq Commit
    BY DEF Tagged
  <1>2. rpc' \in {"idle", "latest", "list"}
    OBVIOUS
  <1>3. rpc' # "idle" => rq' \in ReadType /\ rq'.commit \in Commit \cup {None}
    BY DEF ReadType
  <1>4. ReaderTypes'
    BY <1>1, <1>2, <1>3 DEF ReaderTypes
  <1>5. ReaderInv'
    BY <1>2 DEF ReaderInv, Answered
  <1>6. SnapshotReads'
    BY DEF SnapshotReads
  <1> QED BY <1>4, <1>5, <1>6 DEF ReaderFacts

\* Without tags on the default branch nothing was indexed before, unless it was deleted.
LEMMA NoTagsNothingBefore ==
    ASSUME StoreInv, ReaderFacts, CommitsOn(tags, Main) = {}, ~gone
    PROVE  before = {}
  <1>1. Tagged = {}
    BY DEF StoreInv, TagsShow, Tagged, CommitsOn
  <1> QED BY <1>1 DEF ReaderFacts, ReaderInv

\* A request that answers notFound for a branch without tags tells the truth.
LEMMA NotFoundAnswer ==
    ASSUME StoreInv, ReaderFacts, rq \in ReadType, rq.commit \notin before \/ before = {},
           CommitsOn(tags, Asked) = {}
    PROVE  ~gone => Asked # Main \/ NothingNearer(Len(rq.window))
  <1>1. CASE Asked = Main
    <2>1. ~gone => before = {}
      BY <1>1, NoTagsNothingBefore
    <2> QED BY <2>1 DEF NothingNearer
  <1>2. CASE Asked # Main
    BY <1>2
  <1> QED BY <1>1, <1>2

\* Without a commit: the last indexed commit of the branch, or a 404.
LEMMA LatestKeeps ==
    ASSUME StoreTypes, StoreInv, ReaderFacts, Latest
    PROVE  ReaderFacts'
  <1>0. /\ rpc = "latest" /\ rq \in ReadType /\ rq.commit = None /\ served = None /\ got = << >>
        /\ UNCHANGED <<tags, known, served, got, before, gone>>
    BY DEF Latest, ReaderFacts, ReaderTypes
  <1>a. Tagged' = Tagged /\ known \subseteq Commit /\ before \subseteq Commit
    BY <1>0 DEF Tagged, ReaderFacts, ReaderTypes
  <1>1. PICK c \in Commit \cup {None} :
           /\ LastIndexed(c)
           /\ \/ c # None /\ rq' = [rq EXCEPT !.commit = c] /\ rpc' = "list"
              \/ c = None /\ rpc' = "answered" /\ status' = "notFound" /\ rq' = rq
    BY DEF Latest, Answer
  <1>2. CASE c # None
    <2>1. rq' \in ReadType /\ rq'.commit = c /\ c \in Commit
      BY <1>0, <1>1, <1>2 DEF ReadType
    <2>2. ReaderTypes'
      BY <1>0, <1>1, <1>2, <1>a, <2>1 DEF ReaderTypes
    <2>3. ReaderInv'
      BY <1>0, <1>1, <1>2, <1>a DEF ReaderInv, ReaderFacts, Answered
    <2> QED BY <1>0, <2>2, <2>3 DEF ReaderFacts, SnapshotReads
  <1>3. CASE c = None
    <2>1. CommitsOn(tags, rq.branch) = {}
      BY <1>0, <1>1, <1>3 DEF LastIndexed, LastIndexedOf
    <2>2. Asked = rq.branch /\ rq.commit \notin before
      BY <1>0, <1>a, NoneAssumption DEF Asked
    <2>3. ~gone => Asked # Main \/ NothingNearer(Len(rq.window))
      BY <1>0, <2>1, <2>2, NotFoundAnswer
    <2>4. rq' = rq /\ rpc' = "answered"
      BY <1>1, <1>3
    <2>5. ReaderTypes'
      BY <1>0, <1>a, <2>4 DEF ReaderTypes
    <2>6. ReaderInv'
      BY <1>0, <1>a, <2>3, <2>4 DEF ReaderInv, ReaderFacts, Asked, NothingNearer
    <2> QED BY <1>0, <2>5, <2>6 DEF ReaderFacts, SnapshotReads
  <1> QED BY <1>2, <1>3

\* The tag list: an exact match, or what the walk may serve.
LEMMA ListKeeps ==
    ASSUME StoreTypes, StoreInv, ReaderFacts, ListTags
    PROVE  ReaderFacts'
  <1>0. /\ rpc = "list" /\ rq \in ReadType /\ rq.commit \in Commit /\ served = None /\ got = << >>
        /\ UNCHANGED <<tags, rq, got, before, gone, status>> /\ known' = Tagged
    BY DEF ListTags, ReaderFacts, ReaderTypes
  <1>a. Tagged' = Tagged /\ Tagged \subseteq Commit /\ before \subseteq Commit
        /\ (~gone => before \subseteq Tagged)
    BY <1>0 DEF Tagged, ReaderFacts, ReaderTypes, ReaderInv
  <1>1. CASE rq.commit \in Tagged
    <2>1. served' = rq.commit /\ rpc' \in {"probe", "scan"}
      BY <1>1 DEF ListTags, FirstRead
    <2>2. served' # None
      BY <1>0, <2>1, NoneAssumption
    <2>3. ReaderTypes'
      BY <1>0, <1>a, <2>1, <2>2 DEF ReaderTypes
    <2>4. ReaderInv'
      BY <1>0, <1>a, <2>1, <2>2 DEF ReaderInv, Answered
    <2> QED BY <1>0, <2>3, <2>4 DEF ReaderFacts, SnapshotReads
  <1>2. CASE rq.commit \notin Tagged
    <2>1. served' = served /\ rpc' = "lineage"
      BY <1>2 DEF ListTags
    <2>2. ReaderTypes'
      BY <1>0, <1>a, <2>1 DEF ReaderTypes
    <2>3. ReaderInv'
      BY <1>0, <1>2, <1>a, <2>1 DEF ReaderInv, Answered
    <2> QED BY <1>0, <2>2, <2>3 DEF ReaderFacts, SnapshotReads
  <1> QED BY <1>1, <1>2

\* The walk passes over no commit that was indexed before, and gives up only without one.
LEMMA WalkKeeps ==
    ASSUME StoreTypes, StoreInv, ReaderFacts, WalkAncestors
    PROVE  ReaderFacts'
  <1>0. /\ rpc = "lineage" /\ rq \in ReadType /\ rq.commit \in Commit /\ served = None /\ got = << >>
        /\ UNCHANGED <<tags, known, rq, got, before, gone>>
    BY DEF WalkAncestors, ReaderFacts, ReaderTypes
  <1>a. /\ Tagged' = Tagged /\ known \subseteq Commit /\ before \subseteq Commit
        /\ (~gone => before \subseteq Tagged) /\ rq.commit \notin known /\ (~gone => before \subseteq known)
    BY <1>0 DEF Tagged, ReaderFacts, ReaderTypes, ReaderInv
  <1>b. rq.window \in Seq(Commit) /\ DOMAIN rq.window = 1 .. Len(rq.window)
    BY <1>0 DEF ReadType
  <1>1. PICK c : c = NearestKnown(rq.window)
    OBVIOUS
  <1>2. /\ c = None => \A i \in 1 .. Len(rq.window) : rq.window[i] \notin known
        /\ c # None => \E i \in 1 .. Len(rq.window) :
              c = rq.window[i] /\ c \in known /\ \A j \in 1 .. (i - 1) : rq.window[j] \notin known
    BY <1>1, <1>a, <1>b, NearestKnownProperties
  <1>3. PICK last \in Commit \cup {None} :
           /\ LastIndexed(last)
           /\ \/ last # None /\ c # None /\ served' = c /\ rpc' = FirstRead(rq.op)
              \/ /\ last = None \/ c = None
                 /\ rpc' = "answered" /\ status' = "notFound" /\ served' = served
    BY <1>1 DEF WalkAncestors, Answer
  <1>4. CASE last # None /\ c # None
    <2>1. served' = c /\ rpc' \in {"probe", "scan"} /\ c \in Commit
      BY <1>2, <1>3, <1>4, <1>a DEF FirstRead
    <2>2. PICK i \in 1 .. Len(rq.window) :
              c = rq.window[i] /\ \A j \in 1 .. (i - 1) : rq.window[j] \notin known
      BY <1>2, <1>4
    <2>3. ~gone => NothingNearer(i - 1)
      BY <1>a, <2>2 DEF NothingNearer
    <2>4. ReaderTypes'
      BY <1>0, <1>4, <1>a, <2>1 DEF ReaderTypes
    <2>5. ReaderInv'
      <3>1. served' = rq'.window[i] /\ (~gone' => NothingNearer(i - 1)')
        BY <1>0, <2>1, <2>2, <2>3 DEF NothingNearer
      <3> QED BY <1>0, <1>a, <1>b, <2>1, <3>1 DEF ReaderInv, Answered
    <2> QED BY <1>0, <2>4, <2>5 DEF ReaderFacts, SnapshotReads
  <1>5. CASE last = None \/ c = None
    <2>1. served' = served /\ rpc' = "answered"
      BY <1>3, <1>5
    <2>2. ~gone => Asked # Main \/ NothingNearer(Len(rq.window))
      <3>1. CASE c = None
        BY <1>2, <1>a, <3>1 DEF NothingNearer
      <3>2. CASE last = None
        <4>1. CommitsOn(tags, rq.path) = {}
          BY <1>0, <1>3, <3>2 DEF LastIndexed, LastIndexedOf
        <4>2. Asked = rq.path
          BY <1>0, NoneAssumption DEF Asked
        <4>3. CASE gone
          BY <4>3
        <4>4. CASE ~gone
          BY <1>0, <1>a, <4>1, <4>2, <4>4, NotFoundAnswer
        <4> QED BY <4>3, <4>4
      <3> QED BY <1>5, <3>1, <3>2
    <2>3. ReaderTypes'
      BY <1>0, <1>a, <2>1 DEF ReaderTypes
    <2>4. ReaderInv'
      BY <1>0, <1>a, <2>1, <2>2 DEF ReaderInv, Asked, NothingNearer
    <2> QED BY <1>0, <2>3, <2>4 DEF ReaderFacts, SnapshotReads
  <1> QED BY <1>4, <1>5

\* Every snapshot that a request opens shows the content of the served commit.
LEMMA ReadsKeep ==
    ASSUME StoreTypes, StoreInv, ReaderFacts, Scan \/ Fetch
    PROVE  ReaderFacts'
  <1>0. /\ rpc \in {"scan", "fetch"} /\ rq \in ReadType /\ served \in Commit /\ served # None
        /\ got \in Seq(SUBSET Row)
        /\ UNCHANGED <<tags, known, rq, served, before, gone>>
    BY NoneAssumption DEF Scan, Fetch, ReaderFacts, ReaderTypes, store
  <1>a. Tagged' = Tagged /\ known \subseteq Commit /\ before \subseteq Commit
    BY <1>0 DEF Tagged, ReaderFacts, ReaderTypes
  <1>1. \/ tags[served] # None /\ got' = Append(got, SnapshotRows(served))
        \/ tags[served] = None /\ got' = got
    BY DEF Scan, Fetch, OpenSnapshot
  <1>2. rpc' \in {"fetch", "answered"}
    BY <1>1 DEF Scan, Fetch, OpenSnapshot, Answer
  <1>3. tags[served] # None => SnapshotRows(served) = Content[served] /\ SnapshotRows(served) \in SUBSET Row
    <2>1. tags[served] # None =>
             /\ tags[served].branch = Main /\ tags[served].version \in 1 .. Len(hist[Main])
             /\ hist[Main][tags[served].version] = Content[served]
      BY <1>0 DEF StoreInv, TagsShow, Tagged
    <2>2. hist[Main] \in Seq(SUBSET Row)
      BY MainAssumption DEF StoreTypes, Histories
    <2> QED BY <2>1, <2>2, ElementOfSeq DEF SnapshotRows, Snapshot
  <1>4. got' \in Seq(SUBSET Row) /\ \A i \in DOMAIN got' : got'[i] = Content[served]
    <2>1. \A i \in DOMAIN got : got[i] = Content[served]
      BY DEF ReaderFacts, SnapshotReads
    <2>2. CASE tags[served] # None
      <3> DEFINE R == SnapshotRows(served)
      <3>1. got' = Append(got, R) /\ R = Content[served] /\ R \in SUBSET Row
        BY <1>1, <1>3, <2>2
      <3> HIDE DEF R
      <3>2. /\ got' \in Seq(SUBSET Row) /\ Len(got') = Len(got) + 1
            /\ \A i \in 1 .. Len(got) : got'[i] = got[i]
            /\ got'[Len(got) + 1] = R
        BY <1>0, <3>1, AppendProperties
      <3>3. ASSUME NEW i \in DOMAIN got'
            PROVE  got'[i] = Content[served]
        <4>1. i \in 1 .. Len(got) + 1 /\ Len(got) \in Nat
          BY <1>0, <3>2
        <4>2. CASE i = Len(got) + 1
          BY <3>1, <3>2, <4>2
        <4>3. CASE i \in 1 .. Len(got)
          BY <1>0, <2>1, <3>2, <4>3
        <4> QED BY <4>1, <4>2, <4>3
      <3> QED BY <3>2, <3>3
    <2>3. CASE tags[served] = None
      BY <1>0, <1>1, <2>1, <2>3
    <2> QED BY <2>2, <2>3
  <1>5. ReaderTypes'
    BY <1>0, <1>2, <1>4, <1>a DEF ReaderTypes
  <1>6. ReaderInv'
    BY <1>0, <1>2, <1>a DEF ReaderFacts, ReaderInv, NothingNearer
  <1>7. SnapshotReads'
    BY <1>0, <1>4 DEF SnapshotReads
  <1> QED BY <1>5, <1>6, <1>7 DEF ReaderFacts

\* The other steps of a request read nothing of a commit and resolve none.
LEMMA OtherReads ==
    ASSUME StoreTypes, StoreInv, ReaderFacts, Derive \/ Probe \/ ReadFails
    PROVE  ReaderFacts'
  <1>0. /\ rpc # "idle" /\ rq \in ReadType
        /\ UNCHANGED <<tags, known, rq, served, got, before, gone>>
    BY DEF Derive, Probe, ReadFails, ReaderFacts, ReaderTypes, store
  <1>a. Tagged' = Tagged
    BY <1>0 DEF Tagged
  <1>1. \/ rpc' = rpc /\ status' = status
        \/ rpc = "probe" /\ rpc' = "scan"
        \/ rpc = "probe" /\ rpc' = "answered"
        \/ rpc' = "answered" /\ status' = "error"
    BY DEF Derive, Probe, ReadFails, Answer
  <1>2. rpc = "probe" => served # None
    BY NoneAssumption DEF ReaderFacts, ReaderTypes
  <1>3. ReaderTypes'
    BY <1>0, <1>1 DEF ReaderFacts, ReaderTypes
  <1>4. ReaderInv'
    BY <1>0, <1>1, <1>2, <1>a DEF ReaderFacts, ReaderInv, NothingNearer, Asked, Answered
  <1>5. SnapshotReads'
    BY <1>0 DEF ReaderFacts, SnapshotReads
  <1> QED BY <1>3, <1>4, <1>5 DEF ReaderFacts

\* The facts about the reader are preserved by every step.
LEMMA ReaderStep ==
    ASSUME StoreTypes, StoreInv, ReaderFacts, [Next]_vars
    PROVE  ReaderFacts'
  <1>1. ASSUME NEW r \in Requests, Ask(r)
        PROVE  ReaderFacts'
    <2>1. /\ rq' = r /\ r \in ReadType /\ rpc' = (IF r.commit = None THEN "latest" ELSE "list")
          /\ before' = Tagged /\ known' = {} /\ served' = None /\ got' = << >> /\ tags' = tags
      BY <1>1, ReadsAssumption DEF Ask, store
    <2>2. before' \subseteq Tagged'
      BY <2>1 DEF Tagged
    <2> QED BY <2>1, <2>2, NewRequest
  <1>2. CASE Restart
    <2>1. rq' = None /\ rpc' = "idle" /\ before' \subseteq Tagged' /\ known' = {} /\ served' = None
          /\ got' = << >>
      BY <1>2 DEF Restart
    <2> QED BY <2>1, NewRequest
  <1>3. CASE ReaderNext
    BY <1>1, <1>3, LatestKeeps, ListKeeps, WalkKeeps, ReadsKeep, OtherReads DEF ReaderNext
  <1>4. CASE WriterNext \/ UNCHANGED vars
    BY <1>4, WriterLeavesReader
  <1> QED BY <1>2, <1>3, <1>4 DEF Next

\* The invariant of the store and of the request at once.
ReadInv == StoreTypes /\ StoreInv /\ ReaderFacts

\* It holds in every state.
LEMMA ReadInvariant == Spec => []ReadInv
  <1>1. Init => ReadInv
    <2>1. ASSUME Init
          PROVE  ReaderFacts
      BY <2>1 DEF Init, ReaderFacts, ReaderTypes, ReaderInv, SnapshotReads, Answered
    <2> QED BY <2>1, StoreInit DEF ReadInv
  <1>2. ReadInv /\ [Next]_vars => ReadInv'
    BY StoreStep, ReaderStep DEF ReadInv
  <1> QED BY <1>1, <1>2, PTL DEF Spec

\* In every behaviour, with pushes, failures, restarts and DELETE /domain, each snapshot
\* that a request opens is the content of the commit that it serves.
THEOREM ReadsAreSnapshots == Spec => []SnapshotReads
  <1>1. ReadInv => SnapshotReads
    BY DEF ReadInv, ReaderFacts
  <1> QED BY <1>1, ReadInvariant, PTL

\* In every behaviour the served commit is the requested one, or the nearest of the
\* window that was indexed when the request was sent.
THEOREM NearestIsServed == Spec => []ServedNearest
  <1>1. ASSUME ReaderTypes, ReaderInv
        PROVE  ServedNearest
    BY <1>1 DEF ReaderTypes, ReaderInv, ServedNearest, NothingNearer
  <1>2. ReadInv => ServedNearest
    BY <1>1 DEF ReadInv, ReaderFacts
  <1> QED BY <1>2, ReadInvariant, PTL

\* In every behaviour a 404 of the resolution means that the branch has no commit, or
\* that neither the commit nor one of its window was indexed when it was sent.
THEOREM NotFoundAnswersAreTrue == Spec => []NotFoundIsTrue
  <1>1. ASSUME StoreInv, ReaderTypes, ReaderInv
        PROVE  NotFoundIsTrue
    <2>1. SUFFICES ASSUME Answered("notFound"), served = None, ~gone
                   PROVE  \/ CommitsOn(tags, Asked) = {}
                          \/ /\ rq.commit \notin before
                             /\ \A i \in DOMAIN rq.window : rq.window[i] \notin before
      BY DEF NotFoundIsTrue, Asked
    <2>2. Asked # Main \/ NothingNearer(Len(rq.window))
      BY <1>1, <2>1 DEF ReaderInv
    <2>3. Asked # Main => CommitsOn(tags, Asked) = {}
      BY <1>1 DEF StoreInv, TagsShow, Tagged, CommitsOn
    <2>4. DOMAIN rq.window = 1 .. Len(rq.window)
      BY <1>1, <2>1 DEF ReaderTypes, ReadType, Answered
    <2> QED BY <2>2, <2>3, <2>4 DEF NothingNearer
  <1>2. ReadInv => NotFoundIsTrue
    BY <1>1 DEF ReadInv, ReaderFacts
  <1> QED BY <1>2, ReadInvariant, PTL
===============================================================================
