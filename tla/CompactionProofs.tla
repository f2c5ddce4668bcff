-------------------------- MODULE CompactionProofs --------------------------
(***************************************************************************)
(* A compaction keeps every commit readable, keeps what it shows, and      *)
(* loses at most one tag per interruption, for every set of rebuild        *)
(* branches, commits, documents and contents, and for any bounds on        *)
(* compactions and interruptions.                                          *)
(*                                                                         *)
(* Two arguments carry the proof.  The deltas of phase 1 telescope: the    *)
(* newest version of the rebuild branch shows the commit replayed last     *)
(* (ReplayOK), so each tag moves to a version that shows its commit        *)
(* (MovesOK).  And the commit that is first in the order of version        *)
(* numbers is on main (RootOK), where the fork point is resolved; every    *)
(* other tag is moved away from the branches that are dropped (RetagOK).   *)
(***************************************************************************)
EXTENDS Compaction, LanceDatasetProofs, FiniteSetTheorems, WellFoundedInduction

\* Every index pass adds a version, also over no new row.  Without it a commit
\* may come to share its version number with the first one, see the README.
IndexPassCommits == 0 \notin EmptyPass

First == comp.sorted[1]
CommitsIn(s) == {s[i][1] : i \in 1 .. Len(s)}
PushedCommits == {c \in Commit : pushed[c] # None}
Lost == {c \in Commit : pushed[c] # None /\ tags[c] = None}
Creating == comp.pc \in {"retagCreate", "migrateCreate"}

\* The commit can be read, and shows what its push showed.
Readable(c) == VersionExists(hist, pruned, tags[c].branch, tags[c].version)
Kept(c) == /\ Docs(SnapshotOf(c)) = Docs(pushed[c])
           /\ pushed[c] \subseteq SnapshotOf(c)

\* A version of the rebuild branch that may take the tag of commit c.
Shows(c, v) ==
    /\ v \in 1 .. Len(hist[comp.epoch])
    /\ Docs(hist[comp.epoch][v]) = Docs(pushed[c])
    /\ pushed[c] \subseteq hist[comp.epoch][v]

\* Cleanup leaves the newest version, and there is no branch without main.
DiskOK == Rooted(hist) /\ pruned \subseteq 1 .. (Len(hist[Main]) - 1)

\* Tags belong to pushes, of which there were finitely many.
PushesOK == /\ \A c \in Tagged : pushed[c] # None
            /\ IsFiniteSet(PushedCommits)

\* The commit m is on main and older than all commits that were moved.
IsRoot(m) == /\ m \in Tagged /\ tags[m].branch = Main
             /\ \A c \in Tagged :
                    tags[c].branch # Main => tags[c].version > tags[m].version

\* If commits were moved, one that was not is older: so the first commit in the
\* order of version numbers is on main, where its number is resolved.
RootOK == \A c \in Tagged : tags[c].branch # Main => \E m \in Commit : IsRoot(m)

\* What phase 1 has made can take the tags, none of them that of the first.
MoveOK(q) == /\ pushed[q[1]] # None
             /\ q[1] # First
             /\ Shows(q[1], q[2])
             /\ q[2] > tags[First].version

MovesOK ==
    comp.pc # "idle" =>
        /\ comp.sorted # << >>
        /\ IsRoot(First)
        /\ \A s \in {comp.plan, comp.bounds, comp.todo} :
              \A i \in 1 .. Len(s) : MoveOK(s[i])

\* Phase 1 touches no tag, and the newest version of the rebuild branch shows
\* the commit replayed last.
ReplayOK ==
    comp.pc = "replay" =>
        /\ CommitsOn(tags, comp.epoch) = {}
        /\ comp.todo = << >>
        /\ NextPosition <= Len(comp.sorted) + 1
        /\ \A i \in 2 .. Len(comp.sorted) : comp.sorted[i] # First
        /\ Tagged = {comp.sorted[i] : i \in 1 .. Len(comp.sorted)}
        /\ \A i \in 2 .. (NextPosition - 1) :
              comp.sorted[i] \in CommitsIn(comp.plan) \cup CommitsIn(comp.bounds)
        /\ Len(hist[comp.epoch]) >= tags[First].version
        /\ NextPosition > 2 => Len(hist[comp.epoch]) > tags[First].version
        /\ Docs(HeadRows(hist, comp.epoch)) =
              Docs(SnapshotOf(comp.sorted[NextPosition - 1]))
        /\ SnapshotOf(comp.sorted[NextPosition - 1]) \subseteq HeadRows(hist, comp.epoch)

\* A commit whose tag is on an older rebuild branch is still to be moved.
OnOld(c) == tags[c].branch \notin {Main, comp.epoch}
RetagOK ==
    /\ Creating => comp.todo # << >> /\ tags[comp.todo[1][1]] = None
    /\ \A c \in Tagged : OnOld(c) =>
          /\ comp.pc \in {"retag", "retagCreate"} =>
                c \in CommitsIn(comp.todo) \cup CommitsIn(comp.bounds)
          /\ comp.pc \in {"migrate", "migrateCreate"} => c \in CommitsIn(comp.todo)
          /\ comp.pc \notin {"drop", "tidy"}

\* The inductive invariant.
CompInv ==
    /\ CompTypeOK /\ DiskOK /\ PushesOK /\ RootOK
    /\ MovesOK /\ ReplayOK /\ RetagOK
    /\ ~up => comp.pc = "idle"
    /\ TagsReadable /\ DocumentsKept /\ LossBounded

-----------------------------------------------------------------------------
(* What a write does to the history of one branch.                         *)

\* g adds versions to branch b of h and leaves the rest alone.
GrowsAt(h, g, b) ==
    /\ g \in Histories /\ Grows(h, g) /\ (Rooted(h) => Rooted(g))
    /\ \A c \in Branch \ {b} : g[c] = h[c]
    /\ BranchExists(g, b)

\* Two writes to a branch are one, and the branch gets no shorter.
LEMMA GrowsAtTwice ==
    ASSUME NEW f \in Histories, NEW g \in Histories, NEW h, NEW b \in Branch,
           GrowsAt(f, g, b), GrowsAt(g, h, b)
    PROVE  GrowsAt(f, h, b) /\ Len(g[b]) <= Len(h[b])
  <1>1. h \in Histories
    BY DEF GrowsAt
  <1>2. \A c \in Branch : Len(f[c]) \in Nat /\ Len(g[c]) \in Nat /\ Len(h[c]) \in Nat
    BY <1>1, ExistsLen
  <1>3. ASSUME NEW c \in Branch
        PROVE  /\ Len(f[c]) <= Len(h[c])
               /\ \A v \in 1 .. Len(f[c]) : h[c][v] = f[c][v]
    <2>1. /\ Len(f[c]) <= Len(g[c]) /\ Len(g[c]) <= Len(h[c])
          /\ \A v \in 1 .. Len(f[c]) : g[c][v] = f[c][v]
          /\ \A v \in 1 .. Len(g[c]) : h[c][v] = g[c][v]
      BY DEF GrowsAt, Grows
    <2> QED BY <1>2, <2>1
  <1>4. Grows(f, h)
    BY <1>3 DEF Grows
  <1> QED BY <1>1, <1>4 DEF GrowsAt, Grows

\* Appending a version: the new rows are the newest ones.
LEMMA AddVersionAt ==
    ASSUME NEW h \in Histories, NEW b \in Branch, NEW rows \in SUBSET Row,
           BranchExists(h, b)
    PROVE  /\ GrowsAt(h, AddVersion(h, b, rows), b)
           /\ HeadRows(AddVersion(h, b, rows), b) = rows
           /\ Len(AddVersion(h, b, rows)[b]) = Len(h[b]) + 1
  <1> DEFINE g == AddVersion(h, b, rows)
  <1>1. /\ g \in Histories /\ Grows(h, g) /\ (Rooted(h) => Rooted(g))
        /\ g[b] = Append(h[b], rows)
    BY AddVersionGrows
  <1>2. \A c \in Branch \ {b} : g[c] = h[c]
    BY DEF AddVersion, Histories
  <1>3. /\ Len(h[b]) \in Nat /\ Len(g[b]) = Len(h[b]) + 1
        /\ g[b][Len(h[b]) + 1] = rows
    <2>1. h[b] \in Seq(SUBSET Row) /\ Len(h[b]) \in Nat
      BY ExistsLen DEF Histories
    <2> QED BY <1>1, <2>1, AppendProperties
  <1>4. BranchExists(g, b)
    BY <1>1, <1>3, ExistsLen
  <1> HIDE DEF g
  <1>5. GrowsAt(h, g, b) /\ HeadRows(g, b) = rows
    BY <1>1, <1>2, <1>3, <1>4 DEF GrowsAt, HeadRows
  <1> QED BY <1>3, <1>5 DEF g

\* io_batch_delete_append: the documents lose their rows and the new rows come.
LEMMA DeleteAppendAt ==
    ASSUME NEW h \in Histories, NEW b \in Branch, BranchExists(h, b),
           NEW del, NEW rows \in SUBSET Row
    PROVE  /\ GrowsAt(h, DeleteAppend(h, b, del, rows), b)
           /\ HeadRows(DeleteAppend(h, b, del, rows), b)
                 = WithoutDocs(HeadRows(h, b), del) \cup rows
           /\ Len(h[b]) <= Len(DeleteAppend(h, b, del, rows)[b])
  <1>1. PICK h1 : h1 = IF del = {} THEN h
                       ELSE AddVersion(h, b, WithoutDocs(HeadRows(h, b), del))
    OBVIOUS
  <1>2. PICK h2 : h2 = IF rows = {} THEN h1
                       ELSE AddVersion(h1, b, HeadRows(h1, b) \cup rows)
    OBVIOUS
  <1>3. DeleteAppend(h, b, del, rows) = h2
    BY <1>1, <1>2 DEF DeleteAppend
  <1>4. HeadRows(h, b) \in SUBSET Row
    BY HeadRowsType
  <1>5. WithoutDocs(HeadRows(h, b), del) \in SUBSET Row
    BY <1>4 DEF WithoutDocs
  <1>6. \A g \in Histories : BranchExists(g, b) => GrowsAt(g, g, b)
    BY ExistsLen DEF GrowsAt, Grows
  <1>7. GrowsAt(h, h1, b) /\ HeadRows(h1, b) = WithoutDocs(HeadRows(h, b), del)
    <2>1. CASE del = {}
      BY <1>1, <1>6, <2>1 DEF WithoutDocs
    <2>2. CASE del # {}
      BY <1>1, <1>5, <2>2, AddVersionAt
    <2> QED BY <2>1, <2>2
  <1>8. h1 \in Histories /\ BranchExists(h1, b)
    BY <1>7 DEF GrowsAt
  <1>9. GrowsAt(h1, h2, b) /\ HeadRows(h2, b) = HeadRows(h1, b) \cup rows
    <2>1. CASE rows = {}
      BY <1>2, <1>6, <1>8, <2>1
    <2>2. CASE rows # {}
      <3>1. HeadRows(h1, b) \cup rows \in SUBSET Row
        BY <1>5, <1>7
      <3> QED BY <1>2, <1>8, <2>2, <3>1, AddVersionAt
    <2> QED BY <2>1, <2>2
  <1>10. GrowsAt(h, h2, b)
    BY <1>7, <1>8, <1>9, GrowsAtTwice
  <1>11. Len(h[b]) <= Len(h2[b])
    BY <1>10 DEF GrowsAt, Grows
  <1> QED BY <1>3, <1>7, <1>9, <1>10, <1>11

\* An index pass shows the same rows; a version longer, if passes commit.
LEMMA IndexPassAt ==
    ASSUME NEW h \in Histories, NEW b \in Branch, BranchExists(h, b), NEW rows,
           NEW g \in IndexPass(h, b, rows)
    PROVE  /\ GrowsAt(h, g, b) /\ HeadRows(g, b) = HeadRows(h, b)
           /\ Len(h[b]) <= Len(g[b])
           /\ IndexPassCommits => Len(g[b]) = Len(h[b]) + 1
  <1>1. PICK n \in IF rows = {} THEN EmptyPass ELSE {1} :
            g = IF n = 0 THEN h ELSE AddVersion(h, b, HeadRows(h, b))
    BY DEF IndexPass
  <1>2. HeadRows(h, b) \in SUBSET Row /\ Len(h[b]) \in Nat
    BY HeadRowsType, ExistsLen
  <1>3. CASE n = 0
    BY <1>1, <1>2, <1>3, ExistsLen DEF GrowsAt, Grows, IndexPassCommits
  <1>4. CASE n # 0
    BY <1>1, <1>2, <1>4, AddVersionAt
  <1> QED BY <1>3, <1>4

\* A vector index shows the same rows.
LEMMA VectorPassAt ==
    ASSUME NEW h \in Histories, NEW b \in Branch, BranchExists(h, b), NEW rows,
           NEW g \in VectorPass(IndexPass(h, b, rows), b)
    PROVE  GrowsAt(h, g, b) /\ HeadRows(g, b) = HeadRows(h, b)
  <1>1. CASE g \in IndexPass(h, b, rows)
    BY <1>1, IndexPassAt
  <1>2. CASE g \notin IndexPass(h, b, rows)
    <2>1. PICK f \in IndexPass(h, b, rows) : g = AddVersion(f, b, HeadRows(f, b))
      BY <1>2 DEF VectorPass
    <2>2. /\ GrowsAt(h, f, b) /\ HeadRows(f, b) = HeadRows(h, b)
          /\ f \in Histories /\ BranchExists(f, b)
      BY IndexPassAt DEF GrowsAt
    <2>3. GrowsAt(f, g, b) /\ HeadRows(g, b) = HeadRows(f, b)
      BY <2>1, <2>2, HeadRowsType, AddVersionAt
    <2>4. g \in Histories
      BY <2>3 DEF GrowsAt
    <2> QED BY <2>2, <2>3, GrowsAtTwice
  <1> QED BY <1>1, <1>2

-----------------------------------------------------------------------------
(* Deltas.                                                                 *)

\* The deltas telescope: rows H that show the documents of a, and at least the
\* rows of a, show those of b once the delta of a and b is applied.
LEMMA DeltaTelescopes ==
    ASSUME NEW a \in SUBSET Row, NEW b \in SUBSET Row, NEW H \in SUBSET Row,
           Docs(H) = Docs(a), a \subseteq H
    PROVE  LET H2 == WithoutDocs(H, DeltaDeletes(a, b)) \cup DeltaAppends(a, b)
           IN  Docs(H2) = Docs(b) /\ b \subseteq H2
  <1> DEFINE D == DeltaDeletes(a, b)
             A == DeltaAppends(a, b)
             H2 == WithoutDocs(H, D) \cup A
  <1>1. D = Docs(a) \ Docs(b) /\ A \subseteq b
    BY DEF DeltaDeletes, DeltaAppends
  <1>2. \A r \in b \ A : r \in a
    <2> SUFFICES ASSUME NEW r \in b \ A
                 PROVE  r \in a
      OBVIOUS
    <2>1. RowsOf(a, r[1]) = RowsOf(b, r[1])
      BY DEF DeltaAppends
    <2>2. r \in RowsOf(b, r[1])
      BY DEF RowsOf
    <2> QED BY <2>1, <2>2 DEF RowsOf
  <1>3. b \subseteq H2
    <2> SUFFICES ASSUME NEW r \in b, r \notin A
                 PROVE  r \in WithoutDocs(H, D)
      OBVIOUS
    <2>1. r \in H
      BY <1>2
    <2>2. r[1] \in Docs(b)
      BY DEF Docs
    <2> QED BY <1>1, <2>1, <2>2 DEF WithoutDocs
  <1>4. Docs(b) \subseteq Docs(H2)
    BY <1>3 DEF Docs
  <1>5. Docs(H2) \subseteq Docs(b)
    <2> SUFFICES ASSUME NEW r \in H2
                 PROVE  r[1] \in Docs(b)
      BY DEF Docs
    <2>1. CASE r \in A
      BY <1>1, <2>1 DEF Docs
    <2>2. CASE r \in WithoutDocs(H, D)
      <3>1. r \in H /\ r[1] \notin D
        BY <2>2 DEF WithoutDocs
      <3>2. r[1] \in Docs(a)
        BY <3>1 DEF Docs
      <3> QED BY <1>1, <3>1, <3>2
    <2> QED BY <2>1, <2>2
  <1> QED BY <1>3, <1>4, <1>5

-----------------------------------------------------------------------------
(* Boundaries and the order of commits: what two recursive functions are,  *)
(* by the least number for which they would be something else.             *)

\* A set of numbers has a smallest one.
LEMMA SmallestNumber ==
    ASSUME NEW S \in SUBSET Nat, S # {}
    PROVE  \E x \in S : \A y \in S : x <= y
  <1>1. PICK x \in S : \A y \in S : ~(<<y, x>> \in OpToRel(<, Nat))
    BY NatLessThanWellFounded, WFMin
  <1>2. ASSUME NEW y \in S
        PROVE  x <= y
    <2>1. x \in Nat /\ y \in Nat
      OBVIOUS
    <2>2. <<y, x>> \notin {p \in Nat \X Nat : p[1] < p[2]}
      BY <1>1 DEF OpToRel
    <2>3. ~(y < x)
      BY <2>1, <2>2
    <2> QED BY <2>1, <2>3
  <1> QED BY <1>2

\* The values of pos and step after k rounds: no round stops at position 1.
LoopValue(f, k) ==
    IF k = 0 THEN <<0, 1>> ELSE LET r == f[k - 1] IN <<r[1] + r[2] * 3, r[2] * 3>>
LoopState == {p \in Nat \X Nat : p[2] >= 1 /\ p[1] # 1}

\* A function that follows the loop up to n.
IsLoop(n, f) == f = [k \in 0 .. n |-> LoopValue(f, k)]

\* The loop can be followed to any length.
LEMMA LoopExists ==
    ASSUME NEW n \in Nat
    PROVE  \E f : IsLoop(n, f)
  <1> DEFINE Bad == {x \in Nat : ~\E f : IsLoop(x, f)}
  <1>1. SUFFICES ASSUME Bad # {}
                 PROVE  FALSE
    OBVIOUS
  <1>2. PICK m \in Bad : \A x \in Bad : m <= x
    <2> HIDE DEF Bad
    <2>1. Bad \in SUBSET Nat
      BY DEF Bad
    <2> QED BY <1>1, <2>1, SmallestNumber
  <1>3. m # 0
    <2> DEFINE f == [k \in 0 .. 0 |-> <<0, 1>>]
    <2>1. IsLoop(0, f)
      BY DEF IsLoop, LoopValue
    <2> HIDE DEF f
    <2> QED BY <2>1
  <1>4. m - 1 \in Nat /\ m - 1 \notin Bad
    <2>1. m \in Nat
      OBVIOUS
    <2> HIDE DEF Bad
    <2>2. m - 1 \in Nat /\ ~(m <= m - 1)
      BY <1>3, <2>1
    <2> QED BY <1>2, <2>2
  <1>5. PICK f : IsLoop(m - 1, f)
    BY <1>4
  <1> DEFINE g == [k \in 0 .. m |-> LoopValue(f, k)]
  <1>6. ASSUME NEW k \in 0 .. m
        PROVE  LoopValue(f, k) = LoopValue(g, k)
    <2>1. CASE k = 0
      BY <2>1 DEF LoopValue
    <2>2. CASE k # 0
      <3>1. k - 1 \in 0 .. m - 1 /\ k - 1 \in 0 .. m
        BY <1>4, <2>2
      <3>2. f[k - 1] = LoopValue(f, k - 1)
        BY <1>5, <3>1 DEF IsLoop
      <3>3. g[k - 1] = LoopValue(f, k - 1)
        BY <3>1
      <3> HIDE DEF g
      <3> QED BY <2>2, <3>2, <3>3 DEF LoopValue
    <2> QED BY <2>1, <2>2
  <1>7. IsLoop(m, g)
    <2>1. g = [k \in 0 .. m |-> LoopValue(g, k)]
      <3>1. PICK h : h = g
        OBVIOUS
      <3>2. \A k \in 0 .. m : LoopValue(f, k) = LoopValue(h, k)
        BY <1>6, <3>1
      <3>3. h = [k \in 0 .. m |-> LoopValue(h, k)]
        BY <3>1, <3>2
      <3> HIDE DEF g
      <3> QED BY <3>1, <3>3
    <2> HIDE DEF g
    <2> QED BY <2>1 DEF IsLoop
  <1> HIDE DEF g
  <1> QED BY <1>2, <1>7

\* Following the loop never gives position 1.
LEMMA LoopTypes ==
    ASSUME NEW n \in Nat, NEW f, IsLoop(n, f)
    PROVE  \A k \in 0 .. n : f[k] \in LoopState
  <1> DEFINE Bad == {k \in 0 .. n : f[k] \notin LoopState}
  <1>1. SUFFICES ASSUME Bad # {}
                 PROVE  FALSE
    OBVIOUS
  <1>2. PICK m \in Bad : \A x \in Bad : m <= x
    <2> HIDE DEF Bad
    <2>1. Bad \in SUBSET Nat
      BY DEF Bad
    <2> QED BY <1>1, <2>1, SmallestNumber
  <1>3. f[m] = LoopValue(f, m)
    BY DEF IsLoop
  <1>4. m # 0
    BY <1>3 DEF LoopValue, LoopState
  <1>5. m - 1 \in 0 .. n /\ m - 1 \notin Bad
    <2>1. m \in Nat /\ m \in 0 .. n
      OBVIOUS
    <2> HIDE DEF Bad
    <2>2. m - 1 \in 0 .. n /\ ~(m <= m - 1)
      BY <1>4, <2>1
    <2> QED BY <1>2, <2>2
  <1>6. PICK p, s : p \in Nat /\ s \in Nat /\ s >= 1 /\ f[m - 1] = <<p, s>>
    BY <1>5 DEF LoopState
  <1>7. f[m] = <<p + s * 3, s * 3>>
    BY <1>3, <1>4, <1>6 DEF LoopValue
  <1> QED BY <1>6, <1>7 DEF LoopState

\* The commit after the first is never a boundary.
LEMMA SecondIsNoBoundary ==
    ASSUME NEW n \in Nat
    PROVE  1 \notin BoundaryPositions(n)
  <1> DEFINE loop == CHOOSE f : f = [k \in 0 .. n |->
                        IF k = 0 THEN <<0, 1>>
                        ELSE LET r == f[k - 1] IN <<r[1] + r[2] * 3, r[2] * 3>>]
  <1>1. BoundaryPositions(n) = {loop[k][1] : k \in 0 .. n} \cap (0 .. (n - 2))
    BY DEF BoundaryPositions
  <1>2. loop = CHOOSE f : IsLoop(n, f)
    BY DEF IsLoop, LoopValue
  <1> HIDE DEF loop
  <1>3. IsLoop(n, loop)
    BY <1>2, LoopExists
  <1>4. \A k \in 0 .. n : loop[k] \in LoopState
    BY <1>3, LoopTypes
  <1> QED BY <1>1, <1>4 DEF LoopState

\* The tags that sort_by_key may put first.
LeastOf(S) == {c \in S : \A d \in S : tags[c].version <= tags[d].version}
SortValue(f, S) ==
    IF S = {} THEN {<< >>}
    ELSE UNION {{<<c>> \o s : s \in f[S \ {c}]} : c \in LeastOf(S)}

\* The subsets of the tagged commits with at most n of them.
UpTo(n) == {S \in SUBSET Tagged : Cardinality(S) <= n}
IsSort(n, f) == f = [S \in UpTo(n) |-> SortValue(f, S)]

\* Taking a commit away leads to a smaller set.
LEMMA SmallerSet ==
    ASSUME IsFiniteSet(Tagged), NEW n \in Nat, NEW S \in UpTo(n), NEW c \in S
    PROVE  n > 0 /\ S \ {c} \in UpTo(n - 1) /\ S \ {c} \in UpTo(n)
  <1>1. IsFiniteSet(S)
    BY FS_Subset DEF UpTo
  <1>2. Cardinality(S) \in Nat /\ Cardinality(S) <= n
    BY <1>1, FS_CardinalityType DEF UpTo
  <1>3. Cardinality(S \ {c}) = Cardinality(S) - 1 /\ Cardinality(S) # 0
    BY <1>1, FS_RemoveElement, FS_EmptySet
  <1>4. S \ {c} \in SUBSET Tagged
    BY DEF UpTo
  <1> QED BY <1>2, <1>3, <1>4 DEF UpTo

\* Sorting is defined for any number of tags.
LEMMA SortExists ==
    ASSUME IsFiniteSet(Tagged), NEW n \in Nat
    PROVE  \E f : IsSort(n, f)
  <1> DEFINE Bad == {x \in Nat : ~\E f : IsSort(x, f)}
  <1>1. SUFFICES ASSUME Bad # {}
                 PROVE  FALSE
    OBVIOUS
  <1>2. PICK m \in Bad : \A x \in Bad : m <= x
    <2> HIDE DEF Bad
    <2>1. Bad \in SUBSET Nat
      BY DEF Bad
    <2> QED BY <1>1, <2>1, SmallestNumber
  <1>0. m \in Nat
    OBVIOUS
  <1>3. m # 0
    <2> SUFFICES ASSUME m = 0
                 PROVE  FALSE
      OBVIOUS
    <2> DEFINE f == [S \in UpTo(0) |-> SortValue([x \in {} |-> {}], S)]
    <2>1. ASSUME NEW S \in UpTo(0)
          PROVE  S = {}
      <3> SUFFICES ASSUME NEW c \in S
                   PROVE  FALSE
        OBVIOUS
      <3>1. 0 > 0
        BY SmallerSet, 0 \in Nat
      <3> QED BY <3>1
    <2>2. \A g, S : S = {} => SortValue(g, S) = {<< >>}
      BY DEF SortValue
    <2>3. \A S \in UpTo(0) : SortValue([x \in {} |-> {}], S) = SortValue(f, S)
      <3> HIDE DEF f
      <3> QED BY <2>1, <2>2
    <2>4. PICK h : h = f
      OBVIOUS
    <2>5. h = [S \in UpTo(0) |-> SortValue(h, S)]
      BY <2>3, <2>4
    <2> HIDE DEF f
    <2> QED BY <2>5 DEF IsSort
  <1>4. m - 1 \in Nat /\ m - 1 \notin Bad
    <2> HIDE DEF Bad
    <2>2. m - 1 \in Nat /\ ~(m <= m - 1)
      BY <1>0, <1>3
    <2> QED BY <1>2, <2>2
  <1>5. PICK f : IsSort(m - 1, f)
    BY <1>4
  <1> DEFINE g == [S \in UpTo(m) |-> SortValue(f, S)]
  <1>6. ASSUME NEW S \in UpTo(m)
        PROVE  SortValue(f, S) = SortValue(g, S)
    <2>1. \A c \in S : f[S \ {c}] = g[S \ {c}]
      <3> SUFFICES ASSUME NEW c \in S
                   PROVE  f[S \ {c}] = g[S \ {c}]
        OBVIOUS
      <3>1. S \ {c} \in UpTo(m - 1) /\ S \ {c} \in UpTo(m)
        BY <1>0, SmallerSet
      <3>2. f[S \ {c}] = SortValue(f, S \ {c})
        BY <1>5, <3>1 DEF IsSort
      <3> QED BY <3>1, <3>2
    <2> HIDE DEF g
    <2>2. \A c \in LeastOf(S) : f[S \ {c}] = g[S \ {c}]
      BY <2>1 DEF LeastOf
    <2> QED BY <2>2 DEF SortValue
  <1>7. PICK h : h = g
    OBVIOUS
  <1>8. h = [S \in UpTo(m) |-> SortValue(h, S)]
    BY <1>6, <1>7
  <1> HIDE DEF g
  <1> QED BY <1>2, <1>8 DEF IsSort

\* One level of the recursion.
LEMMA SortedValue ==
    ASSUME IsFiniteSet(Tagged)
    PROVE  \A S \in SUBSET Tagged : SortedByVersion[S] = SortValue(SortedByVersion, S)
  <1> DEFINE n == Cardinality(Tagged)
  <1>1. n \in Nat
    BY FS_CardinalityType
  <1>2. UpTo(n) = SUBSET Tagged
    BY <1>1, FS_Subset DEF UpTo
  <1>3. SortedByVersion = CHOOSE f : IsSort(n, f)
    <2>1. SortedByVersion = CHOOSE f : f = [S \in SUBSET Tagged |-> SortValue(f, S)]
      BY DEF SortedByVersion, SortValue, LeastOf
    <2> HIDE DEF n
    <2> QED BY <1>2, <2>1 DEF IsSort
  <1> HIDE DEF n
  <1>4. IsSort(n, SortedByVersion)
    BY <1>1, <1>3, SortExists
  <1> QED BY <1>2, <1>4 DEF IsSort

\* A sequence that lists the commits of S.
Lists(s, S) == s \in Seq(Commit) /\ {s[i] : i \in 1 .. Len(s)} = S

\* A commit before a list of the others is a list, and is not in the rest.
LEMMA ListsOneMore ==
    ASSUME NEW S \in SUBSET Commit, NEW c \in S, NEW t, Lists(t, S \ {c})
    PROVE  /\ Lists(<<c>> \o t, S)
           /\ (<<c>> \o t)[1] = c /\ Len(<<c>> \o t) > 0
           /\ \A i \in 2 .. Len(<<c>> \o t) : (<<c>> \o t)[i] # c
  <1> DEFINE s == <<c>> \o t
  <1>1. c \in Commit /\ t \in Seq(Commit) /\ Len(t) \in Nat
    BY LenProperties DEF Lists
  <1>2. <<c>> \in Seq(Commit) /\ Len(<<c>>) = 1 /\ <<c>>[1] = c
    BY <1>1
  <1>3. /\ s \in Seq(Commit) /\ Len(s) = 1 + Len(t) /\ s[1] = c
        /\ \A i \in 2 .. Len(s) : s[i] = t[i - 1]
    <2>1. /\ s \in Seq(Commit) /\ Len(s) = 1 + Len(t)
          /\ \A i \in 1 .. 1 + Len(t) : s[i] = IF i <= 1 THEN <<c>>[i] ELSE t[i - 1]
      BY <1>1, <1>2, ConcatProperties
    <2> HIDE DEF s
    <2> QED BY <1>1, <1>2, <2>1
  <1> HIDE DEF s
  <1>4. \A i \in 2 .. Len(s) : s[i] \in S \ {c}
    <2> SUFFICES ASSUME NEW i \in 2 .. Len(s)
                 PROVE  s[i] \in S \ {c}
      OBVIOUS
    <2>1. i - 1 \in 1 .. Len(t)
      BY <1>1, <1>3
    <2> QED BY <1>3, <2>1 DEF Lists
  <1>5. \A d \in S \ {c} : \E i \in 1 .. Len(s) : s[i] = d
    <2> SUFFICES ASSUME NEW d \in S \ {c}
                 PROVE  \E i \in 1 .. Len(s) : s[i] = d
      OBVIOUS
    <2>1. PICK j \in 1 .. Len(t) : t[j] = d
      BY DEF Lists
    <2>2. PICK i : i = j + 1 /\ i \in 2 .. Len(s) /\ i \in 1 .. Len(s) /\ i - 1 = j
      BY <1>1, <1>3
    <2>3. s[i] = t[i - 1]
      BY <1>3, <2>2
    <2> QED BY <2>1, <2>2, <2>3
  <1>6. 1 \in 1 .. Len(s) /\ \A i \in 1 .. Len(s) : i = 1 \/ i \in 2 .. Len(s)
    BY <1>1, <1>3
  <1>7. {s[i] : i \in 1 .. Len(s)} = S
    BY <1>3, <1>4, <1>5, <1>6
  <1> QED BY <1>1, <1>3, <1>4, <1>7 DEF Lists, s

\* sort_by_key returns every tag.
LEMMA SortedLists ==
    ASSUME IsFiniteSet(Tagged)
    PROVE  \A S \in SUBSET Tagged : \A s \in SortedByVersion[S] : Lists(s, S)
  <1> DEFINE Bad == {n \in Nat : \E S \in SUBSET Tagged :
                        Cardinality(S) = n /\ \E s \in SortedByVersion[S] : ~Lists(s, S)}
  <1>1. \A S \in SUBSET Tagged : Cardinality(S) \in Nat /\ IsFiniteSet(S)
    BY FS_Subset, FS_CardinalityType
  <1>2. SUFFICES ASSUME Bad # {}
                 PROVE  FALSE
    BY <1>1
  <1>3. PICK m \in Bad : \A x \in Bad : m <= x
    <2> HIDE DEF Bad
    <2>1. Bad \in SUBSET Nat
      BY DEF Bad
    <2> QED BY <1>2, <2>1, SmallestNumber
  <1>4. PICK S \in SUBSET Tagged :
            Cardinality(S) = m /\ \E s \in SortedByVersion[S] : ~Lists(s, S)
    OBVIOUS
  <1>5. PICK s \in SortedByVersion[S] : ~Lists(s, S)
    BY <1>4
  <1>6. s \in SortValue(SortedByVersion, S)
    BY <1>5, SortedValue
  <1>7. S # {}
    <2> SUFFICES ASSUME S = {}
                 PROVE  FALSE
      OBVIOUS
    <2>1. s = << >>
      BY <1>6 DEF SortValue
    <2>2. Lists(<< >>, {})
      BY EmptySeq DEF Lists
    <2> QED BY <1>5, <2>1, <2>2
  <1>8. PICK c \in LeastOf(S) : \E t \in SortedByVersion[S \ {c}] : s = <<c>> \o t
    BY <1>6, <1>7 DEF SortValue
  <1>9. c \in S
    BY <1>8 DEF LeastOf
  <1>13. PICK t \in SortedByVersion[S \ {c}] : s = <<c>> \o t
    BY <1>8
  <1>10. S \ {c} \in SUBSET Tagged /\ Cardinality(S \ {c}) = m - 1
    BY <1>1, <1>4, <1>9, FS_RemoveElement
  <1>11. Lists(t, S \ {c})
    <2> SUFFICES ASSUME ~Lists(t, S \ {c})
                 PROVE  FALSE
      OBVIOUS
    <2>1. m \in Nat /\ m - 1 \in Nat
      BY <1>1, <1>10
    <2>2. m - 1 \in Bad
      BY <1>10, <1>13, <2>1
    <2> HIDE DEF Bad
    <2> QED BY <1>3, <2>1, <2>2
  <1>12. S \in SUBSET Commit
    BY DEF Tagged
  <1> QED BY <1>5, <1>9, <1>11, <1>12, <1>13, ListsOneMore

\* The first of the sorted tags is one with the least version, and is there once.
LEMMA SortedFirst ==
    ASSUME IsFiniteSet(Tagged), Tagged # {}, NEW s \in SortedByVersion[Tagged]
    PROVE  /\ Lists(s, Tagged) /\ Len(s) > 0 /\ s[1] \in Tagged
           /\ \A d \in Tagged : tags[s[1]].version <= tags[d].version
           /\ \A i \in 2 .. Len(s) : s[i] # s[1]
  <1>1. s \in SortValue(SortedByVersion, Tagged)
    BY SortedValue
  <1>2. PICK c \in LeastOf(Tagged) : \E t \in SortedByVersion[Tagged \ {c}] : s = <<c>> \o t
    BY <1>1 DEF SortValue
  <1>5. PICK t \in SortedByVersion[Tagged \ {c}] : s = <<c>> \o t
    BY <1>2
  <1>3. c \in Tagged /\ \A d \in Tagged : tags[c].version <= tags[d].version
    BY DEF LeastOf
  <1>4. Lists(t, Tagged \ {c}) /\ Tagged \in SUBSET Commit
    BY <1>5, SortedLists DEF Tagged
  <1>6. /\ Lists(s, Tagged) /\ s[1] = c /\ Len(s) > 0
        /\ \A i \in 2 .. Len(s) : s[i] # c
    <2>1. PICK S : S = Tagged
      OBVIOUS
    <2>2. S \in SUBSET Commit /\ c \in S /\ Lists(t, S \ {c})
      BY <1>3, <1>4, <2>1
    <2>3. /\ Lists(<<c>> \o t, S) /\ (<<c>> \o t)[1] = c /\ Len(<<c>> \o t) > 0
          /\ \A i \in 2 .. Len(<<c>> \o t) : (<<c>> \o t)[i] # c
      BY <2>2, ListsOneMore
    <2> QED BY <1>5, <2>1, <2>3
  <1> QED BY <1>3, <1>6

-----------------------------------------------------------------------------
(* Parts of the invariant that many steps keep.                            *)

\* The types, one by one.
LEMMA CompTypes ==
    ASSUME CompTypeOK
    PROVE  /\ hist \in Histories /\ tags \in Tags /\ comp \in CompState
           /\ pushed \in [Commit -> (SUBSET Row) \cup {None}]
           /\ comp.sorted \in Seq(Commit)
           /\ comp.plan \in Seq(Commit \X Nat) /\ comp.bounds \in Seq(Commit \X Nat)
           /\ comp.todo \in Seq(Commit \X Nat)
           /\ interrupts \in Nat /\ started \in Nat
           /\ \A b \in Branch : hist[b] \in Seq(SUBSET Row) /\ Len(hist[b]) \in Nat
           /\ \A c \in Tagged : tags[c] \in Tag /\ tags[c].branch \in Branch
                                /\ tags[c].version \in Nat
  <1>1. \A b \in Branch : hist[b] \in Seq(SUBSET Row) /\ Len(hist[b]) \in Nat
    BY ExistsLen DEF CompTypeOK, Histories
  <1>2. interrupts \in Nat /\ started \in Nat
    BY BoundsAssumption DEF CompTypeOK
  <1>3. ASSUME NEW c \in Tagged
        PROVE  tags[c] \in Tag /\ tags[c].branch \in Branch /\ tags[c].version \in Nat
    <2>1. tags[c] \in Tag
      BY DEF CompTypeOK, Tags, Tagged
    <2> QED BY <2>1 DEF Tag
  <1>4. /\ comp.sorted \in Seq(Commit)
        /\ comp.plan \in Seq(Commit \X Nat) /\ comp.bounds \in Seq(Commit \X Nat)
        /\ comp.todo \in Seq(Commit \X Nat)
    BY DEF CompTypeOK, CompState
  <1> QED BY <1>1, <1>2, <1>3, <1>4 DEF CompTypeOK

\* There are finitely many tags and finitely many lost commits.
LEMMA FiniteTags ==
    ASSUME PushesOK
    PROVE  IsFiniteSet(Tagged) /\ IsFiniteSet(Lost) /\ Cardinality(Lost) \in Nat
  <1>1. Tagged \in SUBSET PushedCommits /\ Lost \in SUBSET PushedCommits
    BY DEF PushesOK, Tagged, PushedCommits, Lost
  <1> QED BY <1>1, FS_Subset, FS_CardinalityType DEF PushesOK

\* LossBounded, with the set of the lost commits named.
LEMMA LossMeans ==
    LossBounded <=> Cardinality(Lost) <= interrupts + (IF Creating THEN 1 ELSE 0)
  BY DEF LossBounded, Lost, Creating

\* A commit keeps its tag, and its branch only grows: it stays as it was.
LEMMA CommitStays ==
    ASSUME CompTypeOK, NEW c \in Tagged, tags'[c] = tags[c], pushed'[c] = pushed[c],
           Readable(c), Kept(c), NEW b, b = tags[c].branch,
           Len(hist'[b]) \in Nat, Len(hist[b]) <= Len(hist'[b]),
           \A v \in 1 .. Len(hist[b]) : hist'[b][v] = hist[b][v],
           b = Main => tags[c].version \notin pruned'
    PROVE  Readable(c)' /\ Kept(c)' /\ SnapshotOf(c)' = SnapshotOf(c)
  <1>1. tags[c].version \in 1 .. Len(hist[b]) /\ Len(hist[b]) \in Nat
    BY CompTypes DEF Readable, VersionExists
  <1>2. SnapshotOf(c)' = SnapshotOf(c)
    BY <1>1 DEF SnapshotOf, Snapshot
  <1>3. Readable(c)'
    BY <1>1 DEF Readable, VersionExists
  <1>4. Kept(c)'
    BY <1>2 DEF Kept
  <1> QED BY <1>2, <1>3, <1>4

\* The two properties commit by commit.
LEMMA PropertiesMean ==
    /\ TagsReadable <=> \A c \in Tagged : Readable(c)
    /\ DocumentsKept <=> \A c \in Tagged : Kept(c)
  BY DEF TagsReadable, DocumentsKept, Readable, Kept

\* With readable tags the cleanup has no tag to delete.
LEMMA NoOrphans ==
    ASSUME CompTypeOK, TagsReadable
    PROVE  Orphaned = {}
  <1> SUFFICES ASSUME NEW c \in Orphaned
               PROVE  FALSE
    OBVIOUS
  <1>1. c \in Tagged /\ ~BranchExists(hist, tags[c].branch)
    BY DEF Orphaned
  <1>2. tags[c].version \in 1 .. Len(hist[tags[c].branch]) /\ tags[c].branch \in Branch
    BY <1>1, CompTypes DEF TagsReadable, VersionExists
  <1> QED BY <1>1, <1>2, CompTypes, ExistsLen

-----------------------------------------------------------------------------
(* Pushes.                                                                 *)

\* A new commit is tagged at the head of main, which showed it.
LEMMA PushKeeps ==
    ASSUME CompInv, NEW c \in Commit, pushed[c] = None, comp.pc = "idle",
           GrowsAt(hist, hist', Main),
           tags' = [tags EXCEPT ![c] = [branch |-> Main,
                        version |-> Len(hist'[Main]), at |-> 0]],
           pushed' = [pushed EXCEPT ![c] = HeadRows(hist', Main)],
           pruned' \subseteq 1 .. (Len(hist'[Main]) - 1),
           \A d \in Tagged : tags[d].branch = Main => tags[d].version \notin pruned',
           UNCHANGED <<comp, up, interrupts, started>>
    PROVE  CompInv'
  <1> USE MainAssumption, NoneAssumption, NoTagAssumption, EpochAssumption
  <1>1. /\ CompTypeOK /\ DiskOK /\ PushesOK /\ RootOK /\ LossBounded
        /\ \A d \in Tagged : Readable(d) /\ Kept(d)
    BY PropertiesMean DEF CompInv
  <1>2. /\ hist \in Histories /\ tags \in Tags
        /\ pushed \in [Commit -> (SUBSET Row) \cup {None}]
        /\ \A b \in Branch : Len(hist[b]) \in Nat
    BY <1>1, CompTypes
  <1>3. /\ hist' \in Histories /\ BranchExists(hist', Main) /\ Grows(hist, hist')
        /\ Rooted(hist')
    BY <1>1 DEF GrowsAt, DiskOK
  <1>4. /\ Len(hist'[Main]) \in Nat /\ Len(hist'[Main]) > 0
        /\ HeadRows(hist', Main) \in SUBSET Row
        /\ \A b \in Branch : Len(hist'[b]) \in Nat
    BY <1>3, ExistsLen, HeadRowsType
  <1> DEFINE t == [branch |-> Main, version |-> Len(hist'[Main]), at |-> 0]
  <1>5. t \in Tag /\ t # None /\ t.branch = Main /\ t.version = Len(hist'[Main])
    BY <1>4 DEF Tag
  <1>6. /\ tags'[c] = t /\ \A d \in Commit \ {c} : tags'[d] = tags[d]
        /\ tags' \in Tags
    BY <1>2, <1>5 DEF Tags
  <1>7. tags[c] = None
    BY <1>1 DEF PushesOK, Tagged
  <1>8. Tagged' = Tagged \cup {c} /\ c \notin Tagged
    BY <1>5, <1>6, <1>7 DEF Tagged
  <1>9. HeadRows(hist', Main) # None
    BY <1>4, NoRowsAssumption
  <1>10. CompInv'
    <2>1. /\ pushed'[c] = HeadRows(hist', Main) /\ \A d \in Commit \ {c} : pushed'[d] = pushed[d]
          /\ pushed' \in [Commit -> (SUBSET Row) \cup {None}]
      BY <1>2, <1>4
    <2>2. CompTypeOK'
      <3>1. comp.pc # "idle" => FALSE
        OBVIOUS
      <3>2. pruned' \subseteq Nat
        BY <1>4
      <3> QED BY <1>1, <1>3, <1>6, <2>1, <3>1, <3>2 DEF CompTypeOK
    <2>3. DiskOK'
      BY <1>3 DEF DiskOK
    <2>4. PushedCommits' = PushedCommits \cup {c}
      BY <1>9, <2>1 DEF PushedCommits
    <2>5. PushesOK'
      <3>1. IsFiniteSet(PushedCommits')
        BY <1>1, <2>4, FS_AddElement DEF PushesOK
      <3>2. \A d \in Tagged' : pushed'[d] # None
        BY <1>1, <1>8, <1>9, <2>1 DEF PushesOK, Tagged
      <3> QED BY <3>1, <3>2 DEF PushesOK
    <2>6. \A d \in Tagged : tags'[d] = tags[d] /\ d # c
      BY <1>6, <1>8 DEF Tagged
    <2>7. RootOK'
      <3> SUFFICES ASSUME NEW d \in Tagged', tags'[d].branch # Main
                   PROVE  \E m \in Commit : IsRoot(m)'
        BY DEF RootOK
      <3>1. d \in Tagged /\ tags[d].branch # Main
        BY <1>5, <1>6, <1>8, <2>6
      <3>2. PICK m \in Commit : IsRoot(m)
        BY <1>1, <3>1 DEF RootOK
      <3>3. /\ m \in Tagged /\ tags[m].branch = Main
            /\ \A x \in Tagged : tags[x].branch # Main => tags[x].version > tags[m].version
        BY <3>2 DEF IsRoot
      <3>4. m \in Tagged' /\ tags'[m] = tags[m]
        BY <1>8, <2>6, <3>3
      <3>5. ASSUME NEW x \in Tagged', tags'[x].branch # Main
            PROVE  tags'[x].version > tags'[m].version
        BY <1>5, <1>6, <1>8, <2>6, <3>3, <3>4, <3>5
      <3>6. IsRoot(m)'
        BY <3>3, <3>4, <3>5 DEF IsRoot
      <3> QED BY <3>6
    <2>8. MovesOK' /\ ReplayOK' /\ RetagOK' /\ (~up => comp.pc = "idle")'
      BY DEF MovesOK, ReplayOK, RetagOK, Creating
    <2>9. ASSUME NEW d \in Tagged'
          PROVE  Readable(d)' /\ Kept(d)'
      <3>1. CASE d = c
        <4>1. SnapshotOf(c)' = HeadRows(hist', Main)
          BY <1>5, <1>6 DEF SnapshotOf, Snapshot, HeadRows
        <4>2. Kept(c)'
          BY <2>1, <4>1 DEF Kept
        <4>3. Readable(c)'
          <5>1. Len(hist'[Main]) \notin pruned'
            BY <1>4
          <5> QED BY <1>4, <1>5, <1>6, <5>1 DEF Readable, VersionExists
        <4> QED BY <3>1, <4>2, <4>3
      <3>2. CASE d # c
        <4>1. d \in Tagged /\ tags'[d] = tags[d] /\ pushed'[d] = pushed[d]
          BY <1>8, <2>1, <2>6, <3>2 DEF Tagged
        <4>2. PICK b \in Branch : b = tags[d].branch
          BY <1>1, <4>1, CompTypes
        <4>3. /\ Len(hist'[b]) \in Nat /\ Len(hist[b]) <= Len(hist'[b])
              /\ \A v \in 1 .. Len(hist[b]) : hist'[b][v] = hist[b][v]
          BY <1>3, <1>4 DEF Grows
        <4> QED BY <1>1, <4>1, <4>2, <4>3, CommitStays
      <3> QED BY <3>1, <3>2
    <2>10. LossBounded'
      <3>1. Lost' = Lost
        BY <1>5, <1>6, <1>9, <2>1 DEF Lost
      <3>2. Creating' = Creating
        BY DEF Creating
      <3> QED BY <1>1, <3>1, <3>2, LossMeans DEF LossBounded, Lost, Creating
    <2> QED BY <2>2, <2>3, <2>5, <2>7, <2>8, <2>9, <2>10, PropertiesMean
            DEF CompInv, TagsReadable, DocumentsKept, Readable, Kept
  <1> QED BY <1>10

\* What cleanup removes is older than the head and carries no tag.
LEMMA PruneKeeps ==
    ASSUME DiskOK, CompTypeOK, hist' \in Histories,
           Len(hist[Main]) <= Len(hist'[Main]), NEW ts,
           pruned' \in {pruned, pruned \cup Prunable(hist', ts)},
           \A d \in Tagged : ts[d] = tags[d],
           \A d \in Tagged : Readable(d)
    PROVE  /\ pruned' \subseteq 1 .. (Len(hist'[Main]) - 1)
           /\ \A d \in Tagged : tags[d].branch = Main => tags[d].version \notin pruned'
  <1> USE MainAssumption
  <1>1. Len(hist[Main]) \in Nat /\ Len(hist'[Main]) \in Nat
    BY CompTypes, ExistsLen
  <1>2. pruned \subseteq 1 .. (Len(hist'[Main]) - 1)
    BY <1>1 DEF DiskOK
  <1>3. Prunable(hist', ts) \subseteq 1 .. (Len(hist'[Main]) - 1)
    BY DEF Prunable
  <1>4. ASSUME NEW d \in Tagged, tags[d].branch = Main
        PROVE  tags[d].version \notin pruned'
    <2>1. tags[d].version \notin pruned
      BY <1>4 DEF Readable, VersionExists
    <2>2. d \in CommitsOn(ts, Main)
      BY <1>4 DEF CommitsOn, Tagged
    <2>3. tags[d].version \notin Prunable(hist', ts)
      BY <2>2 DEF Prunable
    <2> QED BY <2>1, <2>3
  <1> QED BY <1>2, <1>3, <1>4

\* Both pushes keep the invariant.
LEMMA PushInv ==
    ASSUME CompInv, NEW c \in Commit, pushed[c] = None,
           \/ PushEmpty(c)
           \/ \E d \in Doc, x \in Push \cup {None} :
                 PushCommit(c, d, {<<d, y>> : y \in {x} \ {None}})
    PROVE  CompInv'
  <1> USE MainAssumption, NoneAssumption
  <1>1. /\ CompTypeOK /\ DiskOK /\ PushesOK /\ \A d \in Tagged : Readable(d)
    BY PropertiesMean DEF CompInv
  <1>2. hist \in Histories /\ tags \in Tags
    BY <1>1, CompTypes
  <1>3. PICK h0 \in Histories : h0 = EnsureDataset(hist)
    BY <1>2, EnsureDatasetGrows
  <1>4. BranchExists(h0, Main) /\ GrowsAt(hist, h0, Main)
    <2>1. \A b \in Branch \ {Main} : h0[b] = hist[b]
      BY <1>2, <1>3 DEF EnsureDataset, Histories
    <2> QED BY <1>2, <1>3, <2>1, EnsureDatasetGrows DEF GrowsAt, DatasetExists, BranchExists
  <1>5. \A d \in Tagged : d # c
    BY <1>1 DEF PushesOK
  <1>6. CASE PushEmpty(c)
    <2>1. /\ comp.pc = "idle" /\ hist' = h0 /\ pruned' = pruned
          /\ tags' = [tags EXCEPT ![c] = [branch |-> Main,
                        version |-> Len(hist'[Main]), at |-> 0]]
          /\ pushed' = [pushed EXCEPT ![c] = HeadRows(hist', Main)]
          /\ UNCHANGED <<comp, up, interrupts, started>>
      BY <1>3, <1>6 DEF PushEmpty
    <2>2. Len(hist[Main]) <= Len(hist'[Main])
      BY <1>4, <2>1 DEF GrowsAt, Grows
    <2>3. \A d \in Tagged : tags[d] = tags[d]
      OBVIOUS
    <2>4. /\ pruned' \subseteq 1 .. (Len(hist'[Main]) - 1)
          /\ \A d \in Tagged : tags[d].branch = Main => tags[d].version \notin pruned'
      BY <1>1, <1>4, <2>1, <2>2, <2>3, PruneKeeps
    <2> QED BY <1>4, <2>1, <2>4, PushKeeps
  <1>7. ASSUME NEW d \in Doc, NEW x \in Push \cup {None},
               PushCommit(c, d, {<<d, y>> : y \in {x} \ {None}})
        PROVE  CompInv'
    <2>1. PICK rows : rows = {<<d, y>> : y \in {x} \ {None}}
      OBVIOUS
    <2>2. rows \in SUBSET Row
      BY <2>1 DEF Row
    <2>3. PICK h1 : h1 = DeleteAppend(h0, Main, {d} \cap Docs(HeadRows(h0, Main)), rows)
      OBVIOUS
    <2>4. /\ comp.pc = "idle" /\ hist' \in VectorPass(IndexPass(h1, Main, rows), Main)
          /\ tags' = [tags EXCEPT ![c] = [branch |-> Main,
                        version |-> Len(hist'[Main]), at |-> 0]]
          /\ pruned' = pruned \cup Prunable(hist', tags')
          /\ pushed' = [pushed EXCEPT ![c] = HeadRows(hist', Main)]
          /\ UNCHANGED <<comp, up, interrupts, started>>
      BY <1>3, <1>7, <2>1, <2>3 DEF PushCommit
    <2>5. GrowsAt(h0, h1, Main)
      BY <1>4, <2>2, <2>3, DeleteAppendAt
    <2>6. h1 \in Histories /\ BranchExists(h1, Main)
      BY <2>5 DEF GrowsAt
    <2>7. GrowsAt(h1, hist', Main)
      BY <2>4, <2>6, VectorPassAt
    <2>8. GrowsAt(hist, h1, Main)
      BY <1>2, <1>4, <2>5, GrowsAtTwice
    <2>9. GrowsAt(hist, hist', Main)
      BY <1>2, <2>6, <2>7, <2>8, GrowsAtTwice
    <2>10. /\ hist' \in Histories /\ BranchExists(hist', Main)
           /\ Len(hist[Main]) <= Len(hist'[Main])
      BY <2>9 DEF GrowsAt, Grows
    <2>11. \A e \in Tagged : tags'[e] = tags[e]
      BY <1>2, <1>5, <2>4 DEF Tags, Tagged
    <2>12. /\ pruned' \subseteq 1 .. (Len(hist'[Main]) - 1)
           /\ \A e \in Tagged : tags[e].branch = Main => tags[e].version \notin pruned'
      <3>1. PICK ts : ts = tags'
        OBVIOUS
      <3>2. /\ pruned' \in {pruned, pruned \cup Prunable(hist', ts)}
            /\ \A e \in Tagged : ts[e] = tags[e]
        BY <2>4, <2>11, <3>1
      <3> QED BY <1>1, <2>10, <3>2, PruneKeeps
    <2> QED BY <2>4, <2>9, <2>12, PushKeeps
  <1> QED BY <1>6, <1>7

-----------------------------------------------------------------------------
(* Phase 1.                                                                *)

\* The first of the sorted commits is on main, and older than what was moved.
LEMMA FirstIsRoot ==
    ASSUME CompTypeOK, RootOK, IsFiniteSet(Tagged), Tagged # {},
           NEW s \in SortedByVersion[Tagged]
    PROVE  IsRoot(s[1])
  <1>1. s[1] \in Tagged /\ \A d \in Tagged : tags[s[1]].version <= tags[d].version
    BY SortedFirst
  <1>2. \A d \in Tagged : tags[d].version \in Nat
    BY CompTypes
  <1>3. ASSUME NEW c \in Tagged, tags[c].branch # Main
        PROVE  tags[c].version > tags[s[1]].version
    <2>1. PICK m \in Commit : IsRoot(m)
      BY <1>3 DEF RootOK
    <2>2. m \in Tagged /\ tags[c].version > tags[m].version
      BY <1>3, <2>1 DEF IsRoot
    <2> QED BY <1>1, <1>2, <2>2
  <1>4. tags[s[1]].branch = Main
    BY <1>1, <1>2, <1>3
  <1> QED BY <1>1, <1>3, <1>4 DEF IsRoot

\* The fork at a version that exists shows that version.
LEMMA ForkAtShows ==
    ASSUME NEW h \in Histories, Rooted(h), NEW e \in Branch, ~BranchExists(h, e),
           NEW v \in 1 .. Len(h[Main])
    PROVE  /\ GrowsAt(h, ForkAt(h, e, Main, v), e)
           /\ Len(ForkAt(h, e, Main, v)[e]) = v
           /\ HeadRows(ForkAt(h, e, Main, v), e) = h[Main][v]
  <1> USE MainAssumption
  <1> DEFINE g == ForkAt(h, e, Main, v)
  <1>1. h[Main] \in Seq(SUBSET Row) /\ Len(h[Main]) \in Nat /\ v \in Nat
    BY ExistsLen DEF Histories
  <1>2. g \in Histories /\ Grows(h, g) /\ Rooted(g)
    BY ForkAtGrows
  <1>3. g[e] = SubSeq(h[Main], 1, v) /\ \A b \in Branch \ {e} : g[b] = h[b]
    BY DEF ForkAt, Histories
  <1>4. \A i \in 1 .. v : h[Main][i] \in SUBSET Row
    BY <1>1, ElementOfSeq
  <1>5. Len(g[e]) = v /\ g[e][v] = h[Main][v]
    <2>1. /\ Len(SubSeq(h[Main], 1, v)) = IF 1 <= v THEN v - 1 + 1 ELSE 0
          /\ \A i \in 1 .. v - 1 + 1 : SubSeq(h[Main], 1, v)[i] = h[Main][1 + i - 1]
      BY <1>1, <1>4, SubSeqProperties
    <2>2. v \in 1 .. v - 1 + 1 /\ 1 + v - 1 = v /\ 1 <= v
      BY <1>1
    <2> HIDE DEF g
    <2> QED BY <1>1, <1>3, <2>1, <2>2
  <1>6. BranchExists(g, e)
    BY <1>1, <1>2, <1>5, ExistsLen
  <1> HIDE DEF g
  <1>7. GrowsAt(h, g, e) /\ HeadRows(g, e) = h[Main][v]
    BY <1>2, <1>3, <1>5, <1>6 DEF GrowsAt, HeadRows
  <1> QED BY <1>5, <1>7 DEF g

\* Steps that change no tag and only let branches grow keep the properties of
\* the commits.
LEMMA TagsUntouched ==
    ASSUME CompTypeOK, PushesOK, RootOK, \A d \in Tagged : Readable(d) /\ Kept(d),
           hist' \in Histories, Grows(hist, hist'), UNCHANGED <<tags, pruned, pushed>>
    PROVE  /\ PushesOK' /\ RootOK' /\ TagsReadable' /\ DocumentsKept'
           /\ \A d \in Tagged : SnapshotOf(d)' = SnapshotOf(d)
           /\ \A m \in Commit : IsRoot(m) => IsRoot(m)'
           /\ Tagged' = Tagged /\ Lost' = Lost
  <1>1. Tagged' = Tagged /\ Lost' = Lost /\ PushedCommits' = PushedCommits
    BY DEF Tagged, Lost, PushedCommits
  <1>2. PushesOK'
    BY <1>1 DEF PushesOK
  <1>3. \A m \in Commit : IsRoot(m) => IsRoot(m)'
    BY <1>1 DEF IsRoot
  <1>4. RootOK'
    BY <1>1, <1>3 DEF RootOK
  <1>5. ASSUME NEW d \in Tagged
        PROVE  Readable(d)' /\ Kept(d)' /\ SnapshotOf(d)' = SnapshotOf(d)
    <2>1. PICK b \in Branch : b = tags[d].branch
      BY CompTypes
    <2>2. /\ Len(hist'[b]) \in Nat /\ Len(hist[b]) <= Len(hist'[b])
          /\ \A v \in 1 .. Len(hist[b]) : hist'[b][v] = hist[b][v]
      BY ExistsLen DEF Grows
    <2>3. b = Main => tags[d].version \notin pruned'
      BY <2>1 DEF Readable, VersionExists
    <2>4. tags'[d] = tags[d] /\ pushed'[d] = pushed[d]
      OBVIOUS
    <2> QED BY <2>1, <2>2, <2>3, <2>4, CommitStays
  <1>6. TagsReadable' /\ DocumentsKept'
    BY <1>1, <1>5 DEF TagsReadable, DocumentsKept, Readable, Kept
  <1> QED BY <1>1, <1>2, <1>3, <1>4, <1>5, <1>6

\* A compaction starts: the rebuild branch begins with the first commit.
LEMMA StartInv ==
    ASSUME CompInv, StartCompaction
    PROVE  CompInv'
  <1> USE MainAssumption, EpochAssumption
  <1>1. /\ CompTypeOK /\ DiskOK /\ PushesOK /\ RootOK /\ LossBounded
        /\ \A d \in Tagged : Readable(d) /\ Kept(d)
        /\ up /\ comp.pc = "idle" /\ FreshEpochs # {} /\ started < MaxCompactions
        /\ started' = started + 1
        /\ UNCHANGED <<tags, pruned, pushed, up, interrupts>>
    BY PropertiesMean DEF CompInv, StartCompaction
  <1>2. PICK e : e = CHOOSE f \in FreshEpochs : TRUE
    OBVIOUS
  <1>3. /\ e \in Epoch /\ e \in Branch /\ e # Main
        /\ ~BranchExists(hist, e) /\ CommitsOn(tags, e) = {}
    BY <1>1, <1>2 DEF FreshEpochs
  <1>4. PICK s \in SortedByVersion[Tagged] :
            /\ VersionExists(hist, pruned, Main, tags[s[1]].version)
            /\ hist' = ForkAt(hist, e, Main, tags[s[1]].version)
            /\ comp' = [NoComp EXCEPT !.pc = "replay", !.epoch = e, !.sorted = s]
    BY <1>2 DEF StartCompaction
  <1>5. IsFiniteSet(Tagged) /\ Tagged # {}
    <2>1. IsFiniteSet(Tagged)
      BY <1>1, FiniteTags
    <2>2. Cardinality(Tagged) > 2
      BY DEF StartCompaction
    <2> QED BY <2>1, <2>2, FS_EmptySet
  <1>6. /\ Lists(s, Tagged) /\ Len(s) > 0 /\ s[1] \in Tagged
        /\ \A i \in 2 .. Len(s) : s[i] # s[1]
        /\ IsRoot(s[1])
    BY <1>1, <1>4, <1>5, SortedFirst, FirstIsRoot
  <1>7. s \in Seq(Commit) /\ Len(s) \in Nat /\ {s[i] : i \in 1 .. Len(s)} = Tagged
    BY <1>6, LenProperties DEF Lists
  <1>8. PICK v \in 1 .. Len(hist[Main]) : v = tags[s[1]].version
    BY <1>4 DEF VersionExists
  <1>9. hist \in Histories /\ Rooted(hist)
    BY <1>1, CompTypes DEF DiskOK
  <1>10. /\ GrowsAt(hist, hist', e) /\ Len(hist'[e]) = v
         /\ HeadRows(hist', e) = hist[Main][v]
    BY <1>3, <1>4, <1>8, <1>9, ForkAtShows
  <1>11. hist' \in Histories /\ Grows(hist, hist') /\ Rooted(hist') /\ BranchExists(hist', e)
    BY <1>9, <1>10 DEF GrowsAt
  <1>12. /\ PushesOK' /\ RootOK' /\ TagsReadable' /\ DocumentsKept'
         /\ \A d \in Tagged : SnapshotOf(d)' = SnapshotOf(d)
         /\ IsRoot(s[1])' /\ Tagged' = Tagged /\ Lost' = Lost
    <2>1. s[1] \in Commit
      BY <1>6 DEF Tagged
    <2> QED BY <1>1, <1>6, <1>11, <2>1, TagsUntouched
  <1>13. /\ comp'.pc = "replay" /\ comp'.epoch = e /\ comp'.sorted = s
         /\ comp'.plan = << >> /\ comp'.bounds = << >> /\ comp'.todo = << >>
    BY <1>4 DEF NoComp
  <1>14. comp' \in CompState
    <2>1. << >> \in Seq(Commit \X Nat)
      BY EmptySeq
    <2> QED BY <1>3, <1>4, <1>7, <2>1 DEF CompState, NoComp
  <1>15. CompTypeOK'
    <2>1. started' \in 0 .. MaxCompactions
      BY <1>1, BoundsAssumption DEF CompTypeOK
    <2> QED BY <1>1, <1>3, <1>11, <1>13, <1>14, <2>1 DEF CompTypeOK
  <1>16. DiskOK'
    <2>1. hist'[Main] = hist[Main]
      BY <1>3, <1>10 DEF GrowsAt
    <2> QED BY <1>1, <1>11, <2>1 DEF DiskOK
  <1>17. First' = s[1] /\ NextPosition' = 2
    <2>1. Len(<< >>) = 0
      OBVIOUS
    <2> QED BY <1>13, <2>1 DEF First, NextPosition
  <1>18. MovesOK'
    <2>1. s # << >>
      BY <1>6, EmptySeq
    <2>2. \A q \in {comp'.plan, comp'.bounds, comp'.todo} : 1 .. Len(q) = {}
      BY <1>13
    <2> QED BY <1>12, <1>13, <1>17, <2>1, <2>2 DEF MovesOK
  <1>19. ReplayOK'
    <2>1. SnapshotOf(s[1])' = hist[Main][v]
      <3>1. tags[s[1]].branch = Main
        BY <1>6 DEF IsRoot
      <3> QED BY <1>6, <1>8, <1>12, <3>1 DEF SnapshotOf, Snapshot
    <2>2. CommitsOn(tags', comp'.epoch) = {}
      BY <1>1, <1>3, <1>13
    <2>3. 2 <= Len(s) + 1 /\ 2 .. (2 - 1) = {} /\ ~(2 > 2) /\ 2 - 1 = 1
      BY <1>6, <1>7
    <2>4. Len(hist'[e]) >= tags'[s[1]].version
      BY <1>1, <1>8, <1>10
    <2>5. Tagged' = {s[i] : i \in 1 .. Len(s)}
      BY <1>7, <1>12
    <2>6. SnapshotOf(comp.sorted[NextPosition - 1])' = SnapshotOf(s[1])'
      BY <1>13, <1>17, <2>3 DEF SnapshotOf
    <2> QED BY <1>6, <1>10, <1>13, <1>17, <2>1, <2>2, <2>3, <2>4, <2>5, <2>6 DEF ReplayOK
  <1>20. RetagOK' /\ (~up => comp.pc = "idle")'
    BY <1>1, <1>13 DEF RetagOK, Creating
  <1>21. LossBounded'
    <2>1. ~Creating /\ ~Creating'
      BY <1>1, <1>13 DEF Creating
    <2> QED BY <1>1, <1>12, <2>1, LossMeans DEF LossBounded, Lost, Creating
  <1> QED BY <1>12, <1>15, <1>16, <1>18, <1>19, <1>20, <1>21 DEF CompInv

\* A list of moves with one more at its end.
LEMMA AppendMove ==
    ASSUME NEW s \in Seq(Commit \X Nat), NEW q \in Commit \X Nat
    PROVE  /\ Append(s, q) \in Seq(Commit \X Nat)
           /\ Len(Append(s, q)) = Len(s) + 1 /\ Len(s) \in Nat
           /\ CommitsIn(Append(s, q)) = CommitsIn(s) \cup {q[1]}
           /\ \A j \in 1 .. Len(Append(s, q)) :
                 Append(s, q)[j] = q \/ \E k \in 1 .. Len(s) : Append(s, q)[j] = s[k]
  <1> DEFINE t == Append(s, q)
  <1>1. /\ t \in Seq(Commit \X Nat) /\ Len(t) = Len(s) + 1 /\ Len(s) \in Nat
        /\ \A i \in 1 .. Len(s) : t[i] = s[i]
        /\ t[Len(s) + 1] = q
    BY AppendProperties, LenProperties
  <1> HIDE DEF t
  <1>2. \A j \in 1 .. Len(t) : j \in 1 .. Len(s) \/ j = Len(s) + 1
    BY <1>1
  <1>3. \A j \in 1 .. Len(t) : t[j] = q \/ \E k \in 1 .. Len(s) : t[j] = s[k]
    BY <1>1, <1>2
  <1>4. CommitsIn(t) \subseteq CommitsIn(s) \cup {q[1]}
    BY <1>3 DEF CommitsIn
  <1>5. CommitsIn(s) \cup {q[1]} \subseteq CommitsIn(t)
    <2>1. \A i \in 1 .. Len(s) : i \in 1 .. Len(t)
      BY <1>1
    <2>2. Len(s) + 1 \in 1 .. Len(t)
      BY <1>1
    <2> QED BY <1>1, <2>1, <2>2 DEF CommitsIn
  <1> QED BY <1>1, <1>3, <1>4, <1>5 DEF t

\* The snapshot of a readable commit is a set of rows.
LEMMA SnapshotRows ==
    ASSUME CompTypeOK, NEW c \in Tagged, Readable(c)
    PROVE  SnapshotOf(c) \in SUBSET Row
  <1>1. tags[c].branch \in Branch /\ tags[c].version \in 1 .. Len(hist[tags[c].branch])
    BY CompTypes DEF Readable, VersionExists
  <1>2. hist[tags[c].branch] \in Seq(SUBSET Row)
    BY <1>1, CompTypes
  <1> QED BY <1>1, <1>2, ElementOfSeq DEF SnapshotOf, Snapshot

\* What phase 1 made stays there while the rebuild branch grows.
LEMMA MoveStays ==
    ASSUME CompTypeOK, hist' \in Histories, Grows(hist, hist'), comp.epoch \in Branch,
           NEW q, MoveOK(q), pushed' = pushed, tags' = tags,
           comp'.epoch = comp.epoch, comp'.sorted = comp.sorted
    PROVE  MoveOK(q)'
  <1>1. PICK e \in Branch : e = comp.epoch
    OBVIOUS
  <1>2. /\ Len(hist[e]) \in Nat /\ Len(hist'[e]) \in Nat /\ Len(hist[e]) <= Len(hist'[e])
        /\ \A v \in 1 .. Len(hist[e]) : hist'[e][v] = hist[e][v]
    BY CompTypes, ExistsLen DEF Grows
  <1>3. q[2] \in 1 .. Len(hist[e]) /\ Shows(q[1], q[2])
    BY <1>1 DEF MoveOK, Shows
  <1>4. Shows(q[1], q[2])'
    BY <1>1, <1>2, <1>3 DEF Shows
  <1> QED BY <1>4 DEF MoveOK, First

\* The position to replay next is a number, at least 2.
LEMMA NextPositionType ==
    ASSUME CompTypeOK
    PROVE  /\ NextPosition \in Nat /\ NextPosition >= 2 /\ Len(comp.sorted) \in Nat
           /\ Len(comp.plan) \in Nat /\ Len(comp.bounds) \in Nat
  <1>1. PICK s, p, b : s = comp.sorted /\ p = comp.plan /\ b = comp.bounds
    OBVIOUS
  <1>2. s \in Seq(Commit) /\ p \in Seq(Commit \X Nat) /\ b \in Seq(Commit \X Nat)
    BY <1>1, CompTypes
  <1>3. Len(s) \in Nat /\ Len(p) \in Nat /\ Len(b) \in Nat
    BY <1>2, LenProperties
  <1>4. PICK n, k : n = Len(p) /\ k = Len(b)
    OBVIOUS
  <1>5. NextPosition = n + k + 2
    BY <1>1, <1>4 DEF NextPosition
  <1>6. n + k + 2 \in Nat /\ n + k + 2 >= 2
    BY <1>3, <1>4
  <1> QED BY <1>1, <1>3, <1>5, <1>6

\* One commit is replayed: its delta, and the index pass unless it is a boundary.
LEMMA ReplayWrites ==
    ASSUME CompTypeOK, ReplayOK, IndexPassCommits,
           \A d \in Tagged : Readable(d) /\ Kept(d), ReplayCommit
    PROVE  /\ GrowsAt(hist, hist', comp.epoch)
           /\ Docs(HeadRows(hist', comp.epoch)) = Docs(SnapshotOf(comp.sorted[NextPosition]))
           /\ SnapshotOf(comp.sorted[NextPosition]) \subseteq HeadRows(hist', comp.epoch)
           /\ Len(hist'[comp.epoch]) > tags[First].version
           /\ \/ comp' = [comp EXCEPT !.bounds = Append(@,
                            <<comp.sorted[NextPosition], Len(hist'[comp.epoch])>>)]
              \/ comp' = [comp EXCEPT !.plan = Append(@,
                            <<comp.sorted[NextPosition], Len(hist'[comp.epoch])>>)]
  <1> USE EpochAssumption
  <1>1. PICK i : i = NextPosition
    OBVIOUS
  <1>2. PICK e : e = comp.epoch
    OBVIOUS
  <1>3. /\ comp.pc = "replay" /\ i <= Len(comp.sorted)
        /\ e \in Epoch /\ e \in Branch /\ BranchExists(hist, e)
        /\ comp.sorted \in Seq(Commit) /\ Len(comp.sorted) \in Nat
    BY <1>1, <1>2, CompTypes, LenProperties DEF ReplayCommit, CompTypeOK
  <1>4. i \in Nat /\ i >= 2
    BY <1>1, NextPositionType
  <1>5. PICK c, p : c = comp.sorted[i] /\ p = comp.sorted[i - 1]
    OBVIOUS
  <1>6. c \in Tagged /\ p \in Tagged
    <2>1. Tagged = {comp.sorted[j] : j \in 1 .. Len(comp.sorted)}
      BY <1>3 DEF ReplayOK
    <2>2. i \in 1 .. Len(comp.sorted) /\ i - 1 \in 1 .. Len(comp.sorted)
      BY <1>3, <1>4
    <2> QED BY <1>5, <2>1, <2>2
  <1>7. PICK a, b : a = SnapshotOf(p) /\ b = SnapshotOf(c)
    OBVIOUS
  <1>8. a \in SUBSET Row /\ b \in SUBSET Row
    BY <1>6, <1>7, SnapshotRows
  <1>9. PICK H : H = HeadRows(hist, e)
    OBVIOUS
  <1>10. H \in SUBSET Row /\ Docs(H) = Docs(a) /\ a \subseteq H
    <2>1. H \in SUBSET Row
      BY <1>3, <1>9, CompTypes, HeadRowsType
    <2> QED BY <1>1, <1>2, <1>3, <1>5, <1>7, <1>9, <2>1 DEF ReplayOK
  <1>11. PICK del, app : del = DeltaDeletes(a, b) /\ app = DeltaAppends(a, b)
    OBVIOUS
  <1>12. app \in SUBSET Row
    BY <1>8, <1>11 DEF DeltaAppends
  <1>13. PICK H2 : H2 = WithoutDocs(H, del) \cup app
    OBVIOUS
  <1>14. Docs(H2) = Docs(b) /\ b \subseteq H2
    BY <1>8, <1>10, <1>11, <1>13, DeltaTelescopes
  <1>15. PICK h : h = DeleteAppend(hist, e, del, app)
    OBVIOUS
  <1>16. /\ GrowsAt(hist, h, e) /\ HeadRows(h, e) = H2 /\ Len(hist[e]) <= Len(h[e])
         /\ h \in Histories /\ BranchExists(h, e)
    <2>1. hist \in Histories
      BY CompTypes
    <2>2. /\ GrowsAt(hist, h, e) /\ HeadRows(h, e) = H2 /\ Len(hist[e]) <= Len(h[e])
      BY <1>3, <1>9, <1>12, <1>13, <1>15, <2>1, DeleteAppendAt
    <2> QED BY <2>2 DEF GrowsAt
  <1>17. PICK base : base = tags[First].version
    OBVIOUS
  <1>18. /\ Len(hist[e]) >= base /\ (i > 2 => Len(hist[e]) > base)
         /\ base \in Nat /\ Len(hist[e]) \in Nat /\ Len(h[e]) \in Nat
    <2>1. First \in Tagged
      <3>1. 1 \in 1 .. Len(comp.sorted)
        BY <1>3, <1>4
      <3> QED BY <1>3, <3>1 DEF First, ReplayOK
    <2> QED BY <1>1, <1>2, <1>3, <1>16, <1>17, <2>1, CompTypes, ExistsLen DEF ReplayOK
  <1>19. \/ /\ (i - 1) \in BoundaryPositions(Len(comp.sorted))
            /\ hist' = h
            /\ comp' = [comp EXCEPT !.bounds = Append(@, <<c, Len(h[e])>>)]
         \/ /\ hist' \in IndexPass(h, e, app)
            /\ comp' = [comp EXCEPT !.plan = Append(@, <<c, Len(hist'[e])>>)]
    BY <1>1, <1>2, <1>5, <1>7, <1>11, <1>15 DEF ReplayCommit, PreviousCommit
  <1>20. /\ GrowsAt(hist, hist', e) /\ HeadRows(hist', e) = H2
         /\ Len(hist'[e]) > base
         /\ \/ comp' = [comp EXCEPT !.bounds = Append(@, <<c, Len(hist'[e])>>)]
            \/ comp' = [comp EXCEPT !.plan = Append(@, <<c, Len(hist'[e])>>)]
    <2>1. CASE /\ (i - 1) \in BoundaryPositions(Len(comp.sorted))
               /\ hist' = h
               /\ comp' = [comp EXCEPT !.bounds = Append(@, <<c, Len(h[e])>>)]
      <3>1. i # 2
        BY <1>3, <2>1, SecondIsNoBoundary
      <3> QED BY <1>4, <1>16, <1>18, <2>1, <3>1
    <2>2. CASE /\ hist' \in IndexPass(h, e, app)
               /\ comp' = [comp EXCEPT !.plan = Append(@, <<c, Len(hist'[e])>>)]
      <3>1. /\ GrowsAt(h, hist', e) /\ HeadRows(hist', e) = HeadRows(h, e)
            /\ Len(hist'[e]) = Len(h[e]) + 1
        BY <1>3, <1>16, <2>2, IndexPassAt
      <3>2. GrowsAt(hist, hist', e)
        BY <1>3, <1>16, <3>1, CompTypes, GrowsAtTwice
      <3> QED BY <1>16, <1>18, <2>2, <3>1, <3>2
    <2> QED BY <1>19, <2>1, <2>2
  <1> QED BY <1>1, <1>2, <1>5, <1>7, <1>14, <1>17, <1>20

\* Replaying a commit keeps the invariant.
LEMMA ReplayInv ==
    ASSUME CompInv, IndexPassCommits, ReplayCommit
    PROVE  CompInv'
  <1> USE EpochAssumption, MainAssumption
  <1>1. /\ CompTypeOK /\ DiskOK /\ PushesOK /\ RootOK /\ LossBounded /\ ReplayOK /\ MovesOK
        /\ \A d \in Tagged : Readable(d) /\ Kept(d)
        /\ up /\ comp.pc = "replay" /\ NextPosition <= Len(comp.sorted)
        /\ UNCHANGED <<tags, pruned, pushed, up, interrupts, started>>
    BY PropertiesMean DEF CompInv, ReplayCommit
  <1>2. PICK e \in Epoch : e = comp.epoch
    BY <1>1 DEF CompTypeOK
  <1>3. e \in Branch /\ e # Main
    OBVIOUS
  <1>4. PICK i : i = NextPosition
    OBVIOUS
  <1>5. i \in Nat /\ i >= 2 /\ i <= Len(comp.sorted) /\ Len(comp.sorted) \in Nat
    BY <1>1, <1>4, NextPositionType
  <1>6. PICK c \in Commit : c = comp.sorted[i]
    <2>1. i \in 1 .. Len(comp.sorted)
      BY <1>5
    <2> QED BY <1>1, <2>1, CompTypes, ElementOfSeq
  <1>7. c \in Tagged /\ c # First /\ pushed[c] # None
    <2>1. i \in 1 .. Len(comp.sorted) /\ i \in 2 .. Len(comp.sorted)
      BY <1>5
    <2> QED BY <1>1, <1>6, <2>1 DEF ReplayOK, PushesOK
  <1>8. PICK w : w = Len(hist'[e])
    OBVIOUS
  <1>9. /\ GrowsAt(hist, hist', e)
        /\ Docs(HeadRows(hist', e)) = Docs(SnapshotOf(c))
        /\ SnapshotOf(c) \subseteq HeadRows(hist', e)
        /\ w > tags[First].version
        /\ \/ comp' = [comp EXCEPT !.bounds = Append(@, <<c, w>>)]
           \/ comp' = [comp EXCEPT !.plan = Append(@, <<c, w>>)]
    BY <1>1, <1>2, <1>4, <1>6, <1>8, ReplayWrites
  <1>10. hist' \in Histories /\ Grows(hist, hist') /\ Rooted(hist') /\ BranchExists(hist', e)
    BY <1>1, <1>9 DEF GrowsAt, DiskOK
  <1>11. w \in Nat /\ w \in 1 .. Len(hist'[e]) /\ <<c, w>> \in Commit \X Nat
    <2>1. Len(hist'[e]) \in Nat /\ Len(hist'[e]) > 0
      BY <1>3, <1>10, ExistsLen
    <2> QED BY <1>8, <2>1
  <1>12. /\ PushesOK' /\ RootOK' /\ TagsReadable' /\ DocumentsKept'
         /\ \A d \in Tagged : SnapshotOf(d)' = SnapshotOf(d)
         /\ \A m \in Commit : IsRoot(m) => IsRoot(m)'
         /\ Tagged' = Tagged /\ Lost' = Lost
    BY <1>1, <1>10, TagsUntouched
  <1>13. comp \in CompState
    BY <1>1, CompTypes
  <1>14. /\ comp' \in CompState
         /\ comp'.pc = "replay" /\ comp'.epoch = e /\ comp'.sorted = comp.sorted
         /\ comp'.todo = comp.todo
         /\ \/ comp'.bounds = Append(comp.bounds, <<c, w>>) /\ comp'.plan = comp.plan
            \/ comp'.plan = Append(comp.plan, <<c, w>>) /\ comp'.bounds = comp.bounds
    <2>1. /\ Append(comp.bounds, <<c, w>>) \in Seq(Commit \X Nat)
          /\ Append(comp.plan, <<c, w>>) \in Seq(Commit \X Nat)
      BY <1>1, <1>11, CompTypes, AppendMove
    <2>2. CASE comp' = [comp EXCEPT !.bounds = Append(@, <<c, w>>)]
      BY <1>1, <1>2, <1>13, <2>1, <2>2 DEF CompState
    <2>3. CASE comp' = [comp EXCEPT !.plan = Append(@, <<c, w>>)]
      BY <1>1, <1>2, <1>13, <2>1, <2>3 DEF CompState
    <2> QED BY <1>9, <2>2, <2>3
  <1>15. CompTypeOK'
    BY <1>1, <1>10, <1>14 DEF CompTypeOK
  <1>16. DiskOK'
    <2>1. hist'[Main] = hist[Main]
      BY <1>3, <1>9 DEF GrowsAt
    <2> QED BY <1>1, <1>10, <2>1 DEF DiskOK
  <1>17. First' = First
    BY <1>14 DEF First
  <1>18. MoveOK(<<c, w>>)'
    <2>1. hist'[e][w] = HeadRows(hist', e)
      BY <1>8 DEF HeadRows
    <2>2. Kept(c)
      BY <1>1, <1>7
    <2>3. Shows(c, w)'
      BY <1>1, <1>9, <1>11, <1>14, <2>1, <2>2 DEF Shows, Kept
    <2>4. <<c, w>>[1] = c /\ <<c, w>>[2] = w
      OBVIOUS
    <2> QED BY <1>1, <1>7, <1>9, <1>17, <2>3, <2>4 DEF MoveOK
  <1>19. \A q : MoveOK(q) => MoveOK(q)'
    <2> SUFFICES ASSUME NEW q, MoveOK(q)
                 PROVE  MoveOK(q)'
      OBVIOUS
    <2> QED BY <1>1, <1>2, <1>3, <1>10, <1>14, MoveStays
  <1>20. /\ comp.plan \in Seq(Commit \X Nat) /\ comp.bounds \in Seq(Commit \X Nat)
         /\ Len(comp.plan) \in Nat /\ Len(comp.bounds) \in Nat
    BY <1>1, CompTypes, LenProperties
  <1>21. MovesOK'
    <2>1. \A s \in {comp.plan, comp.bounds, comp.todo} : \A j \in 1 .. Len(s) : MoveOK(s[j])'
      BY <1>1, <1>19 DEF MovesOK
    <2>2. ASSUME NEW s \in Seq(Commit \X Nat), NEW t, t = Append(s, <<c, w>>),
                 \A j \in 1 .. Len(s) : MoveOK(s[j])'
          PROVE  \A j \in 1 .. Len(t) : MoveOK(t[j])'
      BY <1>11, <1>18, <2>2, AppendMove
    <2>3. ASSUME NEW s \in {comp'.plan, comp'.bounds, comp'.todo}
          PROVE  \A j \in 1 .. Len(s) : MoveOK(s[j])'
      BY <1>14, <1>20, <2>1, <2>2, <2>3
    <2>4. IsRoot(First)'
      <3>1. IsRoot(First) /\ First \in Commit
        BY <1>1 DEF MovesOK, IsRoot, Tagged
      <3>2. PICK m \in Commit : m = First
        BY <3>1
      <3>3. IsRoot(m)'
        BY <1>12, <3>1, <3>2
      <3> QED BY <1>17, <3>2, <3>3 DEF IsRoot
    <2>5. comp'.sorted # << >>
      BY <1>1, <1>14 DEF MovesOK
    <2> QED BY <2>3, <2>4, <2>5 DEF MovesOK
  <1>22. NextPosition' = i + 1
    <2>1. /\ Len(Append(comp.plan, <<c, w>>)) = Len(comp.plan) + 1
          /\ Len(Append(comp.bounds, <<c, w>>)) = Len(comp.bounds) + 1
      BY <1>11, <1>20, AppendMove
    <2>2. PICK n, k, n2, k2 : /\ n = Len(comp.plan) /\ k = Len(comp.bounds)
                              /\ n2 = Len(comp'.plan) /\ k2 = Len(comp'.bounds)
      OBVIOUS
    <2>3. n \in Nat /\ k \in Nat
      BY <1>20, <2>2
    <2>4. (n2 = n /\ k2 = k + 1) \/ (n2 = n + 1 /\ k2 = k)
      BY <1>14, <2>1, <2>2
    <2>5. NextPosition' = n2 + k2 + 2 /\ i = n + k + 2
      BY <1>4, <2>2 DEF NextPosition
    <2>6. n2 + k2 + 2 = n + k + 2 + 1
      BY <2>3, <2>4
    <2> QED BY <2>5, <2>6
  <1>23. CommitsIn(comp.plan)' \cup CommitsIn(comp.bounds)'
            = CommitsIn(comp.plan) \cup CommitsIn(comp.bounds) \cup {c}
    <2>1. /\ CommitsIn(Append(comp.plan, <<c, w>>)) = CommitsIn(comp.plan) \cup {c}
          /\ CommitsIn(Append(comp.bounds, <<c, w>>)) = CommitsIn(comp.bounds) \cup {c}
      BY <1>11, <1>20, AppendMove
    <2>2. /\ CommitsIn(comp.plan)' = CommitsIn(comp'.plan)
          /\ CommitsIn(comp.bounds)' = CommitsIn(comp'.bounds)
      BY DEF CommitsIn
    <2> QED BY <1>14, <2>1, <2>2
  <1>24. ReplayOK'
    <2>1. /\ CommitsOn(tags', comp'.epoch) = {} /\ comp'.todo = << >>
      BY <1>1, <1>2, <1>14 DEF ReplayOK
    <2>2. NextPosition' <= Len(comp'.sorted) + 1 /\ NextPosition' - 1 = i
      BY <1>5, <1>14, <1>22
    <2>3. \A j \in 2 .. Len(comp'.sorted) : comp'.sorted[j] # First'
      BY <1>1, <1>14, <1>17 DEF ReplayOK
    <2>4. Tagged' = {comp'.sorted[j] : j \in 1 .. Len(comp'.sorted)}
      BY <1>1, <1>12, <1>14 DEF ReplayOK
    <2>5. ASSUME NEW j \in 2 .. (NextPosition' - 1)
          PROVE  comp'.sorted[j] \in CommitsIn(comp.plan)' \cup CommitsIn(comp.bounds)'
      <3>1. CASE j = i
        BY <1>6, <1>14, <1>23, <3>1
      <3>2. CASE j # i
        <4>1. j \in 2 .. (NextPosition - 1)
          BY <1>4, <1>5, <2>2, <3>2
        <4> QED BY <1>1, <1>14, <1>23, <4>1 DEF ReplayOK
      <3> QED BY <3>1, <3>2
    <2>6. Len(hist'[comp'.epoch]) > tags'[First'].version
      BY <1>1, <1>8, <1>9, <1>14, <1>17
    <2>7. Len(hist'[comp'.epoch]) >= tags'[First'].version
      <3>1. tags[First].version \in Nat
        BY <1>1, CompTypes DEF MovesOK, IsRoot
      <3> QED BY <1>1, <1>8, <1>11, <1>14, <1>17, <2>6, <3>1
    <2>8. SnapshotOf(comp.sorted[NextPosition - 1])' = SnapshotOf(c)
      <3>1. comp'.sorted[NextPosition' - 1] = c
        BY <1>6, <1>14, <2>2
      <3>2. SnapshotOf(c)' = SnapshotOf(c)
        BY <1>7, <1>12
      <3> QED BY <3>1, <3>2 DEF SnapshotOf
    <2>9. /\ Docs(HeadRows(hist', comp'.epoch)) = Docs(SnapshotOf(c))
          /\ SnapshotOf(c) \subseteq HeadRows(hist', comp'.epoch)
      BY <1>9, <1>14
    <2> QED BY <2>1, <2>2, <2>3, <2>4, <2>5, <2>6, <2>7, <2>8, <2>9 DEF ReplayOK
  <1>25. RetagOK' /\ (~up => comp.pc = "idle")'
    BY <1>1, <1>14 DEF RetagOK, Creating
  <1>26. LossBounded'
    <2>1. ~Creating /\ ~Creating'
      BY <1>1, <1>14 DEF Creating
    <2> QED BY <1>1, <1>12, <2>1, LossMeans DEF LossBounded, Lost, Creating
  <1> QED BY <1>12, <1>15, <1>16, <1>21, <1>24, <1>25, <1>26 DEF CompInv

-----------------------------------------------------------------------------
(* Steps that change no tag and at most drop branches without tags.        *)

\* Branches that no tag is on go, and cleanup may run: no commit notices.
LEMMA BranchesGo ==
    ASSUME CompTypeOK, DiskOK, PushesOK, RootOK,
           \A d \in Tagged : Readable(d) /\ Kept(d),
           NEW bs \in SUBSET Epoch, \A b \in bs : CommitsOn(tags, b) = {},
           hist' = WithoutBranches(hist, bs), tags' = tags, pushed' = pushed,
           pruned' \in {pruned, pruned \cup Prunable(hist', tags)}
    PROVE  /\ hist' \in Histories /\ \A b \in Branch \ bs : hist'[b] = hist[b]
           /\ pruned' \subseteq Nat
           /\ DiskOK' /\ PushesOK' /\ RootOK' /\ TagsReadable' /\ DocumentsKept'
           /\ \A m \in Commit : IsRoot(m) => IsRoot(m)'
           /\ Tagged' = Tagged /\ Lost' = Lost
  <1> USE EpochAssumption, MainAssumption
  <1>1. hist \in Histories
    BY CompTypes
  <1>2. /\ hist' \in Histories /\ Main \notin bs
        /\ \A b \in Branch \ bs : hist'[b] = hist[b]
        /\ \A b \in bs : hist'[b] = << >>
    <2>1. << >> \in Seq(SUBSET Row)
      BY EmptySeq
    <2> QED BY <1>1, <2>1 DEF WithoutBranches, Histories
  <1>3. Tagged' = Tagged /\ Lost' = Lost /\ PushedCommits' = PushedCommits
    BY DEF Tagged, Lost, PushedCommits
  <1>4. PushesOK'
    BY <1>3 DEF PushesOK
  <1>5. \A m \in Commit : IsRoot(m) => IsRoot(m)'
    BY <1>3 DEF IsRoot
  <1>6. RootOK'
    BY <1>3, <1>5 DEF RootOK
  <1>7. Len(hist[Main]) \in Nat /\ hist'[Main] = hist[Main]
    BY <1>1, <1>2, ExistsLen
  <1>8. /\ pruned' \subseteq 1 .. (Len(hist'[Main]) - 1)
        /\ \A d \in Tagged : tags[d].branch = Main => tags[d].version \notin pruned'
    <2>1. Len(hist[Main]) <= Len(hist'[Main]) /\ \A d \in Tagged : tags[d] = tags[d]
      BY <1>7
    <2> QED BY <1>2, <2>1, PruneKeeps
  <1>9. DiskOK'
    <2>1. Rooted(hist')
      BY <1>2, <1>7 DEF DiskOK, Rooted, BranchExists, DatasetExists
    <2> QED BY <1>8, <2>1 DEF DiskOK
  <1>10. pruned' \subseteq Nat
    BY <1>7, <1>8
  <1>11. ASSUME NEW d \in Tagged
         PROVE  Readable(d)' /\ Kept(d)'
    <2>1. PICK b \in Branch : b = tags[d].branch
      BY CompTypes
    <2>2. b \notin bs
      <3>1. d \in CommitsOn(tags, b)
        BY <2>1 DEF CommitsOn, Tagged
      <3> QED BY <3>1
    <2>3. hist'[b] = hist[b] /\ Len(hist[b]) \in Nat
      BY <1>1, <1>2, <2>2, ExistsLen
    <2>4. /\ Len(hist'[b]) \in Nat /\ Len(hist[b]) <= Len(hist'[b])
          /\ \A v \in 1 .. Len(hist[b]) : hist'[b][v] = hist[b][v]
          /\ tags'[d] = tags[d] /\ pushed'[d] = pushed[d]
      BY <2>3
    <2> QED BY <1>8, <2>1, <2>4, CommitStays
  <1>12. TagsReadable' /\ DocumentsKept'
    BY <1>3, <1>11 DEF TagsReadable, DocumentsKept, Readable, Kept
  <1> QED BY <1>2, <1>3, <1>4, <1>5, <1>6, <1>9, <1>10, <1>12

\* A step after which no compaction runs.
LEMMA EndInv ==
    ASSUME CompInv, comp' \in CompState, comp'.pc = "idle",
           NEW bs \in SUBSET Epoch, \A b \in bs : CommitsOn(tags, b) = {},
           hist' = WithoutBranches(hist, bs), tags' = tags, pushed' = pushed,
           pruned' \in {pruned, pruned \cup Prunable(hist', tags)},
           up' \in BOOLEAN, started' = started, interrupts' \in 0 .. MaxInterrupts,
           Cardinality(Lost) <= interrupts'
    PROVE  CompInv'
  <1>1. /\ CompTypeOK /\ DiskOK /\ PushesOK /\ RootOK
        /\ \A d \in Tagged : Readable(d) /\ Kept(d)
    BY PropertiesMean DEF CompInv
  <1>2. /\ hist' \in Histories /\ pruned' \subseteq Nat
        /\ DiskOK' /\ PushesOK' /\ RootOK' /\ TagsReadable' /\ DocumentsKept'
        /\ Lost' = Lost
    BY <1>1, BranchesGo
  <1>3. CompTypeOK'
    BY <1>1, <1>2 DEF CompTypeOK
  <1>4. MovesOK' /\ ReplayOK' /\ RetagOK' /\ (~up => comp.pc = "idle")' /\ ~Creating'
    BY DEF MovesOK, ReplayOK, RetagOK, Creating
  <1>5. LossBounded'
    <2>1. interrupts' \in Nat
      BY BoundsAssumption
    <2>2. Cardinality(Lost') <= interrupts' + 0
      BY <1>2, <2>1
    <2> QED BY <1>4, <2>2 DEF LossBounded, Lost, Creating
  <1> QED BY <1>2, <1>3, <1>4, <1>5 DEF CompInv

\* A step after which a compaction is past phase 1 and between two tags.
LEMMA RunInv ==
    ASSUME CompInv, comp.pc # "idle", ~Creating, comp' \in CompState,
           comp'.pc \in {"retag", "migrate", "drop", "tidy"},
           comp'.epoch = comp.epoch, comp'.sorted = comp.sorted,
           \A s \in {comp'.plan, comp'.bounds, comp'.todo} :
              \A i \in 1 .. Len(s) : MoveOK(s[i]),
           NEW bs \in SUBSET Epoch, \A b \in bs : CommitsOn(tags, b) = {},
           comp.epoch \notin bs, hist' = WithoutBranches(hist, bs),
           UNCHANGED <<tags, pruned, pushed, up, interrupts, started>>, up, RetagOK'
    PROVE  CompInv'
  <1> USE EpochAssumption
  <1>1. /\ CompTypeOK /\ DiskOK /\ PushesOK /\ RootOK /\ MovesOK /\ LossBounded
        /\ \A d \in Tagged : Readable(d) /\ Kept(d)
    BY PropertiesMean DEF CompInv
  <1>2. /\ hist' \in Histories /\ pruned' \subseteq Nat
        /\ DiskOK' /\ PushesOK' /\ RootOK' /\ TagsReadable' /\ DocumentsKept'
        /\ \A b \in Branch \ bs : hist'[b] = hist[b]
        /\ \A m \in Commit : IsRoot(m) => IsRoot(m)'
        /\ Lost' = Lost
    BY <1>1, BranchesGo
  <1>3. PICK e \in Epoch : e = comp.epoch
    BY <1>1 DEF CompTypeOK
  <1>4. hist'[e] = hist[e] /\ BranchExists(hist', e)
    BY <1>1, <1>2, <1>3 DEF CompTypeOK, BranchExists
  <1>5. CompTypeOK'
    BY <1>1, <1>2, <1>3, <1>4 DEF CompTypeOK
  <1>6. First' = First
    BY DEF First
  <1>7. ASSUME NEW q, MoveOK(q)
        PROVE  MoveOK(q)'
    <2>1. Shows(q[1], q[2])'
      BY <1>3, <1>4, <1>7 DEF MoveOK, Shows
    <2> QED BY <1>6, <1>7, <2>1 DEF MoveOK
  <1>8. MovesOK'
    <2>1. \A s \in {comp'.plan, comp'.bounds, comp'.todo} :
              \A i \in 1 .. Len(s) : MoveOK(s[i])'
      BY <1>7
    <2>2. PICK m \in Commit : m = First /\ IsRoot(m)
      BY <1>1 DEF MovesOK, IsRoot, Tagged
    <2>3. IsRoot(First)'
      BY <1>2, <1>6, <2>2 DEF IsRoot
    <2>4. comp'.sorted # << >>
      BY <1>1 DEF MovesOK
    <2> QED BY <2>1, <2>3, <2>4 DEF MovesOK
  <1>9. ReplayOK' /\ (~up => comp.pc = "idle")' /\ ~Creating'
    BY DEF ReplayOK, Creating
  <1>10. LossBounded'
    BY <1>1, <1>2, <1>9, LossMeans DEF LossBounded, Lost, Creating
  <1> QED BY <1>2, <1>5, <1>8, <1>9, <1>10 DEF CompInv

\* Dropping no branch changes nothing, and no compaction is a compaction state.
LEMMA NothingGoes ==
    ASSUME CompTypeOK
    PROVE  /\ WithoutBranches(hist, {}) = hist
           /\ NoComp \in CompState /\ NoComp.pc = "idle"
  <1>1. hist \in Histories
    BY CompTypes
  <1>2. WithoutBranches(hist, {}) = hist
    BY <1>1 DEF WithoutBranches, Histories
  <1>3. << >> \in Seq(Commit \X Nat) /\ << >> \in Seq(Commit)
    BY EmptySeq
  <1> QED BY <1>2, <1>3 DEF NoComp, CompState

\* The cleanup after a compaction and at startup drops branches without tags.
LEMMA TidyMeans ==
    ASSUME CompTypeOK, TagsReadable, Tidy
    PROVE  /\ tags' = tags
           /\ \E bs \in SUBSET Epoch :
                 /\ \A b \in bs : CommitsOn(tags, b) = {}
                 /\ hist' = WithoutBranches(hist, bs)
                 /\ pruned' \in {pruned, pruned \cup Prunable(hist', tags)}
  <1>1. PICK orphans \in SUBSET Orphaned :
            LET ts == [c \in Commit |-> IF c \in orphans THEN None ELSE tags[c]]
            IN  \E stale \in SUBSET Stale(ts) :
                  /\ tags' = ts
                  /\ hist' = WithoutBranches(hist, stale)
                  /\ pruned' = IF orphans = {} /\ stale = {} THEN pruned
                               ELSE pruned \cup Prunable(hist', ts)
    BY DEF Tidy
  <1>2. orphans = {}
    BY NoOrphans
  <1>3. [c \in Commit |-> IF c \in orphans THEN None ELSE tags[c]] = tags
    BY <1>2, CompTypes DEF Tags
  <1>4. PICK stale \in SUBSET Stale(tags) :
            /\ tags' = tags
            /\ hist' = WithoutBranches(hist, stale)
            /\ pruned' = IF orphans = {} /\ stale = {} THEN pruned
                         ELSE pruned \cup Prunable(hist', tags)
    BY <1>1, <1>3
  <1>5. stale \in SUBSET Epoch /\ \A b \in stale : CommitsOn(tags, b) = {}
    BY DEF Stale, RebuildBranches
  <1> QED BY <1>4, <1>5

\* The steps that end a compaction, with and without success, and the restart.
LEMMA EndSteps ==
    ASSUME CompInv, ReplayFails \/ RetagFails \/ FinishCompaction \/ Crash \/ Startup
    PROVE  CompInv'
  <1> USE EpochAssumption
  <1>1. /\ CompTypeOK /\ PushesOK /\ ReplayOK /\ TagsReadable /\ LossBounded
        /\ (~up => comp.pc = "idle")
    BY DEF CompInv
  <1>2. /\ WithoutBranches(hist, {}) = hist /\ NoComp \in CompState /\ NoComp.pc = "idle"
        /\ comp \in CompState /\ hist \in Histories
    BY <1>1, NothingGoes, CompTypes
  <1>3. PICK n : n = Cardinality(Lost)
    OBVIOUS
  <1>4. n \in Nat /\ n <= interrupts + (IF Creating THEN 1 ELSE 0) /\ interrupts \in Nat
    BY <1>1, <1>3, FiniteTags, LossMeans, CompTypes
  <1>5. {} \in SUBSET Epoch /\ \A b \in {} : CommitsOn(tags, b) = {}
    OBVIOUS
  <1>6. interrupts < MaxInterrupts => interrupts + 1 \in 0 .. MaxInterrupts /\ n <= interrupts + 1
    BY <1>4, BoundsAssumption
  <1>7. interrupts \in 0 .. MaxInterrupts
    BY <1>1 DEF CompTypeOK
  <1>8. CASE ReplayFails
    <2>1. /\ comp.pc = "replay" /\ interrupts < MaxInterrupts /\ interrupts' = interrupts + 1
          /\ hist' \in {hist, [hist EXCEPT ![comp.epoch] = << >>]}
          /\ comp' = NoComp /\ UNCHANGED <<tags, pruned, pushed, up, started>>
      BY <1>8 DEF ReplayFails
    <2>2. comp.epoch \in Epoch /\ CommitsOn(tags, comp.epoch) = {}
      BY <1>1, <2>1 DEF CompTypeOK, ReplayOK
    <2>3. [hist EXCEPT ![comp.epoch] = << >>] = WithoutBranches(hist, {comp.epoch})
      BY <1>2, <2>2 DEF WithoutBranches, Histories
    <2>4. PICK bs \in SUBSET Epoch : /\ \A b \in bs : CommitsOn(tags, b) = {}
                                     /\ hist' = WithoutBranches(hist, bs)
      <3>1. CASE hist' = hist
        BY <1>2, <1>5, <3>1
      <3>2. CASE hist' = [hist EXCEPT ![comp.epoch] = << >>]
        <4>1. {comp.epoch} \in SUBSET Epoch
          BY <2>2
        <4> QED BY <2>2, <2>3, <3>2, <4>1
      <3> QED BY <2>1, <3>1, <3>2
    <2>5. up' \in BOOLEAN
      BY <1>1, <2>1 DEF CompTypeOK
    <2> QED BY <1>2, <1>3, <1>6, <2>1, <2>4, <2>5, EndInv
  <1>9. CASE RetagFails \/ Crash
    <2>1. /\ interrupts < MaxInterrupts /\ interrupts' = interrupts + 1 /\ up' \in BOOLEAN
          /\ comp' = NoComp /\ UNCHANGED <<hist, tags, pruned, pushed, started>>
      BY <1>1, <1>9 DEF RetagFails, Crash, CompTypeOK
    <2>2. hist' = WithoutBranches(hist, {})
      BY <1>2, <2>1
    <2> QED BY <1>2, <1>3, <1>5, <1>6, <2>1, <2>2, EndInv
  <1>10. CASE FinishCompaction
    <2>1. /\ comp.pc = "tidy" /\ Tidy /\ comp' = NoComp
          /\ UNCHANGED <<pushed, up, interrupts, started>>
      BY <1>10 DEF FinishCompaction
    <2>2. n <= interrupts'
      BY <1>4, <2>1 DEF Creating
    <2>3. up' \in BOOLEAN /\ interrupts' \in 0 .. MaxInterrupts
      BY <1>1, <1>7, <2>1 DEF CompTypeOK
    <2> QED BY <1>1, <1>2, <1>3, <2>1, <2>2, <2>3, TidyMeans, EndInv
  <1>11. CASE Startup
    <2>1. /\ ~up /\ up' = TRUE /\ UNCHANGED <<pushed, comp, interrupts, started>>
          /\ Tidy \/ UNCHANGED <<hist, tags, pruned>>
      BY <1>11 DEF Startup
    <2>2. n <= interrupts' /\ comp' \in CompState /\ comp'.pc = "idle"
      BY <1>1, <1>2, <1>4, <2>1 DEF Creating
    <2>3. up' \in BOOLEAN /\ interrupts' \in 0 .. MaxInterrupts
      BY <1>7, <2>1
    <2>4. CASE Tidy
      BY <1>1, <1>3, <2>1, <2>2, <2>3, <2>4, TidyMeans, EndInv
    <2>5. CASE UNCHANGED <<hist, tags, pruned>>
      <3>1. hist' = WithoutBranches(hist, {})
        BY <1>2, <2>5
      <3> QED BY <1>3, <1>5, <2>1, <2>2, <2>3, <2>5, <3>1, EndInv
    <2> QED BY <2>1, <2>4, <2>5
  <1> QED BY <1>8, <1>9, <1>10, <1>11

-----------------------------------------------------------------------------
(* Phases 2 and 2b.                                                        *)

\* A list of moves, and what is left of it without the first one.
LEMMA TailMove ==
    ASSUME NEW s \in Seq(Commit \X Nat), s # << >>
    PROVE  /\ s[1] \in Commit \X Nat /\ 1 \in 1 .. Len(s)
           /\ Tail(s) \in Seq(Commit \X Nat)
           /\ CommitsIn(s) \subseteq {s[1][1]} \cup CommitsIn(Tail(s))
           /\ \A j \in 1 .. Len(Tail(s)) : \E k \in 1 .. Len(s) : Tail(s)[j] = s[k]
  <1>1. PICK t : t = Tail(s)
    OBVIOUS
  <1>2. /\ t \in Seq(Commit \X Nat) /\ Len(t) = Len(s) - 1
        /\ \A i \in 1 .. Len(t) : t[i] = s[i + 1]
    BY <1>1, HeadTailProperties
  <1>3. Len(s) \in Nat /\ Len(s) # 0
    BY EmptySeq, LenProperties
  <1>4. s[1] \in Commit \X Nat /\ 1 \in 1 .. Len(s)
    BY <1>3, ElementOfSeq
  <1>5. \A j \in 1 .. Len(t) : \E k \in 1 .. Len(s) : t[j] = s[k]
    <2>1. \A j \in 1 .. Len(t) : j + 1 \in 1 .. Len(s)
      BY <1>2, <1>3
    <2> QED BY <1>2, <2>1
  <1>6. ASSUME NEW i \in 1 .. Len(s), i # 1
        PROVE  s[i][1] \in CommitsIn(t)
    <2>1. i - 1 \in 1 .. Len(t) /\ (i - 1) + 1 = i
      BY <1>2, <1>3, <1>6
    <2>2. t[i - 1] = s[i]
      BY <1>2, <2>1
    <2> QED BY <2>1, <2>2 DEF CommitsIn
  <1>7. CommitsIn(s) \subseteq {s[1][1]} \cup CommitsIn(t)
    BY <1>6 DEF CommitsIn
  <1> QED BY <1>1, <1>2, <1>4, <1>5, <1>7

\* The steps between two tags: phases end, a boundary stays, old branches go.
LEMMA RunSteps ==
    ASSUME CompInv, ReplayDone \/ MigrateSkip \/ PhaseDone \/ DropOldRebuilds
    PROVE  CompInv'
  <1> USE EpochAssumption
  <1>1. CompTypeOK /\ MovesOK /\ ReplayOK /\ RetagOK
    BY DEF CompInv
  <1>2. /\ hist = WithoutBranches(hist, {}) /\ comp \in CompState
        /\ comp.plan \in Seq(Commit \X Nat) /\ comp.bounds \in Seq(Commit \X Nat)
        /\ comp.todo \in Seq(Commit \X Nat)
    BY <1>1, NothingGoes, CompTypes
  <1>3. /\ {} \in SUBSET Epoch /\ comp.epoch \notin {}
        /\ \A b \in {} : CommitsOn(tags, b) = {}
    OBVIOUS
  <1>4. comp.pc # "idle" =>
            \A s \in {comp.plan, comp.bounds, comp.todo} :
               \A i \in 1 .. Len(s) : MoveOK(s[i])
    BY <1>1 DEF MovesOK
  <1>5. CommitsIn(<< >>) = {}
    <2>1. 1 .. Len(<< >>) = {}
      BY EmptySeq
    <2> QED BY <2>1 DEF CommitsIn
  <1>6. \A c \in Tagged : tags[c].branch \in Branch
    BY <1>1, CompTypes
  <1>7. CASE ReplayDone
    <2>1. /\ up /\ comp.pc = "replay" /\ NextPosition > Len(comp.sorted)
          /\ comp' = [comp EXCEPT !.pc = "retag", !.todo = comp.plan]
          /\ UNCHANGED <<hist, tags, pruned, pushed, up, interrupts, started>>
      BY <1>7 DEF ReplayDone
    <2>2. /\ comp' \in CompState /\ comp'.pc = "retag" /\ comp'.todo = comp.plan
          /\ comp'.epoch = comp.epoch /\ comp'.sorted = comp.sorted
          /\ comp'.plan = comp.plan /\ comp'.bounds = comp.bounds
      BY <1>2, <2>1 DEF CompState
    <2>3. ASSUME NEW c \in Tagged, OnOld(c)
          PROVE  c \in CommitsIn(comp.plan) \cup CommitsIn(comp.bounds)
      <3>1. PICK i \in 1 .. Len(comp.sorted) : c = comp.sorted[i]
        BY <1>1, <2>1 DEF ReplayOK
      <3>2. i # 1
        BY <1>1, <2>1, <2>3, <3>1 DEF MovesOK, IsRoot, First, OnOld
      <3>3. i \in 2 .. (NextPosition - 1)
        BY <1>1, <2>1, <3>2, NextPositionType
      <3> QED BY <1>1, <2>1, <3>1, <3>3 DEF ReplayOK
    <2>4. RetagOK'
      <3>1. /\ Tagged' = Tagged /\ \A c \in Tagged : OnOld(c)' => OnOld(c)
            /\ CommitsIn(comp.todo)' = CommitsIn(comp.plan)
            /\ CommitsIn(comp.bounds)' = CommitsIn(comp.bounds)
        BY <2>1, <2>2 DEF Tagged, OnOld, CommitsIn
      <3> QED BY <2>2, <2>3, <3>1 DEF RetagOK, Creating
    <2>5. \A s \in {comp'.plan, comp'.bounds, comp'.todo} :
              \A i \in 1 .. Len(s) : MoveOK(s[i])
      BY <1>4, <2>1, <2>2
    <2>6. ~Creating /\ hist' = WithoutBranches(hist, {})
      BY <1>2, <2>1 DEF Creating
    <2> QED BY <1>3, <2>1, <2>2, <2>4, <2>5, <2>6, RunInv
  <1>8. CASE MigrateSkip
    <2>1. /\ up /\ comp.pc = "migrate" /\ comp.todo # << >>
          /\ ~NeedsMigration(comp.todo[1][1])
          /\ comp' = [comp EXCEPT !.todo = Tail(@)]
          /\ UNCHANGED <<hist, tags, pruned, pushed, up, interrupts, started>>
      BY <1>8 DEF MigrateSkip
    <2>2. /\ Tail(comp.todo) \in Seq(Commit \X Nat)
          /\ CommitsIn(comp.todo) \subseteq {comp.todo[1][1]} \cup CommitsIn(Tail(comp.todo))
          /\ \A j \in 1 .. Len(Tail(comp.todo)) :
                \E k \in 1 .. Len(comp.todo) : Tail(comp.todo)[j] = comp.todo[k]
      BY <1>2, <2>1, TailMove
    <2>3. /\ comp' \in CompState /\ comp'.pc = "migrate" /\ comp'.todo = Tail(comp.todo)
          /\ comp'.epoch = comp.epoch /\ comp'.sorted = comp.sorted
          /\ comp'.plan = comp.plan /\ comp'.bounds = comp.bounds
      BY <1>2, <2>1, <2>2 DEF CompState
    <2>4. ASSUME NEW c \in Tagged, OnOld(c)
          PROVE  c \in CommitsIn(Tail(comp.todo))
      <3>1. c \in CommitsIn(comp.todo)
        BY <1>1, <2>1, <2>4 DEF RetagOK
      <3>2. NeedsMigration(c)
        BY <1>6, <2>4 DEF NeedsMigration, OnOld, Tagged
      <3> QED BY <2>1, <2>2, <3>1, <3>2
    <2>5. RetagOK'
      <3>1. /\ Tagged' = Tagged /\ \A c \in Tagged : OnOld(c)' => OnOld(c)
            /\ CommitsIn(comp.todo)' = CommitsIn(Tail(comp.todo))
        BY <2>1, <2>3 DEF Tagged, OnOld, CommitsIn
      <3> QED BY <2>3, <2>4, <3>1 DEF RetagOK, Creating
    <2>6. \A s \in {comp'.plan, comp'.bounds, comp'.todo} :
              \A i \in 1 .. Len(s) : MoveOK(s[i])
      <3>1. \A i \in 1 .. Len(Tail(comp.todo)) : MoveOK(Tail(comp.todo)[i])
        BY <1>4, <2>1, <2>2
      <3> QED BY <1>4, <2>1, <2>3, <3>1
    <2>7. ~Creating /\ hist' = WithoutBranches(hist, {})
      BY <1>2, <2>1 DEF Creating
    <2> QED BY <1>3, <2>1, <2>3, <2>5, <2>6, <2>7, RunInv
  <1>9. CASE PhaseDone
    <2>1. /\ up /\ comp.todo = << >>
          /\ UNCHANGED <<hist, tags, pruned, pushed, up, interrupts, started>>
          /\ \/ /\ comp.pc = "retag"
                /\ comp' = [comp EXCEPT !.pc = "migrate", !.todo = comp.bounds]
             \/ /\ comp.pc = "migrate"
                /\ comp' = [comp EXCEPT !.pc = "drop"]
      BY <1>9 DEF PhaseDone
    <2>2. /\ comp' \in CompState
          /\ comp'.epoch = comp.epoch /\ comp'.sorted = comp.sorted
          /\ comp'.plan = comp.plan /\ comp'.bounds = comp.bounds
          /\ \/ comp.pc = "retag" /\ comp'.pc = "migrate" /\ comp'.todo = comp.bounds
             \/ comp.pc = "migrate" /\ comp'.pc = "drop" /\ comp'.todo = comp.todo
      BY <1>2, <2>1 DEF CompState
    <2>3. RetagOK'
      <3>1. /\ Tagged' = Tagged /\ \A c \in Tagged : OnOld(c)' => OnOld(c)
            /\ CommitsIn(comp.todo)' = CommitsIn(comp'.todo)
        BY <2>1, <2>2 DEF Tagged, OnOld, CommitsIn
      <3>2. CASE comp.pc = "retag" /\ comp'.pc = "migrate" /\ comp'.todo = comp.bounds
        <4>1. \A c \in Tagged : OnOld(c) => c \in CommitsIn(comp.bounds)
          BY <1>1, <1>5, <2>1, <3>2 DEF RetagOK
        <4> QED BY <3>1, <3>2, <4>1 DEF RetagOK, Creating
      <3>3. CASE comp.pc = "migrate" /\ comp'.pc = "drop"
        <4>1. \A c \in Tagged : ~OnOld(c)
          BY <1>1, <1>5, <2>1, <3>3 DEF RetagOK
        <4> QED BY <3>1, <3>3, <4>1 DEF RetagOK, Creating
      <3> QED BY <2>2, <3>2, <3>3
    <2>4. \A s \in {comp'.plan, comp'.bounds, comp'.todo} :
              \A i \in 1 .. Len(s) : MoveOK(s[i])
      BY <1>4, <2>2
    <2>5. ~Creating /\ hist' = WithoutBranches(hist, {})
      BY <1>2, <2>1 DEF Creating
    <2> QED BY <1>3, <2>1, <2>2, <2>3, <2>4, <2>5, RunInv
  <1>10. CASE DropOldRebuilds
    <2>1. /\ up /\ comp.pc = "drop" /\ comp' = [comp EXCEPT !.pc = "tidy"]
          /\ UNCHANGED <<tags, pruned, pushed, up, interrupts, started>>
      BY <1>10 DEF DropOldRebuilds
    <2>2. PICK old \in SUBSET OldRebuilds : hist' = WithoutBranches(hist, old)
      BY <1>10 DEF DropOldRebuilds
    <2>3. old \in SUBSET Epoch /\ comp.epoch \notin old
      BY DEF OldRebuilds, RebuildBranches
    <2>4. \A b \in old : CommitsOn(tags, b) = {}
      BY <1>1, <2>1, <2>3 DEF RetagOK, CommitsOn, Tagged, OnOld
    <2>5. /\ comp' \in CompState /\ comp'.pc = "tidy" /\ comp'.todo = comp.todo
          /\ comp'.epoch = comp.epoch /\ comp'.sorted = comp.sorted
          /\ comp'.plan = comp.plan /\ comp'.bounds = comp.bounds
      BY <1>2, <2>1 DEF CompState
    <2>6. RetagOK'
      <3>1. Tagged' = Tagged /\ \A c \in Tagged : OnOld(c)' => OnOld(c)
        BY <2>1, <2>5 DEF Tagged, OnOld
      <3> QED BY <1>1, <2>1, <2>5, <3>1 DEF RetagOK, Creating
    <2>7. \A s \in {comp'.plan, comp'.bounds, comp'.todo} :
              \A i \in 1 .. Len(s) : MoveOK(s[i])
      BY <1>4, <2>1, <2>5
    <2>8. ~Creating
      BY <2>1 DEF Creating
    <2> QED BY <2>1, <2>2, <2>3, <2>4, <2>5, <2>6, <2>7, <2>8, RunInv
  <1> QED BY <1>7, <1>8, <1>9, <1>10

\* The tag of the commit to be moved next is deleted: one more commit is lost.
LEMMA DeleteInv ==
    ASSUME CompInv, RetagDelete \/ MigrateDelete
    PROVE  CompInv'
  <1> USE EpochAssumption
  <1>1. /\ CompTypeOK /\ DiskOK /\ PushesOK /\ RootOK /\ MovesOK /\ RetagOK /\ LossBounded
        /\ \A d \in Tagged : Readable(d) /\ Kept(d)
    BY PropertiesMean DEF CompInv
  <1>2. PICK next : /\ up /\ comp.todo # << >> /\ DeleteOldTag(next)
                    /\ \/ comp.pc = "retag" /\ next = "retagCreate"
                       \/ comp.pc = "migrate" /\ next = "migrateCreate"
    BY DEF RetagDelete, MigrateDelete
  <1>3. PICK x : x = comp.todo[1][1]
    OBVIOUS
  <1>4. /\ tags' = [c \in Commit |-> IF c = x THEN None ELSE tags[c]]
        /\ comp' = [comp EXCEPT !.pc = next]
        /\ UNCHANGED <<hist, pruned, pushed, up, interrupts, started>>
    BY <1>2, <1>3 DEF DeleteOldTag, TagsToDelete
  <1>5. comp \in CompState /\ comp.todo \in Seq(Commit \X Nat) /\ tags \in Tags
    BY <1>1, CompTypes
  <1>6. /\ comp' \in CompState /\ comp'.pc = next /\ comp'.todo = comp.todo
        /\ comp'.epoch = comp.epoch /\ comp'.sorted = comp.sorted
        /\ comp'.plan = comp.plan /\ comp'.bounds = comp.bounds
    BY <1>2, <1>4, <1>5 DEF CompState
  <1>7. comp.pc # "idle"
    BY <1>2
  <1>8. x \in Commit /\ pushed[x] # None /\ x # First
    <2>1. comp.todo[1] \in Commit \X Nat /\ 1 \in 1 .. Len(comp.todo)
      BY <1>2, <1>5, TailMove
    <2>2. MoveOK(comp.todo[1])
      BY <1>1, <1>7, <2>1 DEF MovesOK
    <2> QED BY <1>3, <2>1, <2>2 DEF MoveOK
  <1>9. /\ Tagged' = Tagged \ {x} /\ tags' \in Tags /\ tags'[x] = None
        /\ \A d \in Commit \ {x} : tags'[d] = tags[d]
    BY <1>4, <1>5, <1>8 DEF Tagged, Tags
  <1>10. CompTypeOK'
    BY <1>1, <1>4, <1>6, <1>7, <1>9 DEF CompTypeOK
  <1>11. DiskOK' /\ PushesOK'
    <2>1. PushedCommits' = PushedCommits
      BY <1>4 DEF PushedCommits
    <2>2. \A c \in Tagged' : pushed'[c] # None
      BY <1>1, <1>4, <1>9 DEF PushesOK
    <2> QED BY <1>1, <1>4, <2>1, <2>2 DEF DiskOK, PushesOK
  <1>12. First' = First /\ First \in Commit /\ tags'[First] = tags[First]
    <2>1. First \in Commit
      BY <1>1, <1>7 DEF MovesOK, IsRoot, Tagged
    <2> QED BY <1>6, <1>8, <1>9, <2>1 DEF First
  <1>13. IsRoot(First)'
    <2>1. /\ First \in Tagged /\ tags[First].branch = Main
          /\ \A c \in Tagged : tags[c].branch # Main => tags[c].version > tags[First].version
      BY <1>1, <1>7 DEF MovesOK, IsRoot
    <2>2. \A c \in Tagged' : c \in Tagged /\ tags'[c] = tags[c]
      BY <1>9 DEF Tagged
    <2>3. First \in Tagged'
      BY <1>8, <1>9, <2>1
    <2> QED BY <1>12, <2>1, <2>2, <2>3 DEF IsRoot
  <1>14. RootOK'
    <2>1. PICK m \in Commit : m = First
      BY <1>12
    <2>2. IsRoot(m)'
      BY <1>12, <1>13, <2>1 DEF IsRoot
    <2> QED BY <2>2 DEF RootOK
  <1>15. MovesOK'
    <2>1. ASSUME NEW q, MoveOK(q)
          PROVE  MoveOK(q)'
      <3>1. Shows(q[1], q[2])'
        BY <1>4, <1>6, <2>1 DEF MoveOK, Shows
      <3> QED BY <1>4, <1>12, <2>1, <3>1 DEF MoveOK
    <2>2. \A s \in {comp'.plan, comp'.bounds, comp'.todo} :
              \A i \in 1 .. Len(s) : MoveOK(s[i])'
      BY <1>1, <1>6, <1>7, <2>1 DEF MovesOK
    <2>3. comp'.sorted # << >>
      BY <1>1, <1>6, <1>7 DEF MovesOK
    <2> QED BY <1>13, <2>2, <2>3 DEF MovesOK
  <1>16. ReplayOK' /\ (~up => comp.pc = "idle")' /\ Creating' /\ ~Creating
    BY <1>2, <1>4, <1>6 DEF ReplayOK, Creating
  <1>17. RetagOK'
    <2>1. /\ CommitsIn(comp.todo)' = CommitsIn(comp.todo)
          /\ CommitsIn(comp.bounds)' = CommitsIn(comp.bounds)
      BY <1>6 DEF CommitsIn
    <2>2. comp'.todo # << >> /\ tags'[comp'.todo[1][1]] = None
      BY <1>2, <1>3, <1>6, <1>9
    <2>3. \A c \in Tagged' : c \in Tagged /\ (OnOld(c)' => OnOld(c))
      BY <1>6, <1>9 DEF Tagged, OnOld
    <2> QED BY <1>1, <1>2, <1>6, <2>1, <2>2, <2>3 DEF RetagOK
  <1>18. TagsReadable' /\ DocumentsKept'
    <2>1. ASSUME NEW d \in Tagged'
          PROVE  Readable(d)' /\ Kept(d)'
      <3>1. d \in Tagged /\ tags'[d] = tags[d]
        BY <1>9 DEF Tagged
      <3>2. Readable(d) /\ Kept(d)
        BY <1>1, <3>1
      <3> QED BY <1>4, <3>1, <3>2 DEF Readable, Kept, SnapshotOf
    <2> QED BY <2>1 DEF TagsReadable, DocumentsKept, Readable, Kept
  <1>19. LossBounded'
    <2>1. Lost' = Lost \cup {x}
      BY <1>4, <1>8, <1>9 DEF Lost
    <2>2. PICK n, m : n = Cardinality(Lost) /\ m = Cardinality(Lost \cup {x})
      OBVIOUS
    <2>3. n \in Nat /\ n <= interrupts /\ interrupts \in Nat
      BY <1>1, <1>16, <2>2, FiniteTags, LossMeans, CompTypes
    <2>4. m = n \/ m = n + 1
      BY <1>1, <2>2, FiniteTags, FS_AddElement
    <2>5. Cardinality(Lost') <= interrupts' + 1
      BY <1>4, <2>1, <2>2, <2>3, <2>4
    <2> QED BY <1>16, <2>5 DEF LossBounded, Lost, Creating
  <1> QED BY <1>10, <1>11, <1>14, <1>15, <1>16, <1>17, <1>18, <1>19 DEF CompInv

\* The tag is created again, on the version of the rebuild branch that shows it.
LEMMA CreateInv ==
    ASSUME CompInv, CreateTag
    PROVE  CompInv'
  <1> USE EpochAssumption, NoTagAssumption
  <1>1. /\ CompTypeOK /\ DiskOK /\ PushesOK /\ RootOK /\ MovesOK /\ RetagOK /\ LossBounded
        /\ \A d \in Tagged : Readable(d) /\ Kept(d)
    BY PropertiesMean DEF CompInv
  <1>2. PICK x, v : x = comp.todo[1][1] /\ v = comp.todo[1][2]
    OBVIOUS
  <1>3. PICK e : e = comp.epoch
    OBVIOUS
  <1>4. /\ up /\ Creating
        /\ tags' = [tags EXCEPT ![x] = [branch |-> e, version |-> v, at |-> 0]]
        /\ comp' = [comp EXCEPT
                      !.todo = Tail(@),
                      !.pc = IF @ = "retagCreate" THEN "retag" ELSE "migrate"]
        /\ UNCHANGED <<hist, pruned, pushed, up, interrupts, started>>
    BY <1>2, <1>3 DEF CreateTag, Creating
  <1>5. comp \in CompState /\ comp.todo \in Seq(Commit \X Nat) /\ tags \in Tags
    BY <1>1, CompTypes
  <1>6. comp.todo # << >> /\ tags[x] = None /\ comp.pc # "idle"
    BY <1>1, <1>2, <1>4 DEF RetagOK, Creating
  <1>7. /\ comp.todo[1] \in Commit \X Nat /\ 1 \in 1 .. Len(comp.todo)
        /\ Tail(comp.todo) \in Seq(Commit \X Nat)
        /\ CommitsIn(comp.todo) \subseteq {x} \cup CommitsIn(Tail(comp.todo))
        /\ \A j \in 1 .. Len(Tail(comp.todo)) :
              \E k \in 1 .. Len(comp.todo) : Tail(comp.todo)[j] = comp.todo[k]
    BY <1>2, <1>5, <1>6, TailMove
  <1>8. /\ comp' \in CompState /\ comp'.todo = Tail(comp.todo)
        /\ comp'.epoch = comp.epoch /\ comp'.sorted = comp.sorted
        /\ comp'.plan = comp.plan /\ comp'.bounds = comp.bounds
        /\ \/ comp.pc = "retagCreate" /\ comp'.pc = "retag"
           \/ comp.pc = "migrateCreate" /\ comp'.pc = "migrate"
    BY <1>4, <1>5, <1>7 DEF CompState, Creating
  <1>9. /\ x \in Commit /\ v \in Nat /\ pushed[x] # None /\ x # First /\ Shows(x, v)
        /\ v > tags[First].version
    <2>1. MoveOK(comp.todo[1])
      BY <1>1, <1>6, <1>7 DEF MovesOK
    <2> QED BY <1>2, <1>7, <2>1 DEF MoveOK
  <1>10. e \in Epoch /\ e \in Branch /\ BranchExists(hist, e)
    BY <1>1, <1>3, <1>6 DEF CompTypeOK
  <1>11. PICK t : t = [branch |-> e, version |-> v, at |-> 0]
    OBVIOUS
  <1>12. t \in Tag /\ t # None /\ t.branch = e /\ t.version = v
    BY <1>9, <1>10, <1>11 DEF Tag
  <1>13. /\ tags' \in Tags /\ tags'[x] = t /\ Tagged' = Tagged \cup {x} /\ x \notin Tagged
         /\ \A d \in Commit \ {x} : tags'[d] = tags[d]
    BY <1>4, <1>5, <1>6, <1>9, <1>11, <1>12 DEF Tagged, Tags
  <1>14. \A d \in Tagged : d # x /\ d \in Commit /\ tags'[d] = tags[d]
    BY <1>13 DEF Tagged
  <1>15. CompTypeOK'
    BY <1>1, <1>3, <1>4, <1>8, <1>10, <1>13 DEF CompTypeOK
  <1>16. DiskOK' /\ PushesOK'
    <2>1. PushedCommits' = PushedCommits
      BY <1>4 DEF PushedCommits
    <2>2. \A c \in Tagged' : pushed'[c] # None
      BY <1>1, <1>4, <1>9, <1>13 DEF PushesOK
    <2> QED BY <1>1, <1>4, <2>1, <2>2 DEF DiskOK, PushesOK
  <1>17. First' = First /\ First \in Tagged /\ tags'[First] = tags[First]
    <2>1. First \in Tagged
      BY <1>1, <1>6 DEF MovesOK, IsRoot
    <2> QED BY <1>8, <1>14, <2>1 DEF First
  <1>18. IsRoot(First)'
    <2>1. /\ tags[First].branch = Main
          /\ \A c \in Tagged : tags[c].branch # Main => tags[c].version > tags[First].version
      BY <1>1, <1>6 DEF MovesOK, IsRoot
    <2>2. \A c \in Tagged' : tags'[c].branch # Main => tags'[c].version > tags'[First].version
      BY <1>9, <1>12, <1>13, <1>14, <1>17, <2>1
    <2> QED BY <1>13, <1>17, <2>1, <2>2 DEF IsRoot
  <1>19. RootOK'
    <2>1. PICK m \in Commit : m = First
      BY <1>17 DEF Tagged
    <2>2. IsRoot(m)'
      BY <1>17, <1>18, <2>1 DEF IsRoot
    <2> QED BY <2>2 DEF RootOK
  <1>20. MovesOK'
    <2>1. ASSUME NEW q, MoveOK(q)
          PROVE  MoveOK(q)'
      <3>1. Shows(q[1], q[2])'
        BY <1>4, <1>8, <2>1 DEF MoveOK, Shows
      <3> QED BY <1>4, <1>17, <2>1, <3>1 DEF MoveOK
    <2>2. \A s \in {comp.plan, comp.bounds, comp.todo} :
              \A i \in 1 .. Len(s) : MoveOK(s[i])
      BY <1>1, <1>6 DEF MovesOK
    <2>3. \A i \in 1 .. Len(Tail(comp.todo)) : MoveOK(Tail(comp.todo)[i])
      BY <1>7, <2>2
    <2>4. \A s \in {comp'.plan, comp'.bounds, comp'.todo} :
              \A i \in 1 .. Len(s) : MoveOK(s[i])'
      BY <1>8, <2>1, <2>2, <2>3
    <2>5. comp'.sorted # << >>
      BY <1>1, <1>6, <1>8 DEF MovesOK
    <2> QED BY <1>18, <2>4, <2>5 DEF MovesOK
  <1>21. ReplayOK' /\ (~up => comp.pc = "idle")' /\ ~Creating'
    BY <1>4, <1>8 DEF ReplayOK, Creating
  <1>22. RetagOK'
    <2>1. /\ CommitsIn(comp.todo)' = CommitsIn(Tail(comp.todo))
          /\ CommitsIn(comp.bounds)' = CommitsIn(comp.bounds)
      BY <1>8 DEF CommitsIn
    <2>2. ASSUME NEW c \in Tagged', OnOld(c)'
          PROVE  c \in Tagged /\ OnOld(c) /\ c # x
      <3>1. c # x
        BY <1>3, <1>8, <1>12, <1>13, <2>2 DEF OnOld
      <3> QED BY <1>8, <1>13, <1>14, <2>2, <3>1 DEF OnOld
    <2> QED BY <1>1, <1>7, <1>8, <1>21, <2>1, <2>2 DEF RetagOK
  <1>23. TagsReadable' /\ DocumentsKept'
    <2>1. ASSUME NEW d \in Tagged
          PROVE  Readable(d)' /\ Kept(d)'
      <3>1. tags'[d] = tags[d] /\ Readable(d) /\ Kept(d)
        BY <1>1, <1>14
      <3> QED BY <1>4, <3>1 DEF Readable, Kept, SnapshotOf
    <2>2. Readable(x)' /\ Kept(x)'
      <3>1. /\ v \in 1 .. Len(hist[e]) /\ Docs(hist[e][v]) = Docs(pushed[x])
            /\ pushed[x] \subseteq hist[e][v]
        BY <1>3, <1>9 DEF Shows
      <3>2. SnapshotOf(x)' = hist[e][v]
        BY <1>4, <1>12, <1>13 DEF SnapshotOf, Snapshot
      <3>3. Readable(x)'
        BY <1>4, <1>10, <1>12, <1>13, <3>1 DEF Readable, VersionExists
      <3> QED BY <1>4, <3>1, <3>2, <3>3 DEF Kept
    <2> QED BY <1>13, <2>1, <2>2 DEF TagsReadable, DocumentsKept, Readable, Kept
  <1>24. LossBounded'
    <2>1. Lost' = Lost \ {x} /\ x \in Lost
      BY <1>4, <1>6, <1>9, <1>12, <1>13 DEF Lost
    <2>2. PICK n, m : n = Cardinality(Lost) /\ m = Cardinality(Lost \ {x})
      OBVIOUS
    <2>3. n \in Nat /\ n <= interrupts + 1 /\ interrupts \in Nat
      BY <1>1, <1>4, <2>2, FiniteTags, LossMeans, CompTypes
    <2>4. m = n - 1
      BY <1>1, <2>1, <2>2, FiniteTags, FS_RemoveElement
    <2>5. Cardinality(Lost') <= interrupts' + 0
      BY <1>4, <2>1, <2>2, <2>3, <2>4
    <2> QED BY <1>21, <2>5 DEF LossBounded, Lost, Creating
  <1> QED BY <1>15, <1>16, <1>19, <1>20, <1>21, <1>22, <1>23, <1>24 DEF CompInv

-----------------------------------------------------------------------------
(* The theorems.                                                           *)

\* The invariant holds at first.
LEMMA CompInvInit == Init => CompInv
  <1> SUFFICES ASSUME Init
               PROVE  CompInv
    OBVIOUS
  <1> USE MainAssumption, NoneAssumption DEF Init
  <1>1. Tagged = {} /\ Lost = {} /\ PushedCommits = {}
    BY DEF Tagged, Lost, PushedCommits, NoTags
  <1>2. << >> \in Seq(SUBSET Row) /\ << >> \in Seq(Commit \X Nat) /\ << >> \in Seq(Commit)
    BY EmptySeq
  <1>3. comp.pc = "idle" /\ comp \in CompState
    BY <1>2 DEF NoComp, CompState
  <1>4. CompTypeOK
    <2>1. hist \in Histories /\ tags \in Tags
      BY <1>2 DEF NoDataset, NoTags, Histories, Tags
    <2>2. interrupts \in 0 .. MaxInterrupts /\ started \in 0 .. MaxCompactions
      BY BoundsAssumption
    <2> QED BY <1>3, <2>1, <2>2 DEF CompTypeOK
  <1>5. DiskOK
    BY DEF DiskOK, Rooted, BranchExists, NoDataset
  <1>6. PushesOK /\ RootOK /\ TagsReadable /\ DocumentsKept
    BY <1>1, FS_EmptySet DEF PushesOK, RootOK, TagsReadable, DocumentsKept
  <1>7. MovesOK /\ ReplayOK /\ RetagOK /\ ~Creating
    BY <1>3 DEF MovesOK, ReplayOK, RetagOK, Creating
  <1>8. LossBounded
    <2>1. Cardinality(Lost) = 0
      BY <1>1, FS_EmptySet
    <2> QED BY <1>7, <2>1, LossMeans
  <1> QED BY <1>4, <1>5, <1>6, <1>7, <1>8 DEF CompInv

\* Every step keeps it.
LEMMA CompInvNext ==
    ASSUME IndexPassCommits, CompInv, [Next]_vars
    PROVE  CompInv'
  <1>1. CASE UNCHANGED vars
    <2>1. UNCHANGED <<hist, tags, pruned, pushed, comp, up, interrupts, started>>
      BY <1>1 DEF vars
    <2>2. CompTypeOK' /\ DiskOK' /\ PushesOK' /\ RootOK'
      BY <2>1 DEF CompInv, CompTypeOK, DiskOK, PushesOK, PushedCommits, RootOK, IsRoot,
                  Tagged
    <2>3. MovesOK'
      BY <2>1 DEF CompInv, MovesOK, MoveOK, Shows, First, IsRoot, Tagged
    <2>4. ReplayOK' /\ RetagOK' /\ (~up => comp.pc = "idle")'
      <3>1. /\ NextPosition' = NextPosition /\ First' = First /\ Tagged' = Tagged
            /\ \A s : CommitsIn(s)' = CommitsIn(s)
            /\ \A c : SnapshotOf(c)' = SnapshotOf(c) /\ OnOld(c)' = OnOld(c)
            /\ Creating' = Creating
        BY <2>1 DEF NextPosition, First, Tagged, SnapshotOf, CommitsIn, OnOld, Creating
      <3>2. ReplayOK'
        BY <2>1, <3>1 DEF CompInv, ReplayOK
      <3>3. RetagOK'
        BY <2>1, <3>1 DEF CompInv, RetagOK
      <3> QED BY <2>1, <3>2, <3>3 DEF CompInv
    <2>5. TagsReadable' /\ DocumentsKept' /\ LossBounded'
      BY <2>1 DEF CompInv, TagsReadable, DocumentsKept, LossBounded, Tagged, SnapshotOf
    <2> QED BY <2>2, <2>3, <2>4, <2>5 DEF CompInv
  <1>2. CASE NewCommits # {} /\ \/ \E d \in Doc, x \in Push \cup {None} :
                                      PushCommit(NextCommit, d, {<<d, y>> : y \in {x} \ {None}})
                                \/ PushEmpty(NextCommit)
    <2>1. PICK c : c = NextCommit
      OBVIOUS
    <2>2. c \in Commit /\ pushed[c] = None
      BY <1>2, <2>1 DEF NextCommit, NewCommits
    <2> QED BY <1>2, <2>1, <2>2, PushInv
  <1>3. CASE StartCompaction
    BY <1>3, StartInv
  <1>4. CASE ReplayCommit
    BY <1>4, ReplayInv
  <1>5. CASE ReplayFails \/ RetagFails \/ FinishCompaction \/ Crash \/ Startup
    BY <1>5, EndSteps
  <1>6. CASE ReplayDone \/ MigrateSkip \/ PhaseDone \/ DropOldRebuilds
    BY <1>6, RunSteps
  <1>7. CASE RetagDelete \/ MigrateDelete
    BY <1>7, DeleteInv
  <1>8. CASE CreateTag
    BY <1>8, CreateInv
  <1> QED BY <1>1, <1>2, <1>3, <1>4, <1>5, <1>6, <1>7, <1>8 DEF Next

\* The invariant holds throughout, if index passes commit.
LEMMA CompInvAlways ==
    ASSUME IndexPassCommits
    PROVE  Spec => []CompInv
  <1>1. CompInv /\ [Next]_vars => CompInv'
    BY CompInvNext
  <1> QED BY <1>1, CompInvInit, PTL DEF Spec

\* Whatever is interrupted in a compaction, every tag can be read: its branch
\* exists and its version was not cleaned up.
THEOREM CommitsStayReadable ==
    ASSUME IndexPassCommits
    PROVE  Spec => []TagsReadable
  <1>1. CompInv => TagsReadable
    BY DEF CompInv
  <1> QED BY <1>1, CompInvAlways, PTL

\* A compaction keeps what each commit shows: its documents and its rows.
THEOREM CompactionKeepsDocuments ==
    ASSUME IndexPassCommits
    PROVE  Spec => []DocumentsKept
  <1>1. CompInv => DocumentsKept
    BY DEF CompInv
  <1> QED BY <1>1, CompInvAlways, PTL

\* A compaction loses at most one commit for every interruption.
THEOREM LossIsBounded ==
    ASSUME IndexPassCommits
    PROVE  Spec => []LossBounded
  <1>1. CompInv => LossBounded
    BY DEF CompInv
  <1> QED BY <1>1, CompInvAlways, PTL

=============================================================================
