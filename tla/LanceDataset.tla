---------------------------- MODULE LanceDataset ----------------------------
(***************************************************************************)
(* The on-disk state of one domain: a versioned Lance dataset.             *)
(*                                                                         *)
(* A dataset is a function from branches to histories.  A history is the   *)
(* sequence of versions of the branch, a version is the set of rows it     *)
(* shows.  The empty history stands for a branch that does not exist, so   *)
(* the dataset exists exactly when its default branch has a version.  A    *)
(* fork keeps the numbering of its parent: version v of the fork is        *)
(* version v of the parent for every v up to the fork point.               *)
(*                                                                         *)
(* A row is a pair <<document, writer>>: the writer tells apart the rows   *)
(* that different pushes wrote for the same document, which is all the     *)
(* properties need of content and embeddings.                              *)
(*                                                                         *)
(* A tag binds a commit to [branch, version, at]; "at" is the creation     *)
(* order (Lance's created_at).                                             *)
(***************************************************************************)
EXTENDS Integers, Sequences, FiniteSets

CONSTANTS Branch,   \* branch names of the domain
          Main,     \* the default branch, always a member of Branch
          Commit,   \* commit identifiers
          Doc,      \* document identifiers
          Push,     \* push requests: the writers of rows
          None      \* "no value": outside every other set

ASSUME MainAssumption == Main \in Branch
ASSUME NoneAssumption ==
    None \notin Branch \cup Commit \cup Push

Row == Doc \X Push
Histories == [Branch -> Seq(SUBSET Row)]
Tag == [branch : Branch, version : Nat, at : Nat]
Tags == [Commit -> Tag \cup {None}]
ASSUME NoTagAssumption == None \notin Tag

NoDataset == [b \in Branch |-> << >>]
NoTags == [c \in Commit |-> None]

DatasetExists(hist) == hist[Main] # << >>
BranchExists(hist, b) == hist[b] # << >>

\* Rows of the newest version of a branch.
HeadRows(hist, b) == hist[b][Len(hist[b])]

\* io_open_dataset: the first use creates an empty dataset at version 1.
EnsureDataset(hist) ==
    IF DatasetExists(hist) THEN hist
                           ELSE [hist EXCEPT ![Main] = << {} >>]

\* Every Lance write adds one version to one branch.
AddVersion(hist, b, rows) == [hist EXCEPT ![b] = Append(hist[b], rows)]

\* io_microbatch_delete: no row of a deleted document survives.
WithoutDocs(rows, docs) == {r \in rows : r[1] \notin docs}

\* io_microbatch_append: one new row per document, nothing is replaced.
WithDocs(rows, docs, p) == rows \cup (docs \X {p})

\* create_branch: the fork shares the versions of its parent up to v.
ForkAt(hist, b, src, v) == [hist EXCEPT ![b] = SubSeq(hist[src], 1, v)]

\* Lance creates a tag only for a version that is on the branch and on disk.
VersionExists(hist, pruned, b, v) ==
    /\ v \in 1 .. Len(hist[b])
    /\ b = Main => v \notin pruned

\* The rows a reader of a tagged commit sees.
Snapshot(hist, tag) == hist[tag.branch][tag.version]

CommitsOn(tags, b) == {c \in Commit : tags[c] # None /\ tags[c].branch = b}

\* Mutant of Prunable: cleanup forgets that tags pin versions.
PrunableTagged(hist, tags) == 1 .. (Len(hist[Main]) - 1)

\* io_cleanup_aggressive works on the default branch: it keeps the newest
\* version and the tagged ones.
Prunable(hist, tags) ==
    {v \in 1 .. (Len(hist[Main]) - 1) :
        \A c \in CommitsOn(tags, Main) : tags[c].version # v}

\* Mutant of NotOlder: the comparison is the wrong way round.
NotNewer(s, t) == \/ s.version < t.version
                  \/ s.version = t.version /\ s.at <= t.at

\* io_derive_last_indexed: the greatest version, creation order breaking ties.
NotOlder(s, t) == \/ s.version > t.version
                  \/ s.version = t.version /\ s.at >= t.at

IsLastIndexed(tags, b, c) ==
    /\ c \in CommitsOn(tags, b)
    /\ \A d \in CommitsOn(tags, b) : NotOlder(tags[c], tags[d])
=============================================================================
