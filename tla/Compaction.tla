----------------------------- MODULE Compaction -----------------------------
(***************************************************************************)
(* Delta-fork retagging of one domain: io_retag_with_delta_forks and the   *)
(* startup cleanup that recovers from its interruption.                    *)
(*                                                                         *)
(* A compaction forks a fresh "rebuild" branch at the version of the first *)
(* commit and replays every later commit on it as the difference to its    *)
(* predecessor (phase 1).  It then moves the tags of the intermediate      *)
(* commits to the versions it made, one delete and one create at a time    *)
(* (phase 2), does the same for boundary commits whose tag is on an older  *)
(* rebuild branch (phase 2b), drops the older rebuild branches and tidies. *)
(*                                                                         *)
(* Branch is Main plus the names of rebuild branches (Epoch).  The second  *)
(* component of a row is its content here, so the members of Push are the  *)
(* contents a document can have.  Pushes and compactions exclude each      *)
(* other, as the comments of the code require of the caller.               *)
(***************************************************************************)
EXTENDS LanceDataset, SequencesExt

CONSTANTS Epoch,          \* names of rebuild branches
          EmptyPass,      \* versions an index pass may add if no row is new
          MaxInterrupts,  \* bound on crashes and failed compactions
          MaxCompactions  \* bound on compactions

ASSUME EpochAssumption == Branch = Epoch \cup {Main} /\ Main \notin Epoch
ASSUME EmptyPassAssumption == EmptyPass \subseteq {0, 1}
ASSUME NoRowsAssumption == \A rows \in SUBSET Row : None # rows
ASSUME BoundsAssumption == MaxInterrupts \in Nat /\ MaxCompactions \in Nat

VARIABLES
    hist,        \* [Branch -> sequence of versions], see LanceDataset
    tags,        \* [Commit -> tag or None]
    pruned,      \* versions of Main that cleanup removed
    pushed,      \* [Commit -> rows at the time of its push, or None]
    comp,        \* the running compaction
    up,          \* is the process running?
    interrupts,  \* crashes and failed compactions
    started      \* compactions started

vars == <<hist, tags, pruned, pushed, comp, up, interrupts, started>>

NoComp == [pc |-> "idle", epoch |-> None, sorted |-> << >>,
           plan |-> << >>, bounds |-> << >>, todo |-> << >>]

Init == /\ hist = NoDataset
        /\ tags = NoTags
        /\ pruned = {}
        /\ pushed = [c \in Commit |-> None]
        /\ comp = NoComp
        /\ up = TRUE
        /\ interrupts = 0
        /\ started = 0

Docs(rows) == {r[1] : r \in rows}
RowsOf(rows, d) == {r \in rows : r[1] = d}
Tagged == {c \in Commit : tags[c] # None}
SnapshotOf(c) == Snapshot(hist, tags[c])
RebuildBranches(h) == {e \in Epoch : BranchExists(h, e)}

-----------------------------------------------------------------------------
(* Pushes: the committed effect of the index pipeline on the main branch.  *)

\* io_batch_delete_append: Changed and Deleted documents lose their rows in
\* one version, the new rows arrive in another.
DeleteAppend(h, b, gone, rows) ==
    LET h1 == IF gone = {} THEN h
              ELSE AddVersion(h, b, WithoutDocs(HeadRows(h, b), gone))
    IN  IF rows = {} THEN h1
        ELSE AddVersion(h1, b, HeadRows(h1, b) \cup rows)

\* io_ensure_fts_index_on_dataset: the rows stay; a version is added, unless
\* no row is new and Lance then has nothing to commit.
IndexPass(h, b, rows) ==
    {IF n = 0 THEN h ELSE AddVersion(h, b, HeadRows(h, b)) :
        n \in IF rows = {} THEN EmptyPass ELSE {1}}

\* Every third commit also gets a vector index, once there are enough rows.
\* (The cascade that merges indices starts with the ninth commit.)
VectorPass(hs, b) ==
    IF (Cardinality(Tagged) + 1) % 3 # 0 THEN hs
    ELSE hs \cup {AddVersion(h, b, HeadRows(h, b)) : h \in hs}

\* Commit identifiers are arbitrary: they are used in a fixed order.
NewCommits == {c \in Commit : pushed[c] = None}
NextCommit == CHOOSE c \in NewCommits : TRUE

\* A commit that writes or deletes one document; the tag goes to the indexed
\* version and cleanup removes the untagged ones.
PushCommit(c, d, rows) ==
    LET h0 == EnsureDataset(hist)
        gone == {d} \cap Docs(HeadRows(h0, Main))
        h1 == DeleteAppend(h0, Main, gone, rows)
    IN  /\ up /\ comp.pc = "idle"
        /\ gone \cup rows # {}
        /\ hist' \in VectorPass(IndexPass(h1, Main, rows), Main)
        /\ tags' = [tags EXCEPT ![c] = [branch |-> Main,
                        version |-> Len(hist'[Main]), at |-> 0]]
        /\ pruned' = pruned \cup Prunable(hist', tags')
        /\ pushed' = [pushed EXCEPT ![c] = HeadRows(hist', Main)]
        /\ UNCHANGED <<comp, up, interrupts, started>>

\* A commit without indexable content is tagged at the current version.
PushEmpty(c) ==
    LET h == EnsureDataset(hist)
    IN  /\ up /\ comp.pc = "idle"
        /\ hist' = h
        /\ tags' = [tags EXCEPT ![c] = [branch |-> Main,
                        version |-> Len(h[Main]), at |-> 0]]
        /\ pushed' = [pushed EXCEPT ![c] = HeadRows(h, Main)]
        /\ UNCHANGED <<pruned, comp, up, interrupts, started>>

-----------------------------------------------------------------------------
(* Phase 1: replay every commit on a fresh rebuild branch.                 *)

\* Positions that keep their tag: 0, 3, 12, 39, ..., as the loop over pos and
\* step finds them.  The newest commit is never a boundary.
BoundaryPositions(n) ==
    LET loop[k \in 0 .. n] ==
            IF k = 0 THEN <<0, 1>>
            ELSE LET r == loop[k - 1] IN <<r[1] + r[2] * 3, r[2] * 3>>
    IN  {loop[k][1] : k \in 0 .. n} \cap (0 .. (n - 2))

\* sort_by_key on the version alone: one of the least comes first, so ties come
\* out in any order, and the versions of different branches are compared as if
\* they were of one.
SortedByVersion[S \in SUBSET Tagged] ==
    IF S = {} THEN {<< >>}
    ELSE LET least == {c \in S : \A d \in S : tags[c].version <= tags[d].version}
         IN  UNION {{<<c>> \o s : s \in SortedByVersion[S \ {c}]} : c \in least}

\* The name of a rebuild branch is a timestamp, never one that is in use.
FreshEpochs ==
    {e \in Epoch : ~BranchExists(hist, e) /\ CommitsOn(tags, e) = {}}

\* The fork point is a raw version number, resolved on the main branch.
StartCompaction ==
    /\ up /\ comp.pc = "idle"
    /\ Cardinality(Tagged) > 2
    /\ FreshEpochs # {} /\ started < MaxCompactions
    /\ started' = started + 1
    /\ \E s \in SortedByVersion[Tagged] : LET e == CHOOSE f \in FreshEpochs : TRUE IN
        /\ VersionExists(hist, pruned, Main, tags[s[1]].version)
        /\ hist' = ForkAt(hist, e, Main, tags[s[1]].version)
        /\ comp' = [NoComp EXCEPT !.pc = "replay", !.epoch = e, !.sorted = s]
    /\ UNCHANGED <<tags, pruned, pushed, up, interrupts>>

\* Mutant of PreviousCommit: every delta is taken from the first commit.
FirstCommit(s, i) == s[1]

\* The delta of a commit is relative to the one sorted before it.
PreviousCommit(s, i) == s[i - 1]

\* io_compute_delta_between_commits: documents that disappear, and all rows
\* of the documents that are new or whose content differs.
DeltaDeletes(a, b) == Docs(a) \ Docs(b)
DeltaAppends(a, b) == {r \in b : RowsOf(a, r[1]) # RowsOf(b, r[1])}

\* The position in comp.sorted of the commit to replay next.
NextPosition == Len(comp.plan) + Len(comp.bounds) + 2

ReplayCommit ==
    LET i == NextPosition
        c == comp.sorted[i]
        e == comp.epoch
        a == SnapshotOf(PreviousCommit(comp.sorted, i))
        b == SnapshotOf(c)
        h == DeleteAppend(hist, e, DeltaDeletes(a, b), DeltaAppends(a, b))
    IN  /\ up /\ comp.pc = "replay"
        /\ i <= Len(comp.sorted)
        /\ \/ /\ (i - 1) \in BoundaryPositions(Len(comp.sorted))
              /\ hist' = h
              /\ comp' = [comp EXCEPT !.bounds = Append(@, <<c, Len(h[e])>>)]
           \/ /\ (i - 1) \notin BoundaryPositions(Len(comp.sorted))
              /\ hist' \in IndexPass(h, e, DeltaAppends(a, b))
              /\ comp' = [comp EXCEPT !.plan = Append(@, <<c, Len(hist'[e])>>)]
        /\ UNCHANGED <<tags, pruned, pushed, up, interrupts, started>>

\* A step of phase 1 fails: the rebuild branch is deleted, if that works.
ReplayFails ==
    /\ up /\ comp.pc = "replay"
    /\ interrupts < MaxInterrupts
    /\ interrupts' = interrupts + 1
    /\ hist' \in {hist, [hist EXCEPT ![comp.epoch] = << >>]}
    /\ comp' = NoComp
    /\ UNCHANGED <<tags, pruned, pushed, up, started>>

ReplayDone ==
    /\ up /\ comp.pc = "replay"
    /\ NextPosition > Len(comp.sorted)
    /\ comp' = [comp EXCEPT !.pc = "retag", !.todo = comp.plan]
    /\ UNCHANGED <<hist, tags, pruned, pushed, up, interrupts, started>>

-----------------------------------------------------------------------------
(* Phases 2 and 2b: move tags to the rebuild branch.                       *)

\* Mutant of TagsToDelete: all tags of the plan are deleted first.
AllPlanned == {comp.todo[i][1] : i \in 1 .. Len(comp.todo)}

\* One tag is deleted at a time, and created again before the next.
TagsToDelete == {comp.todo[1][1]}

DeleteOldTag(next) ==
    /\ tags' = [c \in Commit |-> IF c \in TagsToDelete THEN None ELSE tags[c]]
    /\ comp' = [comp EXCEPT !.pc = next]
    /\ UNCHANGED <<hist, pruned, pushed, up, interrupts, started>>

RetagDelete ==
    /\ up /\ comp.pc = "retag" /\ comp.todo # << >>
    /\ DeleteOldTag("retagCreate")

\* Mutant of NeedsMigration: boundary tags are never moved.
NeverMigrates(c) == FALSE

\* A boundary commit moves only if its tag is on an older rebuild branch.
NeedsMigration(c) == /\ tags[c] # None
                     /\ tags[c].branch \in Epoch \ {comp.epoch}

MigrateDelete ==
    /\ up /\ comp.pc = "migrate" /\ comp.todo # << >>
    /\ NeedsMigration(comp.todo[1][1])
    /\ DeleteOldTag("migrateCreate")

MigrateSkip ==
    /\ up /\ comp.pc = "migrate" /\ comp.todo # << >>
    /\ ~NeedsMigration(comp.todo[1][1])
    /\ comp' = [comp EXCEPT !.todo = Tail(@)]
    /\ UNCHANGED <<hist, tags, pruned, pushed, up, interrupts, started>>

\* The tag is created on the handle of the rebuild branch.
CreateTag ==
    LET c == comp.todo[1][1]
    IN  /\ up /\ comp.pc \in {"retagCreate", "migrateCreate"}
        /\ tags' = [tags EXCEPT ![c] = [branch |-> comp.epoch,
                        version |-> comp.todo[1][2], at |-> 0]]
        /\ comp' = [comp EXCEPT
                      !.todo = Tail(@),
                      !.pc = IF @ = "retagCreate" THEN "retag" ELSE "migrate"]
        /\ UNCHANGED <<hist, pruned, pushed, up, interrupts, started>>

PhaseDone ==
    /\ up /\ comp.todo = << >>
    /\ \/ /\ comp.pc = "retag"
          /\ comp' = [comp EXCEPT !.pc = "migrate", !.todo = comp.bounds]
       \/ /\ comp.pc = "migrate"
          /\ comp' = [comp EXCEPT !.pc = "drop"]
    /\ UNCHANGED <<hist, tags, pruned, pushed, up, interrupts, started>>

\* An error in phase 2 or 2b ends the compaction where it is.
RetagFails ==
    /\ up /\ comp.pc \in {"retag", "retagCreate", "migrate", "migrateCreate"}
    /\ interrupts < MaxInterrupts
    /\ interrupts' = interrupts + 1
    /\ comp' = NoComp
    /\ UNCHANGED <<hist, tags, pruned, pushed, up, started>>

-----------------------------------------------------------------------------
(* The end of a compaction, crashes and startup.                           *)

WithoutBranches(h, bs) == [b \in Branch |-> IF b \in bs THEN << >> ELSE h[b]]

\* Mutant of OldRebuilds: the new rebuild branch is dropped too.
AllRebuilds == RebuildBranches(hist)

OldRebuilds == RebuildBranches(hist) \ {comp.epoch}

\* A branch whose deletion fails is left for the cleanup.
DropOldRebuilds ==
    /\ up /\ comp.pc = "drop"
    /\ \E old \in SUBSET OldRebuilds :
        hist' = WithoutBranches(hist, old)
    /\ comp' = [comp EXCEPT !.pc = "tidy"]
    /\ UNCHANGED <<tags, pruned, pushed, up, interrupts, started>>

Orphaned == {c \in Tagged : tags[c].branch # Main
                            /\ ~BranchExists(hist, tags[c].branch)}
Stale(ts) == {e \in RebuildBranches(hist) : CommitsOn(ts, e) = {}}

\* io_cleanup_orphaned_tags_and_stale_branches: deletions that fail are
\* skipped, and the aggressive cleanup runs only if something was deleted.
Tidy == \E orphans \in SUBSET Orphaned :
          LET ts == [c \in Commit |-> IF c \in orphans THEN None ELSE tags[c]]
          IN  \E stale \in SUBSET Stale(ts) :
                /\ tags' = ts
                /\ hist' = WithoutBranches(hist, stale)
                /\ pruned' = IF orphans = {} /\ stale = {} THEN pruned
                             ELSE pruned \cup Prunable(hist', ts)

FinishCompaction ==
    /\ up /\ comp.pc = "tidy"
    /\ Tidy
    /\ comp' = NoComp
    /\ UNCHANGED <<pushed, up, interrupts, started>>

\* Only the disk survives.
Crash ==
    /\ up
    /\ interrupts < MaxInterrupts
    /\ interrupts' = interrupts + 1
    /\ up' = FALSE
    /\ comp' = NoComp
    /\ UNCHANGED <<hist, tags, pruned, pushed, started>>

\* io_cleanup_compaction_branches runs before the server listens.
Startup ==
    /\ ~up
    /\ up' = TRUE
    /\ IF DatasetExists(hist) THEN Tidy ELSE UNCHANGED <<hist, tags, pruned>>
    /\ UNCHANGED <<pushed, comp, interrupts, started>>

Next ==
    \/ /\ NewCommits # {}
       /\ \/ \E d \in Doc, x \in Push \cup {None} :
                PushCommit(NextCommit, d, {<<d, y>> : y \in {x} \ {None}})
          \/ PushEmpty(NextCommit)
    \/ StartCompaction \/ ReplayCommit \/ ReplayFails \/ ReplayDone
    \/ RetagDelete \/ MigrateDelete \/ MigrateSkip \/ CreateTag
    \/ PhaseDone \/ RetagFails \/ DropOldRebuilds \/ FinishCompaction
    \/ Crash \/ Startup

Spec == Init /\ [][Next]_vars

-----------------------------------------------------------------------------
(* Properties.                                                             *)

\* A compaction: where it is, what it sorted, and the tags it has still to move.
CompState ==
    [pc : {"idle", "replay", "retag", "retagCreate", "migrate", "migrateCreate",
           "drop", "tidy"},
     epoch : Epoch \cup {None}, sorted : Seq(Commit), plan : Seq(Commit \X Nat),
     bounds : Seq(Commit \X Nat), todo : Seq(Commit \X Nat)]

\* The types of the state; the branch a compaction works on exists as long
\* as it runs.
CompTypeOK ==
    /\ hist \in Histories
    /\ tags \in Tags
    /\ pruned \subseteq Nat
    /\ pushed \in [Commit -> (SUBSET Row) \cup {None}]
    /\ comp \in CompState
    /\ comp.pc # "idle" => comp.epoch \in Epoch /\ BranchExists(hist, comp.epoch)
    /\ up \in BOOLEAN
    /\ interrupts \in 0 .. MaxInterrupts
    /\ started \in 0 .. MaxCompactions

\* Every tag can be read at any time, whatever was interrupted: its branch
\* exists and its version was not cleaned up.  Phase 2b, the deletion of old
\* rebuild branches and io_cleanup_aggressive all depend on it.
TagsReadable ==
    \A c \in Tagged :
        VersionExists(hist, pruned, tags[c].branch, tags[c].version)

\* A compaction moves a commit but keeps what it shows: the documents are
\* those of the push, and no row of the push is missing.  The deltas of
\* io_retag_with_delta_forks telescope although the replay order may differ
\* from the order of the pushes.
DocumentsKept ==
    \A c \in Tagged : /\ Docs(SnapshotOf(c)) = Docs(pushed[c])
                       /\ pushed[c] \subseteq SnapshotOf(c)

\* A commit is lost only between the delete and the create of its own tag:
\* at most one for every interruption, and the one in progress.  This is
\* what the two phases of io_retag_with_delta_forks achieve.
LossBounded ==
    Cardinality({c \in Commit : pushed[c] # None /\ tags[c] = None})
        <= interrupts
           + (IF comp.pc \in {"retagCreate", "migrateCreate"} THEN 1 ELSE 0)

\* Retagging leaves the rows of every commit as they were pushed, as the
\* tests of io_retag_with_delta_forks claim for EVERY commit.  It does not
\* hold: io_apply_delta_on_branch appends the new rows of a changed document
\* and never deletes the old ones.
SnapshotIsolation == \A c \in Tagged : SnapshotOf(c) = pushed[c]
=============================================================================
