----------------------------- MODULE IndexFiles -----------------------------
(***************************************************************************)
(* The index files of one domain: the segments that index passes and the   *)
(* merge cascade create, the manifests (versions) that name them, and the  *)
(* garbage collection of the directory _indices, with crashes, restarts,   *)
(* forks, DELETE /branch-index, GET /integrity and a second process that   *)
(* starts on the same data directory.                                      *)
(*                                                                         *)
(* A segment is the number of its creation and stands for one directory    *)
(* _indices/<uuid>.  The pipelines of a domain exclude each other (domain  *)
(* guard), so one record, pipe, is the pipeline that runs.                 *)
(***************************************************************************)
EXTENDS Rollup, FiniteSets, SequencesExt

CONSTANTS Priors,      \* numbers of pushes completed before the behaviour
          ForkParents, \* versions of main that a fork may name by their tag
          IxFaults,    \* which kinds of errors may happen
          MaxIxPushes, \* bound on pushes
          MaxUpsets    \* bound on errors, crashes, branch deletions and starts
                       \* of a second process together

ASSUME PriorsAssumption == Priors \subseteq Nat /\ ForkParents \subseteq Nat
ASSUME IxFaultsAssumption ==
    IxFaults \subseteq {"push", "merge", "policy", "sweep", "collect"}
ASSUME IxBoundsAssumption ==
    MaxIxPushes \in Nat /\ MaxUpsets \in Nat

Branches == {"main", "feature", "rebuild"}
Absent == {0}                           \* a directory that does not exist

VARIABLES
    man,      \* [Branches -> sequence of manifests], << >>: no such branch
    gone,     \* versions <<branch, number>> that a cleanup removed
    tagged,   \* versions that carry a commit tag
    indexed,  \* those of them that a push with work tagged
    segs,     \* the segments made so far
    dir, bak, \* directories _indices and _indices_backup_fixb
    deltas,   \* [Branches -> index_delta_counts]
    pipe, fork, check,  \* the pipeline, a fork, an integrity check
    ixUp,     \* is the server running?
    odd,      \* what went wrong with the backup: "stranded", "unhidden"
    ixCount   \* pushes and upsets so far

ixVars == <<man, gone, tagged, indexed, segs, dir, bak, deltas, pipe, fork,
            check, ixUp, odd, ixCount>>
manifests == <<man, gone, tagged, indexed, segs>>
dirs == <<dir, bak>>

NoPipe == [pc |-> "idle", branch |-> "main", boundary |-> FALSE, ver |-> 0,
           merges |-> 0, hid |-> FALSE, live |-> {}, startup |-> FALSE]
NoCheck == [pc |-> "idle", live |-> {}, nested |-> {}, report |-> {}]

-----------------------------------------------------------------------------
(* Manifests: number of fragments, segments of the inverted index (fts) and *)
(* of the vector index (vec), oldest first.                                *)

Manifest(n, f, v) == [frags |-> n, fts |-> f, vec |-> v]
HeadVersion(b) == Len(man[b])
HeadManifest(b) == man[b][Len(man[b])]
Named(m) == ToSet(m.fts) \cup ToSet(m.vec)
Covered(s) == UNION {segs[u].covers : u \in ToSet(s)}

\* The segments that a reader can still ask for: those of the heads of all
\* branches and of the tagged versions (collect_live_index_uuids).
LiveSegments ==
    UNION ({Named(HeadManifest(b)) : b \in {x \in Branches : man[x] # << >>}}
           \cup {Named(man[t[1]][t[2]]) : t \in tagged})

\* Only main's segments are in _indices; a branch keeps its own in its tree.
InMainDir(S) == {u \in S : segs[u].home = "main"}
Present(d) == d \ Absent

-----------------------------------------------------------------------------
(* After p pushes to main, each of one fragment: version 1 is the empty    *)
(* dataset, push i writes version 2 * i and indexes it as 2 * i + 1, which  *)
(* it tags; the cleanups removed the rest.  A compaction may have left a   *)
(* rebuild branch, whose manifest names a segment that nobody else names.  *)

PriorManifest(v) ==
    Manifest(v \div 2, [i \in 1 .. (v - 1) \div 2 |-> i], << >>)

IxInit ==
    \E p \in Priors, rebuild \in {"none", "tagged", "stale"} :
        /\ man = [b \in Branches |->
              CASE b = "main" -> [v \in 1 .. 2 * p + 1 |-> PriorManifest(v)]
                [] b = "rebuild" /\ rebuild # "none"
                                -> <<Manifest(1, <<p + 1>>, << >>)>>
                [] OTHER -> << >>]
        /\ p = 0 => rebuild = "none"
        /\ gone = {<<"main", v>> : v \in {x \in 1 .. 2 * p : x = 1 \/ x % 2 = 0}}
        /\ tagged = {<<"main", 2 * i + 1>> : i \in 1 .. p}
                    \cup (IF rebuild = "tagged" THEN {<<"rebuild", 1>>} ELSE {})
        /\ indexed = tagged
        /\ segs = [i \in 1 .. p |-> [home |-> "main", covers |-> {i}]]
                  \o (IF rebuild = "none" THEN << >>
                      ELSE <<[home |-> "main", covers |-> {1}]>>)
        /\ dir = 1 .. Len(segs) /\ bak = Absent
        /\ deltas = [b \in Branches |-> IF b = "main" THEN p \div Base ELSE 0]
        /\ pipe = NoPipe /\ fork = 0 /\ check = NoCheck
        /\ ixUp = TRUE /\ odd = {}
        /\ ixCount = [push |-> 0, upset |-> 0]

Counted(k, max) ==
    ixCount[k] < max /\ ixCount' = [ixCount EXCEPT ![k] = @ + 1]
Upset == Counted("upset", MaxUpsets)
PGoto(s) == pipe' = [pipe EXCEPT !.pc = s]
PEnd == pipe' = NoPipe
\* Requests are served once the startup cleanup is over.
Serving == ixUp /\ ~pipe.startup
\* A check that overlaps a pipeline may report anything: it is not followed.
DropCheck == check' = NoCheck

-----------------------------------------------------------------------------
(* The index phase of a push.                                              *)

\* io_count_branch_commits: those of main include the commits that a compaction
\* has moved to its rebuild branch.
BranchCommits(b) ==
    {t \in tagged : t[1] = b \/ (b = "main" /\ t[1] = "rebuild")}

\* The domain guard and the open; the position is read before the writes.  A
\* commit without work is tagged at the head and ends.
BeginPush(b) ==
    /\ ixUp /\ pipe.pc = "idle" /\ man[b] # << >>
    /\ Counted("push", MaxIxPushes)
    /\ LET position == Cardinality(BranchCommits(b))
       IN  \/ pipe' = [NoPipe EXCEPT !.pc = "write", !.branch = b,
                                     !.boundary = should_index_commit(position)]
              /\ UNCHANGED <<tagged, indexed>>
           \/ tagged' = tagged \cup {<<b, HeadVersion(b)>>} /\ UNCHANGED <<pipe, indexed>>
    /\ DropCheck
    /\ UNCHANGED <<man, gone, segs, dirs, deltas, fork, ixUp, odd>>

NewVersion(b, m) == man' = [man EXCEPT ![b] = Append(@, m)]

AppendFragment ==
    LET b == pipe.branch  m == HeadManifest(b)
    IN  /\ pipe.pc = "write"
        /\ NewVersion(b, [m EXCEPT !.frags = @ + 1])
        /\ PGoto("index")
        /\ UNCHANGED <<gone, tagged, indexed, segs, dirs, deltas, fork, check,
                       ixUp, odd, ixCount>>

\* optimize_indices(append()): one new segment per existing index, over the
\* fragments that the index does not cover.
Unindexed(m, s) == (1 .. m.frags) \ Covered(s)

\* Mutant of SegmentsMade: only boundary commits extend the inverted index.
SegmentsAtBoundary(m, boundary, enough) ==
    <<IF boundary \/ m.fts = << >> THEN Unindexed(m, m.fts) ELSE {},
      IF m.vec # << >> THEN Unindexed(m, m.vec)
      ELSE IF boundary /\ enough THEN 1 .. m.frags ELSE {}>>

\* The segments that an index pass over manifest m makes, as the pair of
\* those for fts and for vec.  The inverted index is created if missing.  On
\* a boundary the vector index is created once there are rows enough.
SegmentsMade(m, boundary, enough) ==
    LET newFts == Unindexed(m, m.fts)
        newVec == IF m.vec # << >> THEN Unindexed(m, m.vec)
                  ELSE IF boundary /\ enough THEN 1 .. m.frags ELSE {}
    IN  <<newFts, newVec>>

\* A coverage becomes a segment, unless it is empty.
NewSegment(b, covers) ==
    IF covers = {} THEN << >> ELSE <<[home |-> b, covers |-> covers]>>

\* The new segments for the pair of coverages made.
MakeSegments(b, made) ==
    LET new == NewSegment(b, made[1]) \o NewSegment(b, made[2])
    IN  /\ segs' = segs \o new
        /\ dir' = IF b = "main" /\ new # << >>
                  THEN Present(dir) \cup (Len(segs) + 1 .. Len(segs) + Len(new))
                  ELSE dir

\* The number that the coverage made[i] gets, as a sequence of length 0 or 1.
SegmentOf(made, i) ==
    IF made[i] = {} THEN << >>
    ELSE <<Len(segs) + (IF i = 2 /\ made[1] # {} THEN 2 ELSE 1)>>

IndexFragments ==
    LET b == pipe.branch  m == HeadManifest(b)
    IN  /\ pipe.pc = "index"
        /\ \E enough \in BOOLEAN :
              LET made == SegmentsMade(m, pipe.boundary, enough)
              IN  /\ MakeSegments(b, made)
                  /\ NewVersion(b, Manifest(m.frags,
                                            m.fts \o SegmentOf(made, 1),
                                            m.vec \o SegmentOf(made, 2)))
        /\ deltas' = [deltas EXCEPT ![b] = IF pipe.boundary THEN @ + 1 ELSE @]
        /\ pipe' = [pipe EXCEPT !.pc = "merge", !.ver = HeadVersion(b) + 1,
               !.merges = IF pipe.boundary THEN merges_needed[deltas'[b]] ELSE 0]
        /\ UNCHANGED <<gone, tagged, indexed, bak, fork, check, ixUp, odd, ixCount>>

\* optimize_indices(merge(n)): the n newest segments of each index become one.
Merged(s, n) == IF Len(s) > 1 THEN Covered(Newest(s, n)) ELSE {}
AfterMerge(s, n, new) == IF Len(s) > 1 THEN Older(s, n) \o new ELSE s

\* io_incremental_cascade stops when fewer than three segments are left.
Cascade ==
    LET b == pipe.branch  m == HeadManifest(b)
        made == <<Merged(m.fts, Base), Merged(m.vec, Base)>>
    IN  /\ pipe.pc = "merge" /\ pipe.merges > 0
        /\ Len(m.fts) + Len(m.vec) >= Base
        /\ InMainDir(Named(m)) \subseteq Present(dir)
        /\ MakeSegments(b, made)
        /\ NewVersion(b, Manifest(m.frags,
                                  AfterMerge(m.fts, Base, SegmentOf(made, 1)),
                                  AfterMerge(m.vec, Base, SegmentOf(made, 2))))
        /\ pipe' = [pipe EXCEPT !.merges = @ - 1]
        /\ UNCHANGED <<gone, tagged, indexed, bak, deltas, fork, check, ixUp,
                       odd, ixCount>>

\* The commit is tagged at the version of the index pass, not at the head.
TagIndexed ==
    LET b == pipe.branch  m == HeadManifest(b)
    IN  /\ pipe.pc = "merge"
        /\ \/ pipe.merges = 0 \/ Len(m.fts) + Len(m.vec) < Base
           \/ ~(InMainDir(Named(m)) \subseteq Present(dir))
           \/ "merge" \in IxFaults     \* an error of the cascade is dropped
        /\ tagged' = tagged \cup {<<b, pipe.ver>>}
        /\ indexed' = indexed \cup {<<b, pipe.ver>>}
        /\ PGoto("hide")
        /\ UNCHANGED <<man, gone, segs, dirs, deltas, fork, check, ixUp, odd,
                       ixCount>>

PushFails ==
    /\ "push" \in IxFaults /\ Upset
    /\ pipe.pc \in {"write", "index", "merge"}
    /\ PEnd
    /\ UNCHANGED <<manifests, dirs, deltas, fork, check, ixUp, odd>>

-----------------------------------------------------------------------------
(* io_cleanup_aggressive: it always works on main.                         *)

\* FIX-B: _indices is renamed while Lance cleans, if a rebuild branch exists.
\* The rename fails onto a backup that holds files; the cleanup then ends.
HideIndices ==
    LET hide == man["rebuild"] # << >> /\ dir # Absent
    IN  /\ pipe.pc = "hide"
        /\ \/ /\ hide /\ Present(bak) = {}
              /\ bak' = dir /\ dir' = Absent
              /\ pipe' = [pipe EXCEPT !.pc = "policy", !.hid = TRUE]
           \/ ~hide /\ PGoto("policy") /\ UNCHANGED dirs
           \/ hide /\ Present(bak) # {} /\ PEnd /\ UNCHANGED dirs
        /\ UNCHANGED <<manifests, deltas, fork, check, ixUp, odd, ixCount>>

\* Building the policy may fail, and then returns before the restore.
PolicyFails ==
    /\ "policy" \in IxFaults /\ pipe.pc = "policy" /\ Upset
    /\ PEnd
    /\ odd' = IF pipe.hid THEN odd \cup {"stranded"} ELSE odd
    /\ UNCHANGED <<manifests, dirs, deltas, fork, check, ixUp>>

\* Lance's cleanup: of main, the head and the tagged versions stay.  It drops
\* the segments that it sees and that no remaining version of main or of a
\* user's branch names; the rebuild branches' files it does not protect.
Sweep ==
    LET kept(b) == {Named(man[b][v]) : v \in {x \in 1 .. Len(man[b]) :
                                                <<b, x>> \notin gone'}}
    IN  /\ pipe.pc = "policy"
        /\ gone' = gone \cup {<<"main", v>> : v \in {x \in 1 .. HeadVersion("main") - 1 :
                                                        <<"main", x>> \notin tagged}}
        /\ dir' = IF dir = Absent THEN Absent
                  ELSE dir \cap UNION (kept("main") \cup kept("feature"))
        /\ PGoto("restore")
        /\ UNCHANGED <<man, tagged, indexed, segs, bak, deltas, fork, check, ixUp,
                       odd, ixCount>>

\* The cleanup may fail at once: what it hid is restored, the prune is skipped.
SweepFails ==
    /\ "sweep" \in IxFaults /\ pipe.pc = "policy" /\ Upset
    /\ PGoto("restoreOnly")
    /\ UNCHANGED <<manifests, dirs, deltas, fork, check, ixUp, odd>>

RestoreIndices ==
    /\ pipe.pc \in {"restore", "restoreOnly"}
    /\ \/ pipe.hid /\ bak # Absent /\ dir' = bak \cup Present(dir) /\ bak' = Absent
       \/ ~(pipe.hid /\ bak # Absent) /\ UNCHANGED dirs
    /\ IF pipe.pc = "restoreOnly" \/ (pipe.hid /\ bak = Absent)
       THEN PEnd ELSE PGoto("collect")
    /\ UNCHANGED <<manifests, deltas, fork, check, ixUp, odd, ixCount>>

\* io_prune_stale_index_dirs: nothing to do if the directory is not there; the
\* strict collection fails as a whole, and then nothing is removed.
Collect ==
    /\ pipe.pc = "collect"
    /\ \/ /\ dir # Absent
          /\ pipe' = [pipe EXCEPT !.pc = "prune", !.live = LiveSegments]
          /\ UNCHANGED ixCount
       \/ dir = Absent /\ PEnd /\ UNCHANGED ixCount
       \/ "collect" \in IxFaults /\ PEnd /\ Upset
    /\ UNCHANGED <<manifests, dirs, deltas, fork, check, ixUp, odd>>

Prune ==
    /\ pipe.pc = "prune"
    /\ dir' = IF dir = Absent THEN Absent ELSE dir \cap pipe.live
    /\ PEnd
    /\ UNCHANGED <<manifests, bak, deltas, fork, check, ixUp, odd, ixCount>>

-----------------------------------------------------------------------------
(* Requests that do not take the domain guard.                             *)

\* A fork resolves a version of main (a tag or the head) ...
ForkResolve ==
    /\ Serving /\ fork = 0 /\ man["feature"] = << >>
    /\ \/ fork' = HeadVersion("main")
       \/ \E v \in ForkParents : <<"main", v>> \in tagged /\ fork' = v
    /\ UNCHANGED <<manifests, dirs, deltas, pipe, check, ixUp, odd, ixCount>>

\* ... and makes the branch there, if a cleanup has not removed it meanwhile.
ForkCreate ==
    /\ Serving /\ fork # 0
    /\ man' = IF <<"main", fork>> \in gone THEN man
              ELSE [man EXCEPT !["feature"] = <<man["main"][fork]>>]
    /\ fork' = 0
    /\ UNCHANGED <<gone, tagged, indexed, segs, dirs, deltas, pipe, check, ixUp,
                   odd, ixCount>>

\* DELETE /branch-index takes the pipeline lock of its branch only.
DropTags(b) ==
    /\ Serving /\ ~(pipe.pc # "idle" /\ pipe.branch = b)
    /\ Upset
    /\ tagged' = {t \in tagged : t[1] # b}
    /\ indexed' = {t \in indexed : t[1] # b}
    /\ deltas' = [deltas EXCEPT ![b] = 0]
    /\ UNCHANGED <<man, gone, segs, dirs, pipe, fork, check, ixUp, odd>>

\* GET /integrity reads the manifests and then the directories, with no lock.
CheckManifests ==
    /\ Serving /\ check.pc = "idle"
    /\ check' = IF pipe.pc = "idle"
                THEN [NoCheck EXCEPT !.pc = "scan", !.live = LiveSegments] ELSE NoCheck
    /\ UNCHANGED <<manifests, dirs, deltas, pipe, fork, ixUp, odd, ixCount>>

\* Mutant of Found: only _indices is read.
FoundInMain(u, nested) == u \in Present(dir)

\* The scan finds what is in _indices, and what is in that directory of a branch
\* right below tree/.  The tree of a branch in nested, those with a slash in
\* their name, is deeper and is not found.
Found(u, nested) == u \in Present(dir) \/ segs[u].home \notin nested \cup {"main"}

\* dangling_index_refs: named by a manifest, but no directory was found.
CheckDirectories ==
    /\ Serving /\ check.pc = "scan"
    /\ \E nested \in SUBSET {"feature"} :
          check' = [check EXCEPT !.pc = "done", !.nested = nested,
                                 !.report = {u \in check.live : ~Found(u, nested)}]
    /\ UNCHANGED <<manifests, dirs, deltas, pipe, fork, ixUp, odd, ixCount>>

-----------------------------------------------------------------------------
(* Crash and start.                                                        *)

IxCrash ==
    /\ ixUp /\ Upset
    /\ ixUp' = FALSE
    /\ pipe' = NoPipe /\ fork' = 0 /\ check' = NoCheck
    /\ deltas' = [b \in Branches |-> 0]
    /\ UNCHANGED <<manifests, dirs, odd>>

\* recover_stranded_index_backups: merge the backup into _indices, or rename.
Recovered == IF bak = Absent THEN dir ELSE bak \cup Present(dir)

\* Mutant of IxStart: the backup is left alone.
StartWithoutRecovery ==
    /\ ~ixUp /\ ixUp' = TRUE
    /\ pipe' = [NoPipe EXCEPT !.pc = "collect"]
    /\ UNCHANGED <<manifests, dirs, deltas, fork, check, odd, ixCount>>

\* LanceStore::new and io_cleanup_compaction_branches: a rebuild branch that
\* no tag names is deleted, and then the cleanup runs; the prune always runs.
IxStart ==
    LET stale == man["rebuild"] # << >> /\ ~\E t \in tagged : t[1] = "rebuild"
    IN  /\ ~ixUp
        /\ ixUp' = TRUE
        /\ dir' = Recovered /\ bak' = Absent
        /\ man' = IF stale THEN [man EXCEPT !["rebuild"] = << >>] ELSE man
        /\ pipe' = [NoPipe EXCEPT !.startup = TRUE,
                                  !.pc = IF stale THEN "hide" ELSE "collect"]
        /\ odd' = odd \ {"stranded"}
        /\ UNCHANGED <<gone, tagged, indexed, segs, deltas, fork, check, ixCount>>

\* Another process starts on the directory: it recovers before it finds that
\* the embedding cache is locked and goes read-only.
SecondStart ==
    /\ ixUp /\ Upset
    /\ dir' = Recovered /\ bak' = Absent
    /\ odd' = IF bak # Absent /\ pipe.pc = "policy" THEN odd \cup {"unhidden"} ELSE odd
    /\ UNCHANGED <<manifests, deltas, pipe, fork, check, ixUp>>

IxNext ==
    \/ \E b \in {"main", "feature"} : BeginPush(b) \/ DropTags(b)
    \/ AppendFragment \/ IndexFragments \/ Cascade \/ TagIndexed \/ PushFails
    \/ HideIndices \/ PolicyFails \/ Sweep \/ SweepFails \/ RestoreIndices
    \/ Collect \/ Prune
    \/ ForkResolve \/ ForkCreate
    \/ CheckManifests \/ CheckDirectories
    \/ IxCrash \/ IxStart \/ SecondStart

IxSpec == IxInit /\ [][IxNext]_ixVars

-----------------------------------------------------------------------------
(* Properties.                                                             *)

\* Type correctness of the index files.
IxTypeOK ==
    /\ DOMAIN man = Branches
    /\ \A b \in Branches : \A v \in 1 .. Len(man[b]) :
          Named(man[b][v]) \subseteq DOMAIN segs
    /\ indexed \subseteq tagged /\ gone \subseteq Branches \X Nat
    /\ \A t \in tagged : t[2] \in 1 .. Len(man[t[1]])
    /\ Present(dir) \cup Present(bak) \subseteq DOMAIN segs
    /\ pipe.live \subseteq DOMAIN segs /\ fork \in 0 .. HeadVersion("main")
    /\ ixUp \in BOOLEAN /\ odd \subseteq {"stranded", "unhidden"}

\* io_prune_stale_index_dirs: "Deleting a UUID referenced only by a non-HEAD
\* tagged manifest would silently break historical search".  No live segment
\* is lost, wherever a push fails, the server crashes or a fork comes between
\* the collection and the removal: its files are in _indices, or in the backup
\* while a cleanup runs or until the start after a crash in one.  Two cases are
\* apart: a cleanup whose policy fails leaves the backup until the next start,
\* and a second process that starts in a cleanup undoes the hiding.
IndexesBacked ==
    /\ "unhidden" \notin odd => InMainDir(LiveSegments) \subseteq Present(dir) \cup Present(bak)
    /\ bak # Absent => ~ixUp \/ pipe.hid \/ "stranded" \in odd

\* "FTS has no flat-scan fallback": the version that a push with work tags has
\* an inverted index over every fragment, those of failed pushes included, and
\* each fragment is in one segment of an index only, merged or not.
TaggedFullyIndexed ==
    /\ \A t \in indexed : Covered(man[t[1]][t[2]].fts) = 1 .. man[t[1]][t[2]].frags
    /\ \A t \in tagged : LET m == man[t[1]][t[2]]
                         IN  \A s \in {m.fts, m.vec} : \A i \in 1 .. Len(s) : \A j \in 1 .. i - 1 :
                                segs[s[i]].covers \cap segs[s[j]].covers = {}

\* GET /integrity raises no false alarm but one: if no pipeline ran meanwhile
\* and none of the two cases of IndexesBacked came up, what it reports dangling
\* are segments in the tree of a branch whose name has a slash.  (The comment of
\* the scan says "main + all branch tree/<branch>/_indices/".)
NoFalseAlarm ==
    check.pc = "done" /\ odd = {} =>
        \A u \in check.report : segs[u].home \in check.nested
=============================================================================
