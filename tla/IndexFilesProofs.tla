-------------------------- MODULE IndexFilesProofs --------------------------
(***************************************************************************)
(* The index files that a reader can ask for are never lost, for any       *)
(* number of pushes, failures, crashes, forks and starts of a second       *)
(* process, and what a push tags is fully indexed.                         *)
(*                                                                         *)
(* FilesInv is inductive.  Two windows carry the argument: between the     *)
(* index pass and the tag nothing but the pipeline remembers the version   *)
(* (MergeOK), and a fork remembers a version while cleanups run (ForkOK),  *)
(* which are safe because a version that a cleanup drops is marked as gone *)
(* before its segments are removed.                                        *)
(***************************************************************************)
EXTENDS IndexFiles, SequenceTheorems, TLAPS

ManifestSet == [frags : Nat, fts : Seq(Nat), vec : Seq(Nat)]
Segment == [home : Branches, covers : SUBSET Nat]

\* Each fragment is in one segment of the list at most.
Disjoint(s) == \A i \in 1 .. Len(s) : \A j \in 1 .. i - 1 :
                  segs[s[i]].covers \cap segs[s[j]].covers = {}

\* A list of segments that were made, over fragments that the manifest has.
IndexOK(s, n) == /\ ToSet(s) \subseteq 1 .. Len(segs)
                 /\ Covered(s) \subseteq 1 .. n
                 /\ Disjoint(s)
WellFormed(m) == IndexOK(m.fts, m.frags) /\ IndexOK(m.vec, m.frags)

\* The files of these segments are in one of the two directories.
Files == Present(dir) \cup Present(bak)
Backed(S) == InMainDir(S) \subseteq Files
Hidden == "unhidden" \notin odd     \* no second process undid the hiding
Exists(b) == man[b] # << >>

PipeShape ==
    /\ DOMAIN pipe = DOMAIN NoPipe /\ DOMAIN check = DOMAIN NoCheck
    /\ pipe.pc \in {"idle", "write", "index", "merge", "hide", "policy", "restore",
                    "restoreOnly", "collect", "prune"}
    /\ check.pc \in {"idle", "scan", "done"}
    /\ pipe.branch \in {"main", "feature"}
    /\ pipe.hid \in BOOLEAN /\ pipe.startup \in BOOLEAN

\* Manifests stay well-formed.
ManifestsOK ==
    /\ man \in [Branches -> Seq(ManifestSet)] /\ segs \in Seq(Segment)
    /\ Exists("main") /\ (pipe.pc # "idle" => Exists(pipe.branch))
    /\ \A b \in Branches : \A v \in 1 .. Len(man[b]) : WellFormed(man[b][v])

\* A tagged version is there, and no cleanup has removed it.
TagsOK ==
    /\ tagged \subseteq Branches \X Nat /\ gone \subseteq {"main"} \X Nat
    /\ \A t \in tagged : t[2] \in 1 .. Len(man[t[1]]) /\ t \notin gone
    /\ \A g \in gone : g[2] \in 1 .. Len(man["main"]) - 1
    /\ indexed \subseteq tagged
    /\ \A t \in indexed : Covered(man[t[1]][t[2]].fts) = 1 .. man[t[1]][t[2]].frags

\* The version that the index pass made is not the head once the cascade has
\* begun, and not yet tagged: its files are there all the same.
MergeOK ==
    pipe.pc = "merge" =>
        LET m == man[pipe.branch][pipe.ver]
        IN  /\ pipe.ver \in 1 .. Len(man[pipe.branch])
            /\ <<pipe.branch, pipe.ver>> \notin gone
            /\ Covered(m.fts) = 1 .. m.frags
            /\ Hidden => Backed(Named(m))

\* The version that a fork has resolved keeps its files, or a cleanup has marked
\* it as gone; after the cleanup it is tagged or the head, and so collected.
ForkOK ==
    /\ fork \in 0 .. Len(man["main"])
    /\ fork # 0 =>
        /\ ixUp /\ ~pipe.startup /\ ~Exists("feature")
        /\ <<"main", fork>> \in gone \/ (Hidden => Backed(Named(man["main"][fork])))
        /\ pipe.pc \in {"restore", "collect", "prune"} =>
              <<"main", fork>> \in gone \cup tagged \/ fork = Len(man["main"])

\* What the cleanup may not see is hidden while it runs.
HideOK ==
    /\ pipe.hid => pipe.pc \in {"policy", "restore", "restoreOnly", "collect", "prune"}
    /\ pipe.pc = "policy" /\ Hidden =>
          dir = Absent \/ (~pipe.hid /\ ~Exists("rebuild"))
    /\ pipe.pc \in {"collect", "prune"} /\ pipe.hid => bak = Absent
    /\ pipe.pc = "prune" => LiveSegments \subseteq pipe.live

\* A server that is down does nothing, and a check does not overlap a pipeline.
QuietOK ==
    /\ ~ixUp => pipe.pc = "idle" /\ check.pc = "idle"
    /\ check.pc # "idle" => pipe.pc = "idle"
    /\ check.pc = "scan" /\ odd = {} => InMainDir(check.live) \subseteq Present(dir)

\* The inductive invariant.
FilesInv ==
    /\ PipeShape /\ ManifestsOK /\ TagsOK /\ MergeOK /\ ForkOK /\ HideOK /\ QuietOK
    /\ IndexesBacked /\ NoFalseAlarm

-----------------------------------------------------------------------------
(* Segments are only ever added.                                           *)

SegsGrow == /\ Len(segs) <= Len(segs')
            /\ \A u \in 1 .. Len(segs) : segs'[u] = segs[u]

\* The members of a list.
LEMMA ToSetMeans ==
    ASSUME NEW S, NEW s \in Seq(S)
    PROVE  /\ ToSet(s) = {s[i] : i \in 1 .. Len(s)} /\ ToSet(s) \subseteq S
           /\ Len(s) \in Nat /\ \A i \in 1 .. Len(s) : s[i] \in ToSet(s)
  <1>1. DOMAIN s = 1 .. Len(s) /\ Len(s) \in Nat
    BY LenProperties
  <1>2. ToSet(s) = {s[i] : i \in 1 .. Len(s)}
    BY <1>1 DEF ToSet
  <1>3. \A i \in 1 .. Len(s) : s[i] \in S
    BY ElementOfSeq
  <1> QED BY <1>1, <1>2, <1>3

\* The segments that were made keep their place and their fragments.
LEMMA SegsStay ==
    ASSUME SegsGrow, NEW S, S \subseteq 1 .. Len(segs)
    PROVE  InMainDir(S)' = InMainDir(S)
  BY DEF SegsGrow, InMainDir

\* A list of segments that were made is as good later.
LEMMA IndexStays ==
    ASSUME SegsGrow, Len(segs) \in Nat, Len(segs') \in Nat,
           NEW s \in Seq(Nat), NEW n, IndexOK(s, n)
    PROVE  IndexOK(s, n)' /\ Covered(s)' = Covered(s)
  <1>1. /\ ToSet(s) \subseteq 1 .. Len(segs) /\ \A i \in 1 .. Len(s) : s[i] \in ToSet(s)
        /\ Len(s) \in Nat
    BY ToSetMeans DEF IndexOK
  <1>2. ToSet(s) \subseteq 1 .. Len(segs')
    BY <1>1 DEF SegsGrow
  <1>3. Covered(s)' = Covered(s)
    BY <1>1 DEF Covered, SegsGrow
  <1>4. Disjoint(s)'
    <2>1. ASSUME NEW i \in 1 .. Len(s), NEW j \in 1 .. i - 1
          PROVE  segs'[s[i]].covers \cap segs'[s[j]].covers = {}
      <3>1. j \in 1 .. Len(s)
        BY <1>1
      <3>2. segs'[s[i]] = segs[s[i]] /\ segs'[s[j]] = segs[s[j]]
        BY <1>1, <3>1 DEF SegsGrow
      <3> QED BY <3>2 DEF IndexOK, Disjoint
    <2> QED BY <2>1 DEF Disjoint
  <1> QED BY <1>2, <1>3, <1>4 DEF IndexOK

\* A manifest stays well-formed.
LEMMA WellFormedStays ==
    ASSUME SegsGrow, Len(segs) \in Nat, Len(segs') \in Nat,
           NEW m \in ManifestSet, WellFormed(m)
    PROVE  /\ WellFormed(m)' /\ Covered(m.fts)' = Covered(m.fts)
           /\ Named(m) \subseteq 1 .. Len(segs)
  <1>1. m.fts \in Seq(Nat) /\ m.vec \in Seq(Nat)
    BY DEF ManifestSet
  <1>2. PICK f, v, n : f = m.fts /\ v = m.vec /\ n = m.frags
    OBVIOUS
  <1>3. IndexOK(f, n) /\ IndexOK(v, n)
    BY <1>2 DEF WellFormed
  <1>4. /\ IndexOK(f, n)' /\ Covered(f)' = Covered(f)
        /\ IndexOK(v, n)'
    BY <1>1, <1>2, <1>3, IndexStays
  <1> QED BY <1>2, <1>3, <1>4 DEF WellFormed, IndexOK, Named, Covered, Disjoint

\* What is live, element by element.
LEMMA LiveMeans ==
    ASSUME NEW u
    PROVE  u \in LiveSegments <=>
              \/ \E b \in Branches : Exists(b) /\ u \in Named(HeadManifest(b))
              \/ \E t \in tagged : u \in Named(man[t[1]][t[2]])
  BY DEF LiveSegments, Exists

\* The types of the manifests.
LEMMA ManifestTypes ==
    ASSUME ManifestsOK
    PROVE  /\ Len(segs) \in Nat
           /\ \A b \in Branches : /\ Len(man[b]) \in Nat /\ man[b] \in Seq(ManifestSet)
                                  /\ Exists(b) <=> Len(man[b]) > 0
           /\ \A b \in Branches : \A v \in 1 .. Len(man[b]) :
                 man[b][v] \in ManifestSet /\ WellFormed(man[b][v])
  <1>1. Len(segs) \in Nat
    BY LenProperties DEF ManifestsOK
  <1>2. ASSUME NEW b \in Branches
        PROVE  /\ Len(man[b]) \in Nat /\ man[b] \in Seq(ManifestSet)
               /\ Exists(b) <=> Len(man[b]) > 0
               /\ \A v \in 1 .. Len(man[b]) : man[b][v] \in ManifestSet
    <2>1. man[b] \in Seq(ManifestSet)
      BY DEF ManifestsOK
    <2>2. Len(man[b]) \in Nat /\ \A v \in 1 .. Len(man[b]) : man[b][v] \in ManifestSet
      BY <2>1, LenProperties, ElementOfSeq
    <2> QED BY <2>1, <2>2, EmptySeq DEF Exists
  <1>3. \A b \in Branches : \A v \in 1 .. Len(man[b]) : WellFormed(man[b][v])
    BY DEF ManifestsOK
  <1> QED BY <1>1, <1>2, <1>3

\* A live segment is named by a version that is there, so it was made.
LEMMA LiveMade ==
    ASSUME ManifestsOK, TagsOK
    PROVE  /\ LiveSegments \subseteq 1 .. Len(segs)
           /\ \A b \in Branches : \A v \in 1 .. Len(man[b]) :
                 Named(man[b][v]) \subseteq 1 .. Len(segs)
           /\ \A b \in Branches : Exists(b) =>
                 Len(man[b]) \in 1 .. Len(man[b]) /\ Named(HeadManifest(b)) \subseteq LiveSegments
           /\ \A t \in tagged : Named(man[t[1]][t[2]]) \subseteq LiveSegments
  <1>1. \A b \in Branches : \A v \in 1 .. Len(man[b]) : Named(man[b][v]) \subseteq 1 .. Len(segs)
    BY ManifestTypes DEF WellFormed, IndexOK, Named
  <1>2. \A b \in Branches : Exists(b) => Len(man[b]) \in 1 .. Len(man[b])
    BY ManifestTypes
  <1>3. \A t \in tagged : t[1] \in Branches /\ t[2] \in 1 .. Len(man[t[1]])
    BY DEF TagsOK
  <1>4. ASSUME NEW u \in LiveSegments
        PROVE  u \in 1 .. Len(segs)
    BY <1>1, <1>2, <1>3, LiveMeans DEF HeadManifest
  <1> QED BY <1>1, <1>2, <1>4, LiveMeans

-----------------------------------------------------------------------------
(* Steps that leave the manifests and the tags alone.                      *)

\* The files of the version that a fork has resolved and no cleanup removed.
ForkFiles == IF fork = 0 \/ <<"main", fork>> \in gone THEN {}
             ELSE Named(man["main"][fork])

\* The property, with its two parts named.
LEMMA BackedMeans ==
    IndexesBacked <=> /\ Hidden => Backed(LiveSegments)
                      /\ bak # Absent => ~ixUp \/ pipe.hid \/ "stranded" \in odd
  BY DEF IndexesBacked, Hidden, Backed, Files

\* Nothing that the manifests determine changes.
LEMMA SameManifests ==
    ASSUME TagsOK, UNCHANGED manifests
    PROVE  /\ TagsOK' /\ LiveSegments' = LiveSegments
           /\ \A S : InMainDir(S)' = InMainDir(S)
           /\ \A m : WellFormed(m)' <=> WellFormed(m)
           /\ \A s : Covered(s)' = Covered(s)
           /\ \A b : Exists(b)' <=> Exists(b)
           /\ man' = man /\ gone' = gone /\ tagged' = tagged /\ segs' = segs
  <1>1. man' = man /\ gone' = gone /\ tagged' = tagged /\ segs' = segs /\ indexed' = indexed
    BY DEF manifests
  <1>2. LiveSegments' = LiveSegments
    BY <1>1 DEF LiveSegments, HeadManifest
  <1>3. \A S : InMainDir(S)' = InMainDir(S)
    BY <1>1 DEF InMainDir
  <1>4. \A s : Covered(s)' = Covered(s)
    BY <1>1 DEF Covered
  <1>5. \A m : WellFormed(m)' <=> WellFormed(m)
    BY <1>1, <1>4 DEF WellFormed, IndexOK, Disjoint
  <1>6. TagsOK'
    BY <1>1, <1>4 DEF TagsOK
  <1>7. \A b : Exists(b)' <=> Exists(b)
    BY <1>1 DEF Exists
  <1> QED BY <1>1, <1>2, <1>3, <1>4, <1>5, <1>6, <1>7

\* Files that are needed stay: so do the parts of the invariant about them.
LEMMA FilesStay ==
    ASSUME FilesInv, UNCHANGED manifests, Hidden' => Hidden,
           Hidden' => \A u \in LiveSegments \cup ForkFiles : u \in Files => u \in Files',
           pipe'.pc # "idle" => pipe.pc # "idle" /\ pipe'.branch = pipe.branch,
           pipe'.pc = "merge" => /\ pipe.pc = "merge" /\ pipe'.ver = pipe.ver
                                 /\ Files \subseteq Files'
    PROVE  /\ ManifestsOK' /\ TagsOK' /\ MergeOK'
           /\ Hidden' => Backed(LiveSegments)'
           /\ \/ fork = 0 \/ <<"main", fork>> \in gone
              \/ Hidden' => InMainDir(Named(man["main"][fork])) \subseteq Files'
  <1>1. ManifestsOK /\ TagsOK /\ MergeOK /\ ForkOK /\ (Hidden => Backed(LiveSegments))
    BY BackedMeans DEF FilesInv
  <1>2. /\ TagsOK' /\ LiveSegments' = LiveSegments
        /\ \A S : InMainDir(S)' = InMainDir(S)
        /\ \A m : WellFormed(m)' <=> WellFormed(m)
        /\ \A s : Covered(s)' = Covered(s)
        /\ \A b : Exists(b)' <=> Exists(b)
        /\ man' = man /\ gone' = gone /\ tagged' = tagged /\ segs' = segs
    BY <1>1, SameManifests
  <1>3. ManifestsOK'
    BY <1>1, <1>2 DEF ManifestsOK
  <1>4. MergeOK'
    <2> SUFFICES ASSUME pipe'.pc = "merge"
                 PROVE  MergeOK'
      BY DEF MergeOK
    <2>1. /\ pipe.pc = "merge" /\ pipe'.ver = pipe.ver /\ pipe'.branch = pipe.branch
          /\ Files \subseteq Files'
      OBVIOUS
    <2>2. PICK m : m = man[pipe.branch][pipe.ver]
      OBVIOUS
    <2>3. /\ pipe.ver \in 1 .. Len(man[pipe.branch])
          /\ <<pipe.branch, pipe.ver>> \notin gone
          /\ Covered(m.fts) = 1 .. m.frags /\ (Hidden => Backed(Named(m)))
      BY <1>1, <2>1, <2>2 DEF MergeOK
    <2>4. Hidden' => Backed(Named(m))'
      BY <1>2, <2>1, <2>3 DEF Backed, Named
    <2>5. man'[pipe'.branch][pipe'.ver] = m
      BY <1>2, <2>1, <2>2
    <2>6. Covered(m.fts)' = 1 .. m.frags
      BY <1>2, <2>3
    <2> QED BY <1>2, <2>1, <2>3, <2>4, <2>5, <2>6 DEF MergeOK, Backed, InMainDir, Covered
  <1>5. Hidden' => Backed(LiveSegments)'
    BY <1>1, <1>2 DEF Backed, InMainDir
  <1>6. \/ fork = 0 \/ <<"main", fork>> \in gone
        \/ Hidden' => InMainDir(Named(man["main"][fork])) \subseteq Files'
    <2> SUFFICES ASSUME fork # 0, <<"main", fork>> \notin gone, Hidden'
                 PROVE  InMainDir(Named(man["main"][fork])) \subseteq Files'
      OBVIOUS
    <2>1. Backed(Named(man["main"][fork]))
      BY <1>1 DEF ForkOK
    <2>2. \A u \in Named(man["main"][fork]) : u \in Files => u \in Files'
      BY DEF ForkFiles
    <2>3. \A u \in InMainDir(Named(man["main"][fork])) : u \in Named(man["main"][fork])
      BY DEF InMainDir
    <2> QED BY <2>1, <2>2, <2>3 DEF Backed
  <1> QED BY <1>2, <1>3, <1>4, <1>5, <1>6

\* A step of the pipeline.
LEMMA PipeStep ==
    ASSUME FilesInv, UNCHANGED <<manifests, fork, check, ixUp>>, Hidden' => Hidden,
           Hidden' => \A u \in LiveSegments \cup ForkFiles : u \in Files => u \in Files',
           pipe.pc # "idle", PipeShape', pipe'.pc # "merge",
           pipe'.pc # "idle" => pipe'.branch = pipe.branch,
           pipe'.startup => pipe.startup,
           pipe'.pc \in {"restore", "collect", "prune"} =>
              pipe.pc \in {"restore", "collect", "prune"},
           HideOK', bak' # Absent => pipe'.hid \/ "stranded" \in odd'
    PROVE  FilesInv'
  <1>1. ManifestsOK /\ TagsOK /\ ForkOK /\ QuietOK
    BY DEF FilesInv
  <1>2. /\ ManifestsOK' /\ TagsOK' /\ MergeOK'
        /\ Hidden' => Backed(LiveSegments)'
        /\ \/ fork = 0 \/ <<"main", fork>> \in gone
           \/ Hidden' => InMainDir(Named(man["main"][fork])) \subseteq Files'
    BY FilesStay
  <1>3. ixUp /\ check.pc = "idle"
    BY <1>1 DEF QuietOK
  <1>4. QuietOK' /\ NoFalseAlarm'
    BY <1>3 DEF QuietOK, NoFalseAlarm
  <1>5. man' = man /\ gone' = gone /\ tagged' = tagged
    BY DEF manifests
  <1>6. ForkOK'
    <2>1. fork' \in 0 .. Len(man'["main"])
      BY <1>1, <1>5 DEF ForkOK
    <2> SUFFICES ASSUME fork # 0
                 PROVE  ForkOK'
      BY <2>1 DEF ForkOK
    <2>2. ixUp' /\ ~pipe'.startup /\ ~Exists("feature")'
      BY <1>1, <1>5 DEF ForkOK, Exists
    <2>3. <<"main", fork'>> \in gone' \/ (Hidden' => Backed(Named(man["main"][fork]))')
      <3>1. segs' = segs /\ fork' = fork
        BY DEF manifests
      <3>2. Named(man["main"][fork])' = Named(man["main"][fork])
        BY <1>5, <3>1 DEF Named
      <3> QED BY <1>2, <1>5, <3>1, <3>2 DEF Backed, InMainDir
    <2>4. pipe'.pc \in {"restore", "collect", "prune"} =>
              <<"main", fork'>> \in gone' \cup tagged' \/ fork' = Len(man'["main"])
      BY <1>1, <1>5 DEF ForkOK
    <2> QED BY <2>1, <2>2, <2>3, <2>4 DEF ForkOK
  <1>7. IndexesBacked'
    BY <1>2 DEF IndexesBacked, Hidden, Backed, Files
  <1> QED BY <1>2, <1>4, <1>6, <1>7 DEF FilesInv

\* The pipeline goes on, or ends.
LEMMA GotoShape ==
    ASSUME PipeShape, NEW s, PGoto(s)
    PROVE  /\ DOMAIN pipe' = DOMAIN NoPipe /\ pipe'.pc = s
           /\ pipe'.branch = pipe.branch /\ pipe'.hid = pipe.hid
           /\ pipe'.ver = pipe.ver /\ pipe'.startup = pipe.startup
           /\ pipe'.live = pipe.live
  BY DEF PipeShape, PGoto, NoPipe

\* The pipeline ends.
LEMMA EndShape ==
    ASSUME PEnd
    PROVE  /\ DOMAIN pipe' = DOMAIN NoPipe /\ pipe'.pc = "idle"
           /\ pipe'.branch = "main" /\ pipe'.hid = FALSE /\ pipe'.startup = FALSE
  BY DEF PEnd, NoPipe

\* The pipeline fails, hides, restores and collects: no file is removed.
LEMMA CleanupSteps ==
    ASSUME FilesInv,
           \/ PushFails \/ HideIndices \/ PolicyFails \/ SweepFails
           \/ RestoreIndices \/ Collect
    PROVE  FilesInv'
  <1>1. /\ PipeShape /\ TagsOK /\ HideOK /\ QuietOK
        /\ bak # Absent => ~ixUp \/ pipe.hid \/ "stranded" \in odd
    BY BackedMeans DEF FilesInv
  <1>2. pipe.pc # "idle" => ixUp
    BY <1>1 DEF QuietOK
  <1>3. \A d : Present(d) = d \ Absent
    BY DEF Present
  <1>4. ASSUME PEnd, UNCHANGED <<manifests, fork, check, ixUp, dirs>>, pipe.pc # "idle",
               odd' = odd \/ (pipe.hid /\ odd' = odd \cup {"stranded"}),
               pipe.hid => odd' # odd \/ bak = Absent \/ "stranded" \in odd
        PROVE  FilesInv'
    <2>1. /\ DOMAIN pipe' = DOMAIN NoPipe /\ pipe'.pc = "idle"
          /\ pipe'.branch = "main" /\ pipe'.hid = FALSE /\ pipe'.startup = FALSE
      BY <1>4, EndShape
    <2>2. PipeShape' /\ HideOK'
      BY <1>1, <1>4, <2>1 DEF PipeShape, HideOK
    <2>3. dir' = dir /\ bak' = bak /\ Files' = Files /\ (Hidden' => Hidden)
      BY <1>4 DEF dirs, Files, Hidden, Present
    <2>4. bak' # Absent => "stranded" \in odd'
      BY <1>1, <1>2, <1>4, <2>3
    <2> QED BY <1>4, <2>1, <2>2, <2>3, <2>4, PipeStep
  <1>5. CASE PushFails
    <2>1. PEnd /\ UNCHANGED <<manifests, fork, check, ixUp, dirs>> /\ odd' = odd
      BY <1>5 DEF PushFails
    <2>2. ~pipe.hid /\ pipe.pc # "idle"
      BY <1>1, <1>5 DEF PushFails, HideOK
    <2> QED BY <1>4, <2>1, <2>2
  <1>6. CASE PolicyFails
    <2>1. /\ PEnd /\ UNCHANGED <<manifests, fork, check, ixUp, dirs>> /\ pipe.pc = "policy"
          /\ odd' = IF pipe.hid THEN odd \cup {"stranded"} ELSE odd
      BY <1>6 DEF PolicyFails
    <2> QED BY <1>4, <2>1
  <1>7. CASE SweepFails
    <2>1. /\ PGoto("restoreOnly") /\ UNCHANGED <<manifests, fork, check, ixUp, dirs, odd>>
          /\ pipe.pc = "policy"
      BY <1>7 DEF SweepFails
    <2>2. /\ DOMAIN pipe' = DOMAIN NoPipe /\ pipe'.pc = "restoreOnly"
          /\ pipe'.branch = pipe.branch /\ pipe'.hid = pipe.hid
          /\ pipe'.startup = pipe.startup
      BY <1>1, <2>1, GotoShape
    <2>3. PipeShape' /\ HideOK'
      BY <1>1, <2>1, <2>2 DEF PipeShape, HideOK
    <2>4. dir' = dir /\ bak' = bak /\ Files' = Files /\ (Hidden' => Hidden)
      BY <2>1 DEF dirs, Files, Hidden, Present
    <2> QED BY <1>1, <1>2, <2>1, <2>2, <2>3, <2>4, PipeStep
  <1>8. CASE HideIndices
    <2>0. /\ pipe.pc = "hide" /\ UNCHANGED <<manifests, fork, check, ixUp, odd>>
          /\ ~pipe.hid
      BY <1>1, <1>8 DEF HideIndices, HideOK
    <2>1. CASE /\ Present(bak) = {} /\ bak' = dir /\ dir' = Absent
               /\ pipe' = [pipe EXCEPT !.pc = "policy", !.hid = TRUE]
      <3>1. /\ DOMAIN pipe' = DOMAIN NoPipe /\ pipe'.pc = "policy"
            /\ pipe'.branch = pipe.branch /\ pipe'.hid = TRUE
            /\ pipe'.startup = pipe.startup
        BY <1>1, <2>1 DEF PipeShape, NoPipe
      <3>2. PipeShape' /\ HideOK'
        BY <1>1, <2>0, <2>1, <3>1 DEF PipeShape, HideOK
      <3>3. Files' = Files /\ (Hidden' => Hidden)
        BY <2>0, <2>1 DEF Files, Hidden, Present
      <3> QED BY <2>0, <3>1, <3>2, <3>3, PipeStep
    <2>2. CASE /\ ~(man["rebuild"] # << >> /\ dir # Absent)
               /\ PGoto("policy") /\ UNCHANGED dirs
      <3>1. /\ DOMAIN pipe' = DOMAIN NoPipe /\ pipe'.pc = "policy"
            /\ pipe'.branch = pipe.branch /\ pipe'.hid = pipe.hid
            /\ pipe'.startup = pipe.startup
        BY <1>1, <2>2, GotoShape
      <3>2. dir' = dir /\ bak' = bak /\ Files' = Files /\ (Hidden' => Hidden) /\ man' = man
        BY <2>0, <2>2 DEF dirs, Files, Hidden, Present, manifests
      <3>3. PipeShape' /\ HideOK'
        BY <1>1, <2>0, <2>2, <3>1, <3>2 DEF PipeShape, HideOK, Exists
      <3> QED BY <1>1, <1>2, <2>0, <3>1, <3>2, <3>3, PipeStep
    <2>3. CASE PEnd /\ UNCHANGED dirs
      BY <1>4, <2>0, <2>3
    <2> QED BY <1>8, <2>1, <2>2, <2>3 DEF HideIndices
  <1>9. CASE RestoreIndices
    <2>0. /\ pipe.pc \in {"restore", "restoreOnly"}
          /\ UNCHANGED <<manifests, fork, check, ixUp, odd>>
      BY <1>9 DEF RestoreIndices
    <2>1. /\ Files' = Files /\ (Hidden' => Hidden)
          /\ bak' # Absent => bak' = bak /\ ~pipe.hid
          /\ pipe.hid => bak' = Absent
      <3>1. CASE pipe.hid /\ bak # Absent /\ dir' = bak \cup Present(dir) /\ bak' = Absent
        BY <2>0, <3>1 DEF Files, Hidden, Present
      <3>2. CASE ~(pipe.hid /\ bak # Absent) /\ UNCHANGED dirs
        BY <2>0, <3>2 DEF Files, Hidden, Present, dirs
      <3> QED BY <1>9, <3>1, <3>2 DEF RestoreIndices
    <2>2. bak' # Absent => "stranded" \in odd'
      BY <1>1, <1>2, <2>0, <2>1
    <2>3. CASE PEnd
      <3>1. /\ DOMAIN pipe' = DOMAIN NoPipe /\ pipe'.pc = "idle"
            /\ pipe'.branch = "main" /\ pipe'.hid = FALSE /\ pipe'.startup = FALSE
        BY <2>3, EndShape
      <3>2. PipeShape' /\ HideOK'
        BY <1>1, <2>0, <3>1 DEF PipeShape, HideOK
      <3> QED BY <2>0, <2>1, <2>2, <3>1, <3>2, PipeStep
    <2>4. CASE pipe.pc = "restore" /\ PGoto("collect")
      <3>1. /\ DOMAIN pipe' = DOMAIN NoPipe /\ pipe'.pc = "collect"
            /\ pipe'.branch = pipe.branch /\ pipe'.hid = pipe.hid
            /\ pipe'.startup = pipe.startup
        BY <1>1, <2>4, GotoShape
      <3>2. PipeShape' /\ HideOK'
        BY <1>1, <2>0, <2>1, <3>1 DEF PipeShape, HideOK
      <3> QED BY <2>0, <2>1, <2>2, <2>4, <3>1, <3>2, PipeStep
    <2> QED BY <1>9, <2>0, <2>3, <2>4 DEF RestoreIndices
  <1>10. CASE Collect
    <2>0. pipe.pc = "collect" /\ UNCHANGED <<manifests, fork, check, ixUp, odd, dirs>>
      BY <1>10 DEF Collect
    <2>1. pipe.hid => bak = Absent
      BY <1>1, <2>0 DEF HideOK
    <2>2. CASE PEnd
      BY <1>4, <2>0, <2>1, <2>2
    <2>3. CASE pipe' = [pipe EXCEPT !.pc = "prune", !.live = LiveSegments]
      <3>1. /\ DOMAIN pipe' = DOMAIN NoPipe /\ pipe'.pc = "prune"
            /\ pipe'.branch = pipe.branch /\ pipe'.hid = pipe.hid
            /\ pipe'.startup = pipe.startup /\ pipe'.live = LiveSegments
        BY <1>1, <2>3 DEF PipeShape, NoPipe
      <3>2. dir' = dir /\ bak' = bak /\ Files' = Files /\ (Hidden' => Hidden)
        BY <2>0 DEF dirs, Files, Hidden, Present
      <3>3. LiveSegments' = LiveSegments
        BY <1>1, <2>0, SameManifests
      <3>4. PipeShape' /\ HideOK'
        BY <1>1, <2>0, <2>1, <3>1, <3>2, <3>3 DEF PipeShape, HideOK
      <3> QED BY <1>1, <1>2, <2>0, <2>1, <3>1, <3>2, <3>4, PipeStep
    <2> QED BY <1>10, <2>2, <2>3 DEF Collect
  <1> QED BY <1>5, <1>6, <1>7, <1>8, <1>9, <1>10

\* Once the cleanup has marked what it drops, a fork names what is live.
LEMMA ForkFilesLive ==
    ASSUME FilesInv, pipe.pc \in {"restore", "collect", "prune"}
    PROVE  ForkFiles \subseteq LiveSegments
  <1>1. ManifestsOK /\ TagsOK /\ ForkOK
    BY DEF FilesInv
  <1> SUFFICES ASSUME fork # 0, <<"main", fork>> \notin gone
               PROVE  Named(man["main"][fork]) \subseteq LiveSegments
    BY DEF ForkFiles
  <1>2. <<"main", fork>> \in tagged \/ fork = Len(man["main"])
    BY <1>1 DEF ForkOK
  <1>3. CASE <<"main", fork>> \in tagged
    <2>1. PICK t \in tagged : t = <<"main", fork>>
      BY <1>3
    <2>2. Named(man[t[1]][t[2]]) \subseteq LiveSegments
      BY <1>1, LiveMade
    <2> QED BY <2>1, <2>2
  <1>4. CASE fork = Len(man["main"])
    BY <1>1, <1>4, LiveMade DEF HeadManifest, ManifestsOK, Branches
  <1> QED BY <1>2, <1>3, <1>4

\* The prune removes nothing that is live, nor what a fork will make live.
LEMMA PruneInv ==
    ASSUME FilesInv, Prune
    PROVE  FilesInv'
  <1>1. /\ PipeShape /\ ManifestsOK /\ TagsOK /\ HideOK /\ QuietOK /\ ForkOK
        /\ bak # Absent => ~ixUp \/ pipe.hid \/ "stranded" \in odd
    BY BackedMeans DEF FilesInv
  <1>2. /\ pipe.pc = "prune" /\ PEnd /\ bak' = bak
        /\ dir' = IF dir = Absent THEN Absent ELSE dir \cap pipe.live
        /\ UNCHANGED <<manifests, fork, check, ixUp, odd>>
    BY DEF Prune
  <1>3. LiveSegments \subseteq pipe.live /\ (pipe.hid => bak = Absent) /\ ixUp
    BY <1>1, <1>2 DEF HideOK, QuietOK
  <1>4. ForkFiles \subseteq LiveSegments
    BY <1>2, ForkFilesLive
  <1>5. \A u \in LiveSegments \cup ForkFiles : u \in Files => u \in Files'
    BY <1>2, <1>3, <1>4 DEF Files, Present
  <1>6. /\ DOMAIN pipe' = DOMAIN NoPipe /\ pipe'.pc = "idle"
        /\ pipe'.branch = "main" /\ pipe'.hid = FALSE /\ pipe'.startup = FALSE
    BY <1>2, EndShape
  <1>7. PipeShape' /\ HideOK'
    BY <1>1, <1>2, <1>6 DEF PipeShape, HideOK
  <1>8. (Hidden' => Hidden) /\ (bak' # Absent => "stranded" \in odd')
    BY <1>1, <1>2, <1>3 DEF Hidden
  <1> QED BY <1>2, <1>5, <1>6, <1>7, <1>8, PipeStep

-----------------------------------------------------------------------------
(* Steps that leave the manifests and the running pipeline alone.          *)

\* A request, a crash or a second start, with what they have in common.
LEMMA QuietStep ==
    ASSUME FilesInv, UNCHANGED manifests, Hidden' => Hidden, Files \subseteq Files',
           pipe' = pipe \/ pipe' = NoPipe, DOMAIN check' = DOMAIN NoCheck,
           check'.pc \in {"idle", "scan", "done"},
           HideOK', QuietOK', NoFalseAlarm',
           fork' = 0 \/ (ixUp' /\ fork' = fork /\ pipe' = pipe),
           bak' # Absent => ~ixUp' \/ pipe'.hid \/ "stranded" \in odd'
    PROVE  FilesInv'
  <1>1. PipeShape /\ ManifestsOK /\ TagsOK /\ ForkOK
    BY DEF FilesInv
  <1>2. NoPipe.pc = "idle" /\ NoPipe.branch = "main" /\ NoPipe.hid = FALSE /\ NoPipe.startup = FALSE
    BY DEF NoPipe
  <1>3. PipeShape'
    BY <1>1, <1>2 DEF PipeShape
  <1>4. /\ ManifestsOK' /\ TagsOK' /\ MergeOK'
        /\ Hidden' => Backed(LiveSegments)'
        /\ \/ fork = 0 \/ <<"main", fork>> \in gone
           \/ Hidden' => InMainDir(Named(man["main"][fork])) \subseteq Files'
    BY <1>2, FilesStay
  <1>5. man' = man /\ gone' = gone /\ tagged' = tagged /\ segs' = segs
    BY DEF manifests
  <1>6. ForkOK'
    <2>1. CASE fork' = 0
      <3>1. Len(man["main"]) \in Nat
        BY <1>1, ManifestTypes DEF Branches
      <3> QED BY <1>5, <2>1, <3>1 DEF ForkOK
    <2>2. CASE fork' # 0
      <3>1. ixUp' /\ fork' = fork /\ pipe' = pipe
        BY <2>2
      <3>2. Named(man["main"][fork])' = Named(man["main"][fork])
        BY <1>5, <3>1 DEF Named
      <3>3. <<"main", fork'>> \in gone' \/ (Hidden' => Backed(Named(man["main"][fork]))')
        BY <1>4, <1>5, <2>2, <3>1, <3>2 DEF Backed, InMainDir
      <3>4. ~pipe'.startup /\ ~Exists("feature")' /\ fork' \in 0 .. Len(man'["main"])
        BY <1>1, <1>5, <2>2, <3>1 DEF ForkOK, Exists
      <3>5. pipe'.pc \in {"restore", "collect", "prune"} =>
              <<"main", fork'>> \in gone' \cup tagged' \/ fork' = Len(man'["main"])
        BY <1>1, <1>5, <2>2, <3>1 DEF ForkOK
      <3> QED BY <3>1, <3>3, <3>4, <3>5 DEF ForkOK
    <2> QED BY <2>1, <2>2
  <1>7. IndexesBacked'
    BY <1>4 DEF IndexesBacked, Hidden, Backed, Files
  <1> QED BY <1>3, <1>4, <1>6, <1>7 DEF FilesInv

\* The two steps of a check, a crash and a second start.
LEMMA ServerSteps ==
    ASSUME FilesInv, CheckManifests \/ CheckDirectories \/ IxCrash \/ SecondStart
    PROVE  FilesInv'
  <1>1. /\ PipeShape /\ ManifestsOK /\ TagsOK /\ HideOK /\ QuietOK /\ NoFalseAlarm
        /\ Hidden => Backed(LiveSegments)
        /\ bak # Absent => ~ixUp \/ pipe.hid \/ "stranded" \in odd
    BY BackedMeans DEF FilesInv
  <1>2. ASSUME UNCHANGED <<manifests, dirs, odd>>
        PROVE  /\ Files' = Files /\ (Hidden' <=> Hidden) /\ dir' = dir /\ bak' = bak
               /\ LiveSegments' = LiveSegments /\ segs' = segs
               /\ \A S : InMainDir(S)' = InMainDir(S)
               /\ (pipe' = pipe => HideOK')
    <2>1. dir' = dir /\ bak' = bak /\ odd' = odd /\ Files' = Files
      BY <1>2 DEF dirs, Files, Present
    <2>2. LiveSegments' = LiveSegments /\ segs' = segs /\ man' = man /\ \A S : InMainDir(S)' = InMainDir(S)
      BY <1>1, <1>2, SameManifests
    <2>3. pipe' = pipe => HideOK'
      BY <1>1, <2>1, <2>2 DEF HideOK, Exists, Hidden
    <2> QED BY <1>2, <2>1, <2>2, <2>3 DEF Hidden
  <1>3. CASE CheckManifests
    <2>1. /\ ixUp /\ check.pc = "idle" /\ UNCHANGED <<manifests, dirs, pipe, fork, ixUp, odd>>
          /\ check' = IF pipe.pc = "idle"
                      THEN [NoCheck EXCEPT !.pc = "scan", !.live = LiveSegments] ELSE NoCheck
      BY <1>3 DEF CheckManifests, Serving
    <2>2. /\ Files' = Files /\ (Hidden' <=> Hidden) /\ dir' = dir /\ bak' = bak
          /\ LiveSegments' = LiveSegments /\ segs' = segs
          /\ \A S : InMainDir(S)' = InMainDir(S) /\ HideOK'
      BY <1>2, <2>1
    <2>3. /\ DOMAIN check' = DOMAIN NoCheck
          /\ \/ check'.pc = "scan" /\ check'.live = LiveSegments /\ pipe.pc = "idle"
             \/ check'.pc = "idle"
      BY <2>1 DEF NoCheck
    <2>4. check'.pc = "scan" /\ odd' = {} => InMainDir(check.live)' \subseteq Present(dir)'
      <3> SUFFICES ASSUME check'.pc = "scan", odd' = {}
                   PROVE  InMainDir(check.live)' \subseteq Present(dir)'
        OBVIOUS
      <3>1. check'.live = LiveSegments /\ pipe.pc = "idle" /\ odd = {}
        BY <2>1, <2>3
      <3>2. ~pipe.hid /\ bak = Absent
        BY <1>1, <2>1, <3>1 DEF HideOK
      <3>3. InMainDir(LiveSegments) \subseteq Present(dir)
        BY <1>1, <3>1, <3>2 DEF Hidden, Backed, Files, Present
      <3> QED BY <2>2, <3>1, <3>3 DEF InMainDir, Present
    <2>5. QuietOK' /\ NoFalseAlarm'
      BY <1>1, <2>1, <2>3, <2>4 DEF QuietOK, NoFalseAlarm
    <2> QED BY <1>1, <2>1, <2>2, <2>3, <2>5, QuietStep
  <1>4. CASE CheckDirectories
    <2>1. /\ ixUp /\ check.pc = "scan" /\ UNCHANGED <<manifests, dirs, pipe, fork, ixUp, odd>>
      BY <1>4 DEF CheckDirectories, Serving
    <2>a. PICK nested \in SUBSET {"feature"} :
             check' = [check EXCEPT !.pc = "done", !.nested = nested,
                                    !.report = {u \in check.live : ~Found(u, nested)}]
      BY <1>4 DEF CheckDirectories
    <2>2. /\ Files' = Files /\ (Hidden' <=> Hidden) /\ dir' = dir /\ bak' = bak
          /\ HideOK'
      BY <1>2, <2>1
    <2>3. /\ DOMAIN check' = DOMAIN NoCheck /\ check'.pc = "done" /\ check'.nested = nested
          /\ check'.report = {u \in check.live : ~Found(u, nested)}
      BY <1>1, <2>1, <2>a DEF PipeShape, NoCheck
    <2>b. segs' = segs
      BY <1>2, <2>1
    <2>c. ASSUME odd = {}, NEW u \in check'.report
          PROVE  segs[u].home \in nested
      BY <1>1, <2>1, <2>3, <2>c DEF QuietOK, Found, InMainDir
    <2>4. QuietOK' /\ NoFalseAlarm'
      BY <1>1, <2>1, <2>3, <2>b, <2>c DEF QuietOK, NoFalseAlarm
    <2> QED BY <1>1, <2>1, <2>2, <2>3, <2>4, QuietStep
  <1>5. CASE IxCrash
    <2>1. /\ ixUp' = FALSE /\ pipe' = NoPipe /\ fork' = 0 /\ check' = NoCheck
          /\ UNCHANGED <<manifests, dirs, odd>>
      BY <1>5 DEF IxCrash
    <2>2. /\ NoPipe.pc = "idle" /\ NoPipe.branch = "main" /\ NoPipe.hid = FALSE
          /\ NoCheck.pc = "idle"
      BY DEF NoPipe, NoCheck
    <2>3. QuietOK' /\ NoFalseAlarm' /\ HideOK'
      BY <2>1, <2>2 DEF QuietOK, NoFalseAlarm, HideOK
    <2> QED BY <1>2, <2>1, <2>2, <2>3, QuietStep
  <1>6. CASE SecondStart
    <2>1. /\ ixUp /\ dir' = Recovered /\ bak' = Absent
          /\ odd' = IF bak # Absent /\ pipe.pc = "policy" THEN odd \cup {"unhidden"} ELSE odd
          /\ UNCHANGED <<manifests, pipe, fork, check, ixUp>>
      BY <1>6 DEF SecondStart
    <2>2. LiveSegments' = LiveSegments /\ segs' = segs /\ man' = man
      BY <1>1, <2>1, SameManifests
    <2>3. /\ Present(dir) \subseteq Present(dir)' /\ Files \subseteq Files'
          /\ bak = Absent => dir' = dir
      BY <2>1 DEF Recovered, Files, Present
    <2>4. odd \subseteq odd' /\ (Hidden' => Hidden)
      BY <2>1 DEF Hidden
    <2>5. HideOK'
      BY <1>1, <2>1, <2>2, <2>3, <2>4 DEF HideOK, Hidden, Exists
    <2>6. QuietOK' /\ NoFalseAlarm'
      BY <1>1, <2>1, <2>2, <2>3, <2>4 DEF QuietOK, NoFalseAlarm, InMainDir
    <2> QED BY <1>1, <2>1, <2>3, <2>4, <2>5, <2>6, QuietStep DEF PipeShape
  <1> QED BY <1>3, <1>4, <1>5, <1>6

\* A fork resolves a version whose files are there.
LEMMA ForkResolveInv ==
    ASSUME FilesInv, ForkResolve
    PROVE  FilesInv'
  <1>1. /\ PipeShape /\ ManifestsOK /\ TagsOK /\ HideOK /\ QuietOK /\ NoFalseAlarm /\ ForkOK
        /\ Hidden => Backed(LiveSegments)
        /\ bak # Absent => ~ixUp \/ pipe.hid \/ "stranded" \in odd
    BY BackedMeans DEF FilesInv
  <1>2. /\ ixUp /\ ~pipe.startup /\ man["feature"] = << >>
        /\ UNCHANGED <<manifests, dirs, pipe, check, ixUp, odd>>
        /\ fork' = Len(man["main"]) \/ <<"main", fork'>> \in tagged
    BY DEF ForkResolve, Serving, HeadVersion
  <1>3. /\ dir' = dir /\ bak' = bak /\ Files' = Files /\ (Hidden' <=> Hidden)
        /\ man' = man /\ segs' = segs /\ gone' = gone /\ tagged' = tagged
    BY <1>2 DEF dirs, Files, Present, Hidden, manifests
  <1>4. /\ ManifestsOK' /\ TagsOK' /\ MergeOK' /\ (Hidden' => Backed(LiveSegments)')
    BY <1>2, <1>3, FilesStay
  <1>5. LiveSegments' = LiveSegments
    BY <1>1, <1>2, SameManifests
  <1>6. PipeShape' /\ HideOK' /\ QuietOK' /\ NoFalseAlarm'
    BY <1>1, <1>2, <1>3, <1>5 DEF PipeShape, HideOK, QuietOK, NoFalseAlarm, Hidden, Exists, InMainDir, Present
  <1>7. Named(man["main"][fork'])  \subseteq LiveSegments /\ fork' \in 0 .. Len(man["main"])
    <2>1. CASE fork' = Len(man["main"])
      BY <1>1, <2>1, LiveMade, ManifestTypes DEF HeadManifest, ManifestsOK, Branches
    <2>2. CASE <<"main", fork'>> \in tagged
      <3>1. PICK t \in tagged : t = <<"main", fork'>>
        BY <2>2
      <3>2. Named(man[t[1]][t[2]]) \subseteq LiveSegments
        BY <1>1, LiveMade
      <3>3. t[2] \in 1 .. Len(man[t[1]]) /\ t[1] = "main" /\ t[2] = fork'
        BY <1>1, <3>1 DEF TagsOK
      <3> QED BY <3>2, <3>3
    <2> QED BY <1>2, <2>1, <2>2
  <1>8. Hidden' => Backed(Named(man["main"][fork]))'
    BY <1>3, <1>4, <1>5, <1>7 DEF Backed, InMainDir, Named
  <1>9. ForkOK'
    BY <1>2, <1>3, <1>7, <1>8 DEF ForkOK, Exists
  <1>10. IndexesBacked'
    BY <1>1, <1>2, <1>3, <1>4 DEF IndexesBacked, Hidden, Backed, Files
  <1> QED BY <1>4, <1>6, <1>9, <1>10 DEF FilesInv

\* Lance's cleanup removes only what no version that it keeps names; what it
\* would remove wrongly is hidden.
LEMMA SweepInv ==
    ASSUME FilesInv, Sweep
    PROVE  FilesInv'
  <1>1. /\ PipeShape /\ ManifestsOK /\ TagsOK /\ HideOK /\ QuietOK /\ NoFalseAlarm /\ ForkOK
        /\ Hidden => Backed(LiveSegments)
        /\ bak # Absent => ~ixUp \/ pipe.hid \/ "stranded" \in odd
    BY BackedMeans DEF FilesInv
  <1>2. /\ pipe.pc = "policy" /\ PGoto("restore")
        /\ gone' = gone \cup {<<"main", v>> : v \in {x \in 1 .. Len(man["main"]) - 1 :
                                                        <<"main", x>> \notin tagged}}
        /\ UNCHANGED <<man, tagged, indexed, segs, bak, fork, check, ixUp, odd>>
    BY DEF Sweep, HeadVersion
  <1>3. PICK K : K = UNION (  {Named(man["main"][v]) : v \in {x \in 1 .. Len(man["main"]) :
                                                <<"main", x>> \notin gone'}}
                       \cup {Named(man["feature"][v]) : v \in {x \in 1 .. Len(man["feature"]) :
                                                <<"feature", x>> \notin gone'}})
    OBVIOUS
  <1>4. dir' = IF dir = Absent THEN Absent ELSE dir \cap K
    BY <1>3 DEF Sweep
  <1>5. \A b \in {"main", "feature"} : \A v \in 1 .. Len(man[b]) :
           <<b, v>> \notin gone' => Named(man[b][v]) \subseteq K
    BY <1>3
  <1>6. /\ DOMAIN pipe' = DOMAIN NoPipe /\ pipe'.pc = "restore"
        /\ pipe'.branch = pipe.branch /\ pipe'.hid = pipe.hid
        /\ pipe'.startup = pipe.startup
    BY <1>1, <1>2, GotoShape
  <1>7. Len(man["main"]) \in Nat \ {0} /\ Len(man["feature"]) \in Nat /\ Len(man["rebuild"]) \in Nat
    BY <1>1, ManifestTypes DEF Branches, ManifestsOK
  <1>8. \A t \in tagged : t \notin gone'
    BY <1>1, <1>2 DEF TagsOK
  <1>9. /\ gone' \subseteq {"main"} \X Nat /\ \A g \in gone' : g[2] \in 1 .. Len(man["main"]) - 1
    <2> SUFFICES ASSUME NEW g \in gone'
                 PROVE  g \in {"main"} \X Nat /\ g[2] \in 1 .. Len(man["main"]) - 1
      OBVIOUS
    <2>1. CASE g \in gone
      BY <1>1, <2>1 DEF TagsOK
    <2>2. CASE g \notin gone
      <3>1. PICK x \in 1 .. Len(man["main"]) - 1 : g = <<"main", x>>
        BY <1>2, <2>2
      <3>2. x \in Nat
        BY <1>7
      <3> QED BY <3>1, <3>2
    <2> QED BY <2>1, <2>2
  <1>10. /\ LiveSegments' = LiveSegments /\ (\A S : InMainDir(S)' = InMainDir(S))
         /\ (\A s : Covered(s)' = Covered(s)) /\ (\A b : Exists(b)' <=> Exists(b))
         /\ \A m : WellFormed(m)' <=> WellFormed(m)
    <2>1. (\A s : Covered(s)' = Covered(s)) /\ (\A b : Exists(b)' <=> Exists(b))
      BY <1>2 DEF Covered, Exists
    <2> QED BY <1>2, <2>1 DEF LiveSegments, HeadManifest, InMainDir, WellFormed, IndexOK, Disjoint
  <1>11. TagsOK'
    BY <1>1, <1>2, <1>8, <1>9, <1>10 DEF TagsOK
  <1>12. ManifestsOK'
    BY <1>1, <1>2, <1>6, <1>10 DEF ManifestsOK
  <1>13. PipeShape' /\ HideOK' /\ QuietOK' /\ NoFalseAlarm' /\ MergeOK'
    BY <1>1, <1>2, <1>6 DEF PipeShape, HideOK, QuietOK, NoFalseAlarm, MergeOK
  <1>14. Hidden' <=> Hidden
    BY <1>2 DEF Hidden
  <1>15. ASSUME Hidden, NEW S, Backed(S),
                ~Exists("rebuild") => S \subseteq K
         PROVE  InMainDir(S) \subseteq Files'
    <2>1. CASE dir = Absent
      BY <1>2, <1>4, <1>15, <2>1 DEF Backed, Files, Present
    <2>2. CASE ~Exists("rebuild") /\ dir # Absent
      BY <1>2, <1>4, <1>15, <2>2 DEF Backed, Files, Present, InMainDir
    <2> QED BY <1>1, <1>2, <1>15, <2>1, <2>2 DEF HideOK
  <1>16. ASSUME ~Exists("rebuild")
         PROVE  LiveSegments \subseteq K
    <2> SUFFICES ASSUME NEW u \in LiveSegments
                 PROVE  u \in K
      OBVIOUS
    <2>1. CASE \E b \in Branches : Exists(b) /\ u \in Named(HeadManifest(b))
      <3>1. PICK b \in Branches : Exists(b) /\ u \in Named(HeadManifest(b))
        BY <2>1
      <3>2. b \in {"main", "feature"} /\ Len(man[b]) \in 1 .. Len(man[b])
        BY <1>1, <1>16, <3>1, LiveMade DEF Branches
      <3>3. <<b, Len(man[b])>> \notin gone'
        BY <1>7, <1>9
      <3> QED BY <1>5, <3>1, <3>2, <3>3 DEF HeadManifest
    <2>2. CASE \E t \in tagged : u \in Named(man[t[1]][t[2]])
      <3>1. PICK t \in tagged : u \in Named(man[t[1]][t[2]])
        BY <2>2
      <3>2. t[1] \in Branches /\ t[2] \in 1 .. Len(man[t[1]]) /\ t = <<t[1], t[2]>>
        BY <1>1 DEF TagsOK
      <3>3. t[1] # "rebuild"
        BY <1>1, <1>16, <3>2, ManifestTypes
      <3>4. t[1] \in {"main", "feature"}
        BY <3>2, <3>3 DEF Branches
      <3> QED BY <1>5, <1>8, <3>1, <3>2, <3>4
    <2> QED BY <2>1, <2>2, LiveMeans
  <1>17. IndexesBacked'
    <2>1. Hidden => InMainDir(LiveSegments) \subseteq Files'
      BY <1>1, <1>15, <1>16
    <2>2. Hidden' => Backed(LiveSegments)'
      BY <1>10, <1>14, <2>1 DEF Backed
    <2> QED BY <1>1, <1>2, <1>6, <2>2 DEF IndexesBacked, Hidden, Backed, Files
  <1>18. ForkOK'
    <2>1. fork' \in 0 .. Len(man'["main"])
      BY <1>1, <1>2 DEF ForkOK
    <2> SUFFICES ASSUME fork # 0
                 PROVE  ForkOK'
      BY <1>2, <2>1 DEF ForkOK
    <2>2. ixUp' /\ ~pipe'.startup /\ ~Exists("feature")'
      BY <1>1, <1>2, <1>6, <1>10 DEF ForkOK
    <2>3. CASE <<"main", fork>> \in gone'
      BY <1>2, <2>1, <2>2, <2>3 DEF ForkOK
    <2>4. CASE <<"main", fork>> \notin gone'
      <3>1. <<"main", fork>> \notin gone /\ fork \in 1 .. Len(man["main"])
        BY <1>1, <1>2, <1>7, <2>4 DEF ForkOK
      <3>2. <<"main", fork>> \in tagged \/ fork = Len(man["main"])
        BY <1>2, <1>7, <2>4, <3>1
      <3>3. PICK S : S = Named(man["main"][fork])
        OBVIOUS
      <3>4. (Hidden => Backed(S)) /\ S \subseteq K
        BY <1>1, <1>5, <2>4, <3>1, <3>3 DEF ForkOK
      <3>5. Hidden => InMainDir(S) \subseteq Files'
        BY <1>15, <3>4
      <3>6. Named(man["main"][fork])' = S
        BY <1>2, <3>3 DEF Named
      <3>7. Hidden' => Backed(Named(man["main"][fork]))'
        BY <1>2, <1>14, <3>5, <3>6 DEF Backed, InMainDir
      <3> QED BY <1>2, <2>1, <2>2, <3>2, <3>7 DEF ForkOK
    <2> QED BY <2>3, <2>4
  <1> QED BY <1>11, <1>12, <1>13, <1>17, <1>18 DEF FilesInv

-----------------------------------------------------------------------------
(* Steps that change the tags.                                             *)

\* What is live after a step, element by element.
LEMMA LiveLater ==
    ASSUME NEW u
    PROVE  u \in LiveSegments' <=>
              \/ \E b \in Branches : man'[b] # << >> /\ u \in Named(man'[b][Len(man'[b])])
              \/ \E t \in tagged' : u \in Named(man'[t[1]][t[2]])
  BY DEF LiveSegments, HeadManifest

\* A step that changes tags, with what is left to show for it.
LEMMA TagStep ==
    ASSUME FilesInv, UNCHANGED <<man, gone, segs, dirs, fork, ixUp, odd>>,
           PipeShape', TagsOK', HideOK', QuietOK', NoFalseAlarm',
           Hidden => InMainDir(LiveSegments') \subseteq Files,
           pipe'.pc # "idle" => Exists(pipe'.branch),
           pipe'.pc # "merge",  pipe'.startup => pipe.startup,
           pipe'.pc \in {"restore", "collect", "prune"} =>
              /\ pipe.pc \in {"restore", "collect", "prune"}
              /\ fork # 0 /\ <<"main", fork>> \in tagged => <<"main", fork>> \in tagged',
           bak # Absent => ~ixUp \/ pipe'.hid \/ "stranded" \in odd
    PROVE  FilesInv'
  <1>1. ManifestsOK /\ ForkOK
    BY DEF FilesInv
  <1>2. /\ Files' = Files /\ (Hidden' <=> Hidden) /\ bak' = bak
        /\ (\A S : InMainDir(S)' = InMainDir(S)) /\ (\A b : Exists(b)' <=> Exists(b))
        /\ \A m : WellFormed(m)' <=> WellFormed(m)
    <2>1. \A s : Covered(s)' = Covered(s)
      BY DEF Covered
    <2> QED BY <2>1 DEF dirs, Files, Present, Hidden, InMainDir, Exists, WellFormed, IndexOK, Disjoint
  <1>3. ManifestsOK'
    BY <1>1, <1>2 DEF ManifestsOK
  <1>4. MergeOK'
    BY DEF MergeOK
  <1>5. IndexesBacked'
    BY <1>2 DEF IndexesBacked, Hidden, Files, InMainDir
  <1>6. ForkOK'
    <2>1. fork' \in 0 .. Len(man'["main"])
      BY <1>1 DEF ForkOK
    <2> SUFFICES ASSUME fork # 0
                 PROVE  ForkOK'
      BY <2>1 DEF ForkOK
    <2>2. ixUp' /\ ~pipe'.startup /\ ~Exists("feature")'
      BY <1>1, <1>2 DEF ForkOK
    <2>3. Named(man["main"][fork])' = Named(man["main"][fork])
      BY DEF Named
    <2>4. <<"main", fork>> \in gone \/ (Hidden => Backed(Named(man["main"][fork])))
      BY <1>1 DEF ForkOK
    <2>5. <<"main", fork'>> \in gone' \/ (Hidden' => Backed(Named(man["main"][fork]))')
      BY <1>2, <2>3, <2>4 DEF Backed, InMainDir
    <2>6. pipe'.pc \in {"restore", "collect", "prune"} =>
              <<"main", fork'>> \in gone' \cup tagged' \/ fork' = Len(man'["main"])
      BY <1>1 DEF ForkOK
    <2> QED BY <2>1, <2>2, <2>5, <2>6 DEF ForkOK
  <1> QED BY <1>3, <1>4, <1>5, <1>6 DEF FilesInv

\* A push begins, or tags the head at once.
LEMMA BeginPushInv ==
    ASSUME FilesInv, NEW b \in {"main", "feature"}, BeginPush(b)
    PROVE  FilesInv'
  <1>1. /\ PipeShape /\ ManifestsOK /\ TagsOK /\ HideOK /\ QuietOK /\ ForkOK
        /\ Hidden => Backed(LiveSegments)
        /\ bak # Absent => ~ixUp \/ pipe.hid \/ "stranded" \in odd
    BY BackedMeans DEF FilesInv
  <1>2. /\ ixUp /\ pipe.pc = "idle" /\ man[b] # << >> /\ check' = NoCheck
        /\ UNCHANGED <<man, gone, segs, dirs, fork, ixUp, odd>>
    BY DEF BeginPush, DropCheck
  <1>3. ~pipe.hid /\ b \in Branches /\ Exists(b) /\ NoCheck.pc = "idle"
    BY <1>1, <1>2 DEF HideOK, Branches, Exists, NoCheck
  <1>4. QuietOK' /\ NoFalseAlarm'
    BY <1>2, <1>3 DEF QuietOK, NoFalseAlarm
  <1>5. CASE UNCHANGED <<tagged, indexed>> /\ pipe' =
              [NoPipe EXCEPT !.pc = "write", !.branch = b,
                 !.boundary = should_index_commit(Cardinality(BranchCommits(b)))]
    <2>1. /\ DOMAIN pipe' = DOMAIN NoPipe /\ pipe'.pc = "write" /\ pipe'.branch = b
          /\ pipe'.hid = FALSE /\ pipe'.startup = FALSE
      BY <1>5 DEF NoPipe
    <2>2. UNCHANGED manifests
      BY <1>2, <1>5 DEF manifests
    <2>3. TagsOK' /\ LiveSegments' = LiveSegments
      BY <1>1, <2>2, SameManifests
    <2>4. PipeShape' /\ HideOK'
      BY <1>2, <1>3, <2>1 DEF PipeShape, HideOK
    <2> QED BY <1>1, <1>2, <1>3, <1>4, <2>1, <2>3, <2>4, TagStep DEF Backed
  <1>6. CASE tagged' = tagged \cup {<<b, Len(man[b])>>} /\ UNCHANGED <<pipe, indexed>>
    <2>1. LiveSegments' \subseteq LiveSegments
      <3> SUFFICES ASSUME NEW u \in LiveSegments'
                   PROVE  u \in LiveSegments
        OBVIOUS
      <3>1. CASE \E c \in Branches : man'[c] # << >> /\ u \in Named(man'[c][Len(man'[c])])
        BY <1>2, <3>1, LiveMeans DEF Exists, HeadManifest
      <3>2. CASE \E t \in tagged' : u \in Named(man'[t[1]][t[2]])
        <4>1. PICK t \in tagged' : u \in Named(man[t[1]][t[2]])
          BY <1>2, <3>2
        <4>2. CASE t \in tagged
          BY <4>1, <4>2, LiveMeans
        <4>3. CASE t = <<b, Len(man[b])>>
          BY <1>3, <4>1, <4>3, LiveMeans DEF HeadManifest
        <4> QED BY <1>6, <4>1, <4>2, <4>3
      <3> QED BY <3>1, <3>2, LiveLater
    <2>2. Len(man[b]) \in Nat \ {0}
      BY <1>1, <1>3, ManifestTypes
    <2>3. <<b, Len(man[b])>> \notin gone
      <3> SUFFICES ASSUME <<b, Len(man[b])>> \in gone
                   PROVE  FALSE
        OBVIOUS
      <3>1. PICK g \in gone : g = <<b, Len(man[b])>>
        OBVIOUS
      <3>2. g[1] = "main" /\ g[2] \in 1 .. Len(man["main"]) - 1 /\ g[1] = b /\ g[2] = Len(man[b])
        BY <1>1, <3>1 DEF TagsOK
      <3> QED BY <2>2, <3>2
    <2>4. TagsOK'
      <3>1. \A t \in tagged' : t[2] \in 1 .. Len(man'[t[1]]) /\ t \notin gone'
        <4> SUFFICES ASSUME NEW t \in tagged'
                     PROVE  t[2] \in 1 .. Len(man[t[1]]) /\ t \notin gone
          BY <1>2
        <4>1. CASE t \in tagged
          BY <1>1, <4>1 DEF TagsOK
        <4>2. CASE t = <<b, Len(man[b])>>
          BY <2>2, <2>3, <4>2
        <4> QED BY <1>6, <4>1, <4>2
      <3>2. \A s : Covered(s)' = Covered(s)
        BY <1>2 DEF Covered
      <3>3. tagged' \subseteq Branches \X Nat /\ indexed' \subseteq tagged'
        BY <1>1, <1>3, <1>6, <2>2 DEF TagsOK
      <3>4. \A t \in indexed' : Covered(man[t[1]][t[2]].fts)' = 1 .. man'[t[1]][t[2]].frags
        BY <1>1, <1>2, <1>6, <3>2 DEF TagsOK, Covered
      <3> QED BY <1>1, <1>2, <3>1, <3>3, <3>4 DEF TagsOK
    <2>5. PipeShape' /\ HideOK'
      BY <1>1, <1>2, <1>3, <1>6 DEF PipeShape, HideOK
    <2>6. Hidden => InMainDir(LiveSegments') \subseteq Files
      BY <1>1, <2>1 DEF Backed, InMainDir
    <2> QED BY <1>1, <1>2, <1>3, <1>4, <1>6, <2>4, <2>5, <2>6, TagStep
  <1> QED BY <1>5, <1>6 DEF BeginPush, HeadVersion

\* Dropping the tags of a branch makes no segment live, and it leaves the tag
\* that a fork relies on: main's pipeline runs in the cleanup.
LEMMA DropTagsInv ==
    ASSUME FilesInv, NEW b \in {"main", "feature"}, DropTags(b)
    PROVE  FilesInv'
  <1>1. /\ PipeShape /\ ManifestsOK /\ TagsOK /\ HideOK /\ QuietOK /\ ForkOK /\ NoFalseAlarm
        /\ MergeOK /\ (Hidden => Backed(LiveSegments))
        /\ bak # Absent => ~ixUp \/ pipe.hid \/ "stranded" \in odd
    BY BackedMeans DEF FilesInv
  <1>2. /\ ~(pipe.pc # "idle" /\ pipe.branch = b)
        /\ tagged' = {t \in tagged : t[1] # b} /\ indexed' = {t \in indexed : t[1] # b}
        /\ UNCHANGED <<man, gone, segs, dirs, pipe, fork, check, ixUp, odd>>
    BY DEF DropTags
  <1>3. LiveSegments' \subseteq LiveSegments
    BY <1>2, LiveMeans, LiveLater DEF Exists, HeadManifest
  <1>4. \A s : Covered(s)' = Covered(s)
    BY <1>2 DEF Covered
  <1>5. TagsOK'
    BY <1>1, <1>2, <1>4 DEF TagsOK
  <1>6. dir' = dir /\ bak' = bak
    BY <1>2 DEF dirs
  <1>7. PipeShape' /\ HideOK' /\ QuietOK' /\ NoFalseAlarm'
    BY <1>1, <1>2, <1>3, <1>6 DEF PipeShape, HideOK, QuietOK, NoFalseAlarm, Hidden, Exists,
                                  InMainDir, Present
  <1>8. Hidden => InMainDir(LiveSegments') \subseteq Files
    BY <1>1, <1>3 DEF Backed, InMainDir
  <1>9. pipe.pc # "idle" /\ fork # 0 /\ <<"main", fork>> \in tagged => <<"main", fork>> \in tagged'
    <2> SUFFICES ASSUME pipe.pc # "idle", fork # 0, <<"main", fork>> \in tagged
                 PROVE  <<"main", fork>> \in tagged'
      OBVIOUS
    <2>1. ~Exists("feature") /\ Exists(pipe.branch)
      BY <1>1 DEF ForkOK, ManifestsOK
    <2>2. pipe.branch = "main" /\ b # "main"
      BY <1>1, <1>2, <2>1 DEF PipeShape
    <2> QED BY <1>2, <2>2
  <1>10. CASE pipe.pc # "merge"
    BY <1>1, <1>2, <1>5, <1>7, <1>8, <1>9, <1>10, TagStep DEF ManifestsOK
  <1>11. CASE pipe.pc = "merge"
    <2>1. /\ Files' = Files /\ (Hidden' <=> Hidden)
          /\ (\A S : InMainDir(S)' = InMainDir(S)) /\ (\A c : Exists(c)' <=> Exists(c))
          /\ \A m : WellFormed(m)' <=> WellFormed(m)
      BY <1>2, <1>4, <1>6 DEF Files, Present, Hidden, InMainDir, Exists, WellFormed, IndexOK, Disjoint
    <2>2. ManifestsOK'
      BY <1>1, <1>2, <2>1 DEF ManifestsOK
    <2>3. MergeOK'
      BY <1>1, <1>2, <1>4, <2>1 DEF MergeOK, Backed, InMainDir, Covered, Named
    <2>4. IndexesBacked'
      BY <1>1, <1>2, <1>6, <1>8, <2>1 DEF IndexesBacked, Hidden, Files, InMainDir
    <2>5. ForkOK'
      <3>1. Named(man["main"][fork])' = Named(man["main"][fork])
        BY <1>2 DEF Named
      <3> QED BY <1>1, <1>2, <1>11, <2>1, <3>1 DEF ForkOK, Backed, InMainDir
    <2> QED BY <1>5, <1>7, <2>2, <2>3, <2>4, <2>5 DEF FilesInv
  <1> QED BY <1>10, <1>11

\* The version of the index pass is tagged: its files are there.
LEMMA TagIndexedInv ==
    ASSUME FilesInv, TagIndexed
    PROVE  FilesInv'
  <1>1. /\ PipeShape /\ ManifestsOK /\ TagsOK /\ HideOK /\ QuietOK /\ ForkOK /\ NoFalseAlarm
        /\ MergeOK /\ (Hidden => Backed(LiveSegments))
        /\ bak # Absent => ~ixUp \/ pipe.hid \/ "stranded" \in odd
    BY BackedMeans DEF FilesInv
  <1>2. PICK b, v, m : b = pipe.branch /\ v = pipe.ver /\ m = man[b][v]
    OBVIOUS
  <1>3. /\ pipe.pc = "merge" /\ PGoto("hide")
        /\ tagged' = tagged \cup {<<b, v>>} /\ indexed' = indexed \cup {<<b, v>>}
        /\ UNCHANGED <<man, gone, segs, dirs, fork, check, ixUp, odd>>
    BY <1>2 DEF TagIndexed
  <1>4. /\ v \in 1 .. Len(man[b]) /\ <<b, v>> \notin gone
        /\ Covered(m.fts) = 1 .. m.frags /\ (Hidden => Backed(Named(m)))
    BY <1>1, <1>2, <1>3 DEF MergeOK
  <1>5. b \in Branches /\ Exists(b) /\ ~pipe.hid
    BY <1>1, <1>2, <1>3 DEF PipeShape, ManifestsOK, Branches, HideOK
  <1>6. Len(man[b]) \in Nat
    BY <1>1, <1>5, ManifestTypes
  <1>7. LiveSegments' \subseteq LiveSegments \cup Named(m)
    <2> SUFFICES ASSUME NEW u \in LiveSegments', u \notin Named(m)
                 PROVE  u \in LiveSegments
      OBVIOUS
    <2>1. CASE \E c \in Branches : man'[c] # << >> /\ u \in Named(man'[c][Len(man'[c])])
      BY <1>3, <2>1, LiveMeans DEF Exists, HeadManifest
    <2>2. CASE \E t \in tagged' : u \in Named(man'[t[1]][t[2]])
      <3>1. PICK t \in tagged' : u \in Named(man[t[1]][t[2]])
        BY <1>3, <2>2
      <3>2. t # <<b, v>>
        BY <1>2, <3>1
      <3> QED BY <1>3, <3>1, <3>2, LiveMeans
    <2> QED BY <2>1, <2>2, LiveLater
  <1>8. Hidden => InMainDir(LiveSegments') \subseteq Files
    BY <1>1, <1>4, <1>7 DEF Backed, InMainDir
  <1>9. TagsOK'
    <2>1. \A t \in tagged' : t[2] \in 1 .. Len(man[t[1]]) /\ t \notin gone
      <3> SUFFICES ASSUME NEW t \in tagged'
                   PROVE  t[2] \in 1 .. Len(man[t[1]]) /\ t \notin gone
        OBVIOUS
      <3>1. CASE t \in tagged
        BY <1>1, <3>1 DEF TagsOK
      <3>2. CASE t = <<b, v>>
        BY <1>4, <3>2
      <3> QED BY <1>3, <3>1, <3>2
    <2>2. \A s : Covered(s)' = Covered(s)
      BY <1>3 DEF Covered
    <2>3. tagged' \subseteq Branches \X Nat /\ indexed' \subseteq tagged'
      BY <1>1, <1>3, <1>4, <1>5, <1>6 DEF TagsOK
    <2>4. \A t \in indexed' : Covered(man[t[1]][t[2]].fts)' = 1 .. man'[t[1]][t[2]].frags
      <3> SUFFICES ASSUME NEW t \in indexed'
                   PROVE  Covered(man[t[1]][t[2]].fts) = 1 .. man[t[1]][t[2]].frags
        BY <1>3 DEF Covered
      <3>1. CASE t \in indexed
        BY <1>1, <3>1 DEF TagsOK
      <3>2. CASE t = <<b, v>>
        BY <1>2, <1>4, <3>2
      <3> QED BY <1>3, <3>1, <3>2
    <2> QED BY <1>1, <1>3, <2>1, <2>3, <2>4 DEF TagsOK
  <1>10. /\ DOMAIN pipe' = DOMAIN NoPipe /\ pipe'.pc = "hide"
         /\ pipe'.branch = pipe.branch /\ pipe'.hid = pipe.hid
         /\ pipe'.startup = pipe.startup
    BY <1>1, <1>3, GotoShape
  <1>11. PipeShape' /\ HideOK' /\ QuietOK' /\ NoFalseAlarm'
    BY <1>1, <1>3, <1>5, <1>10 DEF PipeShape, HideOK, QuietOK, NoFalseAlarm
  <1> QED BY <1>1, <1>2, <1>3, <1>5, <1>8, <1>9, <1>10, <1>11, TagStep

-----------------------------------------------------------------------------
(* Steps that make a new version.                                          *)

\* The versions that were there stay, and the new one comes after them.
LEMMA OldVersions ==
    ASSUME ManifestsOK, NEW b \in Branches, NEW m \in ManifestSet, NewVersion(b, m)
    PROVE  /\ man' \in [Branches -> Seq(ManifestSet)]
           /\ Len(man'[b]) = Len(man[b]) + 1 /\ man'[b][Len(man[b]) + 1] = m
           /\ \A c \in Branches : c # b => man'[c] = man[c]
           /\ \A c \in Branches : /\ Len(man[c]) <= Len(man'[c])
                                  /\ man[c] # << >> => man'[c] # << >>
                                  /\ \A v \in 1 .. Len(man[c]) : man'[c][v] = man[c][v]
  <1>1. PICK s \in Seq(ManifestSet) : s = man[b]
    BY DEF ManifestsOK
  <1>2. man \in [Branches -> Seq(ManifestSet)]
    BY DEF ManifestsOK
  <1>3. PICK a : a = Append(s, m)
    OBVIOUS
  <1>4. /\ a \in Seq(ManifestSet) /\ Len(a) = Len(s) + 1 /\ Len(s) \in Nat
        /\ \A v \in 1 .. Len(s) : a[v] = s[v]
        /\ a[Len(s) + 1] = m
    BY <1>1, <1>3, AppendProperties, LenProperties
  <1>5. man' = [man EXCEPT ![b] = a]
    BY <1>1, <1>3 DEF NewVersion
  <1>6. man'[b] = a /\ \A c \in Branches : c # b => man'[c] = man[c]
    BY <1>2, <1>5
  <1>7. a # << >>
    BY <1>4, EmptySeq
  <1>8. \A c \in Branches : Len(man[c]) \in Nat
    BY ManifestTypes
  <1>9. man' \in [Branches -> Seq(ManifestSet)]
    BY <1>2, <1>4, <1>5
  <1>10. ASSUME NEW c \in Branches
         PROVE  /\ Len(man[c]) <= Len(man'[c])
                /\ man[c] # << >> => man'[c] # << >>
                /\ \A v \in 1 .. Len(man[c]) : man'[c][v] = man[c][v]
    <2>1. CASE c = b
      BY <1>1, <1>4, <1>6, <1>7, <2>1
    <2>2. CASE c # b
      BY <1>6, <1>8, <2>2
    <2> QED BY <2>1, <2>2
  <1> QED BY <1>1, <1>4, <1>6, <1>9, <1>10

\* A push writes a version, with what is left to show for it.
LEMMA VersionStep ==
    ASSUME FilesInv, NEW b, b = pipe.branch, NEW m \in ManifestSet, NewVersion(b, m),
           segs' \in Seq(Segment), SegsGrow, WellFormed(m)',
           UNCHANGED <<gone, tagged, indexed, fork, check, ixUp, odd, bak>>,
           Present(dir) \subseteq Present(dir'),
           Hidden => InMainDir(Named(m))' \subseteq Files',
           pipe.pc \in {"write", "index", "merge"}, pipe'.pc \in {"index", "merge"},
           DOMAIN pipe' = DOMAIN NoPipe, pipe'.branch = b, pipe'.hid = pipe.hid,
           pipe'.startup = pipe.startup,
           pipe'.pc = "merge" =>
              \/ pipe.pc = "merge" /\ pipe'.ver = pipe.ver
              \/ pipe'.ver = Len(man[b]) + 1 /\ Covered(m.fts)' = 1 .. m.frags
    PROVE  FilesInv'
  <1>1. /\ PipeShape /\ ManifestsOK /\ TagsOK /\ HideOK /\ QuietOK /\ ForkOK /\ NoFalseAlarm
        /\ MergeOK /\ (Hidden => Backed(LiveSegments))
        /\ bak # Absent => ~ixUp \/ pipe.hid \/ "stranded" \in odd
    BY BackedMeans DEF FilesInv
  <1>2. b \in Branches /\ Exists(b) /\ ~pipe.hid /\ b \in {"main", "feature"}
    BY <1>1 DEF PipeShape, ManifestsOK, Branches, HideOK
  <1>3. /\ man' \in [Branches -> Seq(ManifestSet)]
        /\ Len(man'[b]) = Len(man[b]) + 1 /\ man'[b][Len(man[b]) + 1] = m
        /\ \A c \in Branches : c # b => man'[c] = man[c]
        /\ \A c \in Branches : /\ Len(man[c]) <= Len(man'[c])
                               /\ man[c] # << >> => man'[c] # << >>
                               /\ \A v \in 1 .. Len(man[c]) : man'[c][v] = man[c][v]
    BY <1>1, <1>2, OldVersions
  <1>4. /\ Len(segs) \in Nat /\ \A c \in Branches : Len(man[c]) \in Nat
        /\ \A c \in Branches : \A v \in 1 .. Len(man[c]) :
              man[c][v] \in ManifestSet /\ WellFormed(man[c][v])
    BY <1>1, ManifestTypes
  <1>5. Len(segs') \in Nat
    BY LenProperties
  <1>6. ASSUME NEW c \in Branches, NEW v \in 1 .. Len(man[c])
        PROVE  /\ v \in 1 .. Len(man'[c]) /\ man'[c][v] = man[c][v]
               /\ WellFormed(man[c][v])' /\ Covered(man[c][v].fts)' = Covered(man[c][v].fts)
               /\ Named(man[c][v]) \subseteq 1 .. Len(segs)
    <2>1. PICK x \in ManifestSet : x = man[c][v] /\ WellFormed(x)
      BY <1>4
    <2>2. WellFormed(x)' /\ Covered(x.fts)' = Covered(x.fts) /\ Named(x) \subseteq 1 .. Len(segs)
      BY <1>4, <1>5, <2>1, WellFormedStays
    <2>3. Len(man'[c]) \in Nat /\ v \in 1 .. Len(man'[c]) /\ man'[c][v] = man[c][v]
      <3>1. Len(man'[c]) \in Nat
        BY <1>3, LenProperties
      <3> QED BY <1>3, <1>4, <3>1
    <2>4. man'[c][v] = x
      BY <2>1, <2>3
    <2> QED BY <2>1, <2>2, <2>3, <2>4 DEF WellFormed, IndexOK, Covered, Disjoint
  <1>7. ManifestsOK'
    <2>1. ASSUME NEW c \in Branches, NEW v \in 1 .. Len(man'[c])
          PROVE  WellFormed(man[c][v])'
      <3>1. CASE v \in 1 .. Len(man[c])
        BY <1>6, <3>1
      <3>2. CASE v \notin 1 .. Len(man[c])
        <4>1. c = b /\ v = Len(man[b]) + 1
          BY <1>3, <1>4, <3>2
        <4> QED BY <1>3, <4>1 DEF WellFormed, IndexOK, Covered, Disjoint
      <3> QED BY <3>1, <3>2
    <2>2. Exists("main")' /\ Exists(pipe.branch)'
      BY <1>1, <1>2, <1>3 DEF ManifestsOK, Exists, Branches
    <2> QED BY <1>3, <2>1, <2>2 DEF ManifestsOK
  <1>8. TagsOK'
    <2>1. \A t \in tagged : t[1] \in Branches /\ t[2] \in 1 .. Len(man[t[1]])
      BY <1>1 DEF TagsOK
    <2>2. \A t \in tagged' : t[2] \in 1 .. Len(man'[t[1]]) /\ t \notin gone'
      BY <1>1, <1>6, <2>1 DEF TagsOK
    <2>3. \A g \in gone' : g[2] \in 1 .. Len(man'["main"]) - 1
      <3> SUFFICES ASSUME NEW g \in gone
                   PROVE  g[2] \in 1 .. Len(man'["main"]) - 1
        OBVIOUS
      <3>1. g[2] \in 1 .. Len(man["main"]) - 1
        BY <1>1 DEF TagsOK
      <3>2. /\ Len(man["main"]) \in Nat /\ Len(man["main"]) <= Len(man'["main"])
            /\ Len(man'["main"]) \in Nat
        BY <1>3, <1>4, LenProperties DEF Branches
      <3> QED BY <3>1, <3>2
    <2>4. \A t \in indexed' : Covered(man[t[1]][t[2]].fts)' = 1 .. man'[t[1]][t[2]].frags
      <3> SUFFICES ASSUME NEW t \in indexed
                   PROVE  Covered(man[t[1]][t[2]].fts)' = 1 .. man'[t[1]][t[2]].frags
        OBVIOUS
      <3>1. t \in tagged /\ Covered(man[t[1]][t[2]].fts) = 1 .. man[t[1]][t[2]].frags
        BY <1>1 DEF TagsOK
      <3> QED BY <1>6, <2>1, <3>1
    <2> QED BY <1>1, <2>2, <2>3, <2>4 DEF TagsOK
  <1>9. Files \subseteq Files' /\ (Hidden' <=> Hidden)
    BY DEF Files, Hidden, Present
  <1>10. ASSUME NEW S, S \subseteq 1 .. Len(segs), Hidden => Backed(S)
         PROVE  Hidden => InMainDir(S)' \subseteq Files'
    <2>1. InMainDir(S)' = InMainDir(S)
      BY <1>10, SegsStay
    <2> QED BY <1>9, <1>10, <2>1 DEF Backed
  <1>11. MergeOK'
    <2> SUFFICES ASSUME pipe'.pc = "merge"
                 PROVE  MergeOK'
      BY DEF MergeOK
    <2>1. CASE pipe.pc = "merge" /\ pipe'.ver = pipe.ver
      <3>1. PICK v, x : v = pipe.ver /\ x = man[b][v]
        OBVIOUS
      <3>2. /\ v \in 1 .. Len(man[b]) /\ <<b, v>> \notin gone
            /\ Covered(x.fts) = 1 .. x.frags /\ (Hidden => Backed(Named(x)))
        BY <1>1, <2>1, <3>1 DEF MergeOK
      <3>3. /\ v \in 1 .. Len(man'[b]) /\ man'[b][v] = x
            /\ Covered(x.fts)' = 1 .. x.frags /\ Named(x) \subseteq 1 .. Len(segs)
        BY <1>2, <1>6, <3>1, <3>2 DEF Covered
      <3>4. Hidden => InMainDir(Named(x))' \subseteq Files'
        BY <1>10, <3>2, <3>3 DEF Named
      <3> QED BY <1>9, <2>1, <3>1, <3>2, <3>3, <3>4 DEF MergeOK, Backed, Covered, InMainDir, Named
    <2>2. CASE pipe'.ver = Len(man[b]) + 1 /\ Covered(m.fts)' = 1 .. m.frags
      <3>1. PICK v : v = Len(man[b]) + 1
        OBVIOUS
      <3>2. v \in 1 .. Len(man'[b]) /\ man'[b][v] = m
        BY <1>2, <1>3, <1>4, <3>1
      <3>3. <<b, v>> \notin gone
        <4> SUFFICES ASSUME <<b, v>> \in gone
                     PROVE  FALSE
          OBVIOUS
        <4>1. PICK g \in gone : g = <<b, v>>
          OBVIOUS
        <4>2. g[1] = "main" /\ g[2] \in 1 .. Len(man["main"]) - 1 /\ g[1] = b /\ g[2] = v
          BY <1>1, <4>1 DEF TagsOK
        <4>3. Len(man[b]) \in Nat
          BY <1>2, <1>4
        <4> QED BY <3>1, <4>2, <4>3
      <3> QED BY <1>9, <2>2, <3>1, <3>2, <3>3 DEF MergeOK, Backed, Covered, InMainDir, Named
    <2> QED BY <2>1, <2>2
  <1>12. LiveSegments' \subseteq LiveSegments \cup Named(m)
    <2> SUFFICES ASSUME NEW u \in LiveSegments', u \notin Named(m)
                 PROVE  u \in LiveSegments
      OBVIOUS
    <2>1. CASE \E c \in Branches : man'[c] # << >> /\ u \in Named(man'[c][Len(man'[c])])
      <3>1. PICK c \in Branches : man'[c] # << >> /\ u \in Named(man'[c][Len(man'[c])])
        BY <2>1
      <3>2. c # b
        BY <1>3, <3>1
      <3>3. man'[c] = man[c]
        BY <1>3, <3>2
      <3> QED BY <3>1, <3>3, LiveMeans DEF Exists, HeadManifest
    <2>2. CASE \E t \in tagged' : u \in Named(man'[t[1]][t[2]])
      <3>1. PICK t \in tagged : u \in Named(man'[t[1]][t[2]])
        BY <2>2
      <3>2. t[1] \in Branches /\ t[2] \in 1 .. Len(man[t[1]])
        BY <1>1 DEF TagsOK
      <3> QED BY <1>6, <3>1, <3>2, LiveMeans
    <2> QED BY <2>1, <2>2, LiveLater
  <1>13. IndexesBacked'
    <2>1. LiveSegments \subseteq 1 .. Len(segs)
      BY <1>1, LiveMade
    <2>2. PICK L : L = LiveSegments
      OBVIOUS
    <2>3. Hidden => InMainDir(L)' \subseteq Files'
      BY <1>1, <1>10, <2>1, <2>2 DEF Backed, InMainDir
    <2>4. \A u \in InMainDir(LiveSegments)' : u \in InMainDir(L)' \/ u \in InMainDir(Named(m))'
      BY <1>12, <2>2 DEF InMainDir, Named
    <2>5. Hidden' => InMainDir(LiveSegments)' \subseteq Files'
      BY <1>9, <2>3, <2>4
    <2> QED BY <1>1, <2>5 DEF IndexesBacked, Hidden, Files
  <1>14. PipeShape' /\ HideOK' /\ QuietOK' /\ NoFalseAlarm'
    BY <1>1, <1>2 DEF PipeShape, HideOK, QuietOK, NoFalseAlarm
  <1>15. ForkOK'
    <2>0. /\ fork \in 0 .. Len(man["main"]) /\ Len(man["main"]) \in Nat
          /\ Len(man["main"]) <= Len(man'["main"]) /\ Len(man'["main"]) \in Nat
      BY <1>1, <1>3, <1>4, LenProperties DEF ForkOK, Branches
    <2>1. fork' \in 0 .. Len(man'["main"])
      BY <2>0
    <2> SUFFICES ASSUME fork # 0
                 PROVE  ForkOK'
      BY <2>1 DEF ForkOK
    <2>2. ~Exists("feature") /\ ixUp /\ ~pipe.startup
      BY <1>1 DEF ForkOK
    <2>3. ~Exists("feature")'
      BY <1>2, <1>3, <2>2 DEF Exists, Branches
    <2>4. <<"main", fork'>> \in gone' \/ (Hidden' => Backed(Named(man["main"][fork]))')
      <3> SUFFICES ASSUME <<"main", fork>> \notin gone, Hidden
                   PROVE  Backed(Named(man["main"][fork]))'
        BY <1>9
      <3>1. PICK x : x = man["main"][fork]
        OBVIOUS
      <3>2. man'["main"][fork] = x /\ Named(x) \subseteq 1 .. Len(segs)
        BY <1>6, <2>0, <3>1 DEF Branches
      <3>3. Backed(Named(x))
        BY <1>1, <3>1 DEF ForkOK
      <3>4. InMainDir(Named(x))' \subseteq Files'
        BY <1>10, <3>2, <3>3 DEF Named
      <3> QED BY <3>2, <3>4 DEF Backed, InMainDir, Named
    <2> QED BY <2>1, <2>2, <2>3, <2>4 DEF ForkOK
  <1> QED BY <1>7, <1>8, <1>11, <1>13, <1>14, <1>15 DEF FilesInv

\* A fragment is written: it is not indexed yet.
LEMMA AppendFragmentInv ==
    ASSUME FilesInv, AppendFragment
    PROVE  FilesInv'
  <1>1. /\ PipeShape /\ ManifestsOK /\ TagsOK /\ (Hidden => Backed(LiveSegments))
    BY BackedMeans DEF FilesInv
  <1>2. PICK b, h : b = pipe.branch /\ h = HeadManifest(b)
    OBVIOUS
  <1>3. PICK m : m = [h EXCEPT !.frags = @ + 1]
    OBVIOUS
  <1>4. /\ pipe.pc = "write" /\ NewVersion(b, m) /\ PGoto("index")
        /\ UNCHANGED <<gone, tagged, indexed, segs, dirs, fork, check, ixUp, odd>>
    BY <1>2, <1>3 DEF AppendFragment
  <1>5. b \in Branches /\ Exists(b)
    BY <1>1, <1>2, <1>4 DEF PipeShape, ManifestsOK, Branches
  <1>6. Len(man[b]) \in 1 .. Len(man[b]) /\ Named(h) \subseteq LiveSegments
    BY <1>1, <1>2, <1>5, LiveMade
  <1>7. h \in ManifestSet /\ WellFormed(h)
    BY <1>1, <1>2, <1>5, <1>6, ManifestTypes DEF HeadManifest
  <1>8. /\ m \in ManifestSet /\ m.fts = h.fts /\ m.vec = h.vec /\ m.frags = h.frags + 1
        /\ h.frags \in Nat
    BY <1>3, <1>7 DEF ManifestSet
  <1>9. WellFormed(m)
    <2>1. 1 .. h.frags \subseteq 1 .. m.frags
      BY <1>8
    <2> QED BY <1>7, <1>8, <2>1 DEF WellFormed, IndexOK
  <1>10. segs' = segs /\ dir' = dir /\ bak' = bak /\ segs \in Seq(Segment)
    BY <1>1, <1>4 DEF dirs, ManifestsOK
  <1>11. WellFormed(m)' /\ SegsGrow
    <2>1. Len(segs) \in Nat
      BY <1>1, ManifestTypes
    <2>2. SegsGrow
      BY <1>10, <2>1 DEF SegsGrow
    <2>3. Len(segs') \in Nat
      BY <1>10, <2>1
    <2> QED BY <1>8, <1>9, <2>1, <2>2, <2>3, WellFormedStays
  <1>12. Named(m) = Named(h)
    BY <1>8 DEF Named
  <1>13. Hidden => InMainDir(Named(m))' \subseteq Files'
    BY <1>1, <1>6, <1>10, <1>12 DEF Backed, InMainDir, Files, Present
  <1>14. /\ DOMAIN pipe' = DOMAIN NoPipe /\ pipe'.pc = "index"
         /\ pipe'.branch = pipe.branch /\ pipe'.hid = pipe.hid
         /\ pipe'.startup = pipe.startup
    BY <1>1, <1>4, GotoShape
  <1> QED BY <1>2, <1>4, <1>8, <1>10, <1>11, <1>13, <1>14, VersionStep

-----------------------------------------------------------------------------
(* The segments that an index pass or a merge makes.                       *)

\* What a coverage A becomes in a step: nothing, or the number of a new segment.
Added(new, b, A) ==
    \/ A = {} /\ new = << >>
    \/ \E n \in Len(segs) + 1 .. Len(segs') :
          new = <<n>> /\ segs'[n] = [home |-> b, covers |-> A]

\* The list t has the segments of s, or some of them, and new ones of branch b.
Grown(t, s, b) ==
    \A u \in ToSet(t) : \/ u \in ToSet(s)
                        \/ u \in Len(segs) + 1 .. Len(segs') /\ segs'[u].home = b

\* A coverage as a segment.
LEMMA NewSegmentMeans ==
    ASSUME NEW b \in Branches, NEW A \in SUBSET Nat
    PROVE  /\ NewSegment(b, A) \in Seq(Segment)
           /\ A = {} => NewSegment(b, A) = << >> /\ Len(NewSegment(b, A)) = 0
           /\ A # {} => /\ Len(NewSegment(b, A)) = 1
                        /\ NewSegment(b, A)[1] = [home |-> b, covers |-> A]
  <1>1. PICK r \in Segment : r = [home |-> b, covers |-> A]
    BY DEF Segment
  <1>2. <<r>> \in Seq(Segment) /\ Len(<<r>>) = 1 /\ <<r>>[1] = r
    BY <1>1
  <1> QED BY <1>1, <1>2, EmptySeq DEF NewSegment

\* What making segments for two coverages does.
LEMMA MadeMeans ==
    ASSUME segs \in Seq(Segment), NEW b \in Branches, NEW A \in SUBSET Nat,
           NEW B \in SUBSET Nat, NEW made, made = <<A, B>>, MakeSegments(b, made)
    PROVE  /\ segs' \in Seq(Segment) /\ SegsGrow /\ Len(segs) \in Nat /\ Len(segs') \in Nat
           /\ Present(dir) \subseteq Present(dir')
           /\ b = "main" => Len(segs) + 1 .. Len(segs') \subseteq Present(dir')
           /\ Added(SegmentOf(made, 1), b, A) /\ Added(SegmentOf(made, 2), b, B)
  <1>1. PICK p, q : p = NewSegment(b, A) /\ q = NewSegment(b, B)
    OBVIOUS
  <1>2. /\ p \in Seq(Segment) /\ q \in Seq(Segment)
        /\ A = {} => Len(p) = 0
        /\ A # {} => Len(p) = 1 /\ p[1] = [home |-> b, covers |-> A]
        /\ B = {} => Len(q) = 0
        /\ B # {} => Len(q) = 1 /\ q[1] = [home |-> b, covers |-> B]
    BY <1>1, NewSegmentMeans
  <1>3. made[1] = A /\ made[2] = B
    OBVIOUS
  <1>4. PICK new : new = p \o q
    OBVIOUS
  <1>5. /\ new \in Seq(Segment) /\ Len(new) = Len(p) + Len(q)
        /\ \A i \in 1 .. Len(p) + Len(q) :
              new[i] = IF i <= Len(p) THEN p[i] ELSE q[i - Len(p)]
        /\ Len(new) \in Nat
    BY <1>2, <1>4, ConcatProperties, LenProperties
  <1>6. /\ segs' = segs \o new
        /\ dir' = IF b = "main" /\ new # << >>
                  THEN Present(dir) \cup (Len(segs) + 1 .. Len(segs) + Len(new)) ELSE dir
    BY <1>1, <1>3, <1>4 DEF MakeSegments
  <1>7. /\ segs' \in Seq(Segment) /\ Len(segs') = Len(segs) + Len(new) /\ Len(segs) \in Nat
        /\ \A i \in 1 .. Len(segs) + Len(new) :
              segs'[i] = IF i <= Len(segs) THEN segs[i] ELSE new[i - Len(segs)]
    BY <1>5, <1>6, ConcatProperties, LenProperties
  <1>8. SegsGrow /\ Len(segs') \in Nat
    BY <1>5, <1>7 DEF SegsGrow
  <1>9. new = << >> => Len(new) = 0
    BY <1>5, EmptySeq
  <1>10. 0 \notin Len(segs) + 1 .. Len(segs) + Len(new)
    BY <1>5, <1>7
  <1>11. Present(dir) \subseteq Present(dir')
    BY <1>6, <1>10 DEF Present, Absent
  <1>12. b = "main" => Len(segs) + 1 .. Len(segs') \subseteq Present(dir')
    <2>1. CASE new = << >>
      BY <1>7, <1>9, <2>1
    <2>2. CASE new # << >>
      BY <1>6, <1>7, <1>10, <2>2 DEF Present, Absent
    <2> QED BY <2>1, <2>2
  <1>13. Added(SegmentOf(made, 1), b, A)
    <2>1. CASE A = {}
      BY <1>3, <2>1 DEF Added, SegmentOf
    <2>2. CASE A # {}
      <3>1. PICK n : n = Len(segs) + 1
        OBVIOUS
      <3>2. SegmentOf(made, 1) = <<n>>
        BY <1>3, <2>2, <3>1 DEF SegmentOf
      <3>3. Len(p) = 1 /\ Len(q) \in Nat /\ p[1] = [home |-> b, covers |-> A]
        BY <1>2, <2>2, LenProperties
      <3>4. n \in Len(segs) + 1 .. Len(segs') /\ segs'[n] = new[1] /\ new[1] = p[1]
        BY <1>5, <1>7, <3>1, <3>3
      <3> QED BY <3>2, <3>3, <3>4 DEF Added
    <2> QED BY <2>1, <2>2
  <1>14. Added(SegmentOf(made, 2), b, B)
    <2>1. CASE B = {}
      BY <1>3, <2>1 DEF Added, SegmentOf
    <2>2. CASE B # {}
      <3>0. PICK k \in Nat : k = Len(p)
        BY <1>2, LenProperties
      <3>1. PICK n : n = Len(segs) + k + 1
        OBVIOUS
      <3>2. SegmentOf(made, 2) = <<n>>
        <4>1. PICK l \in Nat : l = Len(segs)
          BY <1>7
        <4>2. CASE A = {}
          <5>1. SegmentOf(made, 2) = <<l + 1>>
            BY <1>3, <2>2, <4>1, <4>2 DEF SegmentOf
          <5>2. n = l + 1
            BY <1>2, <3>0, <3>1, <4>1, <4>2
          <5> QED BY <5>1, <5>2
        <4>3. CASE A # {}
          <5>1. SegmentOf(made, 2) = <<l + 2>>
            BY <1>3, <2>2, <4>1, <4>3 DEF SegmentOf
          <5>2. k = 1
            BY <1>2, <3>0, <4>3
          <5>3. n = l + 2
            BY <3>1, <4>1, <5>2
          <5> QED BY <5>1, <5>3
        <4> QED BY <4>2, <4>3
      <3>3. Len(q) = 1 /\ q[1] = [home |-> b, covers |-> B]
        BY <1>2, <2>2
      <3>4. n \in Len(segs) + 1 .. Len(segs') /\ segs'[n] = new[k + 1] /\ new[k + 1] = q[1]
        BY <1>5, <1>7, <3>0, <3>1, <3>3
      <3> QED BY <3>2, <3>3, <3>4 DEF Added
    <2> QED BY <2>1, <2>2
  <1> QED BY <1>7, <1>8, <1>11, <1>12, <1>13, <1>14

\* A new segment over fragments that the index does not cover.
LEMMA Extended ==
    ASSUME SegsGrow, Len(segs) \in Nat, Len(segs') \in Nat,
           NEW s \in Seq(Nat), NEW f, IndexOK(s, f), NEW A, A \subseteq 1 .. f,
           A \cap Covered(s) = {}, NEW b, NEW new, Added(new, b, A)
    PROVE  /\ s \o new \in Seq(Nat) /\ IndexOK(s \o new, f)'
           /\ Covered(s \o new)' = Covered(s) \cup A
           /\ Grown(s \o new, s, b)
  <1>1. IndexOK(s, f)' /\ Covered(s)' = Covered(s)
    BY IndexStays
  <1>2. CASE A = {} /\ new = << >>
    <2>1. s \o new = s
      BY <1>2, ConcatEmptySeq
    <2> QED BY <1>1, <1>2, <2>1 DEF Grown
  <1>3. CASE \E n \in Len(segs) + 1 .. Len(segs') :
               new = <<n>> /\ segs'[n] = [home |-> b, covers |-> A]
    <2>1. PICK n \in Len(segs) + 1 .. Len(segs') :
               new = <<n>> /\ segs'[n] = [home |-> b, covers |-> A]
      BY <1>3
    <2>2. n \in Nat /\ <<n>> \in Seq(Nat) /\ Len(<<n>>) = 1 /\ <<n>>[1] = n
      BY <2>1
    <2>3. PICK t : t = s \o new
      OBVIOUS
    <2>4. /\ t \in Seq(Nat) /\ Len(t) = Len(s) + 1 /\ Len(s) \in Nat
          /\ \A i \in 1 .. Len(s) : t[i] = s[i]
          /\ t[Len(s) + 1] = n
      <3>1. /\ t \in Seq(Nat) /\ Len(t) = Len(s) + 1 /\ Len(s) \in Nat
            /\ \A i \in 1 .. Len(s) + 1 : t[i] = IF i <= Len(s) THEN s[i] ELSE <<n>>[i - Len(s)]
        BY <2>1, <2>2, <2>3, ConcatProperties, LenProperties
      <3>2. PICK k \in Nat : k = Len(s)
        BY <3>1
      <3>3. k + 1 \in 1 .. k + 1 /\ ~(k + 1 <= k) /\ (k + 1) - k = 1
        BY <3>2
      <3> QED BY <2>2, <3>1, <3>2, <3>3
    <2>5. ToSet(t) = ToSet(s) \cup {n}
      <3>1. ToSet(t) = {t[i] : i \in 1 .. Len(t)} /\ ToSet(s) = {s[i] : i \in 1 .. Len(s)}
        BY <2>4, ToSetMeans
      <3>2. PICK k \in Nat : k = Len(s)
        BY <2>4
      <3>3. \A i \in 1 .. k + 1 : i \in 1 .. k \/ i = k + 1
        BY <3>2
      <3>4. \A i \in 1 .. k : i \in 1 .. k + 1
        BY <3>2
      <3>5. k + 1 \in 1 .. k + 1
        BY <3>2
      <3> QED BY <2>4, <3>1, <3>2, <3>3, <3>4, <3>5
    <2>6. Covered(t)' = Covered(s) \cup A
      <3>1. segs'[n].covers = A
        BY <2>1
      <3>2. Covered(s)' = UNION {segs'[u].covers : u \in ToSet(s)}
        BY DEF Covered
      <3>3. Covered(t)' = UNION {segs'[u].covers : u \in ToSet(s) \cup {n}}
        BY <2>5 DEF Covered
      <3> QED BY <1>1, <3>1, <3>2, <3>3
    <2>7. Disjoint(t)'
      <3> SUFFICES ASSUME NEW i \in 1 .. Len(t), NEW j \in 1 .. i - 1
                   PROVE  segs'[t[i]].covers \cap segs'[t[j]].covers = {}
        BY DEF Disjoint
      <3>1. j \in 1 .. Len(s) /\ t[j] = s[j]
        BY <2>4
      <3>2. CASE i \in 1 .. Len(s)
        BY <1>1, <2>4, <3>1, <3>2 DEF IndexOK, Disjoint
      <3>3. CASE i = Len(s) + 1
        <4>1. segs'[t[i]].covers = A
          BY <2>1, <2>4, <3>3
        <4>2. s[j] \in ToSet(s)
          BY <3>1, ToSetMeans
        <4>3. segs'[s[j]].covers \subseteq Covered(s)'
          BY <4>2 DEF Covered
        <4>4. t[j] = s[j] /\ Covered(s)' = Covered(s)
          BY <1>1, <3>1
        <4>5. segs'[t[j]].covers \subseteq Covered(s)
          BY <4>3, <4>4
        <4> QED BY <4>1, <4>5, Zenon
      <3>4. PICK k \in Nat : k = Len(s)
        BY <2>4
      <3>5. i \in 1 .. k \/ i = k + 1
        BY <2>4, <3>4
      <3> QED BY <3>2, <3>3, <3>4, <3>5
    <2>8. IndexOK(t, f)'
      <3>1. n \in 1 .. Len(segs')
        BY <2>1
      <3> QED BY <1>1, <2>5, <2>6, <2>7, <3>1 DEF IndexOK
    <2>9. Grown(t, s, b)
      BY <2>1, <2>5 DEF Grown
    <2>10. s \o new = t
      BY <2>3
    <2> QED BY <2>4, <2>6, <2>8, <2>9, <2>10
  <1> QED BY <1>2, <1>3 DEF Added

\* The list s of length l, cut after its first k elements.
Parts(s, l, k, old, new) ==
    /\ l \in Nat /\ k \in 0 .. l /\ l = Len(s)
    /\ old \in Seq(Nat) /\ Len(old) = k /\ \A i \in 1 .. k : old[i] = s[i]
    /\ new \in Seq(Nat) /\ Len(new) = l - k /\ \A i \in 1 .. l - k : new[i] = s[k + i]

\* The parts of a list, element by element.
LEMMA CutParts ==
    ASSUME NEW s \in Seq(Nat), NEW l \in Nat, l = Len(s), NEW k \in 0 .. l
    PROVE  Parts(s, l, k, SubSeq(s, 1, k), SubSeq(s, k + 1, l))
  <1>1. /\ SubSeq(s, 1, k) \in Seq(Nat) /\ Len(SubSeq(s, 1, k)) = k
        /\ \A i \in 1 .. k : SubSeq(s, 1, k)[i] = s[i]
    OBVIOUS
  <1>2. /\ SubSeq(s, k + 1, l) \in Seq(Nat) /\ Len(SubSeq(s, k + 1, l)) = l - k
        /\ \A i \in 1 .. l - k : SubSeq(s, k + 1, l)[i] = s[k + i]
    OBVIOUS
  <1> QED BY <1>1, <1>2 DEF Parts

\* An index, cut in two: the parts have no fragment in common.
LEMMA CutIndex ==
    ASSUME NEW s \in Seq(Nat), NEW f, IndexOK(s, f), NEW l, NEW k, NEW old, NEW new,
           Parts(s, l, k, old, new)
    PROVE  /\ IndexOK(old, f) /\ ToSet(old) \subseteq ToSet(s)
           /\ Covered(new) \subseteq 1 .. f /\ Covered(new) \cap Covered(old) = {}
  <1>1. /\ l \in Nat /\ k \in 0 .. l /\ l = Len(s)
        /\ old \in Seq(Nat) /\ Len(old) = k
        /\ new \in Seq(Nat) /\ Len(new) = l - k /\ \A i \in 1 .. l - k : new[i] = s[k + i]
    BY DEF Parts
  <1>2. k \in Int /\ k <= l
    BY <1>1
  <1>3. \A i \in 1 .. k : old[i] = s[i]
    BY DEF Parts
  <1>5. /\ \A u \in ToSet(old) : \E i \in 1 .. k : u = s[i]
        /\ \A u \in ToSet(new) : \E i \in 1 .. l - k : u = s[k + i]
        /\ ToSet(s) = {s[i] : i \in 1 .. l}
    <2>1. ToSet(old) = {old[i] : i \in 1 .. k}
      BY <1>1, ToSetMeans
    <2>2. ToSet(new) = {new[i] : i \in 1 .. l - k}
      BY <1>1, ToSetMeans
    <2>3. ToSet(s) = {s[i] : i \in 1 .. l}
      BY <1>1, ToSetMeans
    <2>4. ASSUME NEW u \in ToSet(old)
          PROVE  \E i \in 1 .. k : u = s[i]
      <3>1. PICK i \in 1 .. k : u = old[i]
        BY <2>1
      <3> QED BY <1>1, <1>3, <3>1
    <2>5. ASSUME NEW u \in ToSet(new)
          PROVE  \E i \in 1 .. l - k : u = s[k + i]
      <3>1. PICK i \in 1 .. l - k : u = new[i]
        BY <2>2
      <3> QED BY <1>1, <1>3, <3>1
    <2> QED BY <2>3, <2>4, <2>5
  <1>6. /\ \A i \in 1 .. k : i \in 1 .. l
        /\ \A i \in 1 .. l - k : k + i \in 1 .. l
    BY <1>1, <1>2
  <1>7. ToSet(old) \subseteq ToSet(s) /\ ToSet(new) \subseteq ToSet(s)
    BY <1>5, <1>6
  <1>8. Covered(old) \subseteq Covered(s) /\ Covered(new) \subseteq Covered(s)
    BY <1>7 DEF Covered
  <1>9. Disjoint(old)
    <2> SUFFICES ASSUME NEW i \in 1 .. k, NEW j \in 1 .. i - 1
                 PROVE  segs[old[i]].covers \cap segs[old[j]].covers = {}
      BY <1>1, <1>3 DEF Disjoint
    <2>1. i \in 1 .. Len(s) /\ j \in 1 .. k
      BY <1>1, <1>2
    <2> QED BY <1>1, <1>3, <2>1 DEF IndexOK, Disjoint
  <1>10. Covered(new) \cap Covered(old) = {}
    <2> SUFFICES ASSUME NEW x \in Covered(new), x \in Covered(old)
                 PROVE  FALSE
      OBVIOUS
    <2>1. PICK u \in ToSet(new) : x \in segs[u].covers
      BY DEF Covered
    <2>2. PICK w \in ToSet(old) : x \in segs[w].covers
      BY DEF Covered
    <2>3. PICK i \in 1 .. l - k : u = s[k + i]
      BY <1>5, <2>1
    <2>4. PICK j \in 1 .. k : w = s[j]
      BY <1>5, <2>2
    <2>5. k + i \in 1 .. Len(s) /\ j \in 1 .. (k + i) - 1
      BY <1>1, <1>2
    <2>6. segs[s[k + i]].covers \cap segs[s[j]].covers = {}
      BY <2>5 DEF IndexOK, Disjoint
    <2> QED BY <2>1, <2>2, <2>3, <2>4, <2>6
  <1> QED BY <1>1, <1>3, <1>7, <1>8, <1>9, <1>10 DEF IndexOK

\* The coverage of a merge is part of the index that is merged.
LEMMA MergedCovers ==
    ASSUME NEW s \in Seq(Nat), NEW f, IndexOK(s, f)
    PROVE  /\ Merged(s, Base) \subseteq 1 .. f
           /\ Len(s) > 1 => /\ Older(s, Base) \in Seq(Nat) /\ IndexOK(Older(s, Base), f)
                            /\ ToSet(Older(s, Base)) \subseteq ToSet(s)
                            /\ Merged(s, Base) \cap Covered(Older(s, Base)) = {}
  <1>1. PICK l \in Nat : l = Len(s)
    BY LenProperties
  <1>2. PICK k \in 0 .. l : k = IF l > 3 THEN l - 3 ELSE 0
    <2>1. (IF l > 3 THEN l - 3 ELSE 0) \in 0 .. l
      BY <1>1
    <2> QED BY <2>1
  <1>3. PICK old, new : old = SubSeq(s, 1, k) /\ new = SubSeq(s, k + 1, l)
    OBVIOUS
  <1>4. Parts(s, l, k, old, new)
    BY <1>1, <1>3, CutParts
  <1>5. /\ IndexOK(old, f) /\ ToSet(old) \subseteq ToSet(s)
        /\ Covered(new) \subseteq 1 .. f /\ Covered(new) \cap Covered(old) = {}
    BY <1>4, CutIndex
  <1>8. old \in Seq(Nat) /\ Len(new) = l - k
    BY <1>4 DEF Parts
  <1>6. Newest(s, Base) = new /\ Older(s, Base) = old
    <2>1. CASE l > 3
      <3>1. l - 3 + 1 = k + 1 /\ l - (l - k) = k
        BY <1>1, <1>2, <2>1
      <3>2. Newest(s, Base) = SubSeq(s, l - 3 + 1, l)
        BY <1>1, <2>1 DEF Newest, Base
      <3>3. Newest(s, Base) = new
        BY <1>3, <3>1, <3>2
      <3>4. Older(s, Base) = SubSeq(s, 1, l - (l - k))
        BY <1>1, <1>8, <3>3 DEF Older
      <3> QED BY <1>3, <3>1, <3>3, <3>4
    <2>2. CASE ~(l > 3)
      <3>1. k = 0 /\ k + 1 = 1 /\ l - l = k
        BY <1>1, <1>2, <2>2
      <3>2. Newest(s, Base) = s
        BY <1>1, <2>2 DEF Newest, Base
      <3>3. SubSeq(s, 1, l) = s
        BY <1>1, SubSeqFull
      <3>4. Older(s, Base) = SubSeq(s, 1, l - l)
        BY <1>1, <3>2 DEF Older
      <3> QED BY <1>3, <3>1, <3>2, <3>3, <3>4
    <2> QED BY <2>1, <2>2
  <1>7. Merged(s, Base) = IF Len(s) > 1 THEN Covered(new) ELSE {}
    BY <1>6 DEF Merged
  <1> QED BY <1>5, <1>6, <1>7, <1>8

\* A merge: the list stays an index, over the same or fewer fragments.
LEMMA MergedList ==
    ASSUME SegsGrow, Len(segs) \in Nat, Len(segs') \in Nat,
           NEW s \in Seq(Nat), NEW f, IndexOK(s, f), NEW b, NEW new,
           Added(new, b, Merged(s, Base)), NEW t, t = AfterMerge(s, Base, new)
    PROVE  t \in Seq(Nat) /\ IndexOK(t, f)' /\ Grown(t, s, b)
  <1>1. PICK A : A = Merged(s, Base)
    OBVIOUS
  <1>2. CASE Len(s) > 1
    <2>1. PICK old : old = Older(s, Base)
      OBVIOUS
    <2>2. /\ old \in Seq(Nat) /\ IndexOK(old, f) /\ ToSet(old) \subseteq ToSet(s)
          /\ A \subseteq 1 .. f /\ A \cap Covered(old) = {}
      BY <1>1, <1>2, <2>1, MergedCovers
    <2>3. Added(new, b, A)
      BY <1>1
    <2>4. t = old \o new
      BY <1>2, <2>1 DEF AfterMerge
    <2>5. /\ old \o new \in Seq(Nat) /\ IndexOK(old \o new, f)' /\ Grown(old \o new, old, b)
      BY <2>2, <2>3, Extended
    <2>6. Grown(t, s, b)
      BY <2>2, <2>4, <2>5 DEF Grown
    <2> QED BY <2>4, <2>5, <2>6
  <1>3. CASE ~(Len(s) > 1)
    <2>1. t = s
      BY <1>3 DEF AfterMerge
    <2>2. IndexOK(s, f)'
      BY IndexStays
    <2> QED BY <2>1, <2>2 DEF Grown
  <1> QED BY <1>2, <1>3

\* A version with grown lists, on top of the head.
LEMMA ListsStep ==
    ASSUME FilesInv, NEW b, b = pipe.branch, NEW h, h = HeadManifest(b),
           NEW f \in Seq(Nat), NEW v \in Seq(Nat), NEW m, m = Manifest(h.frags, f, v),
           NewVersion(b, m),
           IndexOK(f, h.frags)', IndexOK(v, h.frags)', Grown(f, h.fts, b), Grown(v, h.vec, b),
           segs' \in Seq(Segment), SegsGrow,
           UNCHANGED <<gone, tagged, indexed, fork, check, ixUp, odd, bak>>,
           Present(dir) \subseteq Present(dir'),
           b = "main" => Len(segs) + 1 .. Len(segs') \subseteq Present(dir'),
           pipe.pc \in {"index", "merge"}, pipe'.pc = "merge",
           DOMAIN pipe' = DOMAIN NoPipe, pipe'.branch = b, pipe'.hid = pipe.hid,
           pipe'.startup = pipe.startup,
           \/ pipe.pc = "merge" /\ pipe'.ver = pipe.ver
           \/ pipe'.ver = Len(man[b]) + 1 /\ Covered(f)' = 1 .. h.frags
    PROVE  FilesInv'
  <1>1. /\ PipeShape /\ ManifestsOK /\ TagsOK /\ (Hidden => Backed(LiveSegments))
    BY BackedMeans DEF FilesInv
  <1>2. b \in Branches /\ Exists(b)
    BY <1>1 DEF PipeShape, ManifestsOK, Branches
  <1>3. /\ Len(man[b]) \in 1 .. Len(man[b]) /\ Named(h) \subseteq LiveSegments
        /\ LiveSegments \subseteq 1 .. Len(segs)
    BY <1>1, <1>2, LiveMade
  <1>4. h \in ManifestSet
    BY <1>1, <1>2, <1>3, ManifestTypes DEF HeadManifest
  <1>5. m \in ManifestSet /\ m.fts = f /\ m.vec = v /\ m.frags = h.frags
    BY <1>4 DEF ManifestSet, Manifest
  <1>6. WellFormed(m)' /\ (Covered(f)' = 1 .. h.frags => Covered(m.fts)' = 1 .. m.frags)
    BY <1>5 DEF WellFormed, IndexOK, Covered, Disjoint
  <1>7. \A u \in Named(m) : \/ u \in Named(h)
                            \/ u \in Len(segs) + 1 .. Len(segs') /\ segs'[u].home = b
    BY <1>5 DEF Named, Grown
  <1>8. Hidden => InMainDir(Named(m))' \subseteq Files'
    <2> SUFFICES ASSUME Hidden, NEW u \in Named(m), segs'[u].home = "main"
                 PROVE  u \in Files'
      BY DEF InMainDir, Named
    <2>1. CASE u \in Named(h)
      <3>1. u \in LiveSegments /\ u \in 1 .. Len(segs)
        BY <1>3, <2>1
      <3>2. segs[u].home = "main"
        BY <3>1 DEF SegsGrow
      <3>3. u \in Files
        BY <1>1, <3>1, <3>2 DEF Backed, InMainDir
      <3> QED BY <3>3 DEF Files, Present
    <2>2. CASE u \in Len(segs) + 1 .. Len(segs') /\ segs'[u].home = b
      BY <2>2 DEF Files, Present
    <2> QED BY <1>7, <2>1, <2>2
  <1> QED BY <1>5, <1>6, <1>8, VersionStep

\* The head of a branch that a pipeline works on.
LEMMA HeadIs ==
    ASSUME FilesInv, pipe.pc # "idle"
    PROVE  /\ pipe.branch \in Branches /\ Len(man[pipe.branch]) \in Nat
           /\ HeadManifest(pipe.branch) \in ManifestSet
           /\ WellFormed(HeadManifest(pipe.branch))
           /\ segs \in Seq(Segment) /\ PipeShape
  <1>1. PipeShape /\ ManifestsOK /\ TagsOK
    BY DEF FilesInv
  <1>2. pipe.branch \in Branches /\ Exists(pipe.branch)
    BY <1>1 DEF PipeShape, ManifestsOK, Branches
  <1>3. Len(man[pipe.branch]) \in 1 .. Len(man[pipe.branch])
    BY <1>1, <1>2, LiveMade
  <1> QED BY <1>1, <1>2, <1>3, ManifestTypes DEF HeadManifest, ManifestsOK

\* The index pass covers what the inverted index does not cover yet.
LEMMA IndexFragmentsInv ==
    ASSUME FilesInv, IndexFragments
    PROVE  FilesInv'
  <1>1. PICK b, h : b = pipe.branch /\ h = HeadManifest(b)
    OBVIOUS
  <1>2. /\ pipe.pc = "index"
        /\ pipe' = [pipe EXCEPT !.pc = "merge", !.ver = HeadVersion(b) + 1,
               !.merges = IF pipe.boundary THEN merges_needed[deltas'[b]] ELSE 0]
        /\ UNCHANGED <<gone, tagged, indexed, bak, fork, check, ixUp, odd>>
    BY <1>1 DEF IndexFragments
  <1>3. PICK enough \in BOOLEAN :
              LET made == SegmentsMade(h, pipe.boundary, enough)
              IN  /\ MakeSegments(b, made)
                  /\ NewVersion(b, Manifest(h.frags,
                                            h.fts \o SegmentOf(made, 1),
                                            h.vec \o SegmentOf(made, 2)))
    BY <1>1 DEF IndexFragments
  <1>4. PICK A, B : /\ A = Unindexed(h, h.fts)
                    /\ B = IF h.vec # << >> THEN Unindexed(h, h.vec)
                           ELSE IF pipe.boundary /\ enough THEN 1 .. h.frags ELSE {}
    OBVIOUS
  <1>5. PICK made : made = <<A, B>>
    OBVIOUS
  <1>6. PICK p, q : p = SegmentOf(made, 1) /\ q = SegmentOf(made, 2)
    OBVIOUS
  <1>7. /\ MakeSegments(b, made)
        /\ NewVersion(b, Manifest(h.frags, h.fts \o p, h.vec \o q))
    BY <1>3, <1>4, <1>5, <1>6 DEF SegmentsMade
  <1>8. /\ b \in Branches /\ Len(man[b]) \in Nat /\ h \in ManifestSet /\ WellFormed(h)
        /\ segs \in Seq(Segment) /\ PipeShape
    BY <1>1, <1>2, HeadIs
  <1>9. PICK n \in Nat : n = h.frags
    BY <1>8 DEF ManifestSet
  <1>10. PICK f \in Seq(Nat) : f = h.fts
    BY <1>8 DEF ManifestSet
  <1>11. PICK v \in Seq(Nat) : v = h.vec
    BY <1>8 DEF ManifestSet
  <1>12. IndexOK(f, n) /\ IndexOK(v, n)
    BY <1>8, <1>9, <1>10, <1>11 DEF WellFormed
  <1>13. /\ A \subseteq 1 .. n /\ A \cap Covered(f) = {}
         /\ Covered(f) \cup A = 1 .. n
    BY <1>4, <1>9, <1>10, <1>12 DEF Unindexed, IndexOK
  <1>14. B \subseteq 1 .. n /\ B \cap Covered(v) = {}
    <2>1. CASE v # << >>
      BY <1>4, <1>9, <1>11, <2>1 DEF Unindexed
    <2>2. CASE v = << >>
      <3>1. ToSet(v) = {}
        <4>1. Len(v) = 0
          BY <2>2, EmptySeq
        <4>2. ToSet(v) = {v[i] : i \in 1 .. 0}
          BY <4>1, ToSetMeans
        <4> QED BY <4>2
      <3>2. Covered(v) = {}
        BY <3>1 DEF Covered
      <3> QED BY <1>4, <1>9, <1>11, <2>2, <3>2
    <2> QED BY <2>1, <2>2
  <1>15. A \in SUBSET Nat /\ B \in SUBSET Nat
    BY <1>13, <1>14
  <1>16. /\ segs' \in Seq(Segment) /\ SegsGrow /\ Len(segs) \in Nat /\ Len(segs') \in Nat
         /\ Present(dir) \subseteq Present(dir')
         /\ b = "main" => Len(segs) + 1 .. Len(segs') \subseteq Present(dir')
         /\ Added(p, b, A) /\ Added(q, b, B)
    BY <1>5, <1>6, <1>7, <1>8, <1>15, MadeMeans
  <1>17. /\ f \o p \in Seq(Nat) /\ IndexOK(f \o p, n)'
         /\ Covered(f \o p)' = 1 .. n /\ Grown(f \o p, f, b)
    BY <1>12, <1>13, <1>16, Extended
  <1>18. /\ v \o q \in Seq(Nat) /\ IndexOK(v \o q, n)' /\ Grown(v \o q, v, b)
    BY <1>12, <1>14, <1>16, Extended
  <1>19. /\ DOMAIN pipe' = DOMAIN NoPipe /\ pipe'.branch = b /\ pipe'.hid = pipe.hid
         /\ pipe'.startup = pipe.startup /\ pipe'.pc = "merge"
         /\ pipe'.ver = Len(man[b]) + 1
    BY <1>1, <1>2, <1>8 DEF PipeShape, NoPipe, HeadVersion
  <1>20. PICK x, y : x = f \o p /\ y = v \o q
    OBVIOUS
  <1>21. /\ x \in Seq(Nat) /\ IndexOK(x, n)' /\ Covered(x)' = 1 .. n /\ Grown(x, f, b)
         /\ y \in Seq(Nat) /\ IndexOK(y, n)' /\ Grown(y, v, b)
    BY <1>17, <1>18, <1>20
  <1>22. PICK m : m = Manifest(h.frags, x, y) /\ NewVersion(b, m)
    BY <1>7, <1>10, <1>11, <1>20
  <1> QED BY <1>1, <1>2, <1>9, <1>10, <1>11, <1>16, <1>19, <1>21, <1>22, ListsStep

\* A merge of the cascade.
LEMMA CascadeInv ==
    ASSUME FilesInv, Cascade
    PROVE  FilesInv'
  <1>1. PICK b, h : b = pipe.branch /\ h = HeadManifest(b)
    OBVIOUS
  <1>2. PICK A, B : A = Merged(h.fts, Base) /\ B = Merged(h.vec, Base)
    OBVIOUS
  <1>3. PICK made : made = <<A, B>>
    OBVIOUS
  <1>4. PICK p, q : p = SegmentOf(made, 1) /\ q = SegmentOf(made, 2)
    OBVIOUS
  <1>5. /\ pipe.pc = "merge" /\ MakeSegments(b, made)
        /\ NewVersion(b, Manifest(h.frags, AfterMerge(h.fts, Base, p), AfterMerge(h.vec, Base, q)))
        /\ pipe' = [pipe EXCEPT !.merges = @ - 1]
        /\ UNCHANGED <<gone, tagged, indexed, bak, fork, check, ixUp, odd>>
    BY <1>1, <1>2, <1>3, <1>4 DEF Cascade
  <1>6. /\ b \in Branches /\ h \in ManifestSet /\ WellFormed(h)
        /\ segs \in Seq(Segment) /\ PipeShape
    BY <1>1, <1>5, HeadIs
  <1>7. PICK n \in Nat : n = h.frags
    BY <1>6 DEF ManifestSet
  <1>8. PICK f \in Seq(Nat) : f = h.fts
    BY <1>6 DEF ManifestSet
  <1>9. PICK v \in Seq(Nat) : v = h.vec
    BY <1>6 DEF ManifestSet
  <1>10. IndexOK(f, n) /\ IndexOK(v, n)
    BY <1>6, <1>7, <1>8, <1>9 DEF WellFormed
  <1>11. A \subseteq 1 .. n /\ B \subseteq 1 .. n
    BY <1>2, <1>8, <1>9, <1>10, MergedCovers
  <1>12. A \in SUBSET Nat /\ B \in SUBSET Nat
    BY <1>11
  <1>13. /\ segs' \in Seq(Segment) /\ SegsGrow /\ Len(segs) \in Nat /\ Len(segs') \in Nat
         /\ Present(dir) \subseteq Present(dir')
         /\ b = "main" => Len(segs) + 1 .. Len(segs') \subseteq Present(dir')
         /\ Added(p, b, A) /\ Added(q, b, B)
    BY <1>3, <1>4, <1>5, <1>6, <1>12, MadeMeans
  <1>14. PICK x, y : x = AfterMerge(f, Base, p) /\ y = AfterMerge(v, Base, q)
    OBVIOUS
  <1>15. Added(p, b, Merged(f, Base)) /\ Added(q, b, Merged(v, Base))
    BY <1>2, <1>8, <1>9, <1>13
  <1>16. x \in Seq(Nat) /\ IndexOK(x, n)' /\ Grown(x, f, b)
    BY <1>10, <1>13, <1>14, <1>15, MergedList
  <1>17. y \in Seq(Nat) /\ IndexOK(y, n)' /\ Grown(y, v, b)
    BY <1>10, <1>13, <1>14, <1>15, MergedList
  <1>18. /\ DOMAIN pipe' = DOMAIN NoPipe /\ pipe'.branch = b /\ pipe'.hid = pipe.hid
         /\ pipe'.startup = pipe.startup /\ pipe'.pc = "merge" /\ pipe'.ver = pipe.ver
    BY <1>1, <1>5, <1>6 DEF PipeShape, NoPipe
  <1>19. PICK m : m = Manifest(h.frags, x, y) /\ NewVersion(b, m)
    BY <1>5, <1>8, <1>9, <1>14
  <1> QED BY <1>1, <1>5, <1>7, <1>8, <1>9, <1>13, <1>16, <1>17, <1>18, <1>19, ListsStep

-----------------------------------------------------------------------------
(* A fork makes its branch, and a start.                                   *)

\* The branch is made at a version whose files no cleanup removed.
LEMMA ForkCreateInv ==
    ASSUME FilesInv, ForkCreate
    PROVE  FilesInv'
  <1>1. /\ PipeShape /\ ManifestsOK /\ TagsOK /\ HideOK /\ QuietOK /\ ForkOK /\ NoFalseAlarm
        /\ MergeOK /\ (Hidden => Backed(LiveSegments))
        /\ bak # Absent => ~ixUp \/ pipe.hid \/ "stranded" \in odd
    BY BackedMeans DEF FilesInv
  <1>2. /\ fork # 0 /\ fork' = 0
        /\ man' = IF <<"main", fork>> \in gone THEN man
                  ELSE [man EXCEPT !["feature"] = <<man["main"][fork]>>]
        /\ UNCHANGED <<gone, tagged, indexed, segs, dirs, pipe, check, ixUp, odd>>
    BY DEF ForkCreate
  <1>3. /\ dir' = dir /\ bak' = bak /\ Files' = Files /\ (Hidden' <=> Hidden)
        /\ (\A S : InMainDir(S)' = InMainDir(S)) /\ (\A s : Covered(s)' = Covered(s))
    BY <1>2 DEF dirs, Files, Present, Hidden, InMainDir, Covered
  <1>4. /\ ~Exists("feature") /\ fork \in 1 .. Len(man["main"]) /\ Len(man["main"]) \in Nat
        /\ Len(man["feature"]) = 0
    <2>1. Len(man["main"]) \in Nat /\ Len(man["feature"]) \in Nat
      BY <1>1, ManifestTypes DEF Branches
    <2>2. ~Exists("feature") /\ fork \in 0 .. Len(man["main"])
      BY <1>1, <1>2 DEF ForkOK
    <2>3. Len(man["feature"]) = 0
      BY <1>1, <2>1, <2>2, ManifestTypes DEF Branches
    <2> QED BY <1>2, <2>1, <2>2, <2>3
  <1>5. CASE <<"main", fork>> \in gone
    <2>1. UNCHANGED manifests
      BY <1>2, <1>5 DEF manifests
    <2>2. LiveSegments' = LiveSegments /\ \A b : Exists(b)' <=> Exists(b)
      BY <1>1, <2>1, SameManifests
    <2>3. HideOK' /\ QuietOK' /\ NoFalseAlarm'
      BY <1>1, <1>2, <1>3, <2>2 DEF HideOK, QuietOK, NoFalseAlarm, InMainDir, Present
    <2> QED BY <1>1, <1>2, <1>3, <2>1, <2>3, QuietStep DEF PipeShape
  <1>6. CASE <<"main", fork>> \notin gone
    <2>1. PICK x \in ManifestSet : x = man["main"][fork] /\ WellFormed(x)
      BY <1>1, <1>4, ManifestTypes DEF Branches
    <2>2. PICK one : one = <<x>>
      OBVIOUS
    <2>3. one \in Seq(ManifestSet) /\ Len(one) = 1 /\ one[1] = x /\ one # << >>
      BY <2>2, EmptySeq
    <2>4. /\ man \in [Branches -> Seq(ManifestSet)] /\ man' = [man EXCEPT !["feature"] = one]
      BY <1>1, <1>2, <1>6, <2>1, <2>2 DEF ManifestsOK
    <2>5. /\ man' \in [Branches -> Seq(ManifestSet)] /\ man'["feature"] = one
          /\ \A c \in Branches : c # "feature" => man'[c] = man[c]
          /\ \A c \in Branches : man[c] # << >> => man'[c] = man[c]
      BY <1>4, <2>3, <2>4 DEF Branches, Exists
    <2>6. \A m : WellFormed(m)' <=> WellFormed(m)
      BY <1>2, <1>3 DEF WellFormed, IndexOK, Disjoint
    <2>7. ManifestsOK'
      <3>1. ASSUME NEW c \in Branches, NEW v \in 1 .. Len(man'[c])
            PROVE  WellFormed(man[c][v])'
        <4>1. CASE c = "feature"
          <5>1. v = 1 /\ man'[c][v] = x
            <6>1. man'[c] = one /\ v \in 1 .. Len(one)
              BY <2>5, <4>1
            <6>2. v = 1
              BY <2>3, <6>1
            <6> QED BY <2>3, <6>1, <6>2
          <5> QED BY <2>1, <2>6, <5>1
        <4>2. CASE c # "feature"
          <5>1. man'[c] = man[c] /\ v \in 1 .. Len(man[c])
            BY <2>5, <4>2
          <5>2. WellFormed(man[c][v])
            BY <1>1, <5>1 DEF ManifestsOK
          <5> QED BY <2>6, <5>1, <5>2
        <4> QED BY <4>1, <4>2
      <3>2. Exists("main")' /\ (pipe'.pc # "idle" => Exists(pipe.branch)')
        BY <1>1, <1>2, <2>5 DEF ManifestsOK, Exists, Branches, PipeShape
      <3> QED BY <1>1, <1>2, <2>5, <3>1, <3>2 DEF ManifestsOK
    <2>8. \A t \in tagged : t[1] \in Branches /\ t[1] # "feature" /\ man'[t[1]] = man[t[1]]
      <3> SUFFICES ASSUME NEW t \in tagged
                   PROVE  t[1] \in Branches /\ t[1] # "feature"
        BY <2>5
      <3>1. t[1] \in Branches /\ t[2] \in 1 .. Len(man[t[1]])
        BY <1>1 DEF TagsOK
      <3> QED BY <1>4, <3>1
    <2>9. TagsOK'
      <3>1. man'["main"] = man["main"]
        BY <2>5 DEF Branches
      <3>2. \A t \in tagged' : t[2] \in 1 .. Len(man'[t[1]]) /\ t \notin gone'
        BY <1>1, <1>2, <2>8 DEF TagsOK
      <3>3. \A t \in indexed' : Covered(man[t[1]][t[2]].fts)' = 1 .. man'[t[1]][t[2]].frags
        BY <1>1, <1>2, <1>3, <2>8 DEF TagsOK
      <3> QED BY <1>1, <1>2, <3>1, <3>2, <3>3 DEF TagsOK
    <2>10. MergeOK'
      <3> SUFFICES ASSUME pipe.pc = "merge"
                   PROVE  MergeOK'
        BY <1>2 DEF MergeOK
      <3>1. man'[pipe.branch] = man[pipe.branch]
        BY <1>1, <2>5 DEF ManifestsOK, PipeShape, Exists, Branches
      <3>2. PICK m : m = man[pipe.branch][pipe.ver]
        OBVIOUS
      <3>3. /\ pipe.ver \in 1 .. Len(man[pipe.branch]) /\ <<pipe.branch, pipe.ver>> \notin gone
            /\ Covered(m.fts) = 1 .. m.frags /\ (Hidden => Backed(Named(m)))
        BY <1>1, <3>2 DEF MergeOK
      <3>4. Covered(m.fts)' = 1 .. m.frags /\ (Hidden' => Backed(Named(m))')
        BY <1>3, <3>3 DEF Backed, Named
      <3>5. man'[pipe'.branch][pipe'.ver] = m
        BY <1>2, <3>1, <3>2
      <3> QED BY <1>2, <3>1, <3>3, <3>4, <3>5 DEF MergeOK, Backed, Covered, InMainDir, Named
    <2>11. LiveSegments' \subseteq LiveSegments \cup Named(x)
      <3> SUFFICES ASSUME NEW u \in LiveSegments', u \notin Named(x)
                   PROVE  u \in LiveSegments
        OBVIOUS
      <3>1. CASE \E c \in Branches : man'[c] # << >> /\ u \in Named(man'[c][Len(man'[c])])
        <4>1. PICK c \in Branches : man'[c] # << >> /\ u \in Named(man'[c][Len(man'[c])])
          BY <3>1
        <4>2. c # "feature"
          BY <2>3, <2>5, <4>1
        <4>3. man'[c] = man[c]
          BY <2>5, <4>2
        <4> QED BY <4>1, <4>3, LiveMeans DEF Exists, HeadManifest
      <3>2. CASE \E t \in tagged' : u \in Named(man'[t[1]][t[2]])
        BY <1>2, <2>8, <3>2, LiveMeans
      <3> QED BY <3>1, <3>2, LiveLater
    <2>12. Hidden => Backed(Named(x))
      BY <1>1, <1>2, <1>6, <2>1 DEF ForkOK
    <2>13. Hidden' => InMainDir(LiveSegments)' \subseteq Files'
      BY <1>1, <1>2, <1>3, <2>11, <2>12 DEF Backed, InMainDir
    <2>14. IndexesBacked'
      BY <1>1, <1>2, <1>3, <2>13 DEF IndexesBacked, Hidden, Files
    <2>15. pipe.pc = "prune" => LiveSegments' \subseteq LiveSegments
      <3>1. pipe.pc = "prune" => ForkFiles \subseteq LiveSegments
        BY ForkFilesLive
      <3>2. ForkFiles = Named(x)
        BY <1>2, <1>6, <2>1 DEF ForkFiles
      <3> QED BY <2>11, <3>1, <3>2
    <2>16. man'["rebuild"] = man["rebuild"]
      BY <2>5 DEF Branches
    <2>17. HideOK'
      BY <1>1, <1>2, <1>3, <2>15, <2>16 DEF HideOK, Exists
    <2>18. PipeShape' /\ QuietOK' /\ NoFalseAlarm'
      BY <1>1, <1>2, <1>3 DEF PipeShape, QuietOK, NoFalseAlarm, InMainDir, Present
    <2>19. ForkOK'
      <3>1. man'["main"] = man["main"]
        BY <2>5 DEF Branches
      <3> QED BY <1>2, <1>4, <3>1 DEF ForkOK
    <2> QED BY <2>7, <2>9, <2>10, <2>14, <2>17, <2>18, <2>19 DEF FilesInv
  <1> QED BY <1>5, <1>6

\* A start recovers the backup; the rebuild branch that it drops has no tag.
LEMMA StartInv ==
    ASSUME FilesInv, IxStart
    PROVE  FilesInv'
  <1>1. /\ PipeShape /\ ManifestsOK /\ TagsOK /\ HideOK /\ QuietOK /\ ForkOK /\ NoFalseAlarm
        /\ (Hidden => Backed(LiveSegments))
    BY BackedMeans DEF FilesInv
  <1>2. PICK stale \in BOOLEAN :
           stale <=> (man["rebuild"] # << >> /\ ~\E t \in tagged : t[1] = "rebuild")
    OBVIOUS
  <1>3. /\ ~ixUp /\ ixUp' = TRUE /\ dir' = Recovered /\ bak' = Absent
        /\ man' = IF stale THEN [man EXCEPT !["rebuild"] = << >>] ELSE man
        /\ pipe' = [NoPipe EXCEPT !.startup = TRUE,
                                  !.pc = IF stale THEN "hide" ELSE "collect"]
        /\ odd' = odd \ {"stranded"}
        /\ UNCHANGED <<gone, tagged, indexed, segs, fork, check>>
    BY <1>2 DEF IxStart
  <1>4. fork = 0 /\ check.pc = "idle"
    BY <1>1, <1>3 DEF ForkOK, QuietOK
  <1>5. /\ DOMAIN pipe' = DOMAIN NoPipe /\ pipe'.pc \in {"hide", "collect"}
        /\ pipe'.branch = "main" /\ pipe'.hid = FALSE /\ pipe'.startup = TRUE
    BY <1>3 DEF NoPipe
  <1>6. PipeShape' /\ HideOK' /\ QuietOK' /\ NoFalseAlarm' /\ MergeOK'
    BY <1>1, <1>3, <1>4, <1>5 DEF PipeShape, HideOK, QuietOK, NoFalseAlarm, MergeOK
  <1>7. man \in [Branches -> Seq(ManifestSet)]
    BY <1>1 DEF ManifestsOK
  <1>8. << >> \in Seq(ManifestSet) /\ Len(<< >>) = 0
    BY EmptySeq
  <1>9. /\ man' \in [Branches -> Seq(ManifestSet)]
        /\ \A c \in Branches : man'[c] # << >> => man'[c] = man[c]
        /\ man'["main"] = man["main"]
        /\ \A c \in Branches : man'[c] # man[c] => man'[c] = << >>
        /\ \A t \in tagged : t[1] \in Branches => man'[t[1]] = man[t[1]]
    <2>1. CASE stale
      BY <1>2, <1>3, <1>7, <1>8, <2>1 DEF Branches
    <2>2. CASE ~stale
      BY <1>3, <1>7, <2>2 DEF Branches
    <2> QED BY <2>1, <2>2
  <1>10. /\ (\A s : Covered(s)' = Covered(s)) /\ (\A S : InMainDir(S)' = InMainDir(S))
    BY <1>3 DEF Covered, InMainDir
  <1>11. \A m : WellFormed(m)' <=> WellFormed(m)
    BY <1>3, <1>10 DEF WellFormed, IndexOK, Disjoint
  <1>12. ManifestsOK'
    <2>1. ASSUME NEW c \in Branches, NEW v \in 1 .. Len(man'[c])
          PROVE  WellFormed(man[c][v])'
      <3>1. CASE man'[c] = man[c]
        <4>1. WellFormed(man[c][v])
          BY <1>1, <3>1 DEF ManifestsOK
        <4> QED BY <1>11, <3>1, <4>1
      <3>2. CASE man'[c] = << >>
        BY <1>8, <3>2
      <3> QED BY <1>9, <3>1, <3>2
    <2>2. Exists("main")' /\ Exists(pipe.branch)'
      BY <1>1, <1>5, <1>9 DEF ManifestsOK, Exists
    <2> QED BY <1>1, <1>3, <1>9, <2>1, <2>2 DEF ManifestsOK
  <1>13. \A t \in tagged : t[1] \in Branches /\ man'[t[1]] = man[t[1]]
    BY <1>1, <1>9 DEF TagsOK
  <1>14. TagsOK'
    <2>1. \A t \in tagged' : t[2] \in 1 .. Len(man'[t[1]]) /\ t \notin gone'
      BY <1>1, <1>3, <1>13 DEF TagsOK
    <2>2. \A t \in indexed' : Covered(man[t[1]][t[2]].fts)' = 1 .. man'[t[1]][t[2]].frags
      BY <1>1, <1>3, <1>10, <1>13 DEF TagsOK
    <2> QED BY <1>1, <1>3, <1>9, <2>1, <2>2 DEF TagsOK
  <1>15. LiveSegments' \subseteq LiveSegments
    <2> SUFFICES ASSUME NEW u \in LiveSegments'
                 PROVE  u \in LiveSegments
      OBVIOUS
    <2>1. CASE \E c \in Branches : man'[c] # << >> /\ u \in Named(man'[c][Len(man'[c])])
      <3>1. PICK c \in Branches : man'[c] # << >> /\ u \in Named(man'[c][Len(man'[c])])
        BY <2>1
      <3>2. man'[c] = man[c]
        BY <1>9, <3>1
      <3> QED BY <3>1, <3>2, LiveMeans DEF Exists, HeadManifest
    <2>2. CASE \E t \in tagged' : u \in Named(man'[t[1]][t[2]])
      BY <1>3, <1>13, <2>2, LiveMeans
    <2> QED BY <2>1, <2>2, LiveLater
  <1>16. Files \subseteq Files' /\ (Hidden' <=> Hidden)
    BY <1>3 DEF Files, Hidden, Present, Recovered
  <1>17. IndexesBacked'
    <2>1. Hidden' => InMainDir(LiveSegments)' \subseteq Files'
      BY <1>1, <1>3, <1>15, <1>16 DEF Backed, InMainDir
    <2> QED BY <1>3, <2>1 DEF IndexesBacked, Hidden, Files
  <1>18. ForkOK'
    <2>1. Len(man["main"]) \in Nat
      BY <1>1, ManifestTypes DEF Branches
    <2> QED BY <1>3, <1>4, <1>9, <2>1 DEF ForkOK
  <1> QED BY <1>6, <1>12, <1>14, <1>17, <1>18 DEF FilesInv

\* Every step keeps the invariant.
LEMMA FilesInvNext ==
    ASSUME FilesInv, [IxNext]_ixVars
    PROVE  FilesInv'
  <1>1. CASE IxNext
    BY <1>1, BeginPushInv, DropTagsInv, AppendFragmentInv, IndexFragmentsInv, CascadeInv,
       TagIndexedInv, CleanupSteps, SweepInv, PruneInv, ForkResolveInv, ForkCreateInv,
       ServerSteps, StartInv DEF IxNext
  <1>2. CASE UNCHANGED ixVars
    <2>1. UNCHANGED <<man, gone, tagged, indexed, segs, dir, bak, pipe, fork, check, ixUp, odd>>
      BY <1>2 DEF ixVars
    <2>2. /\ PipeShape /\ ManifestsOK /\ TagsOK /\ HideOK /\ QuietOK /\ ForkOK /\ NoFalseAlarm
          /\ MergeOK /\ IndexesBacked
      BY DEF FilesInv
    <2>3. UNCHANGED manifests /\ UNCHANGED dirs
      BY <2>1 DEF manifests, dirs
    <2>4. LiveSegments' = LiveSegments /\ \A b : Exists(b)' <=> Exists(b)
      BY <2>2, <2>3, SameManifests
    <2>5. /\ Files' = Files /\ (Hidden' <=> Hidden)
      BY <2>1 DEF Files, Hidden, Present
    <2>6. HideOK' /\ QuietOK' /\ NoFalseAlarm'
      BY <2>1, <2>2, <2>4, <2>5 DEF HideOK, QuietOK, NoFalseAlarm, InMainDir, Present
    <2>7. fork' = 0 \/ (ixUp' /\ fork' = fork /\ pipe' = pipe)
      BY <2>1, <2>2 DEF ForkOK
    <2>8. bak' # Absent => ~ixUp' \/ pipe'.hid \/ "stranded" \in odd'
      BY <2>1, <2>2 DEF IndexesBacked
    <2> QED BY <2>1, <2>2, <2>3, <2>5, <2>6, <2>7, <2>8, QuietStep DEF PipeShape
  <1> QED BY <1>1, <1>2

-----------------------------------------------------------------------------
(* The initial states.                                                     *)

\* An index without segments.
LEMMA EmptyIndex ==
    ASSUME NEW e \in Seq(Nat), Len(e) = 0, NEW n
    PROVE  IndexOK(e, n) /\ Covered(e) = {}
  <1>1. ToSet(e) = {e[i] : i \in 1 .. 0}
    BY ToSetMeans
  <1>2. ToSet(e) = {}
    BY <1>1
  <1>3. Covered(e) = {}
    BY <1>2 DEF Covered
  <1> QED BY <1>2, <1>3 DEF IndexOK, Disjoint

\* The manifest that a push left behind, if its segments are those of the pushes.
LEMMA PriorOK ==
    ASSUME NEW p \in Nat, NEW v \in 1 .. 2 * p + 1, NEW l \in Nat, l = Len(segs), p <= l,
           \A i \in 1 .. p : segs[i].covers = {i}
    PROVE  /\ PriorManifest(v) \in ManifestSet /\ WellFormed(PriorManifest(v))
           /\ \A i \in 1 .. p : v = 2 * i + 1 =>
                 Covered(PriorManifest(v).fts) = 1 .. PriorManifest(v).frags
  <1>1. PICK k \in Nat : k = (v - 1) \div 2 /\ k <= p
    OBVIOUS
  <1>2. PICK n \in Nat : n = v \div 2 /\ k <= n
    BY <1>1
  <1>3. \A i \in 1 .. p : v = 2 * i + 1 => k = n
    BY <1>1, <1>2
  <1>4. PICK f : f = [i \in 1 .. k |-> i]
    OBVIOUS
  <1>5. f \in Seq(Nat) /\ Len(f) = k /\ \A i \in 1 .. k : f[i] = i
    BY <1>4
  <1>6. ToSet(f) = 1 .. k
    <2>1. ToSet(f) = {f[i] : i \in 1 .. k}
      BY <1>5, ToSetMeans
    <2> QED BY <1>5, <2>1
  <1>7. PICK m : m = PriorManifest(v)
    OBVIOUS
  <1>8. << >> \in Seq(Nat) /\ Len(<< >>) = 0
    BY EmptySeq
  <1>9. m \in ManifestSet /\ m.fts = f /\ m.vec = << >> /\ m.frags = n
    BY <1>1, <1>2, <1>4, <1>5, <1>7, <1>8 DEF PriorManifest, Manifest, ManifestSet
  <1>10. \A i \in 1 .. k : i \in 1 .. p /\ i \in 1 .. n /\ i \in 1 .. l
    BY <1>1, <1>2
  <1>11. Covered(f) = 1 .. k
    <2>1. Covered(f) = UNION {segs[u].covers : u \in 1 .. k}
      BY <1>6 DEF Covered
    <2>2. \A x : x \in Covered(f) <=> \E u \in 1 .. k : x \in segs[u].covers
      BY <2>1
    <2>3. \A x : x \in Covered(f) <=> x \in 1 .. k
      BY <1>10, <2>2
    <2> QED BY <2>3
  <1>12. Disjoint(f)
    <2> SUFFICES ASSUME NEW i \in 1 .. k, NEW j \in 1 .. i - 1
                 PROVE  segs[f[i]].covers \cap segs[f[j]].covers = {}
      BY <1>5 DEF Disjoint
    <2>1. j \in 1 .. k /\ i # j
      BY <1>1
    <2>2. segs[f[i]].covers = {i} /\ segs[f[j]].covers = {j}
      BY <1>5, <1>10, <2>1
    <2> QED BY <2>1, <2>2
  <1>13. IndexOK(f, n)
    BY <1>6, <1>10, <1>11, <1>12 DEF IndexOK
  <1>14. IndexOK(<< >>, n)
    BY <1>8, EmptyIndex
  <1>15. WellFormed(m)
    BY <1>9, <1>13, <1>14 DEF WellFormed
  <1>16. \A i \in 1 .. p : v = 2 * i + 1 => Covered(m.fts) = 1 .. m.frags
    BY <1>3, <1>9, <1>11
  <1> QED BY <1>7, <1>9, <1>15, <1>16

\* The manifest of a rebuild branch, if its one segment is the last one.
LEMMA RebuildOK ==
    ASSUME NEW p \in Nat, p + 1 = Len(segs), segs[p + 1].covers = {1},
           NEW r, r = Manifest(1, <<p + 1>>, << >>)
    PROVE  r \in ManifestSet /\ WellFormed(r) /\ Covered(r.fts) = 1 .. r.frags
  <1>1. PICK q \in Nat : q = p + 1
    OBVIOUS
  <1>2. PICK f : f = <<q>>
    OBVIOUS
  <1>3. f \in Seq(Nat) /\ Len(f) = 1 /\ f[1] = q /\ << >> \in Seq(Nat) /\ Len(<< >>) = 0
    BY <1>2, EmptySeq
  <1>4. r \in ManifestSet /\ r.fts = f /\ r.vec = << >> /\ r.frags = 1
    BY <1>1, <1>2, <1>3 DEF Manifest, ManifestSet
  <1>5. ToSet(f) = {q}
    <2>1. ToSet(f) = {f[i] : i \in 1 .. 1}
      BY <1>3, ToSetMeans
    <2> QED BY <1>3, <2>1
  <1>6. Covered(f) = 1 .. 1
    <2>1. Covered(f) = segs[q].covers
      BY <1>5 DEF Covered
    <2> QED BY <1>1, <2>1
  <1>7. Disjoint(f)
    BY <1>3 DEF Disjoint
  <1>8. q \in 1 .. Len(segs)
    BY <1>1
  <1>9. IndexOK(f, 1)
    BY <1>5, <1>6, <1>7, <1>8 DEF IndexOK
  <1>10. IndexOK(<< >>, 1)
    BY <1>3, EmptyIndex
  <1> QED BY <1>4, <1>6, <1>9, <1>10 DEF WellFormed

\* The invariant holds at first.
LEMMA FilesInvInit ==
    ASSUME IxInit
    PROVE  FilesInv
  <1>1. PICK p \in Priors, rebuild \in {"none", "tagged", "stale"} :
        /\ man = [b \in Branches |->
              CASE b = "main" -> [v \in 1 .. 2 * p + 1 |-> PriorManifest(v)]
                [] b = "rebuild" /\ rebuild # "none"
                                -> <<Manifest(1, <<p + 1>>, << >>)>>
                [] OTHER -> << >>]
        /\ gone = {<<"main", v>> : v \in {x \in 1 .. 2 * p : x = 1 \/ x % 2 = 0}}
        /\ tagged = {<<"main", 2 * i + 1>> : i \in 1 .. p}
                    \cup (IF rebuild = "tagged" THEN {<<"rebuild", 1>>} ELSE {})
        /\ indexed = tagged
        /\ segs = [i \in 1 .. p |-> [home |-> "main", covers |-> {i}]]
                  \o (IF rebuild = "none" THEN << >>
                      ELSE <<[home |-> "main", covers |-> {1}]>>)
        /\ dir = 1 .. Len(segs) /\ bak = Absent
        /\ pipe = NoPipe /\ fork = 0 /\ check = NoCheck
        /\ ixUp = TRUE /\ odd = {}
    BY DEF IxInit
  <1>2. p \in Nat
    BY PriorsAssumption
  <1>3. PICK a : a = [i \in 1 .. p |-> [home |-> "main", covers |-> {i}]]
    OBVIOUS
  <1>4. /\ a \in Seq(Segment) /\ Len(a) = p
        /\ \A i \in 1 .. p : a[i] = [home |-> "main", covers |-> {i}]
    <2>1. \A i \in 1 .. p : [home |-> "main", covers |-> {i}] \in Segment
      BY DEF Segment, Branches
    <2> HIDE DEF Segment
    <2> QED BY <1>2, <1>3, <2>1
  <1>5. PICK z : z = IF rebuild = "none" THEN << >> ELSE <<[home |-> "main", covers |-> {1}]>>
    OBVIOUS
  <1>6. /\ z \in Seq(Segment)
        /\ rebuild = "none" => Len(z) = 0
        /\ rebuild # "none" => Len(z) = 1 /\ z[1] = [home |-> "main", covers |-> {1}]
    <2>0. {1} \in SUBSET Nat /\ "main" \in Branches
      BY DEF Branches
    <2>1. PICK g \in Segment : g = [home |-> "main", covers |-> {1}]
      BY <2>0 DEF Segment
    <2>2. <<g>> \in Seq(Segment) /\ Len(<<g>>) = 1 /\ <<g>>[1] = g
      BY <2>1
    <2> QED BY <1>5, <2>1, <2>2, EmptySeq
  <1>7. PICK l \in Nat : l = Len(z)
    <2>1. Len(z) \in Nat
      BY <1>6, LenProperties
    <2> QED BY <2>1
  <1>8. /\ segs \in Seq(Segment) /\ Len(segs) = p + l
        /\ \A i \in 1 .. p : segs[i] = [home |-> "main", covers |-> {i}]
        /\ rebuild # "none" => p + 1 = Len(segs) /\ segs[p + 1] = [home |-> "main", covers |-> {1}]
    <2>1. segs = a \o z
      BY <1>1, <1>3, <1>5
    <2>2. /\ segs \in Seq(Segment) /\ Len(segs) = p + l
          /\ \A i \in 1 .. p + l : segs[i] = IF i <= p THEN a[i] ELSE z[i - p]
      <3>1. a \in Seq(Segment) /\ z \in Seq(Segment) /\ Len(a) = p /\ Len(z) = l
        BY <1>4, <1>6, <1>7
      <3>2. /\ a \o z \in Seq(Segment) /\ Len(a \o z) = Len(a) + Len(z)
            /\ \A i \in 1 .. Len(a) + Len(z) :
                  (a \o z)[i] = IF i <= Len(a) THEN a[i] ELSE z[i - Len(a)]
        BY <3>1, ConcatProperties, Zenon
      <3> QED BY <2>1, <3>1, <3>2, Zenon
    <2>3. \A i \in 1 .. p : i \in 1 .. p + l /\ i <= p
      BY <1>2
    <2>4. \A i \in 1 .. p : segs[i] = [home |-> "main", covers |-> {i}]
      BY <1>4, <2>2, <2>3
    <2>5. rebuild # "none" => p + 1 = Len(segs) /\ segs[p + 1] = [home |-> "main", covers |-> {1}]
      <3> SUFFICES ASSUME rebuild # "none"
                   PROVE  p + 1 = Len(segs) /\ segs[p + 1] = [home |-> "main", covers |-> {1}]
        OBVIOUS
      <3>1. l = 1 /\ z[1] = [home |-> "main", covers |-> {1}]
        BY <1>6, <1>7
      <3>2. p + 1 \in 1 .. p + l /\ ~(p + 1 <= p) /\ (p + 1) - p = 1
        BY <1>2, <3>1
      <3> QED BY <2>2, <3>1, <3>2
    <2> QED BY <2>2, <2>4, <2>5
  <1>9. PICK r : r = Manifest(1, <<p + 1>>, << >>)
    OBVIOUS
  <1>10. PICK M : M = [v \in 1 .. 2 * p + 1 |-> PriorManifest(v)]
    OBVIOUS
  <1>11. /\ \A v \in 1 .. 2 * p + 1 : /\ PriorManifest(v) \in ManifestSet
                                      /\ WellFormed(PriorManifest(v))
         /\ \A i \in 1 .. p : \A v \in 1 .. 2 * p + 1 : v = 2 * i + 1 =>
               Covered(PriorManifest(v).fts) = 1 .. PriorManifest(v).frags
    <2>1. PICK n \in Nat : n = Len(segs) /\ p <= n
      BY <1>2, <1>8
    <2>2. ASSUME NEW i \in 1 .. p
          PROVE  segs[i].covers = {i}
      <3>1. segs[i] = [home |-> "main", covers |-> {i}]
        BY <1>8
      <3> QED BY <3>1
    <2> QED BY <1>2, <2>1, <2>2, PriorOK
  <1>12. rebuild # "none" => r \in ManifestSet /\ WellFormed(r) /\ Covered(r.fts) = 1 .. r.frags
    <2> SUFFICES ASSUME rebuild # "none"
                 PROVE  r \in ManifestSet /\ WellFormed(r) /\ Covered(r.fts) = 1 .. r.frags
      OBVIOUS
    <2>1. p + 1 = Len(segs) /\ segs[p + 1].covers = {1}
      BY <1>8
    <2> QED BY <1>2, <1>9, <2>1, RebuildOK
  <1>13. /\ man = [b \in Branches |-> man[b]] /\ man["main"] = M /\ man["feature"] = << >>
         /\ man["rebuild"] = IF rebuild # "none" THEN <<r>> ELSE << >>
    <2>1. man = [b \in Branches |->
              CASE b = "main" -> M [] b = "rebuild" /\ rebuild # "none" -> <<r>>
                [] OTHER -> << >>]
      BY <1>1, <1>9, <1>10
    <2>2. "main" \in Branches /\ "feature" \in Branches /\ "rebuild" \in Branches
      BY DEF Branches
    <2>3. man["main"] = M
      BY <2>1, <2>2
    <2>4. man["feature"] = << >>
      BY <2>1, <2>2
    <2>5. man["rebuild"] = IF rebuild # "none" THEN <<r>> ELSE << >>
      BY <2>1, <2>2
    <2> QED BY <2>1, <2>3, <2>4, <2>5
  <1>14. M \in Seq(ManifestSet) /\ Len(M) = 2 * p + 1 /\ \A v \in 1 .. 2 * p + 1 : M[v] = PriorManifest(v)
    <2>1. PICK n \in Nat : n = 2 * p + 1
      BY <1>2
    <2>2. M = [v \in 1 .. n |-> PriorManifest(v)] /\ \A v \in 1 .. n : PriorManifest(v) \in ManifestSet
      BY <1>10, <1>11, <2>1
    <2> QED BY <2>1, <2>2
  <1>15. << >> \in Seq(ManifestSet) /\ Len(<< >>) = 0
    BY EmptySeq
  <1>16. PICK R : R = man["rebuild"]
    OBVIOUS
  <1>17. /\ R \in Seq(ManifestSet)
         /\ rebuild = "none" => Len(R) = 0
         /\ rebuild # "none" => Len(R) = 1 /\ R[1] = r
    <2>1. CASE rebuild = "none"
      BY <1>13, <1>15, <1>16, <2>1
    <2>2. CASE rebuild # "none"
      <3>1. R = <<r>> /\ r \in ManifestSet
        BY <1>12, <1>13, <1>16, <2>2
      <3> QED BY <2>2, <3>1
    <2> QED BY <2>1, <2>2
  <1>18. man \in [Branches -> Seq(ManifestSet)]
    <2>1. \A b \in Branches : man[b] \in Seq(ManifestSet)
      BY <1>13, <1>14, <1>15, <1>16, <1>17 DEF Branches
    <2> QED BY <1>13, <2>1
  <1>19. pipe.pc = "idle" /\ check.pc = "idle" /\ pipe.hid = FALSE
    BY <1>1 DEF NoPipe, NoCheck
  <1>20. PipeShape /\ HideOK /\ QuietOK /\ NoFalseAlarm /\ MergeOK
    BY <1>1, <1>19 DEF PipeShape, HideOK, QuietOK, NoFalseAlarm, MergeOK, NoPipe, NoCheck
  <1>21. ManifestsOK
    <2>1. ASSUME NEW b \in Branches, NEW v \in 1 .. Len(man[b])
          PROVE  WellFormed(man[b][v])
      <3>1. CASE b = "main"
        <4>1. v \in 1 .. 2 * p + 1 /\ man[b][v] = PriorManifest(v)
          BY <1>13, <1>14, <3>1
        <4> QED BY <1>11, <4>1
      <3>2. CASE b = "feature"
        BY <1>13, <1>15, <3>2
      <3>3. CASE b = "rebuild"
        <4>1. man[b] = R
          BY <1>16, <3>3
        <4>2. rebuild # "none"
          BY <1>17, <4>1
        <4>3. v = 1
          <5>1. v \in 1 .. Len(R) /\ Len(R) = 1
            BY <1>17, <4>1, <4>2
          <5> QED BY <5>1
        <4> QED BY <1>12, <1>17, <4>1, <4>2, <4>3
      <3> QED BY <3>1, <3>2, <3>3 DEF Branches
    <2>2. Exists("main")
      <3>1. Len(M) # 0
        BY <1>2, <1>14
      <3> QED BY <1>13, <1>15, <3>1 DEF Exists
    <2> QED BY <1>8, <1>18, <1>19, <2>1, <2>2 DEF ManifestsOK
  <1>22. TagsOK
    <2>1. Len(man["main"]) = 2 * p + 1
      BY <1>13, <1>14
    <2>2. \A g \in gone : g \in {"main"} \X Nat /\ g[2] \in 1 .. Len(man["main"]) - 1
      <3> SUFFICES ASSUME NEW g \in gone
                   PROVE  g \in {"main"} \X Nat /\ g[2] \in 1 .. Len(man["main"]) - 1
        OBVIOUS
      <3>1. PICK x \in 1 .. 2 * p : g = <<"main", x>>
        BY <1>1
      <3>2. x \in Nat /\ x \in 1 .. (2 * p + 1) - 1
        BY <1>2
      <3> QED BY <2>1, <3>1, <3>2
    <2>3. ASSUME NEW t \in tagged
          PROVE  /\ t \in Branches \X Nat /\ t[2] \in 1 .. Len(man[t[1]]) /\ t \notin gone
                 /\ Covered(man[t[1]][t[2]].fts) = 1 .. man[t[1]][t[2]].frags
      <3>1. CASE t \in {<<"main", 2 * i + 1>> : i \in 1 .. p}
        <4>1. PICK i \in 1 .. p : t = <<"main", 2 * i + 1>>
          BY <3>1
        <4>2. PICK v \in Nat : v = 2 * i + 1 /\ v \in 1 .. 2 * p + 1 /\ v # 1 /\ v % 2 # 0
          BY <1>2
        <4>3. t[1] = "main" /\ t[2] = v /\ t = <<"main", v>>
          BY <4>1, <4>2
        <4>4. t \notin gone
          BY <1>1, <4>2, <4>3
        <4>5. man["main"][v] = PriorManifest(v)
          BY <1>13, <1>14, <4>2
        <4>6. Covered(man["main"][v].fts) = 1 .. man["main"][v].frags
          BY <1>11, <4>2, <4>5
        <4>7. "main" \in Branches
          BY DEF Branches
        <4> QED BY <2>1, <4>2, <4>3, <4>4, <4>6, <4>7
      <3>2. CASE rebuild = "tagged" /\ t = <<"rebuild", 1>>
        <4>1. t[1] = "rebuild" /\ t[2] = 1 /\ t \in Branches \X Nat
          BY <3>2 DEF Branches
        <4>2. t \notin gone
          BY <2>2, <4>1
        <4>3. Len(man["rebuild"]) = 1 /\ man["rebuild"][1] = r
          BY <1>16, <1>17, <3>2
        <4>4. Covered(r.fts) = 1 .. r.frags
          BY <1>12, <3>2
        <4> QED BY <4>1, <4>2, <4>3, <4>4
      <3> QED BY <1>1, <3>1, <3>2
    <2> QED BY <1>1, <2>2, <2>3 DEF TagsOK
  <1>23. IndexesBacked
    <2>1. LiveSegments \subseteq 1 .. Len(segs)
      BY <1>21, <1>22, LiveMade
    <2>2. 0 \notin 1 .. Len(segs)
      OBVIOUS
    <2>3. Present(dir) = 1 .. Len(segs)
      BY <1>1, <2>2 DEF Present, Absent
    <2> QED BY <1>1, <2>1, <2>3 DEF IndexesBacked, InMainDir
  <1>24. ForkOK
    <2>1. 0 \in 0 .. Len(man["main"])
      BY <1>2, <1>13, <1>14
    <2> QED BY <1>1, <2>1 DEF ForkOK
  <1> QED BY <1>20, <1>21, <1>22, <1>23, <1>24 DEF FilesInv

-----------------------------------------------------------------------------
(* The theorems.                                                           *)

\* The invariant holds in every reachable state.
LEMMA FilesInvAlways == IxSpec => []FilesInv
  <1>1. IxInit => FilesInv
    BY FilesInvInit
  <1>2. FilesInv /\ [IxNext]_ixVars => FilesInv'
    BY FilesInvNext
  <1> QED BY <1>1, <1>2, PTL DEF IxSpec

\* No cleanup, failure, crash, fork or start loses the files of a segment that a
\* reader can still ask for (io_prune_stale_index_dirs, FIX-B, recovery).
THEOREM IndexFilesAreKept == IxSpec => []IndexesBacked
  <1>1. FilesInv => IndexesBacked
    BY DEF FilesInv
  <1> QED BY <1>1, FilesInvAlways, PTL

\* What a push with work tags has an inverted index over all its fragments, each
\* of them in one segment of an index only, whatever the cascade merged.
THEOREM TaggedIsFullyIndexed == IxSpec => []TaggedFullyIndexed
  <1>1. FilesInv => TaggedFullyIndexed
    <2> SUFFICES ASSUME FilesInv
                 PROVE  TaggedFullyIndexed
      OBVIOUS
    <2>1. ManifestsOK /\ TagsOK
      BY DEF FilesInv
    <2>2. \A t \in indexed : Covered(man[t[1]][t[2]].fts) = 1 .. man[t[1]][t[2]].frags
      BY <2>1 DEF TagsOK
    <2>3. ASSUME NEW t \in tagged
          PROVE  LET m == man[t[1]][t[2]]
                 IN  \A s \in {m.fts, m.vec} : \A i \in 1 .. Len(s) : \A j \in 1 .. i - 1 :
                        segs[s[i]].covers \cap segs[s[j]].covers = {}
      <3>1. t[1] \in Branches /\ t[2] \in 1 .. Len(man[t[1]])
        BY <2>1 DEF TagsOK
      <3>2. PICK m : m = man[t[1]][t[2]]
        OBVIOUS
      <3>3. WellFormed(m)
        BY <2>1, <3>1, <3>2 DEF ManifestsOK
      <3>4. Disjoint(m.fts) /\ Disjoint(m.vec)
        BY <3>3 DEF WellFormed, IndexOK
      <3>5. \A s \in {m.fts, m.vec} : Disjoint(s)
        BY <3>4
      <3> QED BY <3>2, <3>5 DEF Disjoint
    <2> QED BY <2>2, <2>3 DEF TaggedFullyIndexed
  <1> QED BY <1>1, FilesInvAlways, PTL

\* An integrity check that no pipeline overlapped, and without one of the two
\* odd cases of IndexesBacked, reports no dangling index but those that it cannot
\* find because the name of their branch has a slash.
THEOREM NoFalseAlarms == IxSpec => []NoFalseAlarm
  <1>1. FilesInv => NoFalseAlarm
    BY DEF FilesInv
  <1> QED BY <1>1, FilesInvAlways, PTL

=============================================================================
