------------------------------- MODULE Search -------------------------------
(***************************************************************************)
(* The read path of one domain: how a request resolves its commit, opens   *)
(* the snapshot of the served commit and cuts its page out of the ranking, *)
(* while pushes, restarts and DELETE /domain go on.                        *)
(*                                                                         *)
(* Commits are 1, 2, 3, ...: commit c is the child of c - 1, all of them   *)
(* are pushed to the default branch, and the push of c writes the rows     *)
(* <<document, c>>.  Pushes exclude each other (DomainStore, OneWriter).   *)
(*                                                                         *)
(* A ranking is a sequence of rows, nearest first, in which a row occurs   *)
(* once for each of its chunks; no two chunks have the same distance.      *)
(* Rows that a repeated push writes again (OneCopyPerDocument) are not     *)
(* told apart here.                                                        *)
(***************************************************************************)
EXTENDS LanceDataset, SequencesExt

CONSTANTS Delta,        \* commit -> the documents its push deletes and adds
          Text,         \* the query text, as a probe
          Nearest,      \* probe -> all chunks by distance to it
          Matching,     \* the chunks that match the text, by BM25 score
          Requests,     \* the read requests that clients may send
          Faults,       \* what may go wrong: a subset of FaultKinds
          MaxVersions,  \* bound on the versions of the dataset
          MaxDeletes    \* bound on the DELETEs of the domain

FaultKinds == {"push", "read", "restart"}
Ops == {"vector", "fts", "hybrid", "similar", "embeddings"}
\* path is the branch of the resource path, branch the request parameter.
ReadType == [op : Ops, path : Branch, branch : Branch, commit : Commit \cup {None},
             window : Seq(Commit), start : Nat, count : Nat \ {0}, doc : Doc]

ASSUME ChainAssumption ==
    IsFiniteSet(Commit) /\ Commit = 1 .. Cardinality(Commit) /\ Push = Commit
ASSUME DocAssumption == Doc \subseteq Nat
ASSUME DeltaAssumption ==
    Delta \in [Commit -> [del : SUBSET Doc, add : SUBSET Doc]]
ASSUME RankingAssumption ==
    /\ Nearest \in [Row \cup {Text} -> Seq(Row)]
    /\ Matching \in Seq(Row)
ASSUME ReadsAssumption == Requests \subseteq ReadType /\ Faults \subseteq FaultKinds

VARIABLES
    hist, tags,   \* the dataset, see LanceDataset
    seen,         \* version of Main that the cached handle shows, 0 if none
    cached,       \* last-indexed cache: branch -> commit, None if absent
    wip,          \* the push in progress
    removed,      \* is DELETE /domain between directory and maps?
    deletes,      \* how often the domain was deleted
    rpc, rq,      \* the reader: where it is, and its request
    derived,      \* last indexed commit it derived and will put into the cache
    known,        \* the commits of its tag list
    served,       \* the commit it resolved to
    probe,        \* what /similar compares with
    got,          \* the row sets of the snapshots it opened
    page,         \* the documents of its answer
    status,       \* of its answer
    before,       \* commits that were indexed when it was sent
    gone          \* was the domain deleted since?

store == <<hist, tags, seen, cached, wip, removed, deletes>>
reader == <<rpc, rq, derived, known, served, probe, got, page, status, before>>
vars == <<store, reader, gone>>

NoCache == [b \in Branch |-> None]
NoPush == [commit |-> None, pc |-> "idle"]
Tagged == {c \in Commit : tags[c] # None}

Init ==
    /\ hist = NoDataset /\ tags = NoTags
    /\ seen = 0 /\ cached = NoCache /\ wip = NoPush
    /\ removed = FALSE /\ deletes = 0
    /\ rpc = "idle" /\ rq = None /\ derived = None
    /\ known = {} /\ served = None /\ probe = Text
    /\ got = << >> /\ page = << >> /\ status = "none"
    /\ before = {} /\ gone = FALSE

-----------------------------------------------------------------------------
(* The writers: what PushPipeline and DomainStore do to the dataset.       *)

\* A handle is opened at the newest version and then kept.
Opened(h) == IF seen = 0 THEN Len(h[Main]) ELSE seen

\* Clients push the commits in order.
PushBegin(c) ==
    /\ wip = NoPush /\ ~removed
    /\ Tagged = 1 .. (c - 1)
    /\ Len(hist[Main]) < MaxVersions
    /\ hist' = EnsureDataset(hist)
    /\ seen' = Opened(hist')
    /\ wip' = [commit |-> c, pc |-> "delete"]
    /\ UNCHANGED <<tags, cached, removed, deletes, reader, gone>>

PushDelete ==
    LET del == Delta[wip.commit].del
    IN  /\ wip.pc = "delete"
        /\ hist' = IF del = {} THEN hist
                   ELSE AddVersion(hist, Main, WithoutDocs(HeadRows(hist, Main), del))
        /\ seen' = IF Delta[wip.commit].add = {} THEN Len(hist'[Main]) ELSE seen
        /\ wip' = [wip EXCEPT !.pc = "append"]
        /\ UNCHANGED <<tags, cached, removed, deletes, reader, gone>>

PushAppend ==
    LET add == Delta[wip.commit].add
    IN  /\ wip.pc = "append"
        /\ hist' = IF add = {} THEN hist
                   ELSE AddVersion(hist, Main,
                            WithDocs(HeadRows(hist, Main), add, wip.commit))
        /\ seen' = Len(hist'[Main])
        /\ wip' = [wip EXCEPT !.pc = "tag"]
        /\ UNCHANGED <<tags, cached, removed, deletes, reader, gone>>

PushTag ==
    /\ wip.pc = "tag"
    /\ tags' = [tags EXCEPT ![wip.commit] =
                  [branch |-> Main, version |-> Len(hist[Main]), at |-> wip.commit]]
    /\ seen' = Len(hist[Main])
    /\ wip' = [wip EXCEPT !.pc = "cache"]
    /\ UNCHANGED <<hist, cached, removed, deletes, reader, gone>>

PushCache ==
    /\ wip.pc = "cache"
    /\ cached' = [cached EXCEPT ![Main] = wip.commit]
    /\ wip' = NoPush
    /\ UNCHANGED <<hist, tags, seen, removed, deletes, reader, gone>>

\* The push fails or is cancelled: what it wrote stays, the tag included.
PushFails ==
    /\ "push" \in Faults
    /\ wip # NoPush
    /\ wip' = NoPush
    /\ UNCHANGED <<hist, tags, seen, cached, removed, deletes, reader, gone>>

\* Mutant of DeleteDomainRemove: the cached handle outlives the directory.
DeleteDomainKeepsHandle ==
    /\ wip = NoPush /\ ~removed /\ deletes < MaxDeletes
    /\ hist' = NoDataset /\ tags' = NoTags
    /\ removed' = TRUE /\ deletes' = deletes + 1
    /\ gone' = TRUE
    /\ UNCHANGED <<seen, cached, wip, reader>>

\* Under the domain guard, which a push holds from open to tag.
DeleteDomainRemove ==
    /\ wip = NoPush /\ ~removed /\ deletes < MaxDeletes
    /\ hist' = NoDataset /\ tags' = NoTags /\ seen' = 0
    /\ removed' = TRUE /\ deletes' = deletes + 1
    /\ gone' = TRUE
    /\ UNCHANGED <<cached, wip, reader>>

DeleteDomainPurge ==
    /\ removed
    /\ removed' = FALSE
    /\ cached' = NoCache
    /\ UNCHANGED <<hist, tags, seen, wip, deletes, reader, gone>>

\* The process starts again: only the dataset is left.
Restart ==
    /\ "restart" \in Faults
    /\ seen' = 0 /\ cached' = NoCache /\ wip' = NoPush /\ removed' = FALSE
    /\ rpc' = "idle" /\ rq' = None /\ derived' = None /\ known' = {} /\ served' = None
    /\ probe' = Text /\ got' = << >> /\ page' = << >> /\ status' = "none"
    /\ before' = {} /\ gone' = FALSE
    /\ UNCHANGED <<hist, tags, deletes>>

-----------------------------------------------------------------------------
(* Resolution: from the request to the commit that is served.              *)

Answer(s) == rpc' = "answered" /\ status' = s

Ask(r) ==
    /\ rpc \in {"idle", "answered"}
    /\ rq' = r
    /\ rpc' = IF r.commit = None THEN "latest" ELSE "list"
    /\ before' = Tagged /\ gone' = FALSE
    /\ derived' = None /\ known' = {} /\ served' = None /\ probe' = Text
    /\ got' = << >> /\ page' = << >> /\ status' = "none"
    /\ UNCHANGED store

\* The branch that last_indexed is called for.
LastIndexedOf == IF rpc = "latest" THEN rq.branch ELSE rq.path

\* last_indexed on a miss: the handle is opened and the tags are read.
Derive ==
    LET b == LastIndexedOf
    IN  /\ rpc \in {"latest", "lineage"}
        /\ derived = None /\ cached[b] = None
        /\ \E c \in Commit : IsLastIndexed(tags, b, c) /\ derived' = c
        /\ seen' = Opened(hist)
        /\ UNCHANGED <<hist, tags, cached, wip, removed, deletes, rpc, rq, known,
                       served, probe, got, page, status, before, gone>>

\* Mutant of LastIndexed: the process-local cache is the authority.
LastIndexedInCache(c) == c = cached[LastIndexedOf] /\ UNCHANGED cached

\* last_indexed answers c: the cached commit, nothing for a branch without tags,
\* or the derived commit, which enters the cache if there is still none.
LastIndexed(c) ==
    LET b == LastIndexedOf
    IN  \/ derived = None /\ cached[b] # None /\ c = cached[b] /\ UNCHANGED cached
        \/ /\ derived = None /\ cached[b] = None /\ CommitsOn(tags, b) = {}
           /\ c = None /\ UNCHANGED cached
        \/ /\ derived # None /\ c = derived
           /\ cached' = [cached EXCEPT ![b] = IF @ = None THEN c ELSE @]

\* resolve_commit_or_branch: without a commit, the last indexed of the branch.
Latest ==
    /\ rpc = "latest"
    /\ \E c \in Commit \cup {None} :
          /\ LastIndexed(c)
          /\ \/ /\ c # None
                /\ rq' = [rq EXCEPT !.commit = c]
                /\ rpc' = "list"
                /\ UNCHANGED status
             \/ c = None /\ Answer("notFound") /\ UNCHANGED rq
    /\ derived' = None
    /\ UNCHANGED <<hist, tags, seen, wip, removed, deletes, known, served, probe,
                   got, page, before, gone>>

\* The reads that follow the resolution.
FirstRead(op) == IF op = "similar" THEN "probe" ELSE "scan"

\* io_list_commit_versions, and the exact match.
ListTags ==
    /\ rpc = "list"
    /\ known' = Tagged
    /\ seen' = Opened(hist)
    /\ \/ /\ rq.commit \in Tagged
          /\ served' = rq.commit
          /\ rpc' = FirstRead(rq.op)
       \/ /\ rq.commit \notin Tagged
          /\ rpc' = "lineage"
          /\ UNCHANGED served
    /\ UNCHANGED <<hist, tags, cached, wip, removed, deletes,
                   rq, derived, probe, got, page, status, before, gone>>

\* Mutant of NearestKnown: the walk is oldest-first.
FarthestKnown(window) ==
    LET i == SelectLastInSeq(window, LAMBDA c : c \in known)
    IN  IF i = 0 THEN None ELSE window[i]

\* resolve_nearest_layer: the first ancestor of the window that is indexed.
NearestKnown(window) ==
    LET i == SelectInSeq(window, LAMBDA c : c \in known)
    IN  IF i = 0 THEN None ELSE window[i]

\* branch_has_indexed_lineage, then the walk over the list that was read before.
WalkAncestors ==
    LET c == NearestKnown(rq.window)
    IN  /\ rpc = "lineage"
        /\ \E last \in Commit \cup {None} :
              /\ LastIndexed(last)
              /\ \/ /\ last # None /\ c # None
                    /\ served' = c
                    /\ rpc' = FirstRead(rq.op)
                    /\ UNCHANGED status
                 \/ /\ last = None \/ c = None
                    /\ Answer("notFound")
                    /\ UNCHANGED served
        /\ derived' = None
        /\ UNCHANGED <<hist, tags, seen, wip, removed, deletes, rq, known, probe,
                       got, page, before, gone>>

-----------------------------------------------------------------------------
(* Ranking.                                                                *)

\* Mutant of Overfetch: as many chunks as documents are asked for.
NoOverfetch == 1

\* Chunks fetched for each document asked for.
Overfetch == 3

\* vector_search, fts_search: the first k chunks of the snapshot's ranking.
Leg(ranking, rows, k) ==
    LET here == SelectSeq(ranking, LAMBDA r : r \in rows)
    IN  IF Len(here) <= k THEN here ELSE SubSeq(here, 1, k)

\* dedup_chunks_to_documents, and the ranks of a leg in rrf_fuse_documents:
\* a document ranks by its best chunk.
DocRanking(leg) ==
    FoldLeft(LAMBDA docs, r : IF Contains(docs, r[1]) THEN docs
                              ELSE Append(docs, r[1]), << >>, leg)

\* 1 / (60 + rank + 1), for the zero-based rank, in units of 10^-8.
Contribution(docs, d) ==
    IF Contains(docs, d) THEN 100000000 \div (60 + SelectInSeq(docs, LAMBDA e : e = d))
                         ELSE 0

\* rrf_fuse_documents: by the summed contributions, then by id.
Fuse(v, f) ==
    LET score(d) == Contribution(v, d) + Contribution(f, d)
    IN  SetToSortSeq(ToSet(v) \cup ToSet(f),
            LAMBDA d, e : score(d) > score(e) \/ (score(d) = score(e) /\ d < e))

Results(rows) ==
    LET k == (rq.start + rq.count) * Overfetch
        vec == DocRanking(Leg(Nearest[Text], rows, k))
        fts == DocRanking(Leg(Matching, rows, k))
        similar == DocRanking(Leg(Nearest[probe], rows, k + Overfetch))
    IN  CASE rq.op = "vector" -> vec
          [] rq.op = "fts" -> fts
          [] rq.op = "hybrid" -> Fuse(vec, fts)
          [] rq.op = "similar" -> SelectSeq(similar, LAMBDA d : d # rq.doc)
          [] OTHER -> << >>

\* skip(start).take(count)
Paginate(docs) ==
    SubSeq(docs, rq.start + 1, Min({rq.start + rq.count, Len(docs)}))

-----------------------------------------------------------------------------
(* The reads of a request.                                                 *)

RowsOf(rows, d) == {r \in rows : r[1] = d}

\* io_lookup_doc_chunks: /similar looks its document up in the cached handle
\* of the default branch or at the head of another branch, and compares with
\* the first row it finds.
BranchRows(b) ==
    CASE b = Main /\ seen # 0 -> hist[Main][seen]
      [] b # Main /\ BranchExists(hist, b) -> HeadRows(hist, b)
      [] OTHER -> {}

Probe ==
    LET b == rq.path
        found == RowsOf(BranchRows(b), rq.doc)
    IN  /\ rpc = "probe"
        /\ \/ probe' \in found /\ rpc' = "scan" /\ UNCHANGED status
           \/ /\ found = {}
              /\ Answer(IF DatasetExists(hist) /\ ~BranchExists(hist, b)
                        THEN "error" ELSE "notFound")
              /\ UNCHANGED probe
        /\ UNCHANGED <<store, rq, derived, known, served, got, page, before, gone>>

\* Mutant of SnapshotRows: the head of the cached handle is searched.
CachedHeadRows(c) == hist[Main][seen]

\* io_snapshot_from_cache: the tag is looked up again, its version checked out.
SnapshotRows(c) == Snapshot(hist, tags[c])

\* A tag that is gone by now is an error.
OpenSnapshot ==
    \/ /\ tags[served] # None
       /\ got' = Append(got, SnapshotRows(served))
    \/ /\ tags[served] = None
       /\ Answer("error")
       /\ UNCHANGED <<got, page>>

\* The search, or the first column of /embeddings.  /similar (unless its page
\* is empty) and /embeddings then open the snapshot once more.
Scan ==
    /\ rpc = "scan"
    /\ OpenSnapshot
    /\ tags[served] # None =>
          /\ page' = Paginate(Results(SnapshotRows(served)))
          /\ IF rq.op = "embeddings" \/ (rq.op = "similar" /\ page' # << >>)
             THEN rpc' = "fetch" /\ UNCHANGED status
             ELSE Answer("ok")
    /\ UNCHANGED <<store, rq, derived, known, served, probe, before, gone>>

\* io_fetch_result_embeddings.
Fetch ==
    /\ rpc = "fetch"
    /\ OpenSnapshot
    /\ tags[served] # None => Answer("ok") /\ UNCHANGED page
    /\ UNCHANGED <<store, rq, derived, known, served, probe, before, gone>>

\* The embedding backend or the storage fails.
ReadFails ==
    /\ "read" \in Faults
    /\ rpc \notin {"idle", "answered"}
    /\ Answer("error")
    /\ UNCHANGED <<store, rq, derived, known, served, probe, got, page, before, gone>>

WriterNext ==
    \/ \E c \in Commit : PushBegin(c)
    \/ PushDelete \/ PushAppend \/ PushTag \/ PushCache \/ PushFails
    \/ DeleteDomainRemove \/ DeleteDomainPurge
ReaderNext ==
    \/ \E r \in Requests : Ask(r)
    \/ Derive \/ Latest \/ ListTags \/ WalkAncestors
    \/ Probe \/ Scan \/ Fetch \/ ReadFails

Next == WriterNext \/ ReaderNext \/ Restart

Spec == Init /\ [][Next]_vars

-----------------------------------------------------------------------------
(* What the answers should be, from the pushes alone.                      *)

\* The rows of a commit: those of its parent after its delta.
Content[c \in 0 .. Cardinality(Commit)] ==
    IF c = 0 THEN {}
    ELSE WithDocs(WithoutDocs(Content[c - 1], Delta[c].del), Delta[c].add, c)

\* The documents of the rows, by the place of their best chunk.
ByBestChunk(ranking, rows) ==
    LET places(d) == {i \in DOMAIN ranking : ranking[i] \in RowsOf(rows, d)}
    IN  SetToSortSeq({ranking[i][1] : i \in {j \in DOMAIN ranking : ranking[j] \in rows}},
                     LAMBDA d, e : Min(places(d)) < Min(places(e)))

Answered(s) == rpc = "answered" /\ status = s

-----------------------------------------------------------------------------
(* Properties.                                                             *)

\* Type correctness; a commit is served once it is resolved.
ReadTypeOK ==
    /\ hist \in Histories /\ tags \in Tags
    /\ seen \in 0 .. Len(hist[Main])
    /\ cached \in [Branch -> Commit \cup {None}] /\ removed \in BOOLEAN /\ gone \in BOOLEAN
    /\ wip.commit \in Commit \cup {None}
    /\ wip.pc \in {"idle", "delete", "append", "tag", "cache"}
    /\ deletes \in 0 .. MaxDeletes
    /\ rpc \in {"idle", "latest", "list", "lineage", "probe", "scan", "fetch",
                "answered"}
    /\ rpc # "idle" => rq \in ReadType
    /\ known \subseteq Commit /\ before \subseteq Commit
    /\ served \in Commit \cup {None} /\ derived \in Commit \cup {None}
    /\ rpc \in {"probe", "scan", "fetch"} => served \in Commit
    /\ probe \in Row \cup {Text}
    /\ got \in Seq(SUBSET Row) /\ page \in Seq(Doc)
    /\ status \in {"none", "ok", "notFound", "error"}

\* Snapshot isolation of io_snapshot_from_cache: whatever a request reads is
\* what the served commit holds, for every one of the snapshots it opens; a
\* push in progress or a later one never shows.
SnapshotReads == \A i \in DOMAIN got : got[i] = Content[served]

\* "We NEVER serve the branch tip merely because it exists": the served commit
\* is the requested one or of the window, and resolve_searchable_commit passes
\* over no nearer commit that was indexed when the request was sent.
ServedNearest ==
    served # None /\ rq.commit # None =>
        \/ served = rq.commit
        \/ \E i \in DOMAIN rq.window :
              /\ served = rq.window[i]
              /\ ~gone => /\ rq.commit \notin before
                          /\ \A j \in 1 .. (i - 1) : rq.window[j] \notin before

\* A 404 of the resolution tells the truth: "a branch with an on-disk index can
\* NEVER be blocked", restarts included.
NotFoundIsTrue ==
    Answered("notFound") /\ served = None /\ ~gone =>
        \/ CommitsOn(tags, IF rq.commit = None THEN rq.branch ELSE rq.path) = {}
        \/ /\ rq.commit \notin before
           /\ \A i \in DOMAIN rq.window : rq.window[i] \notin before

\* "`start` + `count` page the ranked results": although search_with_options
\* only fetches three chunks for each document asked for, its page is that page
\* of the ranking of all documents.  Sufficient for it is that no document
\* has more than three chunks and that a hybrid search asks for all documents at
\* once: the fused ranks change with the number of chunks fetched.
PageExact ==
    LET vec == ByBestChunk(Nearest[Text], Content[served])
        fts == ByBestChunk(Matching, Content[served])
    IN  /\ Answered("ok") /\ rq.op = "vector" => page = Paginate(vec)
        /\ Answered("ok") /\ rq.op = "fts" => page = Paginate(fts)
        /\ Answered("ok") /\ rq.op = "hybrid" => page = Paginate(Fuse(vec, fts))

\* "Per-commit snapshots are reproducible": what /similar answers for a commit
\* depends on that commit alone - on the document as the commit has it.
SimilarReproducible ==
    rq # None /\ rq.op = "similar" /\ served # None =>
        LET own == RowsOf(Content[served], rq.doc)
        IN  /\ Answered("ok") =>
                  \E r \in own :
                     page = Paginate(Remove(ByBestChunk(Nearest[r], Content[served]),
                                            rq.doc))
            /\ Answered("notFound") => own = {}
=============================================================================
