----------------------------- MODULE Resolution -----------------------------
(***************************************************************************)
(* Scans of one snapshot: /duplicates, /candidates and the streamed        *)
(* /embeddings.  The snapshot does not change (see Search); a second read  *)
(* of it may fail.                                                         *)
(*                                                                         *)
(* A vector is a point on a line and the distance of two vectors is that   *)
(* of the points.  Lance's nearest() is external and taken as exact; among *)
(* equal distances the order is that of the ids or the reverse.            *)
(***************************************************************************)
EXTENDS Integers, Sequences, FiniteSets, SequencesExt, FiniteSetsExt, TLC

CONSTANTS Docs,          \* document ids, numbers in the order of the ids
          Corpora,       \* snapshots: functions from Docs to chunk vectors
          Scopes,        \* pairs <<set, target>> of sets of Docs; no target: {}
          Ks,            \* numbers of neighbours asked for
          Thresholds,
          MaxPoints,     \* DEFAULT_DUPLICATE_MAX_POINTS
          MaxPairs,      \* DEFAULT_DUPLICATE_MAX_PAIRS
          FlatMax,       \* ADAPTIVE_ANN_CANDIDATE_THRESHOLD
          ScanBatch,     \* rows of a record batch
          Capacity,      \* of the channel of a stream
          MaxSkips       \* rows of a stream that cannot be extracted

ASSUME ResAssumption ==
    /\ Docs \subseteq Nat /\ Corpora \subseteq [Docs -> Seq(Int)]
    /\ Scopes \subseteq (SUBSET Docs) \X (SUBSET Docs)
    /\ Ks \subseteq Nat \ {0} /\ Thresholds \subseteq Nat
    /\ {MaxPoints, MaxPairs, FlatMax, MaxSkips} \subseteq Nat
    /\ ScanBatch \in Nat \ {0} /\ Capacity \in Nat \ {0}

VARIABLES
    corpus,   \* the snapshot
    job,      \* the request and how far it is
    out,      \* what it has computed
    rows,     \* stream: rows that the producer has not read yet
    skips,    \* stream: rows that the producer passed over
    best,     \* stream: best row per document so far
    channel,  \* stream: records on their way
    lines     \* stream: records that the client has got

resVars == <<corpus, job, out, rows, skips, best, channel, lines>>
stream == <<rows, skips, best, channel, lines>>

ErrorRecord == <<0, 0>>
NoJob == [pc |-> "idle", op |-> "none", set |-> {}, target |-> {}, k |-> 1,
          threshold |-> <<0, 0>>, reverse |-> FALSE]
NoOut == [groups |-> << >>, there |-> << >>, back |-> << >>, total |-> 0]

-----------------------------------------------------------------------------
(* Points and distances.                                                   *)

Distance(x, y) == IF x < y THEN y - x ELSE x - y

\* The chunks of the documents of a population.
Chunks(pop) == UNION {{d} \X (1 .. Len(corpus[d])) : d \in pop}
Vector(p) == corpus[p[1]][p[2]]
\* io_scan_points, in the order of the rows.
ScanPoints(pop) ==
    SetToSortSeq(Chunks(pop), LAMBDA p, q : p[1] < q[1] \/ (p[1] = q[1] /\ p[2] < q[2]))

\* Order by distance d, and by id where that is equal.
NearestFirst(S, d(_), id(_)) ==
    SetToSortSeq(S, LAMBDA a, b : \/ d(a) < d(b)
                                  \/ d(a) = d(b) /\ IF job.reverse THEN id(a) > id(b)
                                                                  ELSE id(a) < id(b))
\* nearest(v, n) among the chunks of a population.
NearestChunks(v, pop, n) ==
    LET ranked == NearestFirst(Chunks(pop), LAMBDA p : Distance(v, Vector(p)),
                               LAMBDA p : 100 * p[1] + p[2])
    IN  IF Len(ranked) > n THEN SubSeq(ranked, 1, n) ELSE ranked
Present == {d \in Docs : corpus[d] # << >>}

-----------------------------------------------------------------------------
(* /duplicates: the nearest neighbour of every point, as document pairs.   *)

\* Mutant of build_neighbour_filter: its own chunks are neighbours, too.
FilterWithSelf(self) == IF job.target = {} THEN Docs ELSE job.target

\* Without a target, any other document of the snapshot.
build_neighbour_filter(self) == (IF job.target = {} THEN Docs ELSE job.target) \ {self}

\* canonical_observation: the lower id first.
Observation(p) ==
    LET q == NearestChunks(Vector(p), build_neighbour_filter(p[1]), 8)[1]
    IN  [pair |-> IF p[1] <= q[1] THEN <<p[1], q[1]>> ELSE <<q[1], p[1]>>,
         distance |-> Distance(Vector(p), Vector(q))]
Observations ==
    {Observation(p) : p \in {x \in Chunks(job.set) :
                               NearestChunks(Vector(x), build_neighbour_filter(x[1]), 8) # << >>}}

SortGroups(S) ==
    SetToSortSeq(S, LAMBDA g, h :
        \/ g.distance < h.distance
        \/ /\ g.distance = h.distance
           /\ g.pair[1] < h.pair[1] \/ (g.pair[1] = h.pair[1] /\ g.pair[2] < h.pair[2]))

pairs_from_neighbours(obs, threshold) ==
    LET near == {o \in obs : o.distance <= threshold /\ o.pair[1] # o.pair[2]}
        groups == {[pair |-> pr, distance |-> Min({o.distance : o \in {x \in near : x.pair = pr}})]
                      : pr \in {o.pair : o \in near}}
        sorted == SortGroups(groups)
    IN  IF Len(sorted) > MaxPairs THEN SubSeq(sorted, 1, MaxPairs) ELSE sorted

Refuse == job' = [job EXCEPT !.pc = "refused"] /\ UNCHANGED <<corpus, out, stream>>

ScanDuplicates ==
    /\ job.pc = "scan" /\ job.op = "duplicates"
    /\ \/ Cardinality(Chunks(job.set)) > MaxPoints /\ Refuse
       \/ /\ Cardinality(Chunks(job.set)) <= MaxPoints
          /\ out' = [out EXCEPT !.groups = pairs_from_neighbours(Observations, job.threshold[1])]
          /\ job' = [job EXCEPT !.pc = IF out'.groups = << >> THEN "done" ELSE "override"]
          /\ UNCHANGED <<corpus, stream>>

\* io_fetch_result_embeddings: the first chunk stands for the document.
Representative(d) == corpus[d][1]

\* Same-role override and the second sort.
Override ==
    /\ job.pc = "override"
    /\ LET same(g) == Representative(g.pair[1]) = Representative(g.pair[2])
           fixed(g) == IF same(g) THEN [g EXCEPT !.distance = 0] ELSE g
       IN  out' = [out EXCEPT !.groups = SortGroups({fixed(g) : g \in ToSet(@)})]
    /\ job' = [job EXCEPT !.pc = "done"]
    /\ UNCHANGED <<corpus, stream>>

-----------------------------------------------------------------------------
(* /candidates: two maps from documents to neighbours [id, distance].      *)

\* Best distance per document of those chunks that are near enough; then the
\* k nearest documents (flat_knn_top_k, extract_top_k_neighbours).
TopDocs(v, chunks, threshold) ==
    LET dist(d) == Min({Distance(v, Vector(p)) : p \in {x \in chunks : x[1] = d}})
        near == {d \in {p[1] : p \in chunks} : dist(d) <= threshold}
        ranked == NearestFirst(near, dist, LAMBDA d : d)
        list == [i \in 1 .. Len(ranked) |-> [id |-> ranked[i], distance |-> dist(ranked[i])]]
    IN  IF Len(list) > job.k THEN SubSeq(list, 1, job.k) ELSE list

\* Mutant of FetchK: no over-fetch for the approximate path.
FetchOnlyK == job.k

FetchK == 2 * job.k

\* Path A scans all candidates, path B asks the index for FetchK chunks.
NeighboursOf(p, cand, threshold) ==
    IF Cardinality(cand) <= FlatMax
    THEN TopDocs(Vector(p), Chunks(cand \ {p[1]}), threshold)
    ELSE TopDocs(Vector(p), ToSet(NearestChunks(Vector(p), cand \ {p[1]}, FetchK)), threshold)

\* Keeps the better distance, appends what is new, sorts and cuts nothing.
merge_neighbours(existing, new) ==
    FoldLeft(LAMBDA list, n :
        LET i == SelectInSeq(list, LAMBDA e : e.id = n.id)
        IN  IF i = 0 THEN Append(list, n)
            ELSE IF n.distance < list[i].distance
            THEN [list EXCEPT ![i].distance = n.distance] ELSE list,
        existing, new)

\* Path A leaves out documents without neighbours, path B keeps them.
CollectTopK(probes, cand, threshold) ==
    FoldLeft(LAMBDA map, p :
        LET new == NeighboursOf(p, cand, threshold)
        IN  IF new = << >> /\ Cardinality(cand) <= FlatMax THEN map
            ELSE IF p[1] \in DOMAIN map
            THEN [map EXCEPT ![p[1]] = merge_neighbours(@, new)]
            ELSE map @@ (p[1] :> new),
        << >>, ScanPoints(probes))

TargetDocs == IF job.target = {} THEN job.set ELSE job.target

ScanCandidates ==
    /\ job.pc = "scan" /\ job.op = "candidates"
    /\ LET set == job.set \cap Present  target == TargetDocs \cap Present
           points == Cardinality(Chunks(set)) + Cardinality(Chunks(target))
       IN  \/ points > MaxPoints /\ Refuse
           \/ /\ points <= MaxPoints
              /\ out' = [out EXCEPT
                    !.there = CollectTopK(set, target, job.threshold[1]),
                    !.back = CollectTopK(target, set, job.threshold[2])]
              /\ job' = [job EXCEPT !.pc = "fetch"]
              /\ UNCHANGED <<corpus, stream>>

\* The embeddings, contents and clustering distances that go with the lists.
FetchDetails ==
    /\ job.pc = "fetch" /\ job' = [job EXCEPT !.pc = "done"]
    /\ UNCHANGED <<corpus, out, stream>>

-----------------------------------------------------------------------------
(* The streamed /embeddings: the count, then a producer that reads the     *)
(* batches, keeps the best row per document and sends at the end.          *)

CountStream ==
    /\ job.pc = "scan" /\ job.op = "stream"
    /\ out' = [out EXCEPT !.total = Cardinality(job.set \cap Present)]
    /\ rows' \in {ScanPoints(job.set), Reverse(ScanPoints(job.set))}
    /\ job' = [job EXCEPT !.pc = "read"]
    /\ UNCHANGED <<corpus, skips, best, channel, lines>>

Taken == IF Len(rows) > ScanBatch THEN SubSeq(rows, 1, ScanBatch) ELSE rows

\* A row whose embedding cannot be extracted, or a whole batch that lacks a
\* column, is passed over without a word.  Of the other rows of a document the
\* one with the lowest chunk index stays.
ReadBatch ==
    /\ job.pc = "read" /\ rows # << >>
    /\ \E skip \in SUBSET ToSet(Taken) :
          /\ skips' = skips \cup skip /\ Cardinality(skips') <= MaxSkips
          /\ best' = FoldLeft(LAMBDA b, r :
                         IF r \in skip \/ \E q \in b : q[1] = r[1] /\ q[2] <= r[2] THEN b
                         ELSE {q \in b : q[1] # r[1]} \cup {r}, best, Taken)
    /\ rows' = SubSeq(rows, Len(Taken) + 1, Len(rows))
    /\ UNCHANGED <<corpus, job, out, channel, lines>>

EndOfRows ==
    /\ job.pc = "read" /\ rows = << >>
    /\ job' = [job EXCEPT !.pc = "send"]
    /\ UNCHANGED <<corpus, out, stream>>

\* Mutant of BatchFails: the scan just ends.
BatchFailsSilently ==
    /\ job.pc = "read" /\ rows # << >>
    /\ rows' = << >>
    /\ UNCHANGED <<corpus, job, out, skips, best, channel, lines>>

\* A batch that cannot be read becomes an error record, and the producer ends.
BatchFails ==
    /\ job.pc = "read" /\ rows # << >> /\ Len(channel) < Capacity
    /\ channel' = Append(channel, ErrorRecord)
    /\ job' = [job EXCEPT !.pc = "closed"]
    /\ UNCHANGED <<corpus, out, rows, skips, best, lines>>

SendRecord ==
    /\ job.pc = "send"
    /\ \/ \E r \in best : /\ Len(channel) < Capacity
                          /\ channel' = Append(channel, r)
                          /\ best' = best \ {r}
                          /\ UNCHANGED job
       \/ best = {} /\ job' = [job EXCEPT !.pc = "closed"] /\ UNCHANGED <<best, channel>>
    /\ UNCHANGED <<corpus, out, rows, skips, lines>>

ClientReads ==
    /\ channel # << >>
    /\ lines' = Append(lines, Head(channel)) /\ channel' = Tail(channel)
    /\ UNCHANGED <<corpus, job, out, rows, skips, best>>

-----------------------------------------------------------------------------
ResInit ==
    /\ corpus \in Corpora /\ job = NoJob /\ out = NoOut
    /\ rows = << >> /\ skips = {} /\ best = {} /\ channel = << >> /\ lines = << >>

\* The handlers check the parameters and resolve the commit first (Search).
AskDuplicates ==
    /\ job.pc = "idle"
    /\ \E s \in Scopes, t \in Thresholds, r \in BOOLEAN :
          job' = [NoJob EXCEPT !.pc = "scan", !.op = "duplicates", !.set = s[1],
                     !.target = s[2], !.threshold = <<t, t>>, !.reverse = r]
    /\ UNCHANGED <<corpus, out, stream>>

AskCandidates ==
    /\ job.pc = "idle"
    /\ \E s \in Scopes, k \in Ks, t \in Thresholds, u \in Thresholds, r \in BOOLEAN :
          job' = [NoJob EXCEPT !.pc = "scan", !.op = "candidates", !.set = s[1],
                     !.target = s[2], !.k = k, !.threshold = <<t, u>>, !.reverse = r]
    /\ UNCHANGED <<corpus, out, stream>>

AskStream ==
    /\ job.pc = "idle"
    /\ \E s \in Scopes :
          job' = [NoJob EXCEPT !.pc = "scan", !.op = "stream", !.set = s[1]]
    /\ UNCHANGED <<corpus, out, stream>>

\* A read of the snapshot fails: the request is answered with an error.
ScanFails == job.pc \in {"scan", "override", "fetch"} /\ Refuse

ResNext ==
    \/ AskDuplicates \/ AskCandidates \/ AskStream
    \/ ScanDuplicates \/ Override \/ ScanCandidates \/ FetchDetails \/ ScanFails
    \/ CountStream \/ ReadBatch \/ EndOfRows \/ BatchFails \/ SendRecord \/ ClientReads

ResSpec == ResInit /\ [][ResNext]_resVars

-----------------------------------------------------------------------------
(* Properties.                                                             *)

\* The distance of two documents: that of their nearest chunks.
DocDistance(a, b) ==
    Min({Distance(Vector(p), Vector(q)) : p \in Chunks({a}), q \in Chunks({b})})

\* Type correctness of the scans.
ResTypeOK ==
    /\ corpus \in Corpora
    /\ job.pc \in {"idle", "scan", "override", "fetch", "read", "send", "closed",
                   "done", "refused"}
    /\ Len(out.groups) <= MaxPairs
    /\ DOMAIN out.there \subseteq Docs /\ DOMAIN out.back \subseteq Docs
    /\ Len(channel) <= Capacity /\ (best \cup skips) \subseteq Chunks(Docs)

\* The documents that a document of the set is compared with: the target, or
\* without one the whole snapshot, inside the set or not (see WithinSet).
Compared(d) == ((IF job.target = {} THEN Docs ELSE job.target) \cap Present) \ {d}

\* "The scan can never be starved by a multi-chunk document's own sibling
\* chunks": although every chunk only asks for its nearest neighbour, each
\* document of the set whose nearest document is near enough is reported with
\* such a document, at their true distance.  What is reported is within the
\* threshold, straddles set and target, is never a document with itself, and
\* no pair is there twice.
DuplicatesExact ==
    job.pc = "done" /\ job.op = "duplicates" =>
        LET g == out.groups
            nearest(d) == Min({DocDistance(d, x) : x \in Compared(d)})
        IN  /\ \A i, j \in 1 .. Len(g) : i < j =>
                  g[i].distance <= g[j].distance /\ g[i].pair # g[j].pair
            /\ \A i \in 1 .. Len(g) :
                  LET a == g[i].pair[1]  b == g[i].pair[2]
                  IN  /\ a < b /\ g[i].distance <= job.threshold[1]
                      /\ \/ a \in job.set /\ b \in Compared(a)
                         \/ b \in job.set /\ a \in Compared(b)
                      /\ g[i].distance >= DocDistance(a, b)
            /\ \A d \in job.set \cap Present :
                  Compared(d) # {} /\ nearest(d) <= job.threshold[1] /\ Len(g) < MaxPairs =>
                     \E i \in 1 .. Len(g), x \in Compared(d) :
                        /\ {d, x} = ToSet(g[i].pair)
                        /\ DocDistance(d, x) = nearest(d) /\ g[i].distance = nearest(d)

\* "When the target filters are empty, the scan is within-set dedup: each set
\* member's nearest neighbour is any OTHER document in the set" (DuplicateScope):
\* then both documents of a reported pair are of the set.  The code does not
\* keep this: the filter of a query without target only excludes the document.
WithinSet ==
    job.pc = "done" /\ job.op = "duplicates" /\ job.target = {} =>
        \A i \in 1 .. Len(out.groups) : ToSet(out.groups[i].pair) \subseteq job.set

\* One direction of /candidates has, for every document, all those that are
\* among its k nearest documents and near enough, at their true distance,
\* although every chunk contributes only its own k nearest.  The approximate
\* path fetches 2k chunks, so it needs the documents that are as near to have
\* fewer than 2k chunks in all; long documents may crowd a nearer one out.
HasNearest(map, probes, cand, threshold) ==
    \A d \in probes \cap Present :
        LET near == {x \in (cand \cap Present) \ {d} : DocDistance(d, x) <= threshold}
            asNear(x) == {y \in near \ {x} : DocDistance(d, y) <= DocDistance(d, x)}
            fetched(x) == \/ Cardinality(cand \cap Present) <= FlatMax
                          \/ Cardinality(Chunks(asNear(x))) < 2 * job.k
        IN  \A x \in near : Cardinality(asNear(x)) < job.k /\ fetched(x) =>
               /\ d \in DOMAIN map
               /\ \E i \in 1 .. Len(map[d]) :
                     map[d][i] = [id |-> x, distance |-> DocDistance(d, x)]

\* /candidates misses no near neighbour in either direction, whichever of the
\* two paths the number of candidates selects, and never names the document
\* itself.
CandidatesExact ==
    job.pc = "done" /\ job.op = "candidates" =>
        /\ HasNearest(out.there, job.set, TargetDocs, job.threshold[1])
        /\ HasNearest(out.back, TargetDocs, job.set, job.threshold[2])
        /\ \A map \in {out.there, out.back} : \A d \in DOMAIN map :
              \A i \in 1 .. Len(map[d]) : map[d][i].id # d

\* A stream that ends without an error record has exactly one record for every
\* document with a row that could be extracted, of the first such row; what is
\* missing against x-total-count are documents none of whose rows could be.
StreamComplete ==
    job.pc = "closed" /\ channel = << >> /\ ErrorRecord \notin ToSet(lines) =>
        LET asked == job.set \cap Present
            readable(d) == {i \in 1 .. Len(corpus[d]) : <<d, i>> \notin skips}
            lost == {d \in asked : readable(d) = {}}
        IN  /\ ToSet(lines) = {<<d, Min(readable(d))>> : d \in asked \ lost}
            /\ Len(lines) + Cardinality(lost) = out.total
=============================================================================
