------------------------------ MODULE Embedding ------------------------------
(***************************************************************************)
(* From the text of a document to its stored vectors: the chunker, the     *)
(* batched embedding with individual retries, the disk cache that all      *)
(* requests share, the scattering of the vectors back to the documents,    *)
(* and the prime-embed-cache command.                                      *)
(*                                                                         *)
(* A text is a sequence of tokens as the chunker counts them, that is,     *)
(* without the special tokens that the provider's own tokenizer adds.  The *)
(* vector of a text is the triple <<model, prefix, text>> that determines  *)
(* it: the provider is external and deterministic, and rejects a request   *)
(* with a Bad token in it.                                                 *)
(***************************************************************************)
EXTENDS Integers, Sequences, FiniteSets, SequencesExt

CONSTANTS Bad,        \* tokens that make the provider reject a request
          Split,      \* tokens that end inside a character of the text
          DocLists,   \* sub-batches of the documents (texts) of a push
          Questions,  \* texts that a search may ask for
          Callers,    \* concurrent requests
          EmbBatch,   \* embed_batch_size
          Window,     \* model window in tokens (512 in the code)
          DefaultBudget, \* tokens of a chunk without prefixes (480 in the code)
          OverlapDiv, \* the overlap is this part of a chunk (7 in the code)
          MaxBlips,   \* transient failures of the provider
          MaxCalls,   \* pushes and searches
          MaxStops    \* restarts of the server

ASSUME EmbAssumption ==
    /\ {EmbBatch, Window, DefaultBudget, OverlapDiv} \subseteq Nat \ {0}
    /\ {MaxBlips, MaxCalls, MaxStops} \subseteq Nat
    /\ DefaultBudget <= Window
    /\ DocLists \subseteq Seq(Seq(Nat)) /\ Questions \subseteq Seq(Nat)
    /\ \A docs \in DocLists : Len(docs) <= EmbBatch

VARIABLES
    slot1,   \* the model: "e5", or one without task prefixes, "plain"
    slot2,   \* model of the clustering role: "nomic", or slot1 if none is set
    cache,   \* the sled tree: a function from keys to vectors
    stored,  \* rows stored by the pushes, of two domains
    call,    \* [Callers -> state of the request]
    embUp,   \* is the server running?
    primed,  \* has prime-embed-cache copied clustering vectors?
    embCount \* transient failures, calls and restarts so far

models == <<slot1, slot2>>
embVars == <<models, cache, stored, call, embUp, primed, embCount>>

-----------------------------------------------------------------------------
(* Task prefixes and their cost in tokens.                                 *)

prefixes_for_model(model, role) ==
    CASE model = "e5" -> IF role = "Document" THEN "passage" ELSE "query"
      [] model = "nomic" -> IF role = "Clustering" THEN "clustering"
                            ELSE IF role = "Document" THEN "search_document"
                            ELSE "search_query"
      [] OTHER -> ""

PrefixTokens(prefix) ==
    CASE prefix = "" -> 0 [] prefix \in {"passage", "query"} -> 1 [] OTHER -> 2

embed_route(role) == IF role = "Clustering" THEN slot2 ELSE slot1
apply_prefix(role, text) ==
    <<embed_route(role), prefixes_for_model(embed_route(role), role), text>>

\* Mutant of cache_key: hashes the text before the prefix is applied.
KeyOfBareText(role, text) == <<embed_route(role), text>>

\* The key is the hash of the model and the prefixed text.
cache_key(role, text) == apply_prefix(role, text)

\* What the provider answers for a prefixed text.
VectorOf(role, text) == apply_prefix(role, text)
Zero == <<"zeros">>
Failed == <<"failed">>

-----------------------------------------------------------------------------
(* The chunker.  Its budget is the window less the longer of the prefixes  *)
(* that a chunk will be embedded with; special tokens are given no room.   *)

params_for_window(prefix) ==
    IF Window > PrefixTokens(prefix) THEN Window - PrefixTokens(prefix) ELSE 0

RolePrefix(role) == prefixes_for_model(embed_route(role), role)

\* Unknown models without a prefix do not count; without any the default.
ChunkBudget ==
    LET prefixes == {RolePrefix("Document"), RolePrefix("Clustering")} \ {""}
    IN  IF prefixes = {} THEN DefaultBudget
        ELSE Min({params_for_window(p) : p \in prefixes})

Step(max) ==
    LET overlap == max \div OverlapDiv
    IN  IF overlap >= max THEN 1 ELSE max - overlap

\* Mutant of Ranges: whole chunks only, as with chunks_exact.
WholeRanges(n, max) ==
    IF n <= max THEN <<<<0, n>>>>
    ELSE [i \in 1 .. 1 + (n - max) \div Step(max) |->
             <<(i - 1) * Step(max), (i - 1) * Step(max) + max>>]

\* The token ranges [s, e) of the chunks of a text of n tokens.
Ranges(n, max) ==
    LET from[s \in 0 .. n] ==
            LET e == IF s + max < n THEN s + max ELSE n
            IN  <<<<s, e>>>> \o (IF e = n THEN << >> ELSE from[s + Step(max)])
    IN  IF n <= max THEN <<<<0, n>>>> ELSE from[0]

\* Position p, behind the p-th token, lies between two characters.
is_char_boundary(text, p) == p \in {0, Len(text)} \/ text[p] \notin Split
snap_to_char_boundary_down(text, p) ==
    Max({q \in 0 .. p : is_char_boundary(text, q)})
snap_to_char_boundary_up(text, p) ==
    Min({q \in p .. Len(text) : is_char_boundary(text, q)})

\* The text of a range, out to whole characters: it may be longer than that.
Slice(text, range) ==
    SubSeq(text, snap_to_char_boundary_down(text, range[1]) + 1,
                 snap_to_char_boundary_up(text, range[2]))

\* << >> is a document whose chunking fails; it is skipped.
chunk_text(text) ==
    IF ChunkBudget = 0 THEN << >>
    ELSE LET r == Ranges(Len(text), ChunkBudget)
         IN  [i \in 1 .. Len(r) |-> [range |-> r[i], text |-> Slice(text, r[i])]]

-----------------------------------------------------------------------------
(* A push takes its documents in sub-batches of EmbBatch: all chunks of a  *)
(* sub-batch become one list, which is split into batches of EmbBatch      *)
(* texts.  The rows are written at the end of the push (PushIngest).       *)

FlatTexts(docs) ==
    FlattenSeq([i \in 1 .. Len(docs) |->
        [k \in 1 .. Len(chunk_text(docs[i])) |-> chunk_text(docs[i])[k].text]])

\* The slice of the flat list that belongs to document i.
FlatRange(docs, i) ==
    LET start == Len(FlatTexts(SubSeq(docs, 1, i - 1)))
    IN  start + 1 .. start + Len(chunk_text(docs[i]))

\* Calls of io_embed that are still to be made: texts, and whether a failure
\* is final (an individual retry) or leads to individual retries.
BatchCalls(texts) ==
    [b \in 1 .. (Len(texts) + EmbBatch - 1) \div EmbBatch |->
        [texts |-> SubSeq(texts, (b - 1) * EmbBatch + 1,
                          IF b * EmbBatch < Len(texts) THEN b * EmbBatch ELSE Len(texts)),
         single |-> FALSE]]
Singles(texts) == [i \in 1 .. Len(texts) |-> [texts |-> <<texts[i]>>, single |-> TRUE]]

NoCall == [pc |-> "idle", kind |-> "none", domain |-> "off", docs |-> << >>,
           role |-> "Document", work |-> << >>, hits |-> << >>, got |-> << >>,
           first |-> << >>, blips |-> 0]

EmbInit ==
    /\ slot1 \in {"e5", "plain"} /\ slot2 \in {slot1, "nomic"}
    /\ cache = << >> /\ stored = {} /\ call = [c \in Callers |-> NoCall]
    /\ embUp = TRUE /\ primed = FALSE
    /\ embCount = [blip |-> 0, call |-> 0, stop |-> 0]

Counting(k, max) == embCount[k] < max /\ embCount' = [embCount EXCEPT ![k] = @ + 1]
Update(c, r) == call' = [call EXCEPT ![c] = r]

\* A sub-batch of a push to a domain with clustering on or off: chunk,
\* flatten, and embed in the document role.
StartPush(c) ==
    /\ embUp /\ call[c].pc = "idle" /\ Counting("call", MaxCalls)
    /\ \E docs \in DocLists, d \in {"on", "off"} :
           Update(c, [NoCall EXCEPT !.pc = "lookup", !.kind = "push", !.domain = d,
                         !.docs = docs, !.work = BatchCalls(FlatTexts(docs))])
    /\ UNCHANGED <<models, cache, stored, embUp, primed>>

StartQuery(c) ==
    /\ embUp /\ call[c].pc = "idle" /\ Counting("call", MaxCalls)
    /\ \E q \in Questions :
           Update(c, [NoCall EXCEPT !.pc = "lookup", !.kind = "query", !.role = "Query",
                         !.docs = <<q>>, !.work = Singles(<<q>>)])
    /\ UNCHANGED <<models, cache, stored, embUp, primed>>

-----------------------------------------------------------------------------
(* io_embed: cache lookups, one request for the misses, cache inserts.     *)

Missing == <<"missing">>
Current(c) == Head(call[c].work)
Key(c, t) == cache_key(call[c].role, t)
Delivered(c, vectors) ==
    [call[c] EXCEPT !.pc = "lookup", !.work = Tail(@), !.hits = << >>,
                    !.got = @ \o vectors]

Lookup(c) ==
    /\ call[c].pc = "lookup" /\ call[c].work # << >>
    /\ LET texts == Current(c).texts
           found == [i \in 1 .. Len(texts) |->
                        IF Key(c, texts[i]) \in DOMAIN cache
                        THEN cache[Key(c, texts[i])] ELSE Missing]
       IN  IF Missing \in ToSet(found)
           THEN Update(c, [call[c] EXCEPT !.pc = "request", !.hits = found])
           ELSE Update(c, Delivered(c, found))
    /\ UNCHANGED <<models, cache, stored, embUp, primed, embCount>>

MissIndices(c) ==
    LET hits == call[c].hits
        upTo[i \in 0 .. Len(hits)] ==
            IF i = 0 THEN << >>
            ELSE IF hits[i] = Missing THEN Append(upTo[i - 1], i) ELSE upTo[i - 1]
    IN  upTo[Len(hits)]
MissTexts(c) == [k \in 1 .. Len(MissIndices(c)) |-> Current(c).texts[MissIndices(c)[k]]]
Toxic(text) == ToSet(text) \cap Bad # {}

BadVector == <<"bad vector">>

\* Mutant of Acceptable: no count-parity guard.
AcceptableUncounted(c, reply) == reply # << >> /\ BadVector \notin ToSet(reply)

\* Dimensions, NaN and the number of embeddings are checked on arrival.
Acceptable(c, reply) ==
    Len(reply) = Len(MissIndices(c)) /\ BadVector \notin ToSet(reply)

\* The reply merged with the hits (the last one repeated if it is short).
Merged(c, reply) ==
    LET miss == MissIndices(c)
    IN  [i \in 1 .. Len(call[c].hits) |->
            IF call[c].hits[i] # Missing THEN call[c].hits[i]
            ELSE LET k == CHOOSE n \in 1 .. Len(miss) : miss[n] = i
                 IN  reply[IF k <= Len(reply) THEN k ELSE Len(reply)]]

Succeed(c, reply) ==
    LET texts == Current(c).texts
        put == {i \in 1 .. Len(texts) : call[c].hits[i] = Missing}
        keys == {Key(c, texts[i]) : i \in put}
    IN  /\ cache' = [k \in DOMAIN cache \cup keys |->
                       IF k \in keys
                       THEN Merged(c, reply)[CHOOSE i \in put : Key(c, texts[i]) = k]
                       ELSE cache[k]]
        /\ Update(c, Delivered(c, Merged(c, reply)))

\* Mutant of AfterFailure: the failure of a batch is the failure of its texts.
FailWholeBatch(c) ==
    IF call[c].kind = "query" THEN NoCall
    ELSE Delivered(c, [i \in 1 .. Len(Current(c).texts) |-> Failed])

\* io_embed_batched retries the texts of a failed batch one by one; a search
\* answers with an error.
AfterFailure(c) ==
    IF call[c].kind = "query" THEN NoCall
    ELSE IF Current(c).single THEN Delivered(c, <<Failed>>)
    ELSE [call[c] EXCEPT !.pc = "lookup", !.hits = << >>,
                         !.work = Singles(Current(c).texts) \o Tail(@)]

Right(c) == [k \in 1 .. Len(MissTexts(c)) |-> VectorOf(call[c].role, MissTexts(c)[k])]

\* The provider answers as it should.
Reply(c) ==
    /\ call[c].pc = "request"
    /\ IF \E k \in 1 .. Len(MissTexts(c)) : Toxic(MissTexts(c)[k])
       THEN Update(c, AfterFailure(c)) /\ UNCHANGED cache
       ELSE Succeed(c, Right(c))
    /\ UNCHANGED <<models, stored, embUp, primed, embCount>>

\* A transient failure: unreachable or an error status (no embeddings at
\* all), one embedding too few, a vector of the wrong dimension or with NaN.
Blip(c) ==
    /\ call[c].pc = "request" /\ Counting("blip", MaxBlips)
    /\ \E reply \in {<< >>, Front(Right(c)), [Right(c) EXCEPT ![1] = BadVector]} :
           IF Acceptable(c, reply)
           THEN Succeed(c, reply)
           ELSE call' = [call EXCEPT ![c] = [AfterFailure(c) EXCEPT !.blips = call[c].blips + 1]]
                /\ UNCHANGED cache
    /\ UNCHANGED <<models, stored, embUp, primed>>

\* A new push of the branch cancels this one: tokio::select! drops the call.
Superseded(c) ==
    /\ call[c].pc = "request" /\ call[c].kind = "push"
    /\ Update(c, NoCall)
    /\ UNCHANGED <<models, cache, stored, embUp, primed, embCount>>

-----------------------------------------------------------------------------
(* After the document role the clustering role, or zeros; then the vectors *)
(* go back to the documents, and a document with a failure is skipped.     *)

SecondRole(c) ==
    /\ call[c].pc = "lookup" /\ call[c].work = << >>
    /\ call[c].kind = "push" /\ call[c].role = "Document"
    /\ Update(c, [call[c] EXCEPT !.role = "Clustering", !.first = @ \o call[c].got,
                     !.work = IF call[c].domain = "on"
                              THEN BatchCalls(FlatTexts(call[c].docs)) ELSE << >>,
                     !.got = IF call[c].domain = "on" THEN << >>
                             ELSE [i \in 1 .. Len(call[c].got) |-> Zero]])
    /\ UNCHANGED <<models, cache, stored, embUp, primed, embCount>>

Skipped(c, i) ==
    \/ chunk_text(call[c].docs[i]) = << >>
    \/ \E k \in FlatRange(call[c].docs, i) :
           Failed \in {call[c].first[k], call[c].got[k]}

DocRows(c, i) ==
    LET d == call[c].docs[i]
        flat == FlatRange(call[c].docs, i)
        offset == CHOOSE o \in 0 .. Len(call[c].first) : \A k \in flat : k > o /\ (o + 1) \in flat
    IN  {[domain |-> call[c].domain, doc |-> d, range |-> chunk_text(d)[k].range,
          text |-> chunk_text(d)[k].text, embedding |-> call[c].first[offset + k],
          clustering |-> call[c].got[offset + k]] : k \in 1 .. Len(chunk_text(d))}

\* The scatter and the write; the vectors are normalised, zeros stay zeros.
Scatter(c) ==
    /\ call[c].pc = "lookup" /\ call[c].work = << >> /\ call[c].role = "Clustering"
    /\ stored' = stored \cup UNION {DocRows(c, i) : i \in
                   {j \in 1 .. Len(call[c].docs) : ~Skipped(c, j)}}
    /\ Update(c, [call[c] EXCEPT !.pc = "done"])
    /\ UNCHANGED <<models, cache, embUp, primed, embCount>>

AnswerQuery(c) ==
    /\ call[c].pc = "lookup" /\ call[c].work = << >> /\ call[c].kind = "query"
    /\ Update(c, [call[c] EXCEPT !.pc = "done"])
    /\ UNCHANGED <<models, cache, stored, embUp, primed, embCount>>

Return(c) ==
    /\ call[c].pc = "done" /\ Update(c, NoCall)
    /\ UNCHANGED <<models, cache, stored, embUp, primed, embCount>>

-----------------------------------------------------------------------------
(* The server stops and starts; sled flushes every two seconds, so the     *)
(* last insert may be lost.  prime-embed-cache needs the lock of the cache *)
(* and so runs while the server is down.                                   *)

StopServer ==
    /\ embUp /\ Counting("stop", MaxStops)
    /\ embUp' = FALSE /\ call' = [c \in Callers |-> NoCall]
    /\ \E K \in {{}} \cup {{k} : k \in DOMAIN cache} :
           cache' = [k \in DOMAIN cache \ K |-> cache[k]]
    /\ UNCHANGED <<models, stored, primed>>

StartServer ==
    /\ ~embUp /\ embUp' = TRUE
    /\ UNCHANGED <<models, cache, stored, call, primed, embCount>>

\* The stored vectors of a domain become cache entries.  Every row puts its
\* document vector first, so where the keys coincide the clustering vector
\* stays.
prime_embed_cache ==
    /\ ~embUp
    /\ \E d \in {"on", "off"}, include_clustering \in BOOLEAN :
         LET of == {r \in stored : r.domain = d}
             asDoc == {<<cache_key("Document", r.text), r.embedding>> : r \in of}
             asClu == IF include_clustering
                      THEN {<<cache_key("Clustering", r.text), r.clustering>> : r \in of}
                      ELSE {}
             cluKeys == {e[1] : e \in asClu}
             entries == asClu \cup {e \in asDoc : e[1] \notin cluKeys}
             keys == {e[1] : e \in entries}
         IN  /\ of # {}
             /\ cache' = [k \in DOMAIN cache \cup keys |->
                            IF k \in keys THEN (CHOOSE e \in entries : e[1] = k)[2]
                            ELSE cache[k]]
             /\ primed' = (primed \/ \E e \in entries : e[2] = Zero)
    /\ UNCHANGED <<models, stored, call, embUp, embCount>>

EmbNext ==
    \/ \E c \in Callers :
          \/ StartPush(c) \/ StartQuery(c) \/ Lookup(c) \/ Reply(c) \/ Blip(c)
          \/ Superseded(c) \/ SecondRole(c) \/ Scatter(c) \/ AnswerQuery(c) \/ Return(c)
    \/ StopServer \/ StartServer \/ prime_embed_cache

EmbSpec == EmbInit /\ [][EmbNext]_embVars

-----------------------------------------------------------------------------
(* Properties.                                                             *)

\* Type invariant.
EmbTypeOK ==
    /\ \A c \in Callers : call[c].pc \in {"idle", "lookup", "request", "done"}
    /\ \A k \in DOMAIN cache : Len(k) = 3
    /\ embUp \in BOOLEAN /\ primed \in BOOLEAN

\* Whatever the batches, retries, restarts and cache hits of concurrent
\* requests, a stored row carries the vectors of its own text in the two
\* roles, a search gets the vector of its own question as a query, and zeros
\* stand only for a clustering role that is off: io_embed and the scatter
\* keep texts and vectors aligned, and entries of the shared cache are never
\* taken for those of another text, model or role.  Once prime-embed-cache
\* has put the zeros of a domain without clustering into the cache they may
\* come back in place of a vector, but nothing else may.
OwnVectors ==
    LET ok(v, role, text) == v = VectorOf(role, text) \/ (primed /\ v = Zero)
    IN  /\ \A r \in stored :
              /\ ok(r.embedding, "Document", r.text)
              /\ IF r.domain = "on" THEN ok(r.clustering, "Clustering", r.text)
                 ELSE r.clustering = Zero
        /\ \A c \in Callers : call[c].kind = "query" /\ call[c].got # << >>
              => ok(call[c].got[1], "Query", call[c].docs[1])

\* io_embed_batched completes a push with documents left out where the
\* provider rejects or fails (the documentation says otherwise: "Provider
\* returns non-2xx -> the indexing task fails", "never a degraded success").
\* What it does bound is the loss.  A rejected text costs only its own
\* document: of the documents without a bad token no more are skipped than
\* requests failed for a transient reason, and one of those failures is
\* absorbed by the retry unless a rejected text had the batch split already.
IsolatedFailures ==
    \A c \in Callers : call[c].pc = "done" /\ call[c].kind = "push" =>
        LET docs == 1 .. Len(call[c].docs)
            toxic == {i \in docs : Toxic(call[c].docs[i])}
            lost == Cardinality({i \in docs \ toxic : Skipped(c, i)})
        IN  /\ lost <= call[c].blips
            /\ toxic = {} /\ lost > 0 => lost < call[c].blips

\* An indexed document can be found by every part of it: the ranges of its
\* rows leave out no token, although chunk_text steps over the overlap and the
\* last chunk is cut short; the text of a row has its whole range, although it
\* is sliced at characters; and the range with the prefix of either role is no
\* longer than the window.  The tokens are the chunker's: special tokens
\* and what a slice has beyond its range come on top for the provider.
EveryTokenIndexed ==
    \A r \in stored :
        /\ \A t \in 1 .. Len(r.doc) : \E q \in stored :
              q.domain = r.domain /\ q.doc = r.doc /\ t \in q.range[1] + 1 .. q.range[2]
        /\ \E a \in 0 .. r.range[1], b \in r.range[2] .. Len(r.doc) :
              r.text = SubSeq(r.doc, a + 1, b)
        /\ \A role \in {"Document", "Clustering"} :
              PrefixTokens(RolePrefix(role)) + (r.range[2] - r.range[1]) <= Window
=============================================================================
