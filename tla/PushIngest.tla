----------------------------- MODULE PushIngest -----------------------------
(***************************************************************************)
(* How the body of one POST /push becomes rows: the reader that cuts the   *)
(* byte stream into lines and sends operations over a bounded channel, the *)
(* pipeline that embeds them in micro-batches and reports progress over a  *)
(* second bounded channel, the count check at end of input, and the write  *)
(* phase.  Everything outside (locks, branch, tag) is in PushPipeline.     *)
(*                                                                         *)
(* The body is a sequence of lines of three units each: the first part of  *)
(* the text, the rest of it, and the newline.  A chunk of the HTTP stream  *)
(* is any non-empty run of units, so a chunk may end inside a line, and in *)
(* a line with a multi-byte character also inside that character.          *)
(***************************************************************************)
EXTENDS Integers, Sequences, FiniteSets

CONSTANTS BodyDoc,      \* document identifiers
          Old,          \* the documents that the branch shows before the push
          Bodies,       \* the bodies that clients may send
          OpCap,        \* capacity of the operation channel
          ProgressCap,  \* capacity of the progress channel
          BatchDocs,    \* MICRO_BATCH_DOCS
          NoDoc         \* the document of a line that names none

DocOps == {"Inserted", "Changed", "Deleted"}
Line == [op : DocOps \cup {"Error", "Abort", "malformed", "blank"},
         doc : BodyDoc \cup {NoDoc}, wide : BOOLEAN]

\* A commit's diff names a document once.
OneOpPerDoc(ls) == \A i, j \in DOMAIN ls :
    ls[i].op \in DocOps /\ ls[j].op \in DocOps /\ ls[i].doc = ls[j].doc => i = j

ASSUME BodiesAssumption ==
    /\ Bodies \subseteq Seq(Line)
    /\ \A ls \in Bodies : OneOpPerDoc(ls) /\
          \A i \in DOMAIN ls : ls[i].op \in DocOps => ls[i].doc \in BodyDoc
ASSUME OldAssumption == Old \subseteq BodyDoc
ASSUME CapAssumption == {OpCap, ProgressCap, BatchDocs} \subseteq Nat \ {0}

VARIABLES
    lines,      \* the body the client means to send
    streaming,  \* stream=true: the response carries progress lines
    declared,   \* expected_docs was given
    got,        \* units of the body that arrived
    parsed,     \* lines the reader has dealt with
    rpc,        \* reader: reading, at the last line, or sender dropped
    chan,       \* the operation channel
    ppc,        \* pipeline
    report,     \* the pipeline waits to send a progress line
    batch,      \* documents of the micro-batch
    docsSeen,   \* total_docs_seen
    dels,       \* all_delete_ids
    rows,       \* all_rows
    skipped,    \* documents whose chunking or embedding failed
    progress,   \* lines in the progress channel
    gone,       \* the client left
    cancelToken,\* a later push cancelled this one
    table,      \* rows of the branch: <<document, row number>>
    result

input == <<lines, streaming, declared>>
reader == <<got, parsed, rpc>>
work == <<batch, docsSeen, dels, rows, skipped>>
ingVars == <<input, reader, chan, ppc, report, work, progress, gone, cancelToken,
          table, result>>

IngInit ==
    /\ lines \in Bodies /\ streaming \in BOOLEAN /\ declared \in BOOLEAN
    /\ got = 0 /\ parsed = 0 /\ rpc = "read" /\ chan = << >>
    /\ ppc = "recv" /\ report = FALSE
    /\ batch = << >> /\ docsSeen = 0 /\ dels = << >> /\ rows = << >> /\ skipped = {}
    /\ progress = 0 /\ gone = FALSE /\ cancelToken = FALSE
    /\ table = Old \X {0} /\ result = "none"

Elems(s) == {s[i] : i \in DOMAIN s}
DocLines(ls) == Cardinality({i \in DOMAIN ls : ls[i].op \in DocOps})

-----------------------------------------------------------------------------
(* The body reader.                                                        *)

\* All complete lines of the buffer have been dealt with.
BufferDrained == parsed = got \div 3

\* The next chunk.  Every chunk is decoded by itself: one that ends inside a
\* character is invalid UTF-8 and ends the input.
ReadChunk ==
    /\ rpc = "read" /\ BufferDrained /\ ~gone
    /\ \E n \in (got + 1) .. (3 * Len(lines)) :
          \/ got' = n /\ UNCHANGED rpc
          \/ /\ n % 3 = 1 /\ lines[(n + 2) \div 3].wide
             /\ rpc' = "closed" /\ UNCHANGED got
    /\ UNCHANGED <<input, parsed, chan, ppc, report, work, progress, gone,
                   cancelToken, table, result>>

\* The stream ends, wherever it is, or reports an error.
ReadEnd ==
    /\ rpc = "read" /\ BufferDrained
    /\ rpc' \in {"last", "closed"}
    /\ gone => rpc' = "closed"
    /\ UNCHANGED <<input, got, parsed, chan, ppc, report, work, progress, gone,
                   cancelToken, table, result>>

\* Mutant of Send: the receiver outlives the pipeline.
SendToStopped(l) == Len(chan) < OpCap /\ chan' = Append(chan, l)

\* op_tx.send: waits for room; fails once the pipeline has dropped the receiver.
Send(l) ==
    \/ ppc # "done" /\ Len(chan) < OpCap /\ chan' = Append(chan, l)
    \/ ppc = "done" /\ UNCHANGED chan

\* One complete line.  A malformed one ends the input; a streaming reader
\* passes it on as an Error operation first.
ReadLine ==
    LET l == lines[parsed + 1]
    IN  /\ rpc = "read" /\ ~BufferDrained
        /\ parsed' = parsed + 1
        /\ \/ l.op = "blank" /\ UNCHANGED <<rpc, chan>>
           \/ /\ l.op = "malformed"
              /\ IF streaming THEN Send([l EXCEPT !.op = "Error"]) ELSE UNCHANGED chan
              /\ rpc' = "closed"
           \/ l.op = "Abort" /\ Send(l) /\ rpc' = "closed"
           \/ /\ l.op \in DocOps \cup {"Error"}
              /\ Send(l)
              /\ rpc' = IF streaming /\ ppc = "done" THEN "closed" ELSE "read"
        /\ UNCHANGED <<input, got, ppc, report, work, progress, gone, cancelToken,
                       table, result>>

\* What is left in the buffer at the end: nothing, part of a line (which does
\* not parse), or a line without its newline.
LastLine ==
    LET whole == got % 3 = 2
        l == lines[parsed + 1]
    IN  /\ rpc = "last"
        /\ \/ whole /\ l.op \in DocOps \cup {"Error", "Abort"} /\ Send(l)
           \/ ~whole /\ UNCHANGED chan
           \/ whole /\ l.op \in {"blank", "malformed"} /\ UNCHANGED chan
        /\ parsed' = IF whole THEN parsed + 1 ELSE parsed
        /\ rpc' = "closed"
        /\ UNCHANGED <<input, got, ppc, report, work, progress, gone, cancelToken,
                       table, result>>

-----------------------------------------------------------------------------
(* The pipeline.                                                           *)

BatchFull(b) == Len(b) >= BatchDocs

Accept(l) ==
    /\ docsSeen' = docsSeen + 1
    /\ \/ batch' = Append(batch, l) /\ UNCHANGED skipped
       \/ skipped' = skipped \cup {l.doc} /\ UNCHANGED batch
    /\ ppc' = IF BatchFull(batch') THEN "flush" ELSE "recv"
    /\ UNCHANGED <<dels, result>>

\* One operation from the channel; chunking its text may fail.
Receive ==
    LET l == Head(chan)
    IN  /\ ppc = "recv" /\ chan # << >> /\ ~cancelToken
        /\ chan' = Tail(chan)
        /\ \/ l.op \in {"Inserted", "Changed"} /\ Accept(l)
           \/ /\ l.op = "Deleted"
              /\ dels' = Append(dels, l.doc)
              /\ UNCHANGED <<ppc, batch, docsSeen, skipped, result>>
           \/ /\ l.op = "Error"
              /\ UNCHANGED <<ppc, batch, docsSeen, dels, skipped, result>>
           \/ /\ l.op = "Abort"
              /\ result' = "err" /\ ppc' = "reply"
              /\ UNCHANGED <<batch, docsSeen, dels, skipped>>
        /\ UNCHANGED <<input, reader, report, rows, progress, gone, cancelToken, table>>

\* flush_microbatch, one document: a failed embedding skips it, and then a
\* Changed document keeps its old rows.
EmbedDoc ==
    LET l == Head(batch)
    IN  /\ ppc \in {"flush", "final"} /\ batch # << >> /\ ~report /\ ~cancelToken
        /\ batch' = Tail(batch)
        /\ \/ /\ skipped' = skipped \cup {l.doc}
              /\ UNCHANGED <<dels, rows, report>>
           \/ /\ dels' = IF l.op = "Changed" THEN Append(dels, l.doc) ELSE dels
              /\ rows' = Append(rows, l.doc)
              /\ report' = streaming
              /\ UNCHANGED skipped
        /\ UNCHANGED <<input, reader, chan, ppc, docsSeen, progress, gone, cancelToken,
                       table, result>>

FlushDone ==
    /\ ppc \in {"flush", "final"} /\ batch = << >> /\ ~report
    /\ ppc' = IF ppc = "flush" THEN "recv" ELSE "write"
    /\ UNCHANGED <<input, reader, chan, report, work, progress, gone, cancelToken,
                   table, result>>

\* progress_tx.send: waits for room, unless the response is gone.
Report ==
    /\ report /\ (progress < ProgressCap \/ gone)
    /\ report' = FALSE
    /\ progress' = IF gone THEN progress ELSE progress + 1
    /\ UNCHANGED <<input, reader, chan, ppc, work, gone, cancelToken, table, result>>

\* Mutant of Received: the count is taken as if the last micro-batch had been
\* flushed.
ReceivedAfterFlush ==
    docsSeen + Len(dels) + Cardinality({i \in DOMAIN batch : batch[i].op = "Changed"})

Received == docsSeen + Len(dels)

\* The channel is closed and empty: count check, then the last flush.
EndOfBody ==
    /\ ppc = "recv" /\ chan = << >> /\ rpc = "closed" /\ ~cancelToken
    /\ \/ /\ declared /\ Received < DocLines(lines)
          /\ result' = "err" /\ ppc' = "reply"
       \/ /\ ~declared \/ Received >= DocLines(lines)
          /\ ppc' = "final" /\ UNCHANGED result
    /\ UNCHANGED <<input, reader, chan, report, work, progress, gone, cancelToken, table>>

\* Mutant of WritePhase: append before delete.
WritePhaseSwapped ==
    /\ ppc = "write"
    /\ table' = {r \in table \cup {<<rows[i], i>> : i \in DOMAIN rows} :
                    r[1] \notin Elems(dels)}
    /\ result' = "ok" /\ ppc' = "reply"
    /\ UNCHANGED <<input, reader, chan, report, work, progress, gone, cancelToken>>

\* One delete of all collected ids, then one append of all rows.
WritePhase ==
    /\ ppc = "write"
    /\ table' = {r \in table : r[1] \notin Elems(dels)}
                   \cup {<<rows[i], i>> : i \in DOMAIN rows}
    /\ result' = "ok" /\ ppc' = "reply"
    /\ UNCHANGED <<input, reader, chan, report, work, progress, gone, cancelToken>>

\* The terminal line of a streaming response; then the pipeline returns and
\* drops its ends of both channels.
Reply ==
    /\ ppc = "reply" /\ (streaming => progress < ProgressCap \/ gone)
    /\ ppc' = "done" /\ chan' = << >>
    /\ progress' = IF streaming /\ ~gone THEN progress + 1 ELSE progress
    /\ UNCHANGED <<input, reader, report, work, gone, cancelToken, table, result>>

\* The token is looked at in the receive loop and before each embedding, not
\* while a progress line waits.  No terminal line is sent.
Superseded ==
    /\ cancelToken /\ ~report
    /\ ppc = "recv" \/ (ppc \in {"flush", "final"} /\ batch # << >>)
    /\ result' = "err" /\ ppc' = "done" /\ chan' = << >>
    /\ UNCHANGED <<input, reader, report, work, progress, gone, cancelToken, table>>

-----------------------------------------------------------------------------
(* The client, and the push that replaces this one.                        *)

ReadProgress ==
    /\ progress > 0 /\ ~gone
    /\ progress' = progress - 1
    /\ UNCHANGED <<input, reader, chan, ppc, report, work, gone, cancelToken, table, result>>

\* Without streaming the reader is part of the handler and ends with it.
ClientLeaves ==
    /\ ~gone
    /\ gone' = TRUE
    /\ rpc' = IF streaming THEN rpc ELSE "closed"
    /\ UNCHANGED <<input, got, parsed, chan, ppc, report, work, progress,
                   cancelToken, table, result>>

Cancel ==
    /\ ~cancelToken
    /\ cancelToken' = TRUE
    /\ UNCHANGED <<input, reader, chan, ppc, report, work, progress, gone, table, result>>

ReaderTask == ReadLine \/ LastLine
PipelineTask == \/ Receive \/ EmbedDoc \/ FlushDone \/ Report \/ EndOfBody
                \/ WritePhase \/ Reply \/ Superseded
ClientSends == ReadChunk \/ ReadEnd
IngNext == ReaderTask \/ PipelineTask \/ ClientSends \/ ReadProgress \/ ClientLeaves \/ Cancel

\* Reader and pipeline are tasks that the server schedules.
IngSpec == /\ IngInit /\ [][IngNext]_ingVars
           /\ WF_ingVars(ReaderTask) /\ WF_ingVars(PipelineTask)

\* A client that sends its body to an end and reads its response meanwhile.
ClientWorks == WF_ingVars(ClientSends) /\ WF_ingVars(ReadProgress)

-----------------------------------------------------------------------------
Arrived == SubSeq(lines, 1, parsed)

\* The operation on a document that arrived, unless the document was skipped.
Applied(d) == {l.op : l \in {m \in Elems(Arrived) :
                                m.op \in DocOps /\ m.doc = d /\ d \notin skipped}}

\* Whatever the chunks, the micro-batches and the skipped documents, a push
\* that succeeds leaves exactly the rows its operations call for: Changed
\* replaces, Deleted removes (also beside inserts: "Running the delete
\* unconditionally is required"), a skipped document keeps what it had.
PushMatchesOps ==
    result = "ok" => \A d \in BodyDoc :
        /\ <<d, 0>> \in table <=> d \in Old /\ Applied(d) \cap {"Changed", "Deleted"} = {}
        /\ Cardinality({r \in table : r[1] = d /\ r[2] # 0})
              = Cardinality(Applied(d) \cap {"Inserted", "Changed"})

\* The body arrived to its last line and every line of it can be used.
BodyComplete ==
    /\ parsed = Len(lines)
    /\ \A i \in DOMAIN lines : lines[i].op \notin {"Abort", "malformed"}

\* The count check refuses no complete push, however many of its documents could
\* not be chunked or embedded; and ("tagging it would mark partial data as indexed
\* ... a permanent skip") a push that declared its count and delivered less than
\* one micro-batch succeeds only if nothing is missing.
CountChecked ==
    /\ BodyComplete /\ ~cancelToken => result # "err"
    /\ result = "ok" /\ declared /\ docsSeen < BatchDocs => DocLines(Arrived) = DocLines(lines)

\* Full channels do not lock reader, pipeline and client up: a push whose
\* client sends and reads to the end is decided and its reader stops, also if it
\* is cancelled, if the body breaks off or a line does not parse.
PushEnds == ClientWorks => <>(ppc = "done" /\ rpc = "closed")

\* "If the producer declared a document count and the stream delivered fewer
\* document ops, the body was truncated ... Reject the commit": the statement
\* for every size, which the code does not keep (Changed documents of an
\* earlier micro-batch are counted twice, in docsSeen and in dels).
TruncatedRejected ==
    result = "ok" /\ declared => DocLines(Arrived) = DocLines(lines)
=============================================================================
