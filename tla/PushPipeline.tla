---------------------------- MODULE PushPipeline ----------------------------
(***************************************************************************)
(* The life of a POST /push in one domain: admission (the 409 check), the  *)
(* fork of a new branch, the hand-over between successive pushes of a      *)
(* branch (cancellation token and pipeline lock), the indexing pipeline,   *)
(* and the body reader that feeds it.                                      *)
(*                                                                         *)
(* The server runs every push as a task; a step of this module is the code *)
(* between two points where another task can observe or change the shared  *)
(* state.  The mutexes live in maps that DELETE /domain empties, so a      *)
(* mutex is identified by its branch and by the "epoch" (the generation of *)
(* the maps) in which it was looked up.                                    *)
(*                                                                         *)
(* The documents of a request fit in one micro-batch (fewer than           *)
(* MICRO_BATCH_DOCS), so they are embedded by one flush at end of input.   *)
(***************************************************************************)
EXTENDS LanceDataset

CONSTANTS Admin,      \* the other requests of the domain (module DomainStore)
          Requests,   \* the push requests that clients may send, and re-send
          Faults      \* what may go wrong: a subset of FaultKinds

FaultKinds == {"io", "embed", "panic", "disconnect", "body"}

ReqType == [commit : Commit, branch : Branch, parent : Commit \cup {None},
            ins : SUBSET Doc, chg : SUBSET Doc, del : SUBSET Doc,
            expected : BOOLEAN]

ASSUME RequestsAssumption == Requests \subseteq ReqType
ASSUME ReqNoneAssumption == None \notin Requests
ASSUME FaultsAssumption == Faults \subseteq FaultKinds
ASSUME ActorAssumption == Push \cap Admin = {}

VARIABLES
    \* ---- durable: the Lance dataset of the domain
    hist,       \* branch -> history of versions
    tags,       \* commit -> tag
    pruned,     \* versions of Main that cleanup removed
    clock,      \* number of tags ever created (orders created_at)
    incarn,     \* how many times the dataset directory was removed
    \* ---- volatile: the maps of LanceStore
    seen,       \* version of Main that the cached handle shows, 0 if none
    inflight,   \* reserved (branch, commit) pairs
    lastIdx,    \* cache of last-indexed, per branch
    epoch,      \* generation of pipeline_locks and domain_guards
    locks,      \* held pipeline locks: <<branch, epoch, owner>>
    guards,     \* held domain guards: <<epoch, owner>>
    token,      \* registered cancellation token, per branch
    cancelled,  \* pushes whose token was cancelled
    task,       \* task table, one entry per push
    \* ---- the pushes
    pc, req, lk, gd, inc, wr, ver, res, body, errDue

durable == <<hist, tags, pruned, clock, incarn>>
maps == <<seen, inflight, lastIdx, epoch, token, cancelled>>
mutexes == <<locks, guards>>
stream == <<body, errDue>>
frame == <<lk, gd, inc, wr, ver, res>>
local == <<req, frame>>
pushVars == <<durable, maps, mutexes, task, pc, local, stream>>

Actor == Push \cup Admin

\* Waiting for, or about to wait for, something: the handler still runs.
Waiting == {"fork", "forkFailed", "register", "lockWait", "timedOut"}
\* The spawned pipeline task, which owns the pipeline lock.
Guarded == {"recv", "delete", "append", "index", "noop", "tag", "cache"}
Closing == {"unregister", "record", "release"}
Running == {"guardWait"} \cup Guarded \cup Closing
\* Between the 409 check and the release of the reservation.
Reserved == {"fork", "forkFailed", "register", "lockWait", "panicked"}
               \cup Running
Ended == {"conflict", "notFound", "unavailable", "done", "gone", "dead"}
PC == {"idle"} \cup Waiting \cup Running \cup {"panicked"} \cup Ended

NoWork == [del |-> {}, add |-> {}]

StoreTypeOK ==
    /\ hist \in Histories
    /\ tags \in Tags
    /\ pruned \in SUBSET Nat
    /\ clock \in Nat /\ incarn \in Nat

MapsTypeOK ==
    /\ seen \in Nat /\ epoch \in Nat
    /\ inflight \in SUBSET (Branch \X Commit)
    /\ lastIdx \in [Branch -> [commit : Commit, version : Nat] \cup {None}]
    /\ locks \in SUBSET (Branch \X Nat \X Actor)
    /\ guards \in SUBSET (Nat \X Actor)
    /\ token \in [Branch -> Push \cup {None}]
    /\ cancelled \in SUBSET Push
    /\ task \in [Push -> {"none", "Pending", "Complete", "Error"}]

ControlTypeOK ==
    /\ pc \in [Push -> PC]
    /\ req \in [Push -> Requests \cup {None}]
    /\ \A p \in Push : pc[p] # "idle" => req[p] \in Requests
    /\ \A p \in Push : pc[p] = "fork" => req[p].parent \in Commit

FrameTypeOK ==
    /\ lk \in [Push -> Nat] /\ gd \in [Push -> Nat] /\ inc \in [Push -> Nat]
    /\ wr \in [Push -> [del : SUBSET Doc, add : SUBSET Doc]]
    /\ ver \in [Push -> Nat]
    /\ res \in [Push -> {"none", "ok", "err"}]
    /\ body \in [Push -> {"open", "full", "partial", "abort"}]
    /\ errDue \in SUBSET Push

TypeOK == StoreTypeOK /\ MapsTypeOK /\ ControlTypeOK /\ FrameTypeOK

PushInit ==
    /\ hist = NoDataset /\ tags = NoTags /\ pruned = {}
    /\ clock = 0 /\ incarn = 0
    /\ seen = 0 /\ inflight = {} /\ lastIdx = [b \in Branch |-> None]
    /\ epoch = 0 /\ locks = {} /\ guards = {}
    /\ token = [b \in Branch |-> None] /\ cancelled = {}
    /\ task = [p \in Push |-> "none"]
    /\ pc = [p \in Push |-> "idle"] /\ req = [p \in Push |-> None]
    /\ lk = [p \in Push |-> 0] /\ gd = [p \in Push |-> 0]
    /\ inc = [p \in Push |-> 0] /\ wr = [p \in Push |-> NoWork]
    /\ ver = [p \in Push |-> 0] /\ res = [p \in Push |-> "none"]
    /\ body = [p \in Push |-> "open"] /\ errDue = {}

-----------------------------------------------------------------------------
(* Shared operations of LanceStore.                                        *)

Key(p) == <<req[p].branch, req[p].commit>>

\* Mutants of LockFree and GuardFree: the mutex is looked up but not awaited.
LockNotAwaited(b, e) == TRUE
GuardNotAwaited(e) == TRUE

LockFree(b, e) == \A l \in locks : <<l[1], l[2]>> # <<b, e>>
GuardFree(e) == \A g \in guards : g[1] # e
LocksWithout(o) == {l \in locks : l[3] # o}
GuardsWithout(o) == {g \in guards : g[2] # o}

Goto(p, s) == pc' = [pc EXCEPT ![p] = s]

\* The handler or the task ends: its local variables go out of scope.
DropFrame(p) ==
    /\ lk' = [lk EXCEPT ![p] = 0] /\ gd' = [gd EXCEPT ![p] = 0]
    /\ inc' = [inc EXCEPT ![p] = 0] /\ wr' = [wr EXCEPT ![p] = NoWork]
    /\ ver' = [ver EXCEPT ![p] = 0] /\ res' = [res EXCEPT ![p] = "none"]

\* Mutant of ReleaseReservation: the branch is not part of the key.
ReleaseCommit(p) == inflight' = {k \in inflight : k[2] # req[p].commit}

\* io_release_commit_reservation: idempotent.
ReleaseReservation(p) == inflight' = inflight \ {Key(p)}

\* cancel_previous_pipeline_and_register: whatever token the branch has is
\* cancelled and replaced.
CancelPreviousAndRegister(p) ==
    LET b == req[p].branch
    IN  /\ cancelled' = cancelled \cup ({token[b]} \ {None})
        /\ token' = [token EXCEPT ![b] = p]

\* unregister_pipeline_cancel_token: whatever token the branch has is removed.
UnregisterToken(p) == token' = [token EXCEPT ![req[p].branch] = None]

\* io_tag_commit, durable half: fails if the commit has a tag already or the
\* version is not on the branch.
CanTag(h, b, c, v) == tags[c] = None /\ VersionExists(h, pruned, b, v)
CreateTag(b, c, v) ==
    /\ tags' = [tags EXCEPT ![c] = [branch |-> b, version |-> v, at |-> clock]]
    /\ clock' = clock + 1

\* cache_last_indexed: overwrites the entry of the branch.
CacheLastIndexed(b, c, v) ==
    lastIdx' = [lastIdx EXCEPT ![b] = [commit |-> c, version |-> v]]

-----------------------------------------------------------------------------
(* The handler: push_stream up to the spawn.                               *)

\* io_try_reserve_commit, one critical section under reservation_lock.
Reserve(p, r) ==
    /\ pc[p] = "idle"
    /\ req' = [req EXCEPT ![p] = r]
    /\ \/ /\ <<r.branch, r.commit>> \in inflight \/ tags[r.commit] # None
          /\ Goto(p, "conflict")
          /\ UNCHANGED <<inflight, lk>>
       \/ /\ <<r.branch, r.commit>> \notin inflight /\ tags[r.commit] = None
          /\ inflight' = inflight \cup {<<r.branch, r.commit>>}
          /\ lk' = [lk EXCEPT ![p] = epoch]
          /\ Goto(p, IF r.branch # Main /\ r.parent # None THEN "fork"
                                                           ELSE "register")
    /\ UNCHANGED <<durable, seen, lastIdx, epoch, token, cancelled, mutexes,
                   task, gd, inc, wr, ver, res, stream>>

\* io_ensure_branch_forked: the whole check-and-create runs under the
\* pipeline lock of the branch, which it waits for without a timeout.
Fork(p) ==
    LET b == req[p].branch
        parent == tags[req[p].parent]
    IN  /\ pc[p] = "fork"
        /\ LockFree(b, lk[p])
        /\ \/ BranchExists(hist, b) /\ Goto(p, "register") /\ UNCHANGED hist
           \/ /\ ~BranchExists(hist, b) /\ parent # None
              /\ hist' = ForkAt(hist, b, parent.branch, parent.version)
              /\ Goto(p, "register")
           \/ /\ ~BranchExists(hist, b) /\ parent = None /\ DatasetExists(hist)
              /\ \E v \in {seen, Len(hist[Main])} \ {0} :
                    hist' = ForkAt(hist, b, Main, v)
              /\ Goto(p, "register")
           \/ /\ ~BranchExists(hist, b)
              /\ ~DatasetExists(hist) \/ "io" \in Faults
              /\ Goto(p, "forkFailed")
              /\ UNCHANGED hist
        /\ UNCHANGED <<tags, pruned, clock, incarn, maps, mutexes, task, local,
                       stream>>

\* Mutant of ForkFailed: the early return forgets the reservation.
ForkFailedKeepsReservation(p) ==
    /\ pc[p] = "forkFailed"
    /\ Goto(p, "notFound")
    /\ DropFrame(p)
    /\ UNCHANGED <<durable, maps, mutexes, task, req, stream>>

ForkFailed(p) ==
    /\ pc[p] = "forkFailed"
    /\ ReleaseReservation(p)
    /\ Goto(p, "notFound")
    /\ DropFrame(p)
    /\ UNCHANGED <<durable, seen, lastIdx, epoch, token, cancelled, mutexes,
                   task, req, stream>>

\* The task becomes visible as Pending, the previous push of the branch is
\* cancelled, and the pipeline lock is looked up.
Register(p) ==
    /\ pc[p] = "register"
    /\ task' = [task EXCEPT ![p] = "Pending"]
    /\ CancelPreviousAndRegister(p)
    /\ lk' = [lk EXCEPT ![p] = epoch]
    /\ Goto(p, "lockWait")
    /\ UNCHANGED <<durable, seen, inflight, lastIdx, epoch, mutexes, req, gd,
                   inc, wr, ver, res, stream>>

\* The lock is acquired and moves into the spawned task, whose first act is
\* to look up the domain guard.
AcquireLock(p) ==
    /\ pc[p] = "lockWait"
    /\ LockFree(req[p].branch, lk[p])
    /\ locks' = locks \cup {<<req[p].branch, lk[p], p>>}
    /\ gd' = [gd EXCEPT ![p] = epoch]
    /\ Goto(p, "guardWait")
    /\ UNCHANGED <<durable, maps, guards, task, req, lk, inc, wr, ver, res,
                   stream>>

\* Mutant of LockTimeout: the lock is awaited without a timeout.
LockNeverTimesOut(p) == FALSE

\* Thirty seconds without the lock: release, then register the token again.
LockTimeout(p) ==
    /\ pc[p] = "lockWait"
    /\ ~LockFree(req[p].branch, lk[p])
    /\ ReleaseReservation(p)
    /\ Goto(p, "timedOut")
    /\ UNCHANGED <<durable, seen, lastIdx, epoch, token, cancelled, mutexes,
                   task, local, stream>>

TimeoutReregister(p) ==
    /\ pc[p] = "timedOut"
    /\ CancelPreviousAndRegister(p)
    /\ Goto(p, "unavailable")
    /\ DropFrame(p)
    /\ UNCHANGED <<durable, seen, inflight, lastIdx, epoch, mutexes, task,
                   req, stream>>

\* The client goes away while its handler waits: the handler's future is
\* dropped where it stands.
Disconnect(p) ==
    /\ "disconnect" \in Faults
    /\ pc[p] \in Waiting
    /\ Goto(p, "gone")
    /\ DropFrame(p)
    /\ UNCHANGED <<durable, maps, mutexes, task, req, stream>>
-----------------------------------------------------------------------------
(* The body reader of handle_push, which runs beside the pipeline.         *)

EndBody(p, how) ==
    /\ pc[p] \in Running \ Closing
    /\ body[p] = "open"
    /\ body' = [body EXCEPT ![p] = how]

\* The client sent everything, or an explicit Abort operation.
BodyClosed(p) ==
    /\ EndBody(p, "full") \/ ("body" \in Faults /\ EndBody(p, "abort"))
    /\ UNCHANGED <<durable, maps, mutexes, task, pc, local, errDue>>

\* A line that does not parse (or, when streaming, invalid UTF-8): the task is
\* set to Error, then the channel is dropped.
BodyMalformed(p) ==
    /\ "body" \in Faults
    /\ EndBody(p, "partial")
    /\ task' = [task EXCEPT ![p] = "Error"]
    /\ UNCHANGED <<durable, maps, mutexes, pc, local, errDue>>

\* The stream breaks: the channel is dropped first.  The error is recorded
\* later, or never (streaming mode, or the client left).
BodyBroken(p) ==
    /\ "body" \in Faults
    /\ EndBody(p, "partial")
    /\ errDue' \in {errDue, errDue \cup {p}}
    /\ UNCHANGED <<durable, maps, mutexes, task, pc, local>>

RecordBodyError(p) ==
    /\ p \in errDue
    /\ errDue' = errDue \ {p}
    /\ task' = [task EXCEPT ![p] = "Error"]
    /\ UNCHANGED <<durable, maps, mutexes, pc, local, body>>

-----------------------------------------------------------------------------
(* The pipeline: io_run_index_pipeline_stream and the end of its task.     *)

\* Every error return drops the domain guard; the lock stays with the task.
Fail(p) ==
    /\ res' = [res EXCEPT ![p] = "err"]
    /\ guards' = GuardsWithout(p)
    /\ Goto(p, "unregister")

\* Guard, dataset (created if absent), write handle, first cancellation check.
Open(p) ==
    LET h == EnsureDataset(hist)
    IN  /\ pc[p] = "guardWait"
        /\ GuardFree(gd[p])
        /\ hist' = h
        /\ seen' = IF seen = 0 THEN Len(h[Main]) ELSE seen
        /\ \/ /\ BranchExists(h, req[p].branch) /\ p \notin cancelled
              /\ guards' = guards \cup {<<gd[p], p>>}
              /\ inc' = [inc EXCEPT ![p] = incarn]
              /\ Goto(p, "recv")
              /\ UNCHANGED res
           \/ /\ ~BranchExists(h, req[p].branch) \/ p \in cancelled
              /\ Fail(p)
              /\ UNCHANGED inc
        /\ UNCHANGED <<tags, pruned, clock, incarn, inflight, lastIdx, epoch,
                       locks, token, cancelled, task, req, lk, gd, wr, ver,
                       stream>>

\* The first write the accumulated work calls for.
NextWrite(w) == CASE w.del # {} -> "delete"
                  [] w.del = {} /\ w.add # {} -> "append"
                  [] OTHER -> "noop"

\* The channel is closed: count check, last flush (which embeds, and looks at
\* the token only if there is something to embed), then the write phase.
EndOfInput(p) ==
    LET r == req[p]
    IN  /\ pc[p] = "recv"
        /\ body[p] \in {"full", "partial"}
        /\ \E ins \in SUBSET r.ins, chg \in SUBSET r.chg, del \in SUBSET r.del :
            LET all == <<ins, chg, del>> = <<r.ins, r.chg, r.del>>
                docs == ins \cup chg
            IN  /\ body[p] = "full" => all
                /\ \/ /\ (r.expected /\ ~all) \/ (docs # {} /\ p \in cancelled)
                      /\ Fail(p)
                      /\ UNCHANGED wr
                   \/ /\ r.expected => all
                      /\ docs # {} => p \notin cancelled
                      /\ \E ok \in SUBSET docs :
                            /\ "embed" \in Faults \/ ok = docs
                            /\ wr' = [wr EXCEPT ![p] =
                                  [del |-> del \cup (chg \cap ok), add |-> ok]]
                      /\ Goto(p, NextWrite(wr'[p]))
                      /\ UNCHANGED <<res, guards>>
        /\ UNCHANGED <<durable, maps, locks, task, req, lk, gd, inc, ver, stream>>

\* The select of the receive loop sees the token, or reads an Abort.
StopReceiving(p) ==
    /\ pc[p] = "recv"
    /\ p \in cancelled \/ body[p] = "abort"
    /\ Fail(p)
    /\ UNCHANGED <<durable, maps, locks, task, req, lk, gd, inc, wr, ver, stream>>

Write(p, rows) ==
    /\ inc[p] = incarn
    /\ hist' = AddVersion(hist, req[p].branch, rows)
    /\ UNCHANGED <<tags, pruned, clock, incarn, inflight, lastIdx, epoch, token,
                   cancelled, mutexes, task, req, lk, gd, inc, wr, res, stream>>

\* One delete, one append; the cached handle is refreshed after the last one.
Delete(p) ==
    /\ pc[p] = "delete"
    /\ Write(p, WithoutDocs(HeadRows(hist, req[p].branch), wr[p].del))
    /\ \/ wr[p].add # {} /\ Goto(p, "append") /\ UNCHANGED seen
       \/ wr[p].add = {} /\ Goto(p, "index") /\ seen' = Len(hist'[Main])
    /\ UNCHANGED ver

AppendRows(p) ==
    /\ pc[p] = "append"
    /\ Write(p, WithDocs(HeadRows(hist, req[p].branch), wr[p].add, p))
    /\ seen' = Len(hist'[Main])
    /\ Goto(p, "index")
    /\ UNCHANGED ver

\* FTS (and at boundaries vector) indices: a new version with the same rows,
\* the one the commit is tagged at.
BuildIndex(p) ==
    /\ pc[p] = "index"
    /\ Write(p, HeadRows(hist, req[p].branch))
    /\ ver' = [ver EXCEPT ![p] = Len(hist'[req[p].branch])]
    /\ seen' = Len(hist'[Main])
    /\ Goto(p, "tag")

\* A commit without work is tagged at the head of its branch.
Noop(p) ==
    LET h == EnsureDataset(hist)
        b == req[p].branch
    IN  /\ pc[p] = "noop"
        /\ hist' = h
        /\ seen' = Len(h[Main])
        /\ \/ /\ BranchExists(h, b)
              /\ ver' = [ver EXCEPT ![p] = Len(h[b])]
              /\ Goto(p, "tag")
              /\ UNCHANGED <<res, guards>>
           \/ /\ ~BranchExists(h, b)
              /\ Fail(p)
              /\ UNCHANGED ver
        /\ UNCHANGED <<tags, pruned, clock, incarn, inflight, lastIdx, epoch,
                       token, cancelled, locks, task, req, lk, gd, inc, wr,
                       stream>>

\* io_tag_commit.  On Main it opens the dataset by the creating path.
TagCommit(p) ==
    LET b == req[p].branch
        h == IF b = Main THEN EnsureDataset(hist) ELSE hist
    IN  /\ pc[p] = "tag"
        /\ hist' = h
        /\ \/ /\ CanTag(h, b, req[p].commit, ver[p])
              /\ CreateTag(b, req[p].commit, ver[p])
              /\ seen' = Len(h[Main])
              /\ Goto(p, "cache")
              /\ UNCHANGED <<res, guards>>
           \/ /\ ~CanTag(h, b, req[p].commit, ver[p])
              /\ Fail(p)
              /\ UNCHANGED <<tags, clock, seen>>
        /\ UNCHANGED <<pruned, incarn, inflight, lastIdx, epoch, token, cancelled,
                       locks, task, req, lk, gd, inc, wr, ver, stream>>

\* A storage error, or a write handle whose directory was removed.  At "cache"
\* it is the refresh inside io_tag_commit that fails: the tag is written.
WriteFails(p) ==
    /\ pc[p] \in Guarded \ {"recv"}
    /\ "io" \in Faults \/ (inc[p] # incarn /\ pc[p] \in {"delete", "append", "index"})
    /\ Fail(p)
    /\ UNCHANGED <<durable, maps, locks, task, req, lk, gd, inc, wr, ver, stream>>

\* Cache the new last-indexed; after real work prune untagged versions (an
\* error there is only logged).  The pipeline returns and drops the guard.
CacheAndClean(p) ==
    /\ pc[p] = "cache"
    /\ CacheLastIndexed(req[p].branch, req[p].commit, ver[p])
    /\ \/ wr[p] # NoWork /\ pruned' = pruned \cup Prunable(hist, tags)
       \/ (wr[p] = NoWork \/ "io" \in Faults) /\ UNCHANGED pruned
    /\ res' = [res EXCEPT ![p] = "ok"]
    /\ guards' = GuardsWithout(p)
    /\ Goto(p, "unregister")
    /\ UNCHANGED <<hist, tags, clock, incarn, seen, inflight, epoch, token,
                   cancelled, locks, task, req, lk, gd, inc, wr, ver, stream>>

Unregister(p) ==
    /\ pc[p] = "unregister"
    /\ UnregisterToken(p)
    /\ Goto(p, "record")
    /\ UNCHANGED <<durable, seen, inflight, lastIdx, epoch, cancelled, mutexes,
                   task, local, stream>>

\* Mutants of RecordResult: the outcome is stored as it is; a failed or
\* superseded pipeline leaves its task alone.
RecordRawResult(p) ==
    /\ pc[p] = "record"
    /\ task' = [task EXCEPT ![p] = res[p]]
    /\ Goto(p, "release")
    /\ UNCHANGED <<durable, maps, mutexes, local, stream>>
RecordSuccessOnly(p) ==
    /\ pc[p] = "record"
    /\ task' = [task EXCEPT ![p] = IF res[p] = "ok" THEN "Complete" ELSE @]
    /\ Goto(p, "release")
    /\ UNCHANGED <<durable, maps, mutexes, local, stream>>

RecordResult(p) ==
    /\ pc[p] = "record"
    /\ task' = [task EXCEPT ![p] = IF res[p] = "ok" THEN "Complete" ELSE "Error"]
    /\ Goto(p, "release")
    /\ UNCHANGED <<durable, maps, mutexes, local, stream>>

Release(p) ==
    /\ pc[p] = "release"
    /\ ReleaseReservation(p)
    /\ locks' = LocksWithout(p)
    /\ Goto(p, "done")
    /\ DropFrame(p)
    /\ UNCHANGED <<durable, seen, lastIdx, epoch, token, cancelled, guards, task,
                   req, stream>>

\* A panic unwinds the task, dropping lock and guard; a monitor then records
\* the error, releases the reservation and unregisters the token.
Panic(p) ==
    /\ "panic" \in Faults
    /\ pc[p] \in Running \ Closing
    /\ locks' = LocksWithout(p)
    /\ guards' = GuardsWithout(p)
    /\ Goto(p, "panicked")
    /\ UNCHANGED <<durable, maps, task, local, stream>>

Monitor(p) ==
    /\ pc[p] = "panicked"
    /\ task' = [task EXCEPT ![p] = "Error"]
    /\ ReleaseReservation(p)
    /\ UnregisterToken(p)
    /\ Goto(p, "done")
    /\ DropFrame(p)
    /\ UNCHANGED <<durable, seen, lastIdx, epoch, cancelled, mutexes, req,
                   stream>>

\* Steps the server takes by itself, steps the client decides, and faults.
PushStep(p) ==
    \/ Fork(p) \/ ForkFailed(p) \/ Register(p)
    \/ AcquireLock(p) \/ LockTimeout(p) \/ TimeoutReregister(p)
    \/ Open(p) \/ EndOfInput(p) \/ StopReceiving(p)
    \/ Delete(p) \/ AppendRows(p) \/ BuildIndex(p) \/ Noop(p)
    \/ TagCommit(p) \/ WriteFails(p) \/ CacheAndClean(p)
    \/ Unregister(p) \/ RecordResult(p) \/ Release(p)
    \/ Monitor(p) \/ RecordBodyError(p)
ClientStep(p) ==
    \/ \E r \in Requests : Reserve(p, r)
    \/ BodyClosed(p) \/ BodyMalformed(p) \/ BodyBroken(p)
PushFault(p) == Disconnect(p) \/ Panic(p)
PushNext == \E p \in Push : PushStep(p) \/ ClientStep(p) \/ PushFault(p)
=============================================================================
