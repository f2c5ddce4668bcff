----------------------------- MODULE DomainStore -----------------------------
(***************************************************************************)
(* One domain of the server: the pushes of PushPipeline together with the  *)
(* other requests that touch the same state (POST /assign, GET             *)
(* /last-indexed, DELETE /branch-index, DELETE /domain) and with process   *)
(* crashes.  Every member of Admin is one such request.                    *)
(***************************************************************************)
EXTENDS PushPipeline

CONSTANTS AdminRequests,   \* the requests that Admin may carry
          MaxCrashes       \* bound on the number of crashes

AdminOps == {"assign", "lastIndexed", "deleteBranch", "deleteDomain"}
AdminReqType == [op : AdminOps, branch : Branch, source : Commit, target : Commit]

ASSUME AdminRequestsAssumption == AdminRequests \subseteq AdminReqType
ASSUME AdminNoneAssumption == None \notin AdminRequests
ASSUME MaxCrashesAssumption == MaxCrashes \in Nat

VARIABLES apc, areq,
          aep,      \* epoch in which the request looked up its mutex
          aval,     \* the [commit, version] it is about to write
          crashes

adminLocal == <<areq, aep, aval>>
vars == <<pushVars, apc, adminLocal, crashes>>

APC == {"idle", "assignTag", "assignCache", "insert", "branchLock",
        "branchPurge", "domainGuard", "domainPurge", "done", "dead"}
Indexed == [commit : Commit, version : Nat]
ASSUME NotIndexedAssumption == None \notin Indexed

AdminTypeOK ==
    /\ apc \in [Admin -> APC]
    /\ areq \in [Admin -> AdminRequests \cup {None}]
    /\ \A a \in Admin : apc[a] # "idle" => areq[a] \in AdminRequests
    /\ aep \in [Admin -> Nat]
    /\ aval \in [Admin -> Indexed \cup {None}]
    /\ \A a \in Admin : apc[a] \in {"assignTag", "assignCache", "insert"}
                            => aval[a] \in Indexed
    /\ crashes \in 0 .. MaxCrashes

Init ==
    /\ PushInit
    /\ apc = [a \in Admin |-> "idle"] /\ areq = [a \in Admin |-> None]
    /\ aep = [a \in Admin |-> 0] /\ aval = [a \in Admin |-> None]
    /\ crashes = 0

Admit(a, op) ==
    /\ apc[a] = "idle"
    /\ \E r \in AdminRequests : r.op = op /\ areq' = [areq EXCEPT ![a] = r]

AGoto(a, s) == apc' = [apc EXCEPT ![a] = s]
PushesUnchanged == UNCHANGED <<task, pc, local, stream, crashes>>

-----------------------------------------------------------------------------
(* POST /assign: resolve the source tag, tag the target at its version.    *)

AssignResolve(a) ==
    /\ Admit(a, "assign")
    /\ LET r == areq'[a]
       IN  \/ tags[r.source] = None /\ AGoto(a, "done") /\ UNCHANGED aval
           \/ /\ tags[r.source] # None
              /\ aval' = [aval EXCEPT ![a] =
                    [commit |-> r.target, version |-> tags[r.source].version]]
              /\ AGoto(a, "assignTag")
    /\ PushesUnchanged
    /\ UNCHANGED <<durable, maps, mutexes, aep>>

\* io_tag_commit on the branch of the request: Main opens by the creating path.
AssignTag(a) ==
    LET b == areq[a].branch
        h == IF b = Main THEN EnsureDataset(hist) ELSE hist
        ok == CanTag(h, b, aval[a].commit, aval[a].version)
    IN  /\ apc[a] = "assignTag"
        /\ hist' = h
        /\ \/ /\ ok
              /\ CreateTag(b, aval[a].commit, aval[a].version)
              /\ seen' = Len(h[Main])
              /\ AGoto(a, "assignCache")
           \/ /\ ~ok \/ "io" \in Faults
              /\ AGoto(a, "done")
              /\ seen' = IF seen = 0 THEN Len(h[Main]) ELSE seen
              /\ UNCHANGED <<tags, clock>>
        /\ PushesUnchanged
        /\ UNCHANGED <<pruned, incarn, inflight, lastIdx, epoch, token, cancelled,
                       mutexes, adminLocal>>

AssignCache(a) ==
    /\ apc[a] = "assignCache"
    /\ \/ CacheLastIndexed(areq[a].branch, aval[a].commit, aval[a].version)
       \/ "io" \in Faults /\ UNCHANGED lastIdx  \* the refresh in between failed
    /\ AGoto(a, "done")
    /\ PushesUnchanged
    /\ UNCHANGED <<durable, seen, inflight, epoch, token, cancelled, mutexes,
                   adminLocal>>

-----------------------------------------------------------------------------
(* GET /last-indexed: a hit is served from the cache; a miss derives the   *)
(* answer from the tags and fills the cache if the entry is still absent.  *)

LastIndexedRead(a) ==
    /\ Admit(a, "lastIndexed")
    /\ LET b == areq'[a].branch
       IN  \/ /\ lastIdx[b] # None \/ CommitsOn(tags, b) = {}
              /\ AGoto(a, "done")
              /\ UNCHANGED aval
           \/ /\ lastIdx[b] = None
              /\ \E c \in Commit :
                    /\ IsLastIndexed(tags, b, c)
                    /\ aval' = [aval EXCEPT ![a] =
                                  [commit |-> c, version |-> tags[c].version]]
              /\ AGoto(a, "insert")
    /\ PushesUnchanged
    /\ UNCHANGED <<durable, maps, mutexes, aep>>

\* Mutant of LastIndexedInsert: the derived value overwrites the entry.
LastIndexedOverwrite(a) ==
    /\ apc[a] = "insert"
    /\ lastIdx' = [lastIdx EXCEPT ![areq[a].branch] = aval[a]]
    /\ AGoto(a, "done")
    /\ PushesUnchanged
    /\ UNCHANGED <<durable, seen, inflight, epoch, token, cancelled, mutexes,
                   adminLocal>>

LastIndexedInsert(a) ==
    /\ apc[a] = "insert"
    /\ LET b == areq[a].branch
       IN  lastIdx' = IF lastIdx[b] = None
                      THEN [lastIdx EXCEPT ![b] = aval[a]] ELSE lastIdx
    /\ AGoto(a, "done")
    /\ PushesUnchanged
    /\ UNCHANGED <<durable, seen, inflight, epoch, token, cancelled, mutexes,
                   adminLocal>>

-----------------------------------------------------------------------------
(* DELETE /branch-index: cancel, wait for the pipeline lock, remove the    *)
(* branch's tags, purge its entries of the maps.  The rows stay.           *)

DeleteBranchCancel(a) ==
    /\ Admit(a, "deleteBranch")
    /\ LET b == areq'[a].branch
       IN  /\ cancelled' = cancelled \cup ({token[b]} \ {None})
           /\ token' = [token EXCEPT ![b] = None]
    /\ aep' = [aep EXCEPT ![a] = epoch]
    /\ AGoto(a, "branchLock")
    /\ PushesUnchanged
    /\ UNCHANGED <<durable, seen, inflight, lastIdx, epoch, mutexes, aval>>

\* Mutants of DeleteBranchTags: the tags go without waiting for the lock; the
\* tags of every branch go.
DeleteBranchTagsUnlocked(a) ==
    /\ apc[a] = "branchLock"
    /\ tags' = [c \in Commit |-> IF c \in CommitsOn(tags, areq[a].branch)
                                 THEN None ELSE tags[c]]
    /\ AGoto(a, "branchPurge")
    /\ PushesUnchanged
    /\ UNCHANGED <<hist, pruned, clock, incarn, maps, mutexes, adminLocal>>

DeleteAllTags(a) ==
    LET b == areq[a].branch
    IN  /\ apc[a] = "branchLock"
        /\ LockFree(b, aep[a])
        /\ locks' = locks \cup {<<b, aep[a], a>>}
        /\ tags' = NoTags
        /\ AGoto(a, "branchPurge")
        /\ PushesUnchanged
        /\ UNCHANGED <<hist, pruned, clock, incarn, maps, guards, adminLocal>>

DeleteBranchTags(a) ==
    LET b == areq[a].branch
    IN  /\ apc[a] = "branchLock"
        /\ LockFree(b, aep[a])
        /\ locks' = locks \cup {<<b, aep[a], a>>}
        /\ tags' = [c \in Commit |-> IF c \in CommitsOn(tags, b) THEN None
                                                                 ELSE tags[c]]
        /\ AGoto(a, "branchPurge")
        /\ PushesUnchanged
        /\ UNCHANGED <<hist, pruned, clock, incarn, maps, guards, adminLocal>>

\* The tags are deleted one by one: an error leaves some of them, and the
\* maps as they are.
DeleteBranchFails(a) ==
    LET b == areq[a].branch
    IN  /\ "io" \in Faults
        /\ apc[a] = "branchLock"
        /\ LockFree(b, aep[a])
        /\ \E gone \in SUBSET CommitsOn(tags, b) :
              tags' = [c \in Commit |-> IF c \in gone THEN None ELSE tags[c]]
        /\ AGoto(a, "done")
        /\ PushesUnchanged
        /\ UNCHANGED <<hist, pruned, clock, incarn, maps, mutexes, adminLocal>>

DeleteBranchPurge(a) ==
    LET b == areq[a].branch
    IN  /\ apc[a] = "branchPurge"
        /\ lastIdx' = [lastIdx EXCEPT ![b] = None]
        /\ inflight' = {k \in inflight : k[1] # b}
        /\ locks' = LocksWithout(a)
        /\ AGoto(a, "done")
        /\ PushesUnchanged
        /\ UNCHANGED <<durable, seen, epoch, token, cancelled, guards, adminLocal>>

-----------------------------------------------------------------------------
(* DELETE /domain: under the domain guard, remove the directory, then      *)
(* empty the maps, the mutex maps included.                                *)

DeleteDomainBegin(a) ==
    /\ Admit(a, "deleteDomain")
    /\ aep' = [aep EXCEPT ![a] = epoch]
    /\ AGoto(a, "domainGuard")
    /\ PushesUnchanged
    /\ UNCHANGED <<durable, maps, mutexes, aval>>

DeleteDomainRemove(a) ==
    /\ apc[a] = "domainGuard"
    /\ GuardFree(aep[a])
    /\ guards' = guards \cup {<<aep[a], a>>}
    /\ hist' = NoDataset /\ tags' = NoTags /\ pruned' = {}
    /\ incarn' = incarn + 1
    /\ seen' = 0
    /\ AGoto(a, "domainPurge")
    /\ PushesUnchanged
    /\ UNCHANGED <<clock, inflight, lastIdx, epoch, token, cancelled, locks,
                   adminLocal>>

DeleteDomainPurge(a) ==
    /\ apc[a] = "domainPurge"
    /\ lastIdx' = [b \in Branch |-> None]
    /\ cancelled' = cancelled \cup ({token[b] : b \in Branch} \ {None})
    /\ token' = [b \in Branch |-> None]
    /\ inflight' = {}
    /\ epoch' = epoch + 1
    /\ guards' = GuardsWithout(a)
    /\ AGoto(a, "done")
    /\ PushesUnchanged
    /\ UNCHANGED <<durable, seen, locks, adminLocal>>

-----------------------------------------------------------------------------
(* A request that ends where it stands, dropping its mutex: the client     *)
(* went away, or the directory could not be removed.                       *)

InProgress == APC \ {"idle", "done", "dead"}

AdminDropped(a) ==
    /\ \/ "disconnect" \in Faults /\ apc[a] \in InProgress
       \/ "io" \in Faults /\ apc[a] = "domainGuard" /\ GuardFree(aep[a])
    /\ locks' = LocksWithout(a) /\ guards' = GuardsWithout(a)
    /\ AGoto(a, "done")
    /\ PushesUnchanged
    /\ UNCHANGED <<durable, maps, adminLocal>>

-----------------------------------------------------------------------------
(* A crash loses everything but the dataset.  Requests in progress die;    *)
(* clients may send them again.                                            *)

Crash ==
    /\ crashes < MaxCrashes
    /\ crashes' = crashes + 1
    /\ seen' = 0 /\ inflight' = {} /\ lastIdx' = [b \in Branch |-> None]
    /\ locks' = {} /\ guards' = {}
    /\ token' = [b \in Branch |-> None] /\ cancelled' = {}
    /\ task' = [p \in Push |-> "none"]
    /\ errDue' = {}
    /\ pc' = [p \in Push |-> IF pc[p] = "idle" THEN "idle" ELSE "dead"]
    /\ apc' = [a \in Admin |-> IF apc[a] = "idle" THEN "idle" ELSE "dead"]
    /\ lk' = [p \in Push |-> 0] /\ gd' = [p \in Push |-> 0]
    /\ inc' = [p \in Push |-> 0] /\ wr' = [p \in Push |-> NoWork]
    /\ ver' = [p \in Push |-> 0] /\ res' = [p \in Push |-> "none"]
    /\ UNCHANGED <<durable, epoch, req, body, adminLocal>>

AdminContinue(a) ==
    \/ AssignTag(a) \/ AssignCache(a) \/ LastIndexedInsert(a)
    \/ DeleteBranchTags(a) \/ DeleteBranchPurge(a)
    \/ DeleteDomainRemove(a) \/ DeleteDomainPurge(a)
AdminStart(a) ==
    \/ AssignResolve(a) \/ LastIndexedRead(a)
    \/ DeleteBranchCancel(a) \/ DeleteDomainBegin(a)
AdminFault(a) == DeleteBranchFails(a) \/ AdminDropped(a)

RequestNext ==
    \/ PushNext /\ UNCHANGED <<apc, adminLocal, crashes>>
    \/ \E a \in Admin : AdminStart(a) \/ AdminContinue(a) \/ AdminFault(a)
Next == RequestNext \/ Crash

Spec == Init /\ [][Next]_vars
-----------------------------------------------------------------------------
(* Fairness.  Server tasks are scheduled; the mutexes are FIFO, so a        *)
(* waiter whose mutex is free again and again gets it (strong fairness).   *)
(* Nothing obliges a client to finish its body: where a property needs it, *)
(* ClientsFinish is its hypothesis.                                        *)

Alone(A) == A /\ UNCHANGED <<apc, adminLocal, crashes>>

Fairness ==
    /\ \A p \in Push : /\ WF_vars(Alone(PushStep(p)))
                        /\ SF_vars(Alone(Fork(p)))
                        /\ SF_vars(Alone(Open(p)))
    /\ \A a \in Admin : /\ WF_vars(AdminContinue(a))
                        /\ SF_vars(DeleteBranchTags(a))
                        /\ SF_vars(DeleteDomainRemove(a))
ClientsFinish ==
    \A p \in Push : WF_vars(Alone(BodyClosed(p) \/ BodyMalformed(p) \/ BodyBroken(p)))

FairSpec == Spec /\ Fairness

-----------------------------------------------------------------------------
(* Safety.                                                                 *)

\* Type correctness of the whole domain.
DomainTypeOK == TypeOK /\ AdminTypeOK

\* No commit tag dangles: the version it names is on its branch and cleanup
\* (io_cleanup_aggressive) has not removed it, whatever requests, faults and
\* crashes interleave.
TagsResolve ==
    \A c \in Commit : tags[c] # None =>
        VersionExists(hist, pruned, tags[c].branch, tags[c].version)

\* acquire_pipeline_lock "serialises upsert->tag operations so concurrent
\* pushes don't interleave": one pipeline task per branch, and, by the domain
\* guard, one pipeline between open and tag in the whole domain.
OneWriter ==
    \A p, q \in Push : p # q =>
        /\ pc[p] \in Running /\ pc[q] \in Running
               => req[p].branch # req[q].branch
        /\ ~(pc[p] \in Guarded /\ pc[q] \in Guarded)

\* The same for one generation of the mutex maps: a mutex has one owner, and
\* a running pipeline owns the lock it looked up.
LockDiscipline ==
    /\ \A l, m \in locks : l[1] = m[1] /\ l[2] = m[2] => l = m
    /\ \A g, h \in guards : g[1] = h[1] => g = h
    /\ \A p \in Push :
          /\ pc[p] \in Running => <<req[p].branch, lk[p], p>> \in locks
          /\ pc[p] \in Guarded => <<gd[p], p>> \in guards

\* The 409 state machine: of the pushes of one (branch, commit) exactly one
\* is between reservation and release, and its reservation is in the set.
ReservedOnce ==
    \A p \in Push : pc[p] \in Reserved =>
        /\ Key(p) \in inflight
        /\ \A q \in Push : pc[q] \in Reserved /\ Key(q) = Key(p) => q = p

\* What a push promised to write is what a reader of its commit sees.
Published(p) ==
    LET t == tags[req[p].commit]
    IN  /\ t # None /\ t.branch = req[p].branch
        /\ wr[p].add \X {p} \subseteq Snapshot(hist, t)
        /\ \A r \in Snapshot(hist, t) :
              r[1] \in wr[p].del => r[2] = p /\ r[1] \in wr[p].add

\* A pipeline that is about to report, or has reported, Complete has published
\* its commit, and the lock it still holds keeps DELETE /branch-index out (as
\* long as nobody has deleted the domain, which throws the locks away).
CompleteIsPublished ==
    \A p \in Push :
        incarn = 0 /\ pc[p] \in Closing /\ res[p] = "ok" => Published(p)

\* "a cache HIT can never report a commit OLDER than the latest durable tag"
\* (cache_last_indexed), once the tagging push has updated the cache.
CacheCoherent ==
    \A b \in Branch :
        lastIdx[b] # None
        /\ (\A p \in Push : pc[p] = "cache" => req[p].branch # b)
        /\ (\A a \in Admin : apc[a] = "assignCache" => areq[a].branch # b)
        => /\ IsLastIndexed(tags, b, lastIdx[b].commit)
           /\ tags[lastIdx[b].commit].version = lastIdx[b].version

\* A tag is never moved, the rows its commit shows never change, and only the
\* DELETE of its branch or of the domain removes it.
RemovesTag(a, c) ==
    /\ apc'[a] # apc[a]
    /\ \/ apc[a] = "branchLock" /\ areq[a].branch = tags[c].branch
       \/ apc[a] = "domainGuard"
SnapshotStable ==
    [][\A c \in Commit : tags[c] # None =>
          \/ tags'[c] = tags[c] /\ Snapshot(hist', tags'[c]) = Snapshot(hist, tags[c])
          \/ tags'[c] = None /\ \E a \in Admin : RemovesTag(a, c)]_vars

\* io_tag_commit: "the just-written tag is the newest indexed commit on this
\* branch" - what a restart would derive from disk is what the push reported.
PushedIsLastIndexed ==
    \A p \in Push : pc[p] \in Closing /\ res[p] = "ok" =>
        IsLastIndexed(tags, req[p].branch, req[p].commit)

-----------------------------------------------------------------------------
(* The domain implements CommitIndex: a commit shows what its tag names,   *)
(* and an order is a DELETE that has not removed anything yet.             *)

ShownByTag ==
    [c \in Commit |-> IF tags[c] = None THEN {}
                      ELSE {[branch |-> tags[c].branch, rows |-> Snapshot(hist, tags[c])]}]
DeletesUnderWay ==
    {{areq[a].branch} : a \in {x \in Admin : apc[x] = "branchLock"}}
        \cup {S \in {Branch} : \E a \in Admin : apc[a] = "domainGuard"}

Index == INSTANCE CommitIndex
         WITH shown <- ShownByTag, orders <- DeletesUnderWay, Contents <- SUBSET Row

\* What a commit shows, once it is indexed, changes only by a DELETE of its branch
\* or of the domain; no crash, error, lock timeout, cancellation, /assign, cleanup
\* or later push of any branch alters or removes it.
ImplementsIndex == Index!Spec

-----------------------------------------------------------------------------
(* Liveness.                                                               *)

\* push_stream answers: no client waits for its task id for ever, whether or
\* not the other clients finish their bodies (the 30 s timeout on the lock).
EveryPushAnswered == \A p \in Push : pc[p] \in Waiting ~> pc[p] \notin Waiting

\* A reserved commit does not stay blocked: io_release_commit_reservation is
\* reached on every path, failures and panics included.
ReservationReleased ==
    ClientsFinish => \A k \in Branch \X Commit : k \in inflight ~> k \notin inflight

\* A task whose pipeline was started reaches Complete or Error, so a client
\* that polls /check is told, unless the process crashes under it.
TaskTerminates ==
    ClientsFinish =>
        \A p \in Push : pc[p] \in Running ~> task[p] \in {"Complete", "Error"} \/ pc[p] = "dead"
-----------------------------------------------------------------------------
(* Statements that the repository's comments make and the code does not    *)
(* keep.  Each is checked by a run of its own, which finds the behaviour   *)
(* that breaks it.                                                         *)

\* Registered and not yet at its end: a push that may still write.
Live(p) == pc[p] \in {"lockWait"} \cup (Running \ Closing)

\* push_stream: "The cancel token above already cancelled any previous push
\* pipeline for this branch" - of two live pushes of a branch at least one is
\* cancelled.
PreviousPushCancelled ==
    \A p, q \in Push : p # q /\ Live(p) /\ Live(q) /\ req[p].branch = req[q].branch
        => p \in cancelled \/ q \in cancelled

\* io_batch_delete_append: "re-push via the pipeline lock clears and retries
\* correctly" - no indexed commit shows the rows of a document twice.
OneCopyPerDocument ==
    \A c \in Commit : tags[c] # None =>
        \A r, s \in Snapshot(hist, tags[c]) : r[1] = s[1] => r = s
=============================================================================
