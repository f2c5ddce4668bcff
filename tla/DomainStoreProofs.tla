-------------------------- MODULE DomainStoreProofs --------------------------
(***************************************************************************)
(* Theorems about DomainStore, for every set of branches, commits,         *)
(* documents, pushes and requests, every choice of faults and any bound on *)
(* crashes.                                                                *)
(*                                                                         *)
(* The store: StoreInv is inductive.  Its core is that histories only grow *)
(* (LanceDatasetProofs) while the directory exists, so that what a tag, a  *)
(* cached handle or a write handle names stays there.                      *)
(*                                                                         *)
(* The locks: LockDiscipline is inductive, and mutual exclusion follows.   *)
(*                                                                         *)
(* Publication: a push that reports Complete has published its commit      *)
(* (CompleteIsPublished), is the last indexed one of its branch            *)
(* (PushedIsLastIndexed), and the cache of last-indexed says so            *)
(* (CacheCoherent).  From open to tag a push holds the domain guard, so    *)
(* the head of its branch is what it wrote last (HeadKept); from the tag   *)
(* on, its pipeline lock keeps DELETE /branch-index of its branch out, so  *)
(* the tag stays (TagKept).  Both hold until the domain is deleted, which  *)
(* starts new mutexes.                                                     *)
(***************************************************************************)
EXTENDS DomainStore, LanceDatasetProofs

USE DEF Waiting, Guarded, Closing, Running, Reserved, Ended, PC, APC
USE DEF durable, maps, mutexes, stream, frame, local, adminLocal, Goto, AGoto

\* A write handle opened in this incarnation names a branch that exists.
HandlesValid ==
    \A p \in Push :
        /\ inc[p] <= incarn
        /\ pc[p] \in Guarded /\ inc[p] = incarn => BranchExists(hist, req[p].branch)

\* The inductive invariant of the store.
StoreInv ==
    /\ DomainTypeOK
    /\ TagsResolve
    /\ Rooted(hist)
    /\ seen <= Len(hist[Main])
    /\ HandlesValid

\* Any step of one push.
PushAction(p) == PushStep(p) \/ ClientStep(p) \/ PushFault(p)
\* Any step of one of the other requests.
AdminAction(a) == AdminStart(a) \/ AdminContinue(a) \/ AdminFault(a)

\* The types of a request's fields.
LEMMA RequestFields ==
    ASSUME NEW r \in Requests
    PROVE  /\ r.commit \in Commit /\ r.branch \in Branch
           /\ r.parent \in Commit \cup {None}
           /\ r.ins \subseteq Doc /\ r.chg \subseteq Doc /\ r.del \subseteq Doc
           /\ r.expected \in BOOLEAN
  BY RequestsAssumption DEF ReqType

\* The types of the fields of the other requests.
LEMMA AdminRequestFields ==
    ASSUME NEW r \in AdminRequests
    PROVE  /\ r.op \in AdminOps /\ r.branch \in Branch
           /\ r.source \in Commit /\ r.target \in Commit
  BY AdminRequestsAssumption DEF AdminReqType

\* A push leaves the histories well-formed, and only appends to them.
LEMMA PushHistory ==
    ASSUME StoreInv, NEW p \in Push, PushAction(p)
    PROVE  hist' \in Histories /\ Grows(hist, hist') /\ Rooted(hist')
  <1> USE MainAssumption DEF StoreInv, DomainTypeOK, TypeOK
  <1> DEFINE b == req[p].branch
  <1>0. /\ hist \in Histories /\ Rooted(hist) /\ Len(hist[Main]) \in Nat
        /\ pc[p] # "idle" => req[p] \in Requests /\ b \in Branch
        /\ tags \in Tags
    BY RequestFields, ExistsLen DEF StoreTypeOK, ControlTypeOK
  <1>1. CASE UNCHANGED hist
    BY <1>0, <1>1, ExistsLen DEF Grows, Rooted
  <1>2. CASE Fork(p)
    <2>1. pc[p] = "fork" /\ b \in Branch /\ req[p].parent \in Commit
      BY <1>0, <1>2 DEF Fork, ControlTypeOK
    <2> DEFINE t == tags[req[p].parent]
    <2>2. CASE ~BranchExists(hist, b) /\ t # None
                 /\ hist' = ForkAt(hist, b, t.branch, t.version)
      <3>1. t \in Tag /\ t.branch \in Branch
        BY <1>0, <2>1, <2>2 DEF Tags, Tag
      <3>2. t.version \in 1 .. Len(hist[t.branch])
        BY <2>1, <2>2 DEF TagsResolve, VersionExists
      <3> QED BY <1>0, <2>1, <2>2, <3>1, <3>2, ForkAtGrows
    <2>3. ASSUME ~BranchExists(hist, b),
                 NEW v \in {seen, Len(hist[Main])} \ {0},
                 hist' = ForkAt(hist, b, Main, v)
          PROVE  hist' \in Histories /\ Grows(hist, hist') /\ Rooted(hist')
      <3>1. v \in 1 .. Len(hist[Main])
        BY <1>0 DEF MapsTypeOK
      <3> QED BY <1>0, <2>1, <2>3, <3>1, ForkAtGrows
    <2> QED BY <1>1, <1>2, <2>2, <2>3 DEF Fork
  <1>3. CASE Open(p) \/ Noop(p)
    BY <1>0, <1>3, EnsureDatasetGrows DEF Open, Noop
  <1>4. CASE TagCommit(p)
    BY <1>0, <1>1, <1>4, EnsureDatasetGrows DEF TagCommit
  <1>5. ASSUME NEW rows \in SUBSET Row, Write(p, rows), pc[p] \in Guarded
        PROVE  hist' \in Histories /\ Grows(hist, hist') /\ Rooted(hist')
    <2>1. BranchExists(hist, b)
      BY <1>5 DEF Write, HandlesValid
    <2> QED BY <1>0, <1>5, <2>1, AddVersionGrows DEF Write
  <1>6. CASE Delete(p) \/ AppendRows(p) \/ BuildIndex(p)
    <2>1. pc[p] \in Guarded /\ inc[p] = incarn
      BY <1>6 DEF Delete, AppendRows, BuildIndex, Write
    <2>2. BranchExists(hist, b)
      BY <2>1 DEF HandlesValid
    <2>3. HeadRows(hist, b) \in SUBSET Row
      BY <1>0, <2>1, <2>2, HeadRowsType
    <2>4. WithoutDocs(HeadRows(hist, b), wr[p].del) \in SUBSET Row
      BY <2>3 DEF WithoutDocs
    <2>5. wr[p].add \in SUBSET Doc
      BY DEF FrameTypeOK
    <2>6. WithDocs(HeadRows(hist, b), wr[p].add, p) \in SUBSET Row
      BY <2>3, <2>5 DEF WithDocs, Row
    <2>7. CASE Delete(p)
      BY <1>5, <2>1, <2>4, <2>7 DEF Delete
    <2>8. CASE AppendRows(p)
      BY <1>5, <2>1, <2>6, <2>8 DEF AppendRows
    <2>9. CASE BuildIndex(p)
      BY <1>5, <2>1, <2>3, <2>9 DEF BuildIndex
    <2> QED BY <1>6, <2>7, <2>8, <2>9
  <1>7. ASSUME NEW r \in Requests, Reserve(p, r) PROVE UNCHANGED hist
    BY <1>7 DEF Reserve
  <1>8. CASE \/ ForkFailed(p) \/ Register(p) \/ AcquireLock(p) \/ LockTimeout(p)
             \/ TimeoutReregister(p) \/ Disconnect(p)
    BY <1>1, <1>8 DEF ForkFailed, Register, AcquireLock, LockTimeout,
        TimeoutReregister, Disconnect
  <1>9. CASE \/ EndOfInput(p) \/ StopReceiving(p) \/ WriteFails(p)
             \/ CacheAndClean(p)
    BY <1>1, <1>9 DEF EndOfInput, StopReceiving, WriteFails, CacheAndClean
  <1>10. CASE \/ Unregister(p) \/ RecordResult(p) \/ Release(p) \/ Panic(p)
              \/ Monitor(p)
    BY <1>1, <1>10 DEF Unregister, RecordResult, Release, Panic, Monitor
  <1>11. CASE \/ BodyClosed(p) \/ BodyMalformed(p) \/ BodyBroken(p)
              \/ RecordBodyError(p)
    BY <1>1, <1>11 DEF BodyClosed, BodyMalformed, BodyBroken, RecordBodyError
  <1> QED
    BY <1>1, <1>2, <1>3, <1>4, <1>6, <1>7, <1>8, <1>9, <1>10, <1>11
       DEF PushAction, PushStep, ClientStep, PushFault

\* Type correctness of the maps of LanceStore.
LEMMA PushMapsType ==
    ASSUME TypeOK, NEW p \in Push, PushAction(p)
    PROVE  MapsTypeOK'
  <1> USE RequestFields DEF TypeOK, MapsTypeOK, ControlTypeOK, FrameTypeOK
  <1>1. ASSUME NEW r \in Requests, Reserve(p, r) PROVE MapsTypeOK'
    BY <1>1 DEF Reserve
  <1>2. CASE Fork(p)
    BY <1>2 DEF Fork
  <1>3. CASE ForkFailed(p)
    BY <1>3 DEF ForkFailed, ReleaseReservation, Key
  <1>4. CASE Register(p)
    BY <1>4 DEF Register, CancelPreviousAndRegister
  <1>5. CASE AcquireLock(p)
    BY <1>5 DEF AcquireLock, Actor
  <1>6. CASE LockTimeout(p)
    BY <1>6 DEF LockTimeout, ReleaseReservation, Key
  <1>7. CASE TimeoutReregister(p)
    BY <1>7 DEF TimeoutReregister, CancelPreviousAndRegister
  <1>8. CASE Open(p)
    BY <1>8 DEF Open, Fail, GuardsWithout, Actor
  <1>9. CASE EndOfInput(p)
    BY <1>9 DEF EndOfInput, Fail, GuardsWithout
  <1>10. CASE StopReceiving(p)
    BY <1>10 DEF StopReceiving, Fail, GuardsWithout
  <1>11. CASE Delete(p)
    BY <1>11 DEF Delete, Write
  <1>12. CASE AppendRows(p)
    BY <1>12 DEF AppendRows, Write
  <1>13. CASE BuildIndex(p)
    BY <1>13 DEF BuildIndex, Write
  <1>14. CASE Noop(p)
    BY <1>14 DEF Noop, Fail, GuardsWithout
  <1>15. CASE TagCommit(p)
    BY <1>15 DEF TagCommit, Fail, GuardsWithout
  <1>16. CASE WriteFails(p)
    BY <1>16 DEF WriteFails, Fail, GuardsWithout
  <1>17. CASE CacheAndClean(p)
    BY <1>17 DEF CacheAndClean, GuardsWithout, CacheLastIndexed
  <1>18. CASE Unregister(p)
    BY <1>18 DEF Unregister, UnregisterToken
  <1>19. CASE RecordResult(p)
    BY <1>19 DEF RecordResult
  <1>20. CASE Release(p)
    BY <1>20 DEF Release, ReleaseReservation, LocksWithout, Key
  <1>21. CASE Monitor(p)
    BY <1>21 DEF Monitor, ReleaseReservation, UnregisterToken, Key
  <1>22. CASE RecordBodyError(p)
    BY <1>22 DEF RecordBodyError
  <1>23. CASE BodyClosed(p)
    BY <1>23 DEF BodyClosed
  <1>24. CASE BodyMalformed(p)
    BY <1>24 DEF BodyMalformed
  <1>25. CASE BodyBroken(p)
    BY <1>25 DEF BodyBroken
  <1>26. CASE Disconnect(p)
    BY <1>26 DEF Disconnect
  <1>27. CASE Panic(p)
    BY <1>27 DEF Panic, LocksWithout, GuardsWithout
  <1> QED BY <1>1, <1>2, <1>3, <1>4, <1>5, <1>6, <1>7, <1>8, <1>9, <1>10,
        <1>11, <1>12, <1>13, <1>14, <1>15, <1>16, <1>17, <1>18, <1>19,
        <1>20, <1>21, <1>22, <1>23, <1>24, <1>25, <1>26, <1>27
        DEF PushAction, PushStep, ClientStep, PushFault

\* A push goes only to the program points it has, and keeps its request.
LEMMA PushControlType ==
    ASSUME TypeOK, NEW p \in Push, PushAction(p)
    PROVE  ControlTypeOK'
  <1> USE RequestFields DEF TypeOK, ControlTypeOK
  <1>1. ASSUME NEW r \in Requests, Reserve(p, r) PROVE ControlTypeOK'
    BY <1>1 DEF Reserve
  <1>2. CASE Fork(p)
    BY <1>2 DEF Fork
  <1>3. CASE ForkFailed(p)
    BY <1>3 DEF ForkFailed
  <1>4. CASE Register(p)
    BY <1>4 DEF Register
  <1>5. CASE AcquireLock(p)
    BY <1>5 DEF AcquireLock
  <1>6. CASE LockTimeout(p)
    BY <1>6 DEF LockTimeout
  <1>7. CASE TimeoutReregister(p)
    BY <1>7 DEF TimeoutReregister
  <1>8. CASE Open(p)
    BY <1>8 DEF Open, Fail
  <1>9. CASE EndOfInput(p)
    BY <1>9 DEF EndOfInput, Fail, NextWrite
  <1>10. CASE StopReceiving(p)
    BY <1>10 DEF StopReceiving, Fail
  <1>11. CASE Delete(p)
    BY <1>11 DEF Delete, Write
  <1>12. CASE AppendRows(p)
    BY <1>12 DEF AppendRows, Write
  <1>13. CASE BuildIndex(p)
    BY <1>13 DEF BuildIndex, Write
  <1>14. CASE Noop(p)
    BY <1>14 DEF Noop, Fail
  <1>15. CASE TagCommit(p)
    BY <1>15 DEF TagCommit, Fail
  <1>16. CASE WriteFails(p)
    BY <1>16 DEF WriteFails, Fail
  <1>17. CASE CacheAndClean(p)
    BY <1>17 DEF CacheAndClean
  <1>18. CASE Unregister(p)
    BY <1>18 DEF Unregister
  <1>19. CASE RecordResult(p)
    BY <1>19 DEF RecordResult
  <1>20. CASE Release(p)
    BY <1>20 DEF Release
  <1>21. CASE Monitor(p)
    BY <1>21 DEF Monitor
  <1>22. CASE RecordBodyError(p)
    BY <1>22 DEF RecordBodyError
  <1>23. CASE BodyClosed(p)
    BY <1>23 DEF BodyClosed
  <1>24. CASE BodyMalformed(p)
    BY <1>24 DEF BodyMalformed
  <1>25. CASE BodyBroken(p)
    BY <1>25 DEF BodyBroken
  <1>26. CASE Disconnect(p)
    BY <1>26 DEF Disconnect
  <1>27. CASE Panic(p)
    BY <1>27 DEF Panic
  <1> QED BY <1>1, <1>2, <1>3, <1>4, <1>5, <1>6, <1>7, <1>8, <1>9, <1>10,
        <1>11, <1>12, <1>13, <1>14, <1>15, <1>16, <1>17, <1>18, <1>19,
        <1>20, <1>21, <1>22, <1>23, <1>24, <1>25, <1>26, <1>27
        DEF PushAction, PushStep, ClientStep, PushFault

\* Type correctness of a push's local variables.
LEMMA PushFrameType ==
    ASSUME TypeOK, hist' \in Histories, NEW p \in Push, PushAction(p)
    PROVE  FrameTypeOK'
  <1> USE RequestFields DEF TypeOK, FrameTypeOK
  <1>1. ASSUME NEW r \in Requests, Reserve(p, r) PROVE FrameTypeOK'
    BY <1>1 DEF Reserve, MapsTypeOK
  <1>2. CASE Fork(p)
    BY <1>2 DEF Fork
  <1>3. CASE ForkFailed(p)
    BY <1>3 DEF ForkFailed, DropFrame, NoWork
  <1>4. CASE Register(p)
    BY <1>4 DEF Register, MapsTypeOK
  <1>5. CASE AcquireLock(p)
    BY <1>5 DEF AcquireLock, MapsTypeOK
  <1>6. CASE LockTimeout(p)
    BY <1>6 DEF LockTimeout
  <1>7. CASE TimeoutReregister(p)
    BY <1>7 DEF TimeoutReregister, DropFrame, NoWork
  <1>8. CASE Open(p)
    BY <1>8 DEF Open, Fail, StoreTypeOK
  <1>9. CASE EndOfInput(p)
    <2>1. pc[p] = "recv" /\ req[p] \in Requests
      BY <1>9 DEF EndOfInput, ControlTypeOK
    <2>2. wr' \in [Push -> [del : SUBSET Doc, add : SUBSET Doc]]
      BY <1>9, <2>1 DEF EndOfInput
    <2>3. /\ UNCHANGED <<lk, gd, inc, ver, stream>>
          /\ res' \in [Push -> {"none", "ok", "err"}]
      BY <1>9 DEF EndOfInput, Fail
    <2> QED BY <2>2, <2>3
  <1>10. CASE StopReceiving(p)
    BY <1>10 DEF StopReceiving, Fail
  <1>11. CASE Delete(p)
    BY <1>11 DEF Delete, Write
  <1>12. CASE AppendRows(p)
    BY <1>12 DEF AppendRows, Write
  <1>13. CASE BuildIndex(p)
    BY <1>13, ExistsLen DEF BuildIndex, Write, ControlTypeOK
  <1>14. CASE Noop(p)
    <2>1. pc[p] = "noop" /\ req[p].branch \in Branch
      BY <1>14 DEF Noop, ControlTypeOK
    <2>2. Len(hist'[req[p].branch]) \in Nat
      BY <2>1, ExistsLen
    <2>3. ver' \in [Push -> Nat]
      BY <1>14, <2>2 DEF Noop
    <2>4. UNCHANGED <<lk, gd, inc, wr, stream>>
          /\ res' \in [Push -> {"none", "ok", "err"}]
      BY <1>14 DEF Noop, Fail
    <2> QED BY <2>3, <2>4
  <1>15. CASE TagCommit(p)
    BY <1>15 DEF TagCommit, Fail
  <1>16. CASE WriteFails(p)
    BY <1>16 DEF WriteFails, Fail
  <1>17. CASE CacheAndClean(p)
    BY <1>17 DEF CacheAndClean, NoWork
  <1>18. CASE Unregister(p)
    BY <1>18 DEF Unregister
  <1>19. CASE RecordResult(p)
    BY <1>19 DEF RecordResult
  <1>20. CASE Release(p)
    BY <1>20 DEF Release, DropFrame, NoWork
  <1>21. CASE Monitor(p)
    BY <1>21 DEF Monitor, DropFrame, NoWork
  <1>22. CASE RecordBodyError(p)
    BY <1>22 DEF RecordBodyError
  <1>23. CASE BodyClosed(p)
    BY <1>23 DEF BodyClosed, EndBody
  <1>24. CASE BodyMalformed(p)
    BY <1>24 DEF BodyMalformed, EndBody
  <1>25. CASE BodyBroken(p)
    BY <1>25 DEF BodyBroken, EndBody
  <1>26. CASE Disconnect(p)
    BY <1>26 DEF Disconnect, DropFrame, NoWork
  <1>27. CASE Panic(p)
    BY <1>27 DEF Panic
  <1> QED BY <1>1, <1>2, <1>3, <1>4, <1>5, <1>6, <1>7, <1>8, <1>9, <1>10,
        <1>11, <1>12, <1>13, <1>14, <1>15, <1>16, <1>17, <1>18, <1>19,
        <1>20, <1>21, <1>22, <1>23, <1>24, <1>25, <1>26, <1>27
        DEF PushAction, PushStep, ClientStep, PushFault


\* Only the tagging step writes a tag, only the last step prunes.
LEMMA PushTagEffect ==
    ASSUME NEW p \in Push, PushAction(p)
    PROVE  \/ UNCHANGED <<tags, pruned, clock, incarn>>
           \/ TagCommit(p)
           \/ CacheAndClean(p)
  <1>1. ASSUME NEW r \in Requests, Reserve(p, r)
        PROVE  UNCHANGED <<tags, pruned, clock, incarn>>
    BY <1>1 DEF Reserve
  <1>2. CASE \/ Fork(p) \/ ForkFailed(p) \/ Register(p) \/ AcquireLock(p)
             \/ LockTimeout(p) \/ TimeoutReregister(p) \/ Disconnect(p)
    BY <1>2 DEF Fork, ForkFailed, Register, AcquireLock, LockTimeout,
        TimeoutReregister, Disconnect
  <1>3. CASE \/ Open(p) \/ EndOfInput(p) \/ StopReceiving(p) \/ Noop(p)
             \/ WriteFails(p)
    BY <1>3 DEF Open, EndOfInput, StopReceiving, Noop, WriteFails
  <1>4. CASE Delete(p) \/ AppendRows(p) \/ BuildIndex(p)
    BY <1>4 DEF Delete, AppendRows, BuildIndex, Write
  <1>5. CASE \/ Unregister(p) \/ RecordResult(p) \/ Release(p) \/ Panic(p)
             \/ Monitor(p)
    BY <1>5 DEF Unregister, RecordResult, Release, Panic, Monitor
  <1>6. CASE \/ BodyClosed(p) \/ BodyMalformed(p) \/ BodyBroken(p)
             \/ RecordBodyError(p)
    BY <1>6 DEF BodyClosed, BodyMalformed, BodyBroken, RecordBodyError
  <1> QED
    BY <1>1, <1>2, <1>3, <1>4, <1>5, <1>6
       DEF PushAction, PushStep, ClientStep, PushFault

\* The tags of a push name existing versions, and cleanup spares tagged ones.
LEMMA PushTags ==
    ASSUME StoreInv, NEW p \in Push, PushAction(p)
    PROVE  StoreTypeOK' /\ TagsResolve'
  <1> USE MainAssumption DEF StoreInv, DomainTypeOK, TypeOK
  <1>1. /\ hist \in Histories /\ hist' \in Histories /\ Grows(hist, hist')
        /\ tags \in Tags /\ pruned \in SUBSET Nat /\ clock \in Nat /\ incarn \in Nat
        /\ pc[p] # "idle" => req[p].branch \in Branch /\ req[p].commit \in Commit
    BY PushHistory, RequestFields DEF StoreTypeOK, ControlTypeOK
  <1>2. \A c \in Commit : tags[c] # None => tags[c] \in Tag
    BY <1>1 DEF Tags
  <1>3. \A c \in Commit : tags[c] # None =>
            VersionExists(hist', pruned, tags[c].branch, tags[c].version)
    BY <1>1, <1>2, GrowsKeeps DEF TagsResolve, Tag
  <1>4. CASE UNCHANGED <<tags, pruned, clock, incarn>>
    BY <1>1, <1>3, <1>4 DEF StoreTypeOK, TagsResolve
  <1>5. CASE TagCommit(p)
    <2> DEFINE c0 == req[p].commit
               t0 == [branch |-> req[p].branch, version |-> ver[p], at |-> clock]
    <2>1. pc[p] = "tag" /\ ver[p] \in Nat
      BY <1>5 DEF TagCommit, FrameTypeOK
    <2>2. t0 \in Tag /\ c0 \in Commit
      BY <1>1, <2>1 DEF Tag
    <2>3. CASE UNCHANGED <<tags, clock>>
      BY <1>4, <1>5, <2>3 DEF TagCommit
    <2>4. CASE /\ tags' = [tags EXCEPT ![c0] = t0] /\ clock' = clock + 1
               /\ VersionExists(hist', pruned, req[p].branch, ver[p])
      <3>1. tags' \in Tags
        BY <1>1, <2>2, <2>4 DEF Tags
      <3>2. UNCHANGED <<pruned, incarn>>
        BY <1>5 DEF TagCommit
      <3>3. ASSUME NEW c \in Commit, tags'[c] # None
            PROVE  VersionExists(hist', pruned, tags'[c].branch, tags'[c].version)
        BY <1>1, <1>3, <2>2, <2>4, <3>3 DEF Tags
      <3> QED BY <1>1, <2>4, <3>1, <3>2, <3>3 DEF StoreTypeOK, TagsResolve
    <2> QED BY <1>5, <2>3, <2>4 DEF TagCommit, CanTag, CreateTag
  <1>6. CASE CacheAndClean(p)
    <2>1. /\ UNCHANGED <<hist, tags, clock, incarn>>
          /\ pruned' \in {pruned, pruned \cup Prunable(hist, tags)}
      BY <1>6 DEF CacheAndClean
    <2>2. Prunable(hist, tags) \in SUBSET Nat
      BY <1>1, ExistsLen DEF Prunable
    <2>3. ASSUME NEW c \in Commit, tags[c] # None, tags[c].branch = Main
          PROVE  tags[c].version \notin Prunable(hist, tags)
      BY <2>3 DEF Prunable, CommitsOn
    <2>4. TagsResolve'
      BY <2>1, <2>3 DEF TagsResolve, VersionExists
    <2> QED BY <1>1, <2>1, <2>2, <2>4 DEF StoreTypeOK
  <1> QED BY <1>4, <1>5, <1>6, PushTagEffect

\* The cached handle shows a version that is on disk.
LEMMA PushSeen ==
    ASSUME StoreInv, NEW p \in Push, PushAction(p)
    PROVE  seen' <= Len(hist'[Main])
  <1> USE MainAssumption DEF StoreInv, DomainTypeOK, TypeOK
  <1>1. /\ Len(hist[Main]) \in Nat /\ Len(hist'[Main]) \in Nat
        /\ Len(hist[Main]) <= Len(hist'[Main])
        /\ seen \in Nat /\ seen <= Len(hist[Main])
    BY PushHistory, ExistsLen DEF Grows, StoreTypeOK, MapsTypeOK
  <1>2. seen' \in {seen, Len(hist'[Main])}
    <2>1. ASSUME NEW r \in Requests, Reserve(p, r) PROVE UNCHANGED seen
      BY <2>1 DEF Reserve
    <2>2. CASE \/ Fork(p) \/ ForkFailed(p) \/ Register(p) \/ AcquireLock(p)
               \/ LockTimeout(p) \/ TimeoutReregister(p) \/ Disconnect(p)
      BY <2>2 DEF Fork, ForkFailed, Register, AcquireLock, LockTimeout,
          TimeoutReregister, Disconnect
    <2>3. CASE \/ Open(p) \/ Delete(p) \/ AppendRows(p) \/ BuildIndex(p)
               \/ Noop(p) \/ TagCommit(p)
      BY <2>3 DEF Open, Delete, AppendRows, BuildIndex, Noop, TagCommit
    <2>4. CASE \/ EndOfInput(p) \/ StopReceiving(p) \/ WriteFails(p)
               \/ CacheAndClean(p)
      BY <2>4 DEF EndOfInput, StopReceiving, WriteFails, CacheAndClean
    <2>5. CASE \/ Unregister(p) \/ RecordResult(p) \/ Release(p) \/ Panic(p)
               \/ Monitor(p)
      BY <2>5 DEF Unregister, RecordResult, Release, Panic, Monitor
    <2>6. CASE \/ BodyClosed(p) \/ BodyMalformed(p) \/ BodyBroken(p)
               \/ RecordBodyError(p)
      BY <2>6 DEF BodyClosed, BodyMalformed, BodyBroken, RecordBodyError
    <2> QED BY <2>1, <2>2, <2>3, <2>4, <2>5, <2>6
            DEF PushAction, PushStep, ClientStep, PushFault
  <1> QED BY <1>1, <1>2

\* A write handle is opened on a branch that exists (Open); no push removes one.
LEMMA PushHandles ==
    ASSUME StoreInv, NEW p \in Push, PushAction(p)
    PROVE  HandlesValid'
  <1> USE DEF StoreInv, DomainTypeOK, TypeOK
  <1>1. /\ incarn \in Nat /\ inc \in [Push -> Nat] /\ req \in [Push -> Requests \cup {None}]
        /\ pc \in [Push -> PC]
        /\ \A q \in Push : pc[q] # "idle" => req[q].branch \in Branch
    BY RequestFields DEF StoreTypeOK, ControlTypeOK, FrameTypeOK
  <1>2. \A b \in Branch : BranchExists(hist, b) => BranchExists(hist', b)
    BY PushHistory, GrowsKeeps DEF StoreTypeOK
  <1>3. ASSUME incarn' = incarn,
               \A q \in Push \ {p} : inc'[q] = inc[q] /\ pc'[q] = pc[q] /\ req'[q] = req[q],
               inc'[p] <= incarn,
               pc'[p] \in Guarded /\ inc'[p] = incarn
                   => BranchExists(hist', req'[p].branch)
        PROVE  HandlesValid'
    BY <1>1, <1>2, <1>3 DEF HandlesValid
  <1>4. ASSUME UNCHANGED <<incarn, inc, req>>,
               \E s \in PC : pc' = [pc EXCEPT ![p] = s] /\ (s \in Guarded => pc[p] \in Guarded)
        PROVE  HandlesValid'
    BY <1>1, <1>2, <1>4 DEF HandlesValid
  <1>5. CASE Open(p)
    <2>1. CASE pc' = [pc EXCEPT ![p] = "unregister"] /\ UNCHANGED <<incarn, inc, req>>
      BY <1>4, <2>1
    <2>2. CASE /\ pc' = [pc EXCEPT ![p] = "recv"] /\ UNCHANGED <<incarn, req>>
               /\ inc' = [inc EXCEPT ![p] = incarn]
               /\ BranchExists(hist', req[p].branch)
      BY <1>1, <1>3, <2>2
    <2> QED BY <1>5, <2>1, <2>2 DEF Open, Fail
  <1>6. ASSUME DropFrame(p), UNCHANGED <<incarn, req>>,
               \E s \in Ended : pc' = [pc EXCEPT ![p] = s]
        PROVE  HandlesValid'
    BY <1>1, <1>3, <1>6 DEF DropFrame
  <1>7. CASE \/ ForkFailed(p) \/ TimeoutReregister(p) \/ Disconnect(p)
             \/ Release(p) \/ Monitor(p)
    BY <1>6, <1>7 DEF ForkFailed, TimeoutReregister, Disconnect, Release, Monitor
  <1>8. ASSUME NEW r \in Requests, Reserve(p, r) PROVE HandlesValid'
    <2>1. /\ UNCHANGED <<incarn, inc>> /\ req' = [req EXCEPT ![p] = r]
          /\ \E s \in {"conflict", "fork", "register"} : pc' = [pc EXCEPT ![p] = s]
      BY <1>8 DEF Reserve
    <2> QED BY <1>1, <1>3, <2>1 DEF HandlesValid
  <1>9. CASE Fork(p) \/ Register(p) \/ AcquireLock(p) \/ LockTimeout(p)
    BY <1>4, <1>9 DEF Fork, Register, AcquireLock, LockTimeout
  <1>10. CASE EndOfInput(p)
    BY <1>4, <1>10 DEF EndOfInput, Fail, NextWrite
  <1>11. CASE StopReceiving(p) \/ WriteFails(p) \/ Noop(p) \/ TagCommit(p)
    BY <1>4, <1>11 DEF StopReceiving, WriteFails, Noop, TagCommit, Fail
  <1>12. CASE Delete(p) \/ AppendRows(p) \/ BuildIndex(p) \/ CacheAndClean(p)
    BY <1>4, <1>12 DEF Delete, AppendRows, BuildIndex, CacheAndClean, Write
  <1>13. CASE Unregister(p) \/ RecordResult(p) \/ Panic(p)
    BY <1>4, <1>13 DEF Unregister, RecordResult, Panic
  <1>14. CASE \/ BodyClosed(p) \/ BodyMalformed(p) \/ BodyBroken(p)
              \/ RecordBodyError(p)
    <2>1. UNCHANGED <<incarn, inc, pc, req>>
      BY <1>14 DEF BodyClosed, BodyMalformed, BodyBroken, RecordBodyError
    <2> QED BY <1>1, <1>2, <2>1 DEF HandlesValid
  <1> QED
    BY <1>5, <1>7, <1>8, <1>9, <1>10, <1>11, <1>12, <1>13, <1>14
       DEF PushAction, PushStep, ClientStep, PushFault

\* Every step of a push preserves the invariant.
LEMMA PushStoreStep ==
    ASSUME StoreInv, NEW p \in Push, PushAction(p),
           UNCHANGED <<apc, adminLocal, crashes>>
    PROVE  StoreInv'
  <1>1. TypeOK /\ hist' \in Histories /\ Rooted(hist')
    BY PushHistory DEF StoreInv, DomainTypeOK
  <1>2. TypeOK'
    BY <1>1, PushTags, PushMapsType, PushControlType, PushFrameType DEF TypeOK
  <1>3. AdminTypeOK'
    BY DEF StoreInv, DomainTypeOK, AdminTypeOK
  <1> QED BY <1>1, <1>2, <1>3, PushTags, PushSeen, PushHandles
          DEF StoreInv, DomainTypeOK

\* The other requests preserve type correctness outside the dataset.
LEMMA AdminTypes ==
    ASSUME DomainTypeOK, hist' \in Histories, NEW a \in Admin,
           AdminAction(a)
    PROVE  MapsTypeOK' /\ ControlTypeOK' /\ FrameTypeOK' /\ AdminTypeOK'
  <1> USE MainAssumption DEF DomainTypeOK, TypeOK, PushesUnchanged
  <1>1. ControlTypeOK' /\ FrameTypeOK' /\ crashes' = crashes
        /\ task' = task
    BY DEF AdminAction, AdminStart, AssignResolve, LastIndexedRead, DeleteBranchCancel,
        DeleteDomainBegin, AdminFault, DeleteBranchFails, AdminDropped, AdminContinue, AssignTag, AssignCache,
        LastIndexedInsert, DeleteBranchTags, DeleteBranchPurge,
        DeleteDomainRemove, DeleteDomainPurge, ControlTypeOK, FrameTypeOK
  <1>2. Len(hist'[Main]) \in Nat
    BY ExistsLen
  <1>3. /\ \A b \in AdminOps, r \in AdminRequests : r.branch \in Branch
        /\ areq[a] # None => areq[a].branch \in Branch
        /\ aval[a] # None => aval[a] \in Indexed /\ aval[a].commit \in Commit
                                /\ aval[a].version \in Nat
    BY AdminRequestFields DEF AdminTypeOK, Indexed
  <1>4. ASSUME NEW op, Admit(a, op)
        PROVE  /\ areq' \in [Admin -> AdminRequests \cup {None}]
               /\ areq'[a] \in AdminRequests /\ areq'[a].branch \in Branch
               /\ areq'[a].source \in Commit /\ areq'[a].target \in Commit
               /\ \A o \in Admin \ {a} : areq'[o] = areq[o]
               /\ apc[a] = "idle"
    BY <1>4, AdminRequestFields DEF Admit, AdminTypeOK
  <1>5. CASE AssignResolve(a)
    <2>1. \/ aval' = aval /\ apc' = [apc EXCEPT ![a] = "done"]
          \/ /\ apc' = [apc EXCEPT ![a] = "assignTag"]
             /\ \E v \in Indexed : aval' = [aval EXCEPT ![a] = v]
      BY <1>4, <1>5 DEF AssignResolve, StoreTypeOK, Tags, Tag, Indexed
    <2>2. AdminTypeOK'
      BY <1>1, <1>4, <1>5, <2>1 DEF AssignResolve, AdminTypeOK
    <2> QED BY <1>1, <1>5, <2>2 DEF AssignResolve, MapsTypeOK
  <1>6. CASE LastIndexedRead(a)
    <2>1. \/ aval' = aval /\ apc' = [apc EXCEPT ![a] = "done"]
          \/ /\ apc' = [apc EXCEPT ![a] = "insert"]
             /\ \E v \in Indexed : aval' = [aval EXCEPT ![a] = v]
      BY <1>4, <1>6 DEF LastIndexedRead, IsLastIndexed, CommitsOn, StoreTypeOK,
          Tags, Tag, Indexed
    <2>2. AdminTypeOK'
      BY <1>1, <1>4, <1>6, <2>1 DEF LastIndexedRead, AdminTypeOK
    <2> QED BY <1>1, <1>6, <2>2 DEF LastIndexedRead, MapsTypeOK
  <1>7. CASE DeleteBranchCancel(a)
    <2>1. AdminTypeOK'
      BY <1>1, <1>4, <1>7 DEF DeleteBranchCancel, AdminTypeOK, MapsTypeOK
    <2>2. MapsTypeOK'
      BY <1>1, <1>4, <1>7 DEF DeleteBranchCancel, MapsTypeOK
    <2> QED BY <1>1, <2>1, <2>2
  <1>8. CASE DeleteDomainBegin(a)
    <2>1. AdminTypeOK'
      BY <1>1, <1>4, <1>8 DEF DeleteDomainBegin, AdminTypeOK, MapsTypeOK
    <2> QED BY <1>1, <1>8, <2>1 DEF DeleteDomainBegin, MapsTypeOK
  <1>9. CASE AssignTag(a)
    <2>1. AdminTypeOK'
      BY <1>1, <1>9 DEF AssignTag, AdminTypeOK
    <2>2. MapsTypeOK'
      BY <1>1, <1>2, <1>9 DEF AssignTag, MapsTypeOK
    <2> QED BY <1>1, <2>1, <2>2
  <1>10. CASE AssignCache(a)
    <2>1. AdminTypeOK'
      BY <1>1, <1>10 DEF AssignCache, AdminTypeOK
    <2>2. areq[a].branch \in Branch /\ aval[a].commit \in Commit
          /\ aval[a].version \in Nat
      BY <1>10, AdminRequestFields DEF AssignCache, AdminTypeOK, Indexed
    <2>3. MapsTypeOK'
      BY <1>1, <1>10, <2>2 DEF AssignCache, CacheLastIndexed, MapsTypeOK
    <2> QED BY <1>1, <2>1, <2>3
  <1>11. CASE LastIndexedInsert(a)
    <2>1. AdminTypeOK'
      BY <1>1, <1>11 DEF LastIndexedInsert, AdminTypeOK
    <2>2. areq[a].branch \in Branch /\ aval[a] \in Indexed
      BY <1>11, AdminRequestFields DEF LastIndexedInsert, AdminTypeOK
    <2>3. MapsTypeOK'
      BY <1>1, <1>11, <2>2 DEF LastIndexedInsert, Indexed, MapsTypeOK
    <2> QED BY <1>1, <2>1, <2>3
  <1>12. CASE DeleteBranchTags(a)
    <2>1. AdminTypeOK'
      BY <1>1, <1>12 DEF DeleteBranchTags, AdminTypeOK
    <2>2. areq[a].branch \in Branch /\ aep[a] \in Nat
      BY <1>12, AdminRequestFields DEF DeleteBranchTags, AdminTypeOK
    <2>3. MapsTypeOK'
      BY <1>1, <1>12, <2>2 DEF DeleteBranchTags, MapsTypeOK, Actor
    <2> QED BY <1>1, <2>1, <2>3
  <1>13. CASE DeleteBranchPurge(a)
    <2>1. AdminTypeOK'
      BY <1>1, <1>13 DEF DeleteBranchPurge, AdminTypeOK
    <2>2. MapsTypeOK'
      BY <1>1, <1>13 DEF DeleteBranchPurge, LocksWithout, MapsTypeOK
    <2> QED BY <1>1, <2>1, <2>2
  <1>14. CASE DeleteDomainRemove(a)
    <2>1. AdminTypeOK'
      BY <1>1, <1>14 DEF DeleteDomainRemove, AdminTypeOK
    <2>2. MapsTypeOK'
      BY <1>1, <1>14 DEF DeleteDomainRemove, MapsTypeOK, AdminTypeOK, Actor
    <2> QED BY <1>1, <2>1, <2>2
  <1>15. CASE DeleteDomainPurge(a)
    <2>1. AdminTypeOK'
      BY <1>1, <1>15 DEF DeleteDomainPurge, AdminTypeOK
    <2>2. MapsTypeOK'
      BY <1>1, <1>15 DEF DeleteDomainPurge, GuardsWithout, MapsTypeOK
    <2> QED BY <1>1, <2>1, <2>2
  <1>16. CASE DeleteBranchFails(a)
    <2>1. AdminTypeOK'
      BY <1>1, <1>16 DEF DeleteBranchFails, AdminTypeOK
    <2> QED BY <1>1, <1>16, <2>1 DEF DeleteBranchFails, MapsTypeOK
  <1>17. CASE AdminDropped(a)
    <2>1. AdminTypeOK'
      BY <1>1, <1>17 DEF AdminDropped, InProgress, AdminTypeOK
    <2>2. MapsTypeOK'
      BY <1>1, <1>17 DEF AdminDropped, LocksWithout, GuardsWithout, MapsTypeOK
    <2> QED BY <1>1, <2>1, <2>2
  <1> QED
    BY <1>5, <1>6, <1>7, <1>8, <1>9, <1>10, <1>11, <1>12, <1>13, <1>14, <1>15,
       <1>16, <1>17
       DEF AdminAction, AdminStart, AdminContinue, AdminFault

\* What the other requests do to the dataset: grow it, or remove it whole.
LEMMA AdminHistory ==
    ASSUME StoreInv, NEW a \in Admin, AdminAction(a)
    PROVE  /\ hist' \in Histories /\ Rooted(hist')
           /\ \/ Grows(hist, hist') /\ incarn' = incarn
              \/ DeleteDomainRemove(a)
  <1>1. hist \in Histories /\ Rooted(hist)
    BY DEF StoreInv, DomainTypeOK, TypeOK, StoreTypeOK
  <1>2. CASE UNCHANGED <<hist, incarn>>
    BY <1>1, <1>2, ExistsLen DEF Grows, Rooted
  <1>3. CASE AssignTag(a)
    BY <1>1, <1>2, <1>3, EnsureDatasetGrows DEF AssignTag
  <1>4. CASE DeleteDomainRemove(a)
    <2>1. hist' = NoDataset
      BY <1>4 DEF DeleteDomainRemove
    <2>2. << >> \in Seq(SUBSET Row)
      OBVIOUS
    <2> QED BY <1>4, <2>1, <2>2 DEF NoDataset, Histories, Rooted, BranchExists
  <1>5. CASE AdminStart(a)
    BY <1>2, <1>5 DEF AdminStart, AssignResolve, LastIndexedRead,
        DeleteBranchCancel, DeleteDomainBegin
  <1>6. CASE \/ AssignCache(a) \/ LastIndexedInsert(a) \/ DeleteBranchTags(a)
             \/ DeleteBranchPurge(a) \/ DeleteDomainPurge(a) \/ AdminFault(a)
    BY <1>2, <1>6 DEF AssignCache, LastIndexedInsert, DeleteBranchTags,
        DeleteBranchPurge, DeleteDomainPurge, AdminFault, DeleteBranchFails,
        AdminDropped
  <1> QED BY <1>3, <1>4, <1>5, <1>6 DEF AdminAction, AdminContinue

\* Every step of another request preserves the invariant.
LEMMA AdminStoreStep ==
    ASSUME StoreInv, NEW a \in Admin, AdminAction(a)
    PROVE  StoreInv'
  <1> USE MainAssumption DEF StoreInv, DomainTypeOK, TypeOK
  <1>1. /\ hist \in Histories /\ hist' \in Histories /\ Rooted(hist')
        /\ tags \in Tags /\ pruned \in SUBSET Nat /\ clock \in Nat /\ incarn \in Nat
        /\ seen \in Nat /\ inc \in [Push -> Nat] /\ pc \in [Push -> PC]
        /\ \A p \in Push : pc[p] # "idle" => req[p].branch \in Branch
    BY AdminHistory, RequestFields
       DEF StoreTypeOK, MapsTypeOK, FrameTypeOK, ControlTypeOK
  <1>2. MapsTypeOK' /\ ControlTypeOK' /\ FrameTypeOK' /\ AdminTypeOK'
    BY <1>1, AdminTypes
  <1>3. UNCHANGED <<pc, req, inc>>
    BY DEF AdminAction, AdminStart, AssignResolve, LastIndexedRead, DeleteBranchCancel,
        DeleteDomainBegin, AdminFault, DeleteBranchFails, AdminDropped, AdminContinue, AssignTag, AssignCache,
        LastIndexedInsert, DeleteBranchTags, DeleteBranchPurge,
        DeleteDomainRemove, DeleteDomainPurge, PushesUnchanged
  <1>4. CASE DeleteDomainRemove(a)
    <2>1. /\ hist' = NoDataset /\ tags' = NoTags /\ pruned' = {}
          /\ incarn' = incarn + 1 /\ seen' = 0 /\ clock' = clock
      BY <1>4 DEF DeleteDomainRemove
    <2>2. StoreTypeOK' /\ TagsResolve'
      BY <1>1, <2>1 DEF StoreTypeOK, TagsResolve, NoTags, Tags
    <2>3. HandlesValid'
      BY <1>1, <1>3, <2>1 DEF HandlesValid
    <2>4. seen' <= Len(hist'[Main])
      BY <1>1, <2>1, ExistsLen
    <2> QED BY <1>1, <1>2, <2>2, <2>3, <2>4
  <1>5. CASE Grows(hist, hist') /\ incarn' = incarn
    <2>1. HandlesValid'
      BY <1>1, <1>3, <1>5, GrowsKeeps DEF HandlesValid
    <2>2. /\ Len(hist[Main]) \in Nat /\ Len(hist'[Main]) \in Nat
          /\ Len(hist[Main]) <= Len(hist'[Main])
      BY <1>1, <1>5, ExistsLen DEF Grows
    <2>3. seen' \in {0, seen, Len(hist'[Main])}
      BY DEF AdminAction, AdminStart, AssignResolve, LastIndexedRead,
          DeleteBranchCancel, DeleteDomainBegin, AdminFault, DeleteBranchFails,
          AdminDropped, AdminContinue, AssignTag, AssignCache,
          LastIndexedInsert, DeleteBranchTags, DeleteBranchPurge,
          DeleteDomainRemove, DeleteDomainPurge
    <2>4. seen' <= Len(hist'[Main])
      BY <1>1, <2>2, <2>3
    <2>5. \A c \in Commit : tags[c] # None =>
             /\ tags[c] \in Tag
             /\ VersionExists(hist', pruned, tags[c].branch, tags[c].version)
      BY <1>1, <1>5, GrowsKeeps DEF TagsResolve, Tags, Tag
    <2>6. StoreTypeOK' /\ TagsResolve'
      <3>1. CASE UNCHANGED <<tags, pruned, clock>>
        BY <1>1, <1>5, <2>5, <3>1 DEF StoreTypeOK, TagsResolve
      <3>2. CASE DeleteBranchTags(a) \/ DeleteBranchFails(a)
        <4>1. /\ tags' \in Tags
              /\ \A c \in Commit : tags'[c] \in {None, tags[c]}
          BY <1>1, <3>2 DEF DeleteBranchTags, DeleteBranchFails, Tags
        <4>2. UNCHANGED <<pruned, clock>>
          BY <3>2 DEF DeleteBranchTags, DeleteBranchFails
        <4> QED BY <1>1, <1>5, <2>5, <4>1, <4>2 DEF StoreTypeOK, TagsResolve
      <3>3. CASE AssignTag(a)
        <4> DEFINE c0 == aval[a].commit
                   t0 == [branch |-> areq[a].branch, version |-> aval[a].version,
                          at |-> clock]
        <4>1. t0 \in Tag /\ c0 \in Commit
          BY <1>1, <3>3, AdminRequestFields DEF AssignTag, AdminTypeOK, Tag, Indexed
        <4>2. CASE /\ tags' = [tags EXCEPT ![c0] = t0] /\ clock' = clock + 1
                   /\ VersionExists(hist', pruned, areq[a].branch, aval[a].version)
          <5>1. tags' \in Tags
            BY <1>1, <4>1, <4>2 DEF Tags
          <5>2. UNCHANGED pruned
            BY <3>3 DEF AssignTag
          <5>3. ASSUME NEW c \in Commit, tags'[c] # None
                PROVE  VersionExists(hist', pruned, tags'[c].branch, tags'[c].version)
            BY <1>1, <2>5, <4>1, <4>2, <5>3 DEF Tags
          <5> QED BY <1>1, <1>5, <4>2, <5>1, <5>2, <5>3 DEF StoreTypeOK, TagsResolve
        <4>3. CASE UNCHANGED <<tags, clock>>
          BY <3>1, <3>3, <4>3 DEF AssignTag
        <4> QED BY <3>3, <4>2, <4>3 DEF AssignTag, CanTag, CreateTag
      <3>4. CASE AdminStart(a)
        BY <3>1, <3>4 DEF AdminStart, AssignResolve, LastIndexedRead,
            DeleteBranchCancel, DeleteDomainBegin
      <3>5. CASE \/ AssignCache(a) \/ LastIndexedInsert(a)
                 \/ DeleteBranchPurge(a) \/ DeleteDomainPurge(a) \/ AdminDropped(a)
        BY <3>1, <3>5 DEF AssignCache, LastIndexedInsert, DeleteBranchPurge,
            DeleteDomainPurge, AdminDropped
      <3> QED BY <1>4, <3>2, <3>3, <3>4, <3>5
              DEF AdminAction, AdminContinue, AdminFault
    <2> QED BY <1>1, <1>2, <2>1, <2>4, <2>6
  <1> QED BY <1>4, <1>5, AdminHistory

\* A crash keeps the dataset and empties the rest.
LEMMA CrashStoreStep ==
    ASSUME StoreInv, Crash
    PROVE  StoreInv'
  <1> USE MainAssumption DEF StoreInv, DomainTypeOK, TypeOK
  <1>1. UNCHANGED <<hist, tags, pruned, clock, incarn, epoch, req, body, areq, aep, aval>>
    BY DEF Crash
  <1>2. StoreTypeOK' /\ TagsResolve' /\ Rooted(hist')
    BY <1>1 DEF StoreTypeOK, TagsResolve, Rooted
  <1>3. MapsTypeOK'
    BY <1>1 DEF Crash, MapsTypeOK
  <1>4. ControlTypeOK'
    BY <1>1 DEF Crash, ControlTypeOK
  <1>5. FrameTypeOK'
    BY <1>1 DEF Crash, FrameTypeOK, NoWork
  <1>6. AdminTypeOK'
    BY <1>1, MaxCrashesAssumption DEF Crash, AdminTypeOK
  <1>7. HandlesValid'
    BY <1>1 DEF Crash, HandlesValid, StoreTypeOK
  <1>8. seen' <= Len(hist'[Main])
    BY <1>1, ExistsLen DEF Crash, StoreTypeOK
  <1> QED BY <1>2, <1>3, <1>4, <1>5, <1>6, <1>7, <1>8

\* The invariant holds of the empty store.
LEMMA StoreInit ==
    ASSUME Init
    PROVE  StoreInv
  <1> USE MainAssumption DEF Init, PushInit
  <1>1. hist = NoDataset /\ hist \in Histories /\ Rooted(hist)
    <2>1. << >> \in Seq(SUBSET Row)
      OBVIOUS
    <2> QED BY <2>1 DEF NoDataset, Histories, Rooted, BranchExists
  <1>2. StoreTypeOK /\ TagsResolve
    BY <1>1 DEF StoreTypeOK, TagsResolve, NoTags, Tags
  <1>3. MapsTypeOK /\ ControlTypeOK
    BY DEF MapsTypeOK, ControlTypeOK
  <1>4. FrameTypeOK
    BY DEF FrameTypeOK, NoWork
  <1>5. AdminTypeOK
    BY MaxCrashesAssumption DEF AdminTypeOK
  <1>6. HandlesValid
    BY DEF HandlesValid
  <1>7. seen <= Len(hist[Main])
    BY <1>1, ExistsLen
  <1> QED BY <1>1, <1>2, <1>3, <1>4, <1>5, <1>6, <1>7
          DEF StoreInv, DomainTypeOK, TypeOK

\* Every step of the domain, a stutter included, preserves the invariant.
LEMMA StoreStep ==
    ASSUME StoreInv, [Next]_vars
    PROVE  StoreInv'
  <1>1. CASE PushNext /\ UNCHANGED <<apc, adminLocal, crashes>>
    BY <1>1, PushStoreStep DEF PushNext, PushAction
  <1>2. CASE \E a \in Admin : AdminAction(a)
    BY <1>2, AdminStoreStep
  <1>3. CASE Crash
    BY <1>3, CrashStoreStep
  <1>4. CASE UNCHANGED vars
    BY <1>4 DEF vars, pushVars, StoreInv, DomainTypeOK, TypeOK, StoreTypeOK,
        MapsTypeOK, ControlTypeOK, FrameTypeOK, AdminTypeOK, TagsResolve, HandlesValid
  <1> QED BY <1>1, <1>2, <1>3, <1>4 DEF Next, RequestNext, AdminAction

\* The invariant of the store holds in every reachable state.
THEOREM StoreInvariant == Spec => []StoreInv
  <1>1. Init => StoreInv
    BY StoreInit
  <1>2. StoreInv /\ [Next]_vars => StoreInv'
    BY StoreStep
  <1> QED BY <1>1, <1>2, PTL DEF Spec

\* Type correctness: every variable of the domain keeps its type, whatever
\* pushes, other requests, faults and crashes interleave.
THEOREM TypeCorrect == Spec => []DomainTypeOK
  <1>1. StoreInv => DomainTypeOK
    BY DEF StoreInv
  <1> QED BY <1>1, StoreInvariant, PTL

\* No tag dangles: io_tag_commit only names versions of its branch, and
\* io_cleanup_aggressive never removes a version that a tag names.
THEOREM TagsAlwaysResolve == Spec => []TagsResolve
  <1>1. StoreInv => TagsResolve
    BY DEF StoreInv
  <1> QED BY <1>1, StoreInvariant, PTL

\* What a step may do to the tag of an indexed commit.
SnapshotKept ==
    \A c \in Commit : tags[c] # None =>
        \/ tags'[c] = tags[c] /\ Snapshot(hist', tags'[c]) = Snapshot(hist, tags[c])
        \/ tags'[c] = None /\ \E a \in Admin : RemovesTag(a, c)

\* One step moves no tag and changes no tagged version: Lance refuses to tag
\* a commit twice, and histories only grow until a DELETE removes them whole.
LEMMA SnapshotStep ==
    ASSUME StoreInv, Next
    PROVE  SnapshotKept
  <1> USE DEF StoreInv, DomainTypeOK, TypeOK
  <1>1. hist \in Histories /\ tags \in Tags /\ apc \in [Admin -> APC]
    BY DEF StoreTypeOK, AdminTypeOK
  <1>2. \A c \in Commit : tags[c] # None =>
           tags[c].branch \in Branch /\ VersionExists(hist, pruned, tags[c].branch, tags[c].version)
    BY <1>1 DEF TagsResolve, Tags, Tag
  <1>3. ASSUME hist' \in Histories, Grows(hist, hist'),
               NEW c \in Commit, tags[c] # None, tags'[c] = tags[c]
        PROVE  Snapshot(hist', tags'[c]) = Snapshot(hist, tags[c])
    BY <1>1, <1>2, <1>3, GrowsKeeps DEF Snapshot
  <1>4. ASSUME NEW p \in Push, PushAction(p) PROVE SnapshotKept
    <2>1. \A c \in Commit : tags[c] # None => tags'[c] = tags[c]
      BY <1>1, <1>4, PushTagEffect DEF TagCommit, CacheAndClean, CanTag, CreateTag, Tags
    <2> QED BY <1>3, <1>4, <2>1, PushHistory DEF SnapshotKept
  <1>5. ASSUME NEW a \in Admin,
               DeleteBranchTags(a) \/ DeleteBranchFails(a) \/ DeleteDomainRemove(a)
        PROVE  SnapshotKept
    <2>2. CASE DeleteBranchTags(a) \/ DeleteBranchFails(a)
      <3>1. ASSUME NEW c \in Commit
            PROVE  \/ tags'[c] = tags[c]
                   \/ tags'[c] = None /\ c \in CommitsOn(tags, areq[a].branch)
        BY <2>2 DEF DeleteBranchTags, DeleteBranchFails
      <3>2. hist' = hist /\ apc'[a] # apc[a] /\ apc[a] = "branchLock"
        BY <1>1, <2>2 DEF DeleteBranchTags, DeleteBranchFails
      <3> QED BY <3>1, <3>2 DEF SnapshotKept, RemovesTag, CommitsOn
    <2>3. CASE DeleteDomainRemove(a)
      <3>1. (\A c \in Commit : tags'[c] = None) /\ apc'[a] # apc[a]
               /\ apc[a] = "domainGuard"
        BY <1>1, <2>3 DEF DeleteDomainRemove, NoTags
      <3> QED BY <3>1 DEF SnapshotKept, RemovesTag
    <2> QED BY <1>5, <2>2, <2>3
  <1>6. ASSUME NEW a \in Admin, AdminAction(a), ~DeleteBranchTags(a),
               ~DeleteBranchFails(a), ~DeleteDomainRemove(a)
        PROVE  SnapshotKept
    <2>1. CASE UNCHANGED tags
      BY <1>3, <1>6, <2>1, AdminHistory DEF SnapshotKept
    <2>2. CASE AssignTag(a)
      <3>1. \A c \in Commit : tags[c] # None => tags'[c] = tags[c]
        BY <1>1, <2>2 DEF AssignTag, CanTag, CreateTag, Tags
      <3> QED BY <1>3, <1>6, <3>1, AdminHistory DEF SnapshotKept
    <2>3. CASE AdminStart(a)
      BY <2>1, <2>3 DEF AdminStart, AssignResolve, LastIndexedRead,
          DeleteBranchCancel, DeleteDomainBegin
    <2>4. CASE \/ AssignCache(a) \/ LastIndexedInsert(a) \/ DeleteBranchPurge(a)
               \/ DeleteDomainPurge(a) \/ AdminDropped(a)
      BY <2>1, <2>4 DEF AssignCache, LastIndexedInsert, DeleteBranchPurge,
          DeleteDomainPurge, AdminDropped
    <2> QED BY <1>6, <2>2, <2>3, <2>4 DEF AdminAction, AdminContinue, AdminFault
  <1>7. CASE Crash
    <2>1. UNCHANGED <<hist, tags>>
      BY <1>7 DEF Crash
    <2> QED BY <2>1 DEF SnapshotKept
  <1> QED BY <1>4, <1>5, <1>6, <1>7 DEF Next, RequestNext, PushNext, PushAction, AdminAction

\* What an indexed commit shows never changes: a tag is not moved, only the
\* DELETE of its branch or domain removes it, and the rows of its version stay as they were tagged
\* (io_tag_commit refuses an existing tag; histories only grow).
THEOREM SnapshotsAreStable == Spec => SnapshotStable
  <1>1. StoreInv /\ [Next]_vars => [SnapshotKept]_vars
    BY SnapshotStep
  <1> QED BY <1>1, StoreInvariant, PTL DEF Spec, SnapshotStable, SnapshotKept

-----------------------------------------------------------------------------
(* The domain implements CommitIndex.                                      *)

\* The tagged versions are sets of rows, the deletions under way name branches.
MappedTypeOK ==
    /\ DeletesUnderWay \in SUBSET SUBSET Branch
    /\ \A c \in Commit : tags[c] # None =>
          [branch |-> tags[c].branch, rows |-> Snapshot(hist, tags[c])]
             \in [branch : Branch, rows : SUBSET Row]

\* The refinement mapping has values of the types of CommitIndex.
LEMMA MappedTypes == StoreInv => MappedTypeOK
  <1> SUFFICES ASSUME StoreInv PROVE MappedTypeOK
    OBVIOUS
  <1>1. /\ hist \in Histories /\ tags \in Tags /\ apc \in [Admin -> APC]
        /\ \A a \in Admin : apc[a] # "idle" => areq[a] \in AdminRequests
    BY DEF StoreInv, DomainTypeOK, TypeOK, StoreTypeOK, AdminTypeOK
  <1>2. \A a \in Admin : apc[a] = "branchLock" => areq[a].branch \in Branch
    BY <1>1, AdminRequestFields
  <1>3. DeletesUnderWay \in SUBSET SUBSET Branch
    BY <1>2 DEF DeletesUnderWay
  <1>4. ASSUME NEW c \in Commit, tags[c] # None
        PROVE  tags[c].branch \in Branch /\ Snapshot(hist, tags[c]) \in SUBSET Row
    <2>1. /\ tags[c].branch \in Branch /\ hist[tags[c].branch] \in Seq(SUBSET Row)
          /\ tags[c].version \in 1 .. Len(hist[tags[c].branch])
      BY <1>1, <1>4 DEF StoreInv, TagsResolve, VersionExists, Tags, Tag, Histories
    <2> QED BY <2>1 DEF Snapshot
  <1> QED BY <1>3, <1>4 DEF MappedTypeOK

\* The same in the next state.
LEMMA MappedTypesNext == StoreInv' => MappedTypeOK'
  BY MappedTypes, PTL

\* A step changes the tags of untagged commits for one commit at most, and then
\* no DELETE begins or ends.
LEMMA TagsOneCommit ==
    ASSUME StoreInv, Next
    PROVE  \/ \A c \in Commit : tags[c] = None => tags'[c] = None
           \/ /\ DeletesUnderWay' = DeletesUnderWay
              /\ \E c \in Commit : /\ tags[c] = None /\ tags'[c] # None
                                    /\ \A d \in Commit \ {c} : tags'[d] = tags[d]
  <1> DEFINE Nothing == \A c \in Commit : tags[c] = None => tags'[c] = None
             One == \E c \in Commit : /\ tags[c] = None /\ tags'[c] # None
                                      /\ \A d \in Commit \ {c} : tags'[d] = tags[d]
  <1>1. tags \in Tags /\ apc \in [Admin -> APC] /\ areq \in [Admin -> AdminRequests \cup {None}]
    BY DEF StoreInv, DomainTypeOK, TypeOK, StoreTypeOK, AdminTypeOK
  <1>2. ASSUME NEW b, NEW c \in Commit, NEW v, NEW h, CanTag(h, b, c, v), CreateTag(b, c, v)
        PROVE  Nothing \/ One
    BY <1>1, <1>2 DEF CanTag, CreateTag, Tags
  <1>3. ASSUME NEW p \in Push, PushAction(p), UNCHANGED <<apc, adminLocal, crashes>>
        PROVE  Nothing \/ (DeletesUnderWay' = DeletesUnderWay /\ One)
    <2>1. DeletesUnderWay' = DeletesUnderWay
      BY <1>3 DEF DeletesUnderWay
    <2>2. CASE UNCHANGED tags
      BY <2>2
    <2>3. CASE TagCommit(p)
      <3>1. req[p].commit \in Commit
        BY <2>3, RequestFields DEF StoreInv, DomainTypeOK, TypeOK, ControlTypeOK, TagCommit
      <3> QED BY <1>2, <2>1, <2>2, <2>3, <3>1 DEF TagCommit
    <2>4. CASE CacheAndClean(p)
      BY <2>2, <2>4 DEF CacheAndClean
    <2> QED BY <1>3, <2>2, <2>3, <2>4, PushTagEffect
  <1>4. ASSUME NEW a \in Admin, AdminAction(a)
        PROVE  Nothing \/ (DeletesUnderWay' = DeletesUnderWay /\ One)
    <2>1. CASE AssignTag(a)
      <3>1. DeletesUnderWay' = DeletesUnderWay
        <4>1. areq' = areq /\ \A x \in Admin :
                 /\ apc[x] = "branchLock" <=> apc'[x] = "branchLock"
                 /\ apc[x] = "domainGuard" <=> apc'[x] = "domainGuard"
          BY <1>1, <2>1 DEF AssignTag
        <4> QED BY <4>1 DEF DeletesUnderWay
      <3>2. aval[a].commit \in Commit
        BY <2>1 DEF StoreInv, DomainTypeOK, AdminTypeOK, AssignTag, Indexed
      <3> QED BY <1>2, <2>1, <3>1, <3>2 DEF AssignTag
    <2>2. CASE AdminStart(a)
      BY <2>2 DEF AdminStart, AssignResolve, LastIndexedRead, DeleteBranchCancel,
          DeleteDomainBegin
    <2>3. CASE \/ AssignCache(a) \/ LastIndexedInsert(a) \/ DeleteBranchPurge(a)
               \/ DeleteDomainPurge(a) \/ AdminDropped(a)
      BY <2>3 DEF AssignCache, LastIndexedInsert, DeleteBranchPurge, DeleteDomainPurge,
          AdminDropped
    <2>4. CASE DeleteBranchTags(a) \/ DeleteBranchFails(a) \/ DeleteDomainRemove(a)
      BY <2>4 DEF DeleteBranchTags, DeleteBranchFails, DeleteDomainRemove, NoTags
    <2> QED BY <1>4, <2>1, <2>2, <2>3, <2>4 DEF AdminAction, AdminContinue, AdminFault
  <1>5. CASE Crash
    BY <1>5 DEF Crash
  <1> QED BY <1>3, <1>4, <1>5 DEF Next, RequestNext, PushNext, PushAction, AdminAction

\* The tags that a step removes are on the branches of one DELETE under way.
LEMMA TagsByOneOrder ==
    ASSUME StoreInv, Next
    PROVE  \/ \A c \in Commit : tags[c] # None => tags'[c] # None
           \/ \E order \in DeletesUnderWay :
                 \A c \in Commit : tags[c] # None /\ tags'[c] = None => tags[c].branch \in order
  <1> DEFINE Kept == \A c \in Commit : tags[c] # None => tags'[c] # None
             ByOne == \E order \in DeletesUnderWay :
                 \A c \in Commit : tags[c] # None /\ tags'[c] = None => tags[c].branch \in order
  <1>1. tags \in Tags /\ apc \in [Admin -> APC]
    BY DEF StoreInv, DomainTypeOK, TypeOK, StoreTypeOK, AdminTypeOK
  <1>2. CASE \A c \in Commit : tags[c] # None => \A a \in Admin : ~RemovesTag(a, c)
    BY <1>2, SnapshotStep DEF SnapshotKept
  <1>3. ASSUME NEW c \in Commit, tags[c] # None, NEW a \in Admin, RemovesTag(a, c)
        PROVE  Kept \/ ByOne
    <2>1. CASE PushNext /\ UNCHANGED <<apc, adminLocal, crashes>>
      BY <1>3, <2>1 DEF RemovesTag
    <2>2. CASE Crash
      BY <2>2 DEF Crash
    <2>3. ASSUME NEW x \in Admin, AdminAction(x) PROVE Kept \/ ByOne
      <3>1. CASE DeleteBranchTags(x) \/ DeleteBranchFails(x)
        <4>1. /\ \A d \in Commit : \/ tags'[d] = tags[d]
                                   \/ d \in CommitsOn(tags, areq[x].branch)
              /\ apc[x] = "branchLock"
          BY <3>1 DEF DeleteBranchTags, DeleteBranchFails
        <4>2. {areq[x].branch} \in DeletesUnderWay
          BY <4>1 DEF DeletesUnderWay
        <4> QED BY <4>1, <4>2 DEF CommitsOn
      <3>2. CASE DeleteDomainRemove(x)
        <4>1. Branch \in DeletesUnderWay
          BY <3>2 DEF DeleteDomainRemove, DeletesUnderWay
        <4>2. \A d \in Commit : tags[d] # None => tags[d].branch \in Branch
          BY <1>1 DEF Tags, Tag
        <4> QED BY <4>1, <4>2
      <3>3. CASE AssignTag(x)
        BY <1>1, <3>3 DEF AssignTag, CanTag, CreateTag, Tags
      <3>4. CASE AdminStart(x)
        BY <3>4 DEF AdminStart, AssignResolve, LastIndexedRead, DeleteBranchCancel,
            DeleteDomainBegin
      <3>5. CASE \/ AssignCache(x) \/ LastIndexedInsert(x) \/ DeleteBranchPurge(x)
                 \/ DeleteDomainPurge(x) \/ AdminDropped(x)
        BY <3>5 DEF AssignCache, LastIndexedInsert, DeleteBranchPurge, DeleteDomainPurge,
            AdminDropped
      <3> QED BY <2>3, <3>1, <3>2, <3>3, <3>4, <3>5 DEF AdminAction, AdminContinue, AdminFault
    <2> QED BY <2>1, <2>2, <2>3 DEF Next, RequestNext, AdminAction
  <1> QED BY <1>2, <1>3

\* A step of the domain is a step of the index, or leaves it unchanged.
LEMMA IndexStep ==
    ASSUME StoreInv, StoreInv', Next
    PROVE  Index!Next
  <1> DEFINE Removed == {c \in Commit : tags[c] # None /\ tags'[c] = None}
             Entry(c) == [branch |-> tags'[c].branch, rows |-> Snapshot(hist', tags'[c])]
  <1>1. /\ DeletesUnderWay' \in Index!Orders
        /\ \A c \in Commit : tags'[c] # None => Entry(c) \in Index!Entry
    BY MappedTypesNext DEF MappedTypeOK, Index!Orders, Index!Entry
  <1>2. \A c \in Commit : tags[c] # None /\ tags'[c] # None => ShownByTag'[c] = ShownByTag[c]
    BY SnapshotStep DEF SnapshotKept, ShownByTag
  <1>3. \A c \in Commit : /\ tags[c] = None => ShownByTag[c] = {}
                          /\ tags'[c] = None => ShownByTag'[c] = {}
                          /\ tags'[c] # None => ShownByTag'[c] = {Entry(c)}
    BY DEF ShownByTag
  <1>4. CASE \A c \in Commit : tags[c] = None => tags'[c] = None
    <2>1. CASE \A c \in Commit : tags[c] # None => tags'[c] # None
      <3>1. ShownByTag' = ShownByTag
        BY <1>2, <1>3, <1>4, <2>1 DEF ShownByTag
      <3> QED BY <1>1, <3>1 DEF Index!Next, Index!Order
    <2>2. ASSUME NEW order \in DeletesUnderWay,
                 \A c \in Commit : tags[c] # None /\ tags'[c] = None => tags[c].branch \in order
          PROVE  Index!Next
      <3>1. \A c \in Removed : \E e \in ShownByTag[c] : e.branch \in order
        BY <2>2 DEF ShownByTag
      <3>2. ShownByTag' = [c \in Commit |-> IF c \in Removed THEN {} ELSE ShownByTag[c]]
        BY <1>2, <1>3, <1>4 DEF ShownByTag
      <3>3. Index!Retract(order, Removed)
        BY <1>1, <3>1, <3>2 DEF Index!Retract
      <3> QED BY <3>3 DEF Index!Next
    <2> QED BY <2>1, <2>2, TagsByOneOrder
  <1>5. ASSUME DeletesUnderWay' = DeletesUnderWay,
               NEW c \in Commit, tags[c] = None, tags'[c] # None,
               \A d \in Commit \ {c} : tags'[d] = tags[d]
        PROVE  Index!Next
    <2>1. \A d \in Commit \ {c} : ShownByTag'[d] = ShownByTag[d]
      BY <1>2, <1>3, <1>5
    <2>2. ShownByTag' = [ShownByTag EXCEPT ![c] = {Entry(c)}]
      BY <1>3, <1>5, <2>1 DEF ShownByTag
    <2>3. Index!Publish(c, Entry(c))
      BY <1>3, <1>5, <2>2 DEF Index!Publish
    <2> QED BY <1>1, <1>5, <2>3 DEF Index!Next
  <1> QED BY <1>4, <1>5, TagsOneCommit

\* The domain, with all its datasets, versions, tags, caches, locks, errors and
\* crashes, implements the index of commits that its readers see.
THEOREM DomainImplementsIndex == Spec => ImplementsIndex
  <1>1. Init => Index!Init
    <2> SUFFICES ASSUME Init PROVE Index!Init
      OBVIOUS
    <2>1. ShownByTag = [c \in Commit |-> {}]
      BY DEF Init, PushInit, ShownByTag, NoTags
    <2>2. DeletesUnderWay = {}
      BY DEF Init, DeletesUnderWay
    <2> QED BY <2>1, <2>2 DEF Index!Init
  <1>2. StoreInv /\ StoreInv' /\ [Next]_vars => [Index!Next]_<<ShownByTag, DeletesUnderWay>>
    <2>1. CASE UNCHANGED vars
      BY <2>1 DEF vars, pushVars, ShownByTag, DeletesUnderWay
    <2> QED BY <2>1, IndexStep
  <1> QED BY <1>1, <1>2, StoreInvariant, PTL DEF Spec, ImplementsIndex, Index!Spec

-----------------------------------------------------------------------------
(* The mutexes of LanceStore (pipeline_locks, domain_guards) and the       *)
(* reservation of commits.  LockDiscipline holds for every set of          *)
(* requests.  It is about one generation of the maps, and DELETE /domain   *)
(* starts a new one under the feet of running pushes, so mutual exclusion  *)
(* itself (OneWriter) is proved for a server that receives no DELETE       *)
(* /domain.  Every DELETE empties the set of reservations, those of        *)
(* waiting pushes included, so single reservation (ReservedOnce) is proved *)
(* for a server without any.                                               *)

\* A running pipeline owns the mutexes it looked up.
Owns(p) ==
    /\ pc[p] \in Running => <<req[p].branch, lk[p], p>> \in locks
    /\ pc[p] \in Guarded => <<gd[p], p>> \in guards

\* A mutex has one owner.
OneOwner ==
    /\ \A l, m \in locks : l[1] = m[1] /\ l[2] = m[2] => l = m
    /\ \A g, h \in guards : g[1] = h[1] => g = h

\* A push takes a mutex only when nobody has it, and keeps it while it runs.
LEMMA PushLocks ==
    ASSUME TypeOK, LockDiscipline, NEW p \in Push, PushAction(p)
    PROVE  LockDiscipline'
  <1> USE ActorAssumption DEF TypeOK
  <1>1. /\ pc \in [Push -> PC] /\ lk \in [Push -> Nat] /\ gd \in [Push -> Nat]
        /\ req \in [Push -> Requests \cup {None}]
        /\ locks \in SUBSET (Branch \X Nat \X Actor)
        /\ guards \in SUBSET (Nat \X Actor)
        /\ OneOwner /\ \A q \in Push : Owns(q)
    BY DEF ControlTypeOK, FrameTypeOK, MapsTypeOK, LockDiscipline, Owns, OneOwner
  <1>2. ASSUME OneOwner', \A q \in Push : Owns(q)'
        PROVE  LockDiscipline'
    BY <1>2 DEF LockDiscipline, Owns, OneOwner
  \* Other pushes keep what they own if only p's entries go.
  <1>3. ASSUME LocksWithout(p) \subseteq locks', GuardsWithout(p) \subseteq guards',
               OneOwner', Owns(p)',
               \A q \in Push \ {p} : /\ pc'[q] = pc[q] /\ req'[q] = req[q]
                                     /\ lk'[q] = lk[q] /\ gd'[q] = gd[q]
        PROVE  LockDiscipline'
    <2>1. ASSUME NEW q \in Push \ {p} PROVE Owns(q)'
      BY <1>1, <1>3, <2>1 DEF Owns, LocksWithout, GuardsWithout
    <2> QED BY <1>2, <1>3, <2>1
  \* Most steps keep the mutexes and go to a point that needs no more of them.
  <1>4. ASSUME UNCHANGED <<mutexes, req, lk, gd>>,
               NEW s \in PC, pc' = [pc EXCEPT ![p] = s],
               s \in Running => pc[p] \in Running,
               s \in Guarded => pc[p] \in Guarded
        PROVE  LockDiscipline'
    BY <1>1, <1>2, <1>4 DEF Owns, OneOwner
  \* The pipeline returns: the guard goes, the lock stays.
  <1>5. ASSUME guards' = GuardsWithout(p), UNCHANGED <<locks, req, lk, gd>>,
               pc' = [pc EXCEPT ![p] = "unregister"], pc[p] \in Running
        PROVE  LockDiscipline'
    <2>1. OneOwner' /\ Owns(p)'
      BY <1>1, <1>5 DEF Owns, OneOwner, GuardsWithout
    <2> QED BY <1>1, <1>3, <1>5, <2>1 DEF LocksWithout
  \* The handler or the task ends and drops what it holds.
  <1>6. ASSUME locks' \in {locks, LocksWithout(p)},
               guards' \in {guards, GuardsWithout(p)},
               DropFrame(p) \/ UNCHANGED <<lk, gd>>, UNCHANGED req,
               NEW s \in PC \ Running, pc' = [pc EXCEPT ![p] = s]
        PROVE  LockDiscipline'
    <2>1. OneOwner' /\ Owns(p)'
      BY <1>1, <1>6 DEF Owns, OneOwner, LocksWithout, GuardsWithout
    <2> QED BY <1>1, <1>3, <1>6, <2>1 DEF LocksWithout, GuardsWithout, DropFrame
  <1>7. ASSUME NEW r \in Requests, Reserve(p, r) PROVE LockDiscipline'
    <2>1. /\ UNCHANGED <<locks, guards, gd>> /\ req' = [req EXCEPT ![p] = r]
          /\ lk' \in {lk, [lk EXCEPT ![p] = epoch]}
          /\ \E s \in {"conflict", "fork", "register"} : pc' = [pc EXCEPT ![p] = s]
      BY <1>7 DEF Reserve
    <2>2. OneOwner' /\ Owns(p)'
      BY <1>1, <2>1 DEF Owns, OneOwner
    <2> QED BY <1>1, <1>3, <2>1, <2>2 DEF LocksWithout, GuardsWithout
  <1>8. CASE Register(p)
    <2>1. /\ UNCHANGED <<locks, guards, req, gd>> /\ lk' = [lk EXCEPT ![p] = epoch]
          /\ pc' = [pc EXCEPT ![p] = "lockWait"]
      BY <1>8 DEF Register
    <2>2. OneOwner' /\ Owns(p)'
      BY <1>1, <2>1 DEF Owns, OneOwner
    <2> QED BY <1>1, <1>3, <2>1, <2>2 DEF LocksWithout, GuardsWithout
  <1>9. CASE AcquireLock(p)
    <2>1. /\ locks' = locks \cup {<<req[p].branch, lk[p], p>>}
          /\ LockFree(req[p].branch, lk[p])
          /\ UNCHANGED <<guards, req, lk>> /\ gd' = [gd EXCEPT ![p] = epoch]
          /\ pc' = [pc EXCEPT ![p] = "guardWait"]
      BY <1>9 DEF AcquireLock
    <2>2. OneOwner'
      BY <1>1, <2>1 DEF OneOwner, LockFree
    <2>3. Owns(p)'
      BY <1>1, <2>1 DEF Owns
    <2> QED BY <1>1, <1>3, <2>1, <2>2, <2>3 DEF LocksWithout, GuardsWithout
  <1>10. CASE Open(p)
    <2>1. CASE /\ guards' = guards \cup {<<gd[p], p>>} /\ GuardFree(gd[p])
               /\ UNCHANGED <<locks, req, lk, gd>> /\ pc[p] = "guardWait"
               /\ pc' = [pc EXCEPT ![p] = "recv"]
      <3>1. OneOwner'
        BY <1>1, <2>1 DEF OneOwner, GuardFree
      <3>2. Owns(p)'
        BY <1>1, <2>1 DEF Owns
      <3> QED BY <1>1, <1>3, <2>1, <3>1, <3>2 DEF LocksWithout, GuardsWithout
    <2>2. CASE Fail(p)
      BY <1>5, <1>10, <2>2 DEF Open, Fail
    <2> QED BY <1>10, <2>1, <2>2 DEF Open
  <1>11. CASE EndOfInput(p)
    <2>1. CASE Fail(p)
      BY <1>5, <1>11, <2>1 DEF EndOfInput, Fail
    <2>2. CASE UNCHANGED guards /\ pc' = [pc EXCEPT ![p] = NextWrite(wr'[p])]
      <3>1. NextWrite(wr'[p]) \in {"delete", "append", "noop"}
        BY DEF NextWrite
      <3> QED BY <1>4, <1>11, <2>2, <3>1 DEF EndOfInput
    <2> QED BY <1>11, <2>1, <2>2 DEF EndOfInput
  <1>12. CASE StopReceiving(p) \/ WriteFails(p)
    BY <1>5, <1>12 DEF StopReceiving, WriteFails, Fail
  <1>13. CASE Delete(p) \/ AppendRows(p) \/ BuildIndex(p)
    BY <1>4, <1>13 DEF Delete, AppendRows, BuildIndex, Write
  <1>14. CASE Noop(p) \/ TagCommit(p)
    BY <1>4, <1>5, <1>14 DEF Noop, TagCommit, Fail
  <1>15. CASE CacheAndClean(p)
    BY <1>5, <1>15 DEF CacheAndClean
  <1>16. CASE Fork(p) \/ LockTimeout(p) \/ Unregister(p) \/ RecordResult(p)
    BY <1>4, <1>16 DEF Fork, LockTimeout, Unregister, RecordResult
  <1>17. CASE \/ ForkFailed(p) \/ TimeoutReregister(p) \/ Disconnect(p)
              \/ Release(p) \/ Panic(p) \/ Monitor(p)
    BY <1>6, <1>17
       DEF ForkFailed, TimeoutReregister, Disconnect, Release, Panic, Monitor
  <1>18. CASE \/ BodyClosed(p) \/ BodyMalformed(p) \/ BodyBroken(p)
              \/ RecordBodyError(p)
    <2>1. UNCHANGED <<locks, guards, pc, req, lk, gd>>
      BY <1>18 DEF BodyClosed, BodyMalformed, BodyBroken, RecordBodyError
    <2> QED BY <2>1 DEF LockDiscipline
  <1> QED
    BY <1>7, <1>8, <1>9, <1>10, <1>11, <1>12, <1>13, <1>14, <1>15, <1>16,
       <1>17, <1>18
       DEF PushAction, PushStep, ClientStep, PushFault

\* So do the DELETE requests; DELETE /domain starts a new generation of the
\* mutex maps and leaves the owners of the old one in place.
LEMMA AdminLocks ==
    ASSUME TypeOK, LockDiscipline, NEW a \in Admin, AdminAction(a)
    PROVE  LockDiscipline'
  <1>1. UNCHANGED <<pc, req, lk, gd>>
    BY DEF AdminAction, AdminStart, AssignResolve, LastIndexedRead,
        DeleteBranchCancel, DeleteDomainBegin, AdminFault, DeleteBranchFails,
        AdminDropped, AdminContinue, AssignTag, AssignCache,
        LastIndexedInsert, DeleteBranchTags, DeleteBranchPurge,
        DeleteDomainRemove, DeleteDomainPurge, PushesUnchanged
  <1>2. a \notin Push
    BY ActorAssumption
  <1>3. CASE UNCHANGED <<locks, guards>>
    BY <1>1, <1>3 DEF LockDiscipline
  <1>4. CASE DeleteBranchTags(a)
    <2>1. /\ UNCHANGED guards /\ LockFree(areq[a].branch, aep[a])
          /\ locks' = locks \cup {<<areq[a].branch, aep[a], a>>}
      BY <1>4 DEF DeleteBranchTags
    <2>2. \A l, m \in locks' : l[1] = m[1] /\ l[2] = m[2] => l = m
      BY <2>1 DEF LockDiscipline, LockFree
    <2> QED BY <1>1, <2>1, <2>2 DEF LockDiscipline
  <1>5. CASE DeleteBranchPurge(a)
    BY <1>1, <1>2, <1>5 DEF DeleteBranchPurge, LocksWithout, LockDiscipline
  <1>6. CASE DeleteDomainRemove(a)
    <2>1. /\ UNCHANGED locks /\ GuardFree(aep[a])
          /\ guards' = guards \cup {<<aep[a], a>>}
      BY <1>6 DEF DeleteDomainRemove
    <2>2. \A g, h \in guards' : g[1] = h[1] => g = h
      BY <2>1 DEF LockDiscipline, GuardFree
    <2> QED BY <1>1, <2>1, <2>2 DEF LockDiscipline
  <1>7. CASE DeleteDomainPurge(a)
    BY <1>1, <1>2, <1>7 DEF DeleteDomainPurge, GuardsWithout, LockDiscipline
  <1>8. CASE AdminStart(a)
    BY <1>3, <1>8 DEF AdminStart, AssignResolve, LastIndexedRead,
        DeleteBranchCancel, DeleteDomainBegin
  <1>9. CASE \/ AssignTag(a) \/ AssignCache(a) \/ LastIndexedInsert(a)
             \/ DeleteBranchFails(a)
    BY <1>3, <1>9 DEF AssignTag, AssignCache, LastIndexedInsert, DeleteBranchFails
  <1>10. CASE AdminDropped(a)
    BY <1>1, <1>2, <1>10
       DEF AdminDropped, LocksWithout, GuardsWithout, LockDiscipline
  <1> QED BY <1>4, <1>5, <1>6, <1>7, <1>8, <1>9, <1>10
          DEF AdminAction, AdminContinue, AdminFault

\* acquire_pipeline_lock and acquire_domain_guard: within one generation of
\* the maps a mutex has at most one owner, and a running pipeline is the owner
\* of the lock (and, from open to tag, of the guard) it looked up.
THEOREM MutexesAreExclusive == Spec => []LockDiscipline
  <1>1. Init => LockDiscipline
    BY DEF Init, PushInit, LockDiscipline
  <1>2. StoreInv /\ LockDiscipline /\ [Next]_vars => LockDiscipline'
    <2> SUFFICES ASSUME StoreInv, LockDiscipline, [Next]_vars
                 PROVE  LockDiscipline'
      OBVIOUS
    <2>1. TypeOK
      BY DEF StoreInv, DomainTypeOK
    <2>2. CASE PushNext
      BY <2>1, <2>2, PushLocks DEF PushNext, PushAction
    <2>3. CASE \E a \in Admin : AdminAction(a)
      BY <2>1, <2>3, AdminLocks
    <2>4. CASE Crash
      BY <2>1, <2>4 DEF Crash, LockDiscipline, TypeOK, ControlTypeOK
    <2>5. CASE UNCHANGED vars
      BY <2>5 DEF vars, pushVars, LockDiscipline
    <2> QED BY <2>2, <2>3, <2>4, <2>5 DEF Next, RequestNext, AdminAction
  <1> QED BY <1>1, <1>2, StoreInvariant, PTL DEF Spec

-----------------------------------------------------------------------------
(* Without DELETE /domain there is one generation of the maps.             *)

OneGeneration ==
    /\ epoch = 0
    /\ \A p \in Push : lk[p] = 0 /\ gd[p] = 0
    /\ \A a \in Admin : apc[a] \notin {"domainGuard", "domainPurge"}

\* A push looks mutexes up in the current generation of the maps, and forgets
\* the generation when its handler or task ends.
LEMMA PushGenerations ==
    ASSUME NEW p \in Push, PushAction(p)
    PROVE  /\ epoch' = epoch
           /\ lk' \in {lk, [lk EXCEPT ![p] = epoch], [lk EXCEPT ![p] = 0]}
           /\ gd' \in {gd, [gd EXCEPT ![p] = epoch], [gd EXCEPT ![p] = 0]}
  <1>1. ASSUME NEW r \in Requests, Reserve(p, r)
        PROVE  /\ UNCHANGED <<epoch, gd>>
               /\ lk' \in {lk, [lk EXCEPT ![p] = epoch]}
    BY <1>1 DEF Reserve
  <1>2. CASE \/ Fork(p) \/ ForkFailed(p) \/ Register(p) \/ AcquireLock(p)
             \/ LockTimeout(p) \/ TimeoutReregister(p) \/ Disconnect(p)
    BY <1>2 DEF Fork, ForkFailed, Register, AcquireLock, LockTimeout,
        TimeoutReregister, Disconnect, DropFrame
  <1>3. CASE \/ Open(p) \/ EndOfInput(p) \/ StopReceiving(p) \/ Noop(p)
             \/ TagCommit(p) \/ WriteFails(p) \/ CacheAndClean(p)
    BY <1>3 DEF Open, EndOfInput, StopReceiving, Noop, TagCommit, WriteFails,
        CacheAndClean
  <1>4. CASE Delete(p) \/ AppendRows(p) \/ BuildIndex(p)
    BY <1>4 DEF Delete, AppendRows, BuildIndex, Write
  <1>5. CASE \/ Unregister(p) \/ RecordResult(p) \/ Release(p) \/ Panic(p)
             \/ Monitor(p)
    BY <1>5 DEF Unregister, RecordResult, Release, Panic, Monitor, DropFrame
  <1>6. CASE \/ BodyClosed(p) \/ BodyMalformed(p) \/ BodyBroken(p)
             \/ RecordBodyError(p)
    BY <1>6 DEF BodyClosed, BodyMalformed, BodyBroken, RecordBodyError
  <1> QED BY <1>1, <1>2, <1>3, <1>4, <1>5, <1>6
          DEF PushAction, PushStep, ClientStep, PushFault

\* Without DELETE /domain every mutex is looked up in the first generation.
LEMMA OneGenerationStep ==
    ASSUME \A r \in AdminRequests : r.op # "deleteDomain",
           DomainTypeOK, OneGeneration, [Next]_vars
    PROVE  OneGeneration'
  <1> USE DEF DomainTypeOK, TypeOK
  <1>1. /\ lk \in [Push -> Nat] /\ gd \in [Push -> Nat] /\ apc \in [Admin -> APC]
    BY DEF FrameTypeOK, AdminTypeOK
  <1>3. CASE PushNext /\ UNCHANGED <<apc, adminLocal, crashes>>
    BY <1>1, <1>3, PushGenerations DEF PushNext, PushAction, OneGeneration
  <1>4. ASSUME NEW a \in Admin, AdminAction(a)
        PROVE  OneGeneration'
    <2>1. ~DeleteDomainBegin(a) /\ ~DeleteDomainRemove(a) /\ ~DeleteDomainPurge(a)
      BY DEF OneGeneration, DeleteDomainBegin, Admit, DeleteDomainRemove,
          DeleteDomainPurge
    <2>2. /\ UNCHANGED <<epoch, lk, gd>>
          /\ \E s \in APC \ {"domainGuard", "domainPurge"} :
                apc' = [apc EXCEPT ![a] = s]
      BY <1>4, <2>1 DEF AdminAction, AdminStart, AssignResolve, LastIndexedRead,
          DeleteBranchCancel, AdminFault, DeleteBranchFails, AdminDropped,
          AdminContinue, AssignTag, AssignCache,
          LastIndexedInsert, DeleteBranchTags, DeleteBranchPurge, PushesUnchanged
    <2> QED BY <1>1, <2>2 DEF OneGeneration
  <1>5. CASE Crash
    BY <1>1, <1>5 DEF Crash, OneGeneration
  <1>6. CASE UNCHANGED vars
    BY <1>6 DEF vars, pushVars, OneGeneration
  <1> QED BY <1>3, <1>4, <1>5, <1>6 DEF Next, RequestNext, AdminAction

\* In a server that gets no DELETE /domain, two pushes never run pipelines on
\* the same branch, and never work on the dataset of the domain together.
THEOREM OneWriterPerBranch ==
    ASSUME \A r \in AdminRequests : r.op # "deleteDomain"
    PROVE  Spec => []OneWriter
  <1>1. Init => OneGeneration
    BY DEF Init, PushInit, OneGeneration
  <1>2. StoreInv /\ OneGeneration /\ [Next]_vars => OneGeneration'
    BY OneGenerationStep DEF StoreInv
  <1>3. StoreInv /\ LockDiscipline /\ OneGeneration => OneWriter
    <2> SUFFICES ASSUME StoreInv, LockDiscipline, OneGeneration,
                        NEW p \in Push, NEW q \in Push, p # q
                 PROVE  /\ pc[p] \in Running /\ pc[q] \in Running
                               => req[p].branch # req[q].branch
                        /\ ~(pc[p] \in Guarded /\ pc[q] \in Guarded)
      BY DEF OneWriter
    <2>1. lk[p] = 0 /\ lk[q] = 0 /\ gd[p] = 0 /\ gd[q] = 0
      BY DEF OneGeneration
    <2>2. ASSUME pc[p] \in Running, pc[q] \in Running,
                 req[p].branch = req[q].branch
          PROVE  FALSE
      <3>1. /\ <<req[p].branch, 0, p>> \in locks
            /\ <<req[p].branch, 0, q>> \in locks
        BY <2>1, <2>2 DEF LockDiscipline
      <3> QED BY <3>1 DEF LockDiscipline
    <2>3. ASSUME pc[p] \in Guarded, pc[q] \in Guarded
          PROVE  FALSE
      <3>1. <<0, p>> \in guards /\ <<0, q>> \in guards
        BY <2>1, <2>3 DEF LockDiscipline
      <3> QED BY <3>1 DEF LockDiscipline
    <2> QED BY <2>2, <2>3
  <1> QED BY <1>1, <1>2, <1>3, StoreInvariant, MutexesAreExclusive, PTL DEF Spec

-----------------------------------------------------------------------------
(* Reservations.                                                           *)

\* No request is on its way to purge the reservations.
NoPurge == \A a \in Admin : apc[a] \notin {"branchLock", "branchPurge",
                                            "domainGuard", "domainPurge"}

\* A push reserves a free (branch, commit), and releases only its own.
LEMMA PushReservations ==
    ASSUME TypeOK, ReservedOnce, NEW p \in Push, PushAction(p)
    PROVE  ReservedOnce'
  <1> USE DEF TypeOK
  <1>1. pc \in [Push -> PC] /\ req \in [Push -> Requests \cup {None}]
    BY DEF ControlTypeOK
  \* The reservation is neither made nor dropped, or p leaves without it.
  <1>2. ASSUME UNCHANGED <<inflight, req>>, NEW s \in PC,
               pc' = [pc EXCEPT ![p] = s], s \in Reserved => pc[p] \in Reserved
        PROVE  ReservedOnce'
    BY <1>1, <1>2 DEF ReservedOnce, Key
  \* p drops its own reservation and leaves.
  <1>3. ASSUME ReleaseReservation(p), UNCHANGED req, pc[p] \in Reserved,
               NEW s \in PC \ Reserved, pc' = [pc EXCEPT ![p] = s]
        PROVE  ReservedOnce'
    BY <1>1, <1>3 DEF ReservedOnce, ReleaseReservation, Key
  <1>4. ASSUME NEW r \in Requests, Reserve(p, r) PROVE ReservedOnce'
    <2>1. pc[p] = "idle" /\ req' = [req EXCEPT ![p] = r]
      BY <1>4 DEF Reserve
    <2>2. CASE pc' = [pc EXCEPT ![p] = "conflict"] /\ UNCHANGED inflight
      BY <1>1, <2>1, <2>2 DEF ReservedOnce, Key
    <2>3. CASE /\ <<r.branch, r.commit>> \notin inflight
               /\ inflight' = inflight \cup {<<r.branch, r.commit>>}
               /\ \E s \in {"fork", "register"} : pc' = [pc EXCEPT ![p] = s]
      <3>1. \A q \in Push \ {p} : pc[q] \in Reserved =>
               Key(q) \in inflight /\ Key(q) # <<r.branch, r.commit>>
        BY <2>3 DEF ReservedOnce
      <3>2. /\ \A q \in Push \ {p} : pc'[q] = pc[q] /\ Key(q)' = Key(q)
            /\ Key(p)' = <<r.branch, r.commit>>
        BY <1>1, <2>1, <2>3 DEF Key
      <3>3. \A q \in Push : pc'[q] \in Reserved => Key(q)' \in inflight'
        BY <2>3, <3>1, <3>2
      <3>4. ASSUME NEW q1 \in Push, NEW q2 \in Push, pc'[q1] \in Reserved,
                   pc'[q2] \in Reserved, Key(q1)' = Key(q2)'
            PROVE  q1 = q2
        BY <3>1, <3>2, <3>4 DEF ReservedOnce
      <3> QED BY <3>3, <3>4 DEF ReservedOnce
    <2> QED BY <1>4, <2>2, <2>3 DEF Reserve
  <1>5. CASE ForkFailed(p) \/ LockTimeout(p) \/ Release(p) \/ Monitor(p)
    BY <1>3, <1>5 DEF ForkFailed, LockTimeout, Release, Monitor
  <1>6. CASE \/ Fork(p) \/ Register(p) \/ AcquireLock(p) \/ TimeoutReregister(p)
             \/ Disconnect(p)
    BY <1>2, <1>6 DEF Fork, Register, AcquireLock, TimeoutReregister, Disconnect
  <1>7. CASE EndOfInput(p)
    <2>1. NextWrite(wr'[p]) \in {"delete", "append", "noop"}
      BY DEF NextWrite
    <2> QED BY <1>2, <1>7, <2>1 DEF EndOfInput, Fail
  <1>8. CASE \/ Open(p) \/ StopReceiving(p) \/ Noop(p) \/ TagCommit(p)
             \/ WriteFails(p) \/ CacheAndClean(p)
    BY <1>2, <1>8 DEF Open, StopReceiving, Noop, TagCommit, WriteFails,
        CacheAndClean, Fail
  <1>9. CASE Delete(p) \/ AppendRows(p) \/ BuildIndex(p)
    BY <1>2, <1>9 DEF Delete, AppendRows, BuildIndex, Write
  <1>10. CASE Unregister(p) \/ RecordResult(p) \/ Panic(p)
    BY <1>2, <1>10 DEF Unregister, RecordResult, Panic
  <1>11. CASE \/ BodyClosed(p) \/ BodyMalformed(p) \/ BodyBroken(p)
              \/ RecordBodyError(p)
    <2>1. UNCHANGED <<inflight, req, pc>>
      BY <1>11 DEF BodyClosed, BodyMalformed, BodyBroken, RecordBodyError
    <2> QED BY <2>1 DEF ReservedOnce, Key
  <1> QED
    BY <1>4, <1>5, <1>6, <1>7, <1>8, <1>9, <1>10, <1>11
       DEF PushAction, PushStep, ClientStep, PushFault

\* Without DELETE, no other request touches the reservations.
LEMMA AdminReservations ==
    ASSUME \A r \in AdminRequests : r.op \notin {"deleteBranch", "deleteDomain"},
           DomainTypeOK, ReservedOnce, NoPurge, NEW a \in Admin,
           AdminAction(a)
    PROVE  ReservedOnce' /\ NoPurge'
  <1>1. /\ ~DeleteBranchCancel(a) /\ ~DeleteBranchTags(a) /\ ~DeleteBranchPurge(a)
        /\ ~DeleteDomainBegin(a) /\ ~DeleteDomainRemove(a) /\ ~DeleteDomainPurge(a)
        /\ ~DeleteBranchFails(a)
    BY DEF NoPurge, DeleteBranchFails, DeleteBranchCancel, DeleteBranchTags, DeleteBranchPurge,
        DeleteDomainBegin, DeleteDomainRemove, DeleteDomainPurge, Admit
  <1>2. /\ UNCHANGED <<inflight, req, pc>>
        /\ \E s \in {"assignTag", "assignCache", "insert", "done"} :
              apc' = [apc EXCEPT ![a] = s]
    BY <1>1 DEF AdminAction, AdminStart, AssignResolve, LastIndexedRead,
        AdminFault, AdminDropped, AdminContinue, AssignTag, AssignCache, LastIndexedInsert, PushesUnchanged
  <1>3. apc \in [Admin -> APC]
    BY DEF DomainTypeOK, AdminTypeOK
  <1> QED BY <1>2, <1>3 DEF ReservedOnce, Key, NoPurge

\* The 409 state machine (io_try_reserve_commit, io_release_commit_reservation)
\* in a server that gets no DELETE: a (branch, commit) is in the hands of at
\* most one push, whose reservation stays in the set until it releases it,
\* whatever times out, fails, panics, disconnects or crashes.
THEOREM ReservationIsUnique ==
    ASSUME \A r \in AdminRequests : r.op \notin {"deleteBranch", "deleteDomain"}
    PROVE  Spec => []ReservedOnce
  <1>1. Init => ReservedOnce /\ NoPurge
    BY DEF Init, PushInit, ReservedOnce, NoPurge
  <1>2. StoreInv /\ ReservedOnce /\ NoPurge /\ [Next]_vars => ReservedOnce' /\ NoPurge'
    <2> SUFFICES ASSUME StoreInv, ReservedOnce, NoPurge, [Next]_vars
                 PROVE  ReservedOnce' /\ NoPurge'
      OBVIOUS
    <2>1. DomainTypeOK /\ TypeOK
      BY DEF StoreInv, DomainTypeOK
    <2>2. CASE PushNext /\ UNCHANGED <<apc, adminLocal, crashes>>
      BY <2>1, <2>2, PushReservations DEF PushNext, PushAction, NoPurge
    <2>3. CASE \E a \in Admin : AdminAction(a)
      BY <2>1, <2>3, AdminReservations
    <2>4. CASE Crash
      BY <2>1, <2>4 DEF Crash, ReservedOnce, NoPurge, TypeOK, ControlTypeOK
    <2>5. CASE UNCHANGED vars
      BY <2>5 DEF vars, pushVars, ReservedOnce, Key, NoPurge
    <2> QED BY <2>2, <2>3, <2>4, <2>5 DEF Next, RequestNext, AdminAction
  <1> QED BY <1>1, <1>2, StoreInvariant, PTL DEF Spec

-----------------------------------------------------------------------------
(* Publication: what a push that reports Complete has achieved.            *)

\* A step of one push leaves the local state of the others.
LEMMA PushLocal ==
    ASSUME TypeOK, NEW p \in Push, PushAction(p), NEW q \in Push \ {p}
    PROVE  /\ pc'[q] = pc[q] /\ req'[q] = req[q]
           /\ wr'[q] = wr[q] /\ ver'[q] = ver[q] /\ res'[q] = res[q]
  <1>1. /\ pc \in [Push -> PC] /\ req \in [Push -> Requests \cup {None}]
        /\ wr \in [Push -> [del : SUBSET Doc, add : SUBSET Doc]]
        /\ ver \in [Push -> Nat] /\ res \in [Push -> {"none", "ok", "err"}]
    BY DEF TypeOK, ControlTypeOK, FrameTypeOK
  <1>2. ASSUME NEW r \in Requests, Reserve(p, r)
        PROVE  /\ pc'[q] = pc[q] /\ req'[q] = req[q] /\ UNCHANGED <<wr, ver, res>>
    BY <1>1, <1>2 DEF Reserve
  <1>3. CASE \/ Fork(p) \/ ForkFailed(p) \/ Register(p) \/ AcquireLock(p)
             \/ LockTimeout(p) \/ TimeoutReregister(p) \/ Disconnect(p)
    BY <1>1, <1>3 DEF Fork, ForkFailed, Register, AcquireLock, LockTimeout,
        TimeoutReregister, Disconnect, DropFrame
  <1>4. CASE Open(p) \/ EndOfInput(p) \/ StopReceiving(p)
    BY <1>1, <1>4 DEF Open, EndOfInput, StopReceiving, Fail
  <1>5. CASE Noop(p) \/ TagCommit(p) \/ WriteFails(p) \/ CacheAndClean(p)
    BY <1>1, <1>5 DEF Noop, TagCommit, WriteFails, CacheAndClean, Fail
  <1>6. CASE Delete(p) \/ AppendRows(p) \/ BuildIndex(p)
    BY <1>1, <1>6 DEF Delete, AppendRows, BuildIndex, Write
  <1>7. CASE \/ Unregister(p) \/ RecordResult(p) \/ Release(p) \/ Panic(p)
             \/ Monitor(p)
    BY <1>1, <1>7 DEF Unregister, RecordResult, Release, Panic, Monitor, DropFrame
  <1>8. CASE \/ BodyClosed(p) \/ BodyMalformed(p) \/ BodyBroken(p)
             \/ RecordBodyError(p)
    BY <1>8 DEF BodyClosed, BodyMalformed, BodyBroken, RecordBodyError
  <1> QED BY <1>2, <1>3, <1>4, <1>5, <1>6, <1>7, <1>8
          DEF PushAction, PushStep, ClientStep, PushFault

\* The other requests leave the local state of the pushes.
LEMMA AdminLocal ==
    ASSUME NEW a \in Admin, AdminAction(a)
    PROVE  UNCHANGED <<pc, req, wr, ver, res, lk, gd>>
  BY DEF AdminAction, AdminStart, AssignResolve, LastIndexedRead,
      DeleteBranchCancel, DeleteDomainBegin, AdminFault, DeleteBranchFails,
      AdminDropped, AdminContinue, AssignTag, AssignCache,
      LastIndexedInsert, DeleteBranchTags, DeleteBranchPurge,
      DeleteDomainRemove, DeleteDomainPurge, PushesUnchanged

-----------------------------------------------------------------------------
(* The first life of a domain ends with its first DELETE: until then all   *)
(* mutexes are of the first generation.                                    *)

FirstLife ==
    incarn = 0 =>
        /\ epoch = 0
        /\ \A p \in Push : lk[p] = 0 /\ gd[p] = 0
        /\ \A a \in Admin : aep[a] = 0 /\ apc[a] # "domainPurge"

\* A step keeps the incarnation, or is the removal of the directory.
LEMMA IncarnationStep ==
    ASSUME StoreInv, Next
    PROVE  \/ incarn' = incarn
           \/ incarn' # 0 /\ \E a \in Admin : DeleteDomainRemove(a)
  <1>1. incarn \in Nat
    BY DEF StoreInv, DomainTypeOK, TypeOK, StoreTypeOK
  <1>2. ASSUME NEW p \in Push, PushAction(p) PROVE incarn' = incarn
    BY <1>2, PushTagEffect DEF TagCommit, CacheAndClean
  <1>3. ASSUME NEW a \in Admin, AdminAction(a), ~DeleteDomainRemove(a)
        PROVE  incarn' = incarn
    BY <1>3, AdminHistory
  <1>4. ASSUME NEW a \in Admin, DeleteDomainRemove(a) PROVE incarn' # 0
    BY <1>1, <1>4 DEF DeleteDomainRemove
  <1>5. CASE Crash
    BY <1>5 DEF Crash
  <1> QED BY <1>2, <1>3, <1>4, <1>5 DEF Next, RequestNext, PushNext, PushAction, AdminAction

\* Mutexes are looked up in the generation that lasts until the purge of a
\* DELETE /domain, which comes after the removal.
LEMMA FirstLifeStep ==
    ASSUME StoreInv, FirstLife, [Next]_vars
    PROVE  FirstLife'
  <1> SUFFICES ASSUME incarn' = 0
               PROVE  /\ epoch' = 0
                      /\ \A p \in Push : lk'[p] = 0 /\ gd'[p] = 0
                      /\ \A a \in Admin : aep'[a] = 0 /\ apc'[a] # "domainPurge"
    BY DEF FirstLife
  <1>1. /\ lk \in [Push -> Nat] /\ gd \in [Push -> Nat] /\ apc \in [Admin -> APC]
        /\ aep \in [Admin -> Nat]
    BY DEF StoreInv, DomainTypeOK, TypeOK, FrameTypeOK, AdminTypeOK
  <1>2. CASE UNCHANGED vars
    BY <1>2 DEF FirstLife, vars, pushVars
  <1>3. CASE Next
    <2>1. incarn = 0
      BY <1>3, IncarnationStep
    <2>2. /\ epoch = 0 /\ \A p \in Push : lk[p] = 0 /\ gd[p] = 0
          /\ \A a \in Admin : aep[a] = 0 /\ apc[a] # "domainPurge"
      BY <2>1 DEF FirstLife
    <2>3. CASE PushNext /\ UNCHANGED <<apc, adminLocal, crashes>>
      BY <1>1, <2>2, <2>3, PushGenerations DEF PushNext, PushAction
    <2>4. ASSUME NEW a \in Admin, AdminAction(a)
          PROVE  /\ epoch' = epoch
                 /\ aep' \in {aep, [aep EXCEPT ![a] = epoch]}
                 /\ \E s \in APC \ {"domainPurge"} : apc' = [apc EXCEPT ![a] = s]
      <3>1. ~DeleteDomainPurge(a) /\ ~DeleteDomainRemove(a)
        BY <2>1, <2>2 DEF DeleteDomainPurge, DeleteDomainRemove
      <3> QED
        BY <2>4, <3>1 DEF AdminAction, AdminStart, AssignResolve, LastIndexedRead,
            DeleteBranchCancel, DeleteDomainBegin, AdminFault, DeleteBranchFails,
            AdminDropped, AdminContinue, AssignTag, AssignCache,
            LastIndexedInsert, DeleteBranchTags, DeleteBranchPurge
    <2>5. CASE \E a \in Admin : AdminAction(a)
      BY <1>1, <2>2, <2>4, <2>5, AdminLocal
    <2>6. CASE Crash
      BY <1>1, <2>2, <2>6 DEF Crash
    <2> QED BY <1>3, <2>3, <2>5, <2>6 DEF Next, RequestNext, AdminAction
  <1> QED BY <1>2, <1>3

-----------------------------------------------------------------------------
(* What other actors leave alone.                                          *)

\* A push between open and tag is alone between open and tag, and the branch
\* it writes to exists.
LEMMA GuardAlone ==
    ASSUME StoreInv, LockDiscipline, FirstLife, incarn = 0,
           NEW q \in Push, pc[q] \in Guarded
    PROVE  /\ BranchExists(hist, req[q].branch) /\ EnsureDataset(hist) = hist
           /\ \A p \in Push \ {q} : pc[p] \notin Guarded
  <1>1. inc[q] = 0 /\ req[q].branch \in Branch
    BY RequestFields DEF StoreInv, HandlesValid, DomainTypeOK, TypeOK, ControlTypeOK,
        FrameTypeOK
  <1>2. BranchExists(hist, req[q].branch)
    BY <1>1 DEF StoreInv, HandlesValid
  <1>3. EnsureDataset(hist) = hist
    BY <1>1, <1>2 DEF StoreInv, Rooted, EnsureDataset
  <1>4. ASSUME NEW p \in Push \ {q}, pc[p] \in Guarded PROVE FALSE
    <2>1. <<0, p>> \in guards /\ <<0, q>> \in guards
      BY <1>4 DEF LockDiscipline, FirstLife
    <2> QED BY <2>1 DEF LockDiscipline
  <1> QED BY <1>2, <1>3, <1>4

\* While a push is between open and tag, no one else writes to its branch: the
\* others wait for the domain guard, a fork creates another branch, and /assign
\* finds a dataset that exists.
LEMMA HeadKept ==
    ASSUME StoreInv, LockDiscipline, FirstLife, incarn = 0, incarn' = 0,
           NEW q \in Push, pc[q] \in Guarded,
           \/ \E p \in Push \ {q} : PushAction(p)
           \/ \E a \in Admin : AdminAction(a)
    PROVE  hist'[req[q].branch] = hist[req[q].branch]
  <1> DEFINE b == req[q].branch
  <1>1. /\ BranchExists(hist, b) /\ EnsureDataset(hist) = hist
        /\ \A p \in Push \ {q} : pc[p] \notin Guarded
    BY GuardAlone
  <1>2. hist \in Histories /\ b \in Branch
    BY RequestFields DEF StoreInv, DomainTypeOK, TypeOK, StoreTypeOK, ControlTypeOK
  <1>3. ASSUME NEW p \in Push \ {q}, PushAction(p) PROVE hist'[b] = hist[b]
    <2>1. pc[p] \notin Guarded
      BY <1>1
    <2>2. CASE Fork(p)
      <3>1. CASE UNCHANGED hist
        BY <3>1
      <3>2. ASSUME ~BranchExists(hist, req[p].branch), NEW src, NEW v,
                   hist' = ForkAt(hist, req[p].branch, src, v)
            PROVE  hist'[b] = hist[b]
        BY <1>1, <1>2, <3>2 DEF ForkAt, Histories
      <3> QED BY <2>2, <3>1, <3>2 DEF Fork
    <2>3. CASE Open(p)
      BY <1>1, <2>3 DEF Open
    <2>4. ~Noop(p) /\ ~TagCommit(p) /\ ~Delete(p) /\ ~AppendRows(p) /\ ~BuildIndex(p)
      BY <2>1 DEF Noop, TagCommit, Delete, AppendRows, BuildIndex
    <2>5. ASSUME NEW r \in Requests, Reserve(p, r) PROVE UNCHANGED hist
      BY <2>5 DEF Reserve
    <2>6. CASE \/ ForkFailed(p) \/ Register(p) \/ AcquireLock(p) \/ LockTimeout(p)
               \/ TimeoutReregister(p) \/ Disconnect(p)
      BY <2>6 DEF ForkFailed, Register, AcquireLock, LockTimeout,
          TimeoutReregister, Disconnect
    <2>7. CASE \/ EndOfInput(p) \/ StopReceiving(p) \/ WriteFails(p)
               \/ CacheAndClean(p)
      BY <2>7 DEF EndOfInput, StopReceiving, WriteFails, CacheAndClean
    <2>8. CASE \/ Unregister(p) \/ RecordResult(p) \/ Release(p) \/ Panic(p)
               \/ Monitor(p)
      BY <2>8 DEF Unregister, RecordResult, Release, Panic, Monitor
    <2>9. CASE \/ BodyClosed(p) \/ BodyMalformed(p) \/ BodyBroken(p)
               \/ RecordBodyError(p)
      BY <2>9 DEF BodyClosed, BodyMalformed, BodyBroken, RecordBodyError
    <2> QED BY <1>3, <2>2, <2>3, <2>4, <2>5, <2>6, <2>7, <2>8, <2>9
            DEF PushAction, PushStep, ClientStep, PushFault
  <1>4. ASSUME NEW a \in Admin, AdminAction(a) PROVE hist' = hist
    <2>1. ~DeleteDomainRemove(a)
      BY DEF DeleteDomainRemove
    <2> QED
      BY <1>1, <1>4, <2>1 DEF AdminAction, AdminStart, AssignResolve,
          LastIndexedRead, DeleteBranchCancel, DeleteDomainBegin, AdminFault,
          DeleteBranchFails, AdminDropped, AdminContinue, AssignTag, AssignCache,
          LastIndexedInsert, DeleteBranchTags, DeleteBranchPurge,
          DeleteDomainPurge
  <1> QED BY <1>3, <1>4

\* While a pipeline holds its lock, no one removes a tag of its branch, and no
\* tagged version changes: DELETE /branch-index waits for the lock.
LEMMA TagKept ==
    ASSUME StoreInv, LockDiscipline, FirstLife, incarn = 0, incarn' = 0, Next,
           NEW q \in Push, pc[q] \in Running,
           NEW c \in Commit, tags[c] # None, tags[c].branch = req[q].branch
    PROVE  tags'[c] = tags[c] /\ Snapshot(hist', tags'[c]) = Snapshot(hist, tags[c])
  <1> SUFFICES ASSUME tags'[c] = None, NEW a \in Admin, RemovesTag(a, c)
               PROVE  FALSE
    BY SnapshotStep DEF SnapshotKept
  <1>1. <<req[q].branch, 0, q>> \in locks /\ aep[a] = 0
    BY DEF LockDiscipline, FirstLife
  <1>2. apc'[a] # apc[a] /\ apc \in [Admin -> APC]
    BY DEF RemovesTag, StoreInv, DomainTypeOK, AdminTypeOK
  <1>3. ~Crash
    BY DEF Crash
  <1>4. ~(PushNext /\ UNCHANGED <<apc, adminLocal, crashes>>)
    BY <1>2
  <1>5. ASSUME NEW x \in Admin, AdminAction(x) PROVE FALSE
    <2>1. \E s \in APC : apc' = [apc EXCEPT ![x] = s]
      BY <1>5 DEF AdminAction, AdminStart, AssignResolve,
          LastIndexedRead, DeleteBranchCancel, DeleteDomainBegin, AdminFault,
          DeleteBranchFails, AdminDropped, AdminContinue, AssignTag, AssignCache,
          LastIndexedInsert, DeleteBranchTags, DeleteBranchPurge,
          DeleteDomainRemove, DeleteDomainPurge
    <2>2. x = a
      BY <1>2, <2>1
    <2>3. apc[a] \in {"branchLock", "domainGuard"}
      BY DEF RemovesTag
    <2>4. ~DeleteDomainRemove(a)
      BY DEF DeleteDomainRemove
    <2>5. ASSUME DeleteBranchTags(a) \/ DeleteBranchFails(a) PROVE FALSE
      <3>1. apc[a] = "branchLock" /\ LockFree(areq[a].branch, 0)
        BY <1>1, <2>5 DEF DeleteBranchTags, DeleteBranchFails
      <3>2. areq[a].branch = req[q].branch
        BY <3>1 DEF RemovesTag
      <3> QED BY <1>1, <3>1, <3>2 DEF LockFree
    <2>6. ~AdminDropped(a)
      BY DEF AdminDropped
    <2> QED
      BY <1>5, <2>2, <2>3, <2>4, <2>5, <2>6 DEF AdminAction, AdminStart,
          AssignResolve, LastIndexedRead, DeleteBranchCancel, DeleteDomainBegin,
          Admit, AdminFault, AdminContinue, AssignTag, AssignCache,
          LastIndexedInsert, DeleteBranchPurge, DeleteDomainPurge
  <1> QED BY <1>3, <1>4, <1>5 DEF Next, RequestNext, AdminAction

-----------------------------------------------------------------------------
(* A push that reports Complete has published its commit.                  *)

\* The rows show what p wrote, and nothing else of the documents it deleted.
Written(p, rows) ==
    /\ wr[p].add \X {p} \subseteq rows
    /\ \A r \in rows : r[1] \in wr[p].del => r[2] = p /\ r[1] \in wr[p].add

\* Tagged, and not yet released.
Reporting(p) == pc[p] = "cache" \/ (pc[p] \in Closing /\ res[p] = "ok")

\* How far a push has come at each point of its pipeline.
Phase(p) ==
    LET b == req[p].branch
    IN  /\ pc[p] = "append" => \A r \in HeadRows(hist, b) : r[1] \notin wr[p].del
        /\ pc[p] = "index" => Written(p, HeadRows(hist, b))
        /\ pc[p] = "noop" => wr[p] = NoWork
        /\ pc[p] = "tag" => ver[p] \in 1 .. Len(hist[b]) /\ Written(p, hist[b][ver[p]])
        /\ Reporting(p) => Published(p)

Phases == incarn = 0 => \A p \in Push : Phase(p)

\* The steps of a push, by what they mean for its phase: the writes and the
\* tag; a step to a point of which Phase says nothing; a failure; a step that
\* reports; and the steps of the body reader.
LEMMA PhaseSteps ==
    ASSUME TypeOK, NEW p \in Push, PushAction(p)
    PROVE  \/ EndOfInput(p) \/ Delete(p) \/ AppendRows(p) \/ BuildIndex(p)
           \/ Noop(p) \/ TagCommit(p) \/ CacheAndClean(p)
           \/ pc'[p] \in PC \ (Closing \cup {"append", "index", "noop", "tag", "cache"})
           \/ pc'[p] = "unregister" /\ res'[p] = "err"
           \/ /\ pc[p] \in Closing /\ pc'[p] \in Closing
              /\ UNCHANGED <<hist, tags, clock, req, wr, ver, res>>
           \/ UNCHANGED <<hist, tags, clock, pc, req, wr, ver, res>>
  <1>1. pc \in [Push -> PC] /\ res \in [Push -> {"none", "ok", "err"}]
    BY DEF TypeOK, ControlTypeOK, FrameTypeOK
  <1>2. ASSUME NEW r \in Requests, Reserve(p, r)
        PROVE  pc'[p] \in {"conflict", "fork", "register"}
    BY <1>1, <1>2 DEF Reserve
  <1>3. CASE \/ Fork(p) \/ ForkFailed(p) \/ Register(p) \/ AcquireLock(p)
             \/ LockTimeout(p) \/ TimeoutReregister(p) \/ Disconnect(p)
    BY <1>1, <1>3 DEF Fork, ForkFailed, Register, AcquireLock, LockTimeout,
        TimeoutReregister, Disconnect
  <1>4. CASE Open(p) \/ StopReceiving(p) \/ WriteFails(p)
    BY <1>1, <1>4 DEF Open, StopReceiving, WriteFails, Fail
  <1>5. CASE Unregister(p) \/ RecordResult(p)
    BY <1>1, <1>5 DEF Unregister, RecordResult
  <1>6. CASE Release(p) \/ Panic(p) \/ Monitor(p)
    BY <1>1, <1>6 DEF Release, Panic, Monitor
  <1>7. CASE \/ BodyClosed(p) \/ BodyMalformed(p) \/ BodyBroken(p)
             \/ RecordBodyError(p)
    BY <1>7 DEF BodyClosed, BodyMalformed, BodyBroken, RecordBodyError
  <1> QED BY <1>2, <1>3, <1>4, <1>5, <1>6, <1>7
          DEF PushAction, PushStep, ClientStep, PushFault

\* The head of a branch that a version was added to.
LEMMA NewHead ==
    ASSUME NEW h \in Histories, NEW b \in Branch, NEW rows
    PROVE  /\ Len(AddVersion(h, b, rows)[b]) = Len(h[b]) + 1
           /\ HeadRows(AddVersion(h, b, rows), b) = rows
  <1>1. h[b] \in Seq(SUBSET Row) /\ AddVersion(h, b, rows)[b] = Append(h[b], rows)
    BY DEF Histories, AddVersion
  <1>2. /\ Len(Append(h[b], rows)) = Len(h[b]) + 1
        /\ Append(h[b], rows)[Len(h[b]) + 1] = rows
    BY <1>1
  <1> QED BY <1>1, <1>2 DEF HeadRows

\* The push's own steps take it from phase to phase.
LEMMA OwnPhase ==
    ASSUME StoreInv, LockDiscipline, FirstLife, incarn = 0, incarn' = 0,
           NEW p \in Push, Phase(p), PushAction(p)
    PROVE  Phase(p)'
  <1> DEFINE b == req[p].branch
             w == wr[p]
  <1>1. /\ pc \in [Push -> PC] /\ res \in [Push -> {"none", "ok", "err"}]
        /\ wr \in [Push -> [del : SUBSET Doc, add : SUBSET Doc]]
        /\ ver \in [Push -> Nat] /\ hist \in Histories /\ tags \in Tags /\ clock \in Nat
        /\ pc[p] # "idle" => req[p].branch \in Branch /\ req[p].commit \in Commit
    BY RequestFields
       DEF StoreInv, DomainTypeOK, TypeOK, StoreTypeOK, ControlTypeOK, FrameTypeOK
  <1>2. CASE \/ pc'[p] \in PC \ (Closing \cup {"append", "index", "noop", "tag", "cache"})
             \/ pc'[p] = "unregister" /\ res'[p] = "err"
    BY <1>2 DEF Phase, Reporting
  <1>3. CASE /\ pc[p] \in Closing /\ pc'[p] \in Closing
             /\ UNCHANGED <<hist, tags, clock, req, wr, ver, res>>
    BY <1>3 DEF Phase, Reporting, Published
  <1>4. CASE UNCHANGED <<hist, tags, clock, pc, req, wr, ver, res>>
    BY <1>4 DEF Phase, Reporting, Published, Written
  <1>5. CASE EndOfInput(p)
    <2>1. CASE Fail(p)
      BY <1>1, <1>2, <2>1 DEF Fail
    <2>2. CASE pc' = [pc EXCEPT ![p] = NextWrite(wr'[p])]
      <3>1. wr'[p] \in [del : SUBSET Doc, add : SUBSET Doc]
        BY <1>5, PushFrameType, PushHistory
           DEF PushAction, PushStep, FrameTypeOK, StoreInv, DomainTypeOK
      <3>2. CASE NextWrite(wr'[p]) = "delete"
        BY <1>1, <1>2, <2>2, <3>2
      <3>3. CASE NextWrite(wr'[p]) = "append"
        <4>1. wr'[p].del = {}
          BY <3>3 DEF NextWrite
        <4> QED BY <1>1, <2>2, <3>3, <4>1 DEF Phase, Reporting
      <3>4. CASE NextWrite(wr'[p]) = "noop"
        <4>1. wr'[p].del = {} /\ wr'[p].add = {}
          BY <3>4 DEF NextWrite
        <4>2. wr'[p] = NoWork
          BY <3>1, <4>1 DEF NoWork
        <4> QED BY <1>1, <2>2, <3>4, <4>2 DEF Phase, Reporting
      <3> QED BY <3>2, <3>3, <3>4 DEF NextWrite
    <2> QED BY <1>5, <2>1, <2>2 DEF EndOfInput
  <1>6. CASE Delete(p)
    <2> DEFINE rows == WithoutDocs(HeadRows(hist, b), w.del)
    <2>1. /\ pc[p] = "delete" /\ hist' = AddVersion(hist, b, rows)
          /\ UNCHANGED <<req, wr, res>>
          /\ \/ pc' = [pc EXCEPT ![p] = "append"]
             \/ w.add = {} /\ pc' = [pc EXCEPT ![p] = "index"]
      BY <1>6 DEF Delete, Write
    <2>2. HeadRows(hist', b) = rows
      BY <1>1, <2>1, NewHead
    <2>3. \A r \in rows : r[1] \notin w.del
      BY DEF WithoutDocs
    <2>4. w.add = {} => Written(p, rows)
      BY <2>3 DEF Written
    <2> QED BY <1>1, <2>1, <2>2, <2>3, <2>4 DEF Phase, Reporting, Written
  <1>7. CASE AppendRows(p)
    <2> DEFINE rows == WithDocs(HeadRows(hist, b), w.add, p)
    <2>1. /\ pc[p] = "append" /\ hist' = AddVersion(hist, b, rows)
          /\ UNCHANGED <<req, wr, res>> /\ pc' = [pc EXCEPT ![p] = "index"]
      BY <1>7 DEF AppendRows, Write
    <2>2. HeadRows(hist', b) = rows
      BY <1>1, <2>1, NewHead
    <2>3. \A r \in HeadRows(hist, b) : r[1] \notin w.del
      BY <2>1 DEF Phase
    <2>4. Written(p, rows)
      BY <2>3 DEF Written, WithDocs
    <2> QED BY <1>1, <2>1, <2>2, <2>4 DEF Phase, Reporting, Written
  <1>8. CASE BuildIndex(p)
    <2> DEFINE rows == HeadRows(hist, b)
    <2>1. /\ pc[p] = "index" /\ hist' = AddVersion(hist, b, rows)
          /\ ver' = [ver EXCEPT ![p] = Len(hist'[b])]
          /\ UNCHANGED <<req, wr, res>> /\ pc' = [pc EXCEPT ![p] = "tag"]
      BY <1>8 DEF BuildIndex, Write
    <2>2. HeadRows(hist', b) = rows /\ Len(hist'[b]) = Len(hist[b]) + 1
      BY <1>1, <2>1, NewHead
    <2>3. Written(p, rows)
      BY <2>1 DEF Phase
    <2>4. /\ ver'[p] = Len(hist'[b]) /\ ver'[p] \in 1 .. Len(hist'[b])
          /\ hist'[b][ver'[p]] = rows
      BY <1>1, <2>1, <2>2, ExistsLen DEF HeadRows
    <2> QED BY <1>1, <2>1, <2>3, <2>4 DEF Phase, Reporting, Written
  <1>9. CASE Noop(p)
    <2>1. pc[p] = "noop" /\ wr[p] = NoWork /\ hist' = hist /\ BranchExists(hist, b)
          /\ UNCHANGED <<req, wr>>
      BY <1>9, GuardAlone DEF Noop, Phase
    <2>2. /\ ver' = [ver EXCEPT ![p] = Len(hist[b])] /\ pc' = [pc EXCEPT ![p] = "tag"]
      BY <1>9, <2>1 DEF Noop
    <2>3. ver'[p] \in 1 .. Len(hist'[b])
      BY <1>1, <2>1, <2>2, ExistsLen
    <2>4. wr'[p].add = {} /\ wr'[p].del = {}
      BY <2>1 DEF NoWork
    <2> QED BY <1>1, <2>1, <2>2, <2>3, <2>4 DEF Phase, Reporting, Written
  <1>10. CASE TagCommit(p)
    <2>1. /\ pc[p] = "tag" /\ hist' = hist /\ UNCHANGED <<req, wr, ver>>
      BY <1>10, GuardAlone DEF TagCommit
    <2>2. ver[p] \in 1 .. Len(hist[b]) /\ Written(p, hist[b][ver[p]])
      BY <2>1 DEF Phase
    <2>3. CASE Fail(p)
      BY <1>1, <1>2, <2>3 DEF Fail
    <2>4. CASE CreateTag(b, req[p].commit, ver[p]) /\ pc' = [pc EXCEPT ![p] = "cache"]
      <3>1. tags'[req[p].commit] = [branch |-> b, version |-> ver[p], at |-> clock]
        BY <1>1, <2>1, <2>4 DEF CreateTag, Tags
      <3>2. tags'[req[p].commit] # None
        BY <1>1, <2>1, <3>1, NoTagAssumption DEF Tag
      <3>3. Snapshot(hist', tags'[req[p].commit]) = hist[b][ver[p]]
        BY <2>1, <3>1 DEF Snapshot
      <3>4. Published(p)'
        BY <2>1, <2>2, <3>1, <3>2, <3>3 DEF Published, Written
      <3> QED BY <1>1, <2>4, <3>4 DEF Phase
    <2> QED BY <1>10, <2>3, <2>4 DEF TagCommit
  <1>11. CASE CacheAndClean(p)
    <2>1. /\ pc[p] = "cache" /\ UNCHANGED <<hist, tags, req, wr>>
          /\ pc' = [pc EXCEPT ![p] = "unregister"]
      BY <1>11 DEF CacheAndClean
    <2>2. Published(p)
      BY <2>1 DEF Phase, Reporting
    <2> QED BY <1>1, <2>1, <2>2 DEF Phase, Published
  <1> QED BY <1>2, <1>3, <1>4, <1>5, <1>6, <1>7, <1>8, <1>9, <1>10, <1>11,
             PhaseSteps DEF StoreInv, DomainTypeOK

\* Everyone else's steps leave a push in its phase.
LEMMA OthersPhase ==
    ASSUME StoreInv, LockDiscipline, FirstLife, incarn = 0, incarn' = 0, Next,
           NEW q \in Push, Phase(q),
           \/ \E p \in Push \ {q} : PushAction(p)
           \/ \E a \in Admin : AdminAction(a)
    PROVE  Phase(q)'
  <1> DEFINE b == req[q].branch
             c == req[q].commit
  <1>1. /\ pc'[q] = pc[q] /\ req'[q] = req[q]
        /\ wr'[q] = wr[q] /\ ver'[q] = ver[q] /\ res'[q] = res[q]
    BY PushLocal, AdminLocal DEF StoreInv, DomainTypeOK
  <1>2. pc[q] \in Guarded => hist'[b] = hist[b]
    BY HeadKept
  <1>3. ASSUME Reporting(q) PROVE Published(q)'
    <2>1. pc[q] \in Running /\ c \in Commit /\ Published(q)
      BY <1>3, RequestFields
         DEF Reporting, Phase, StoreInv, DomainTypeOK, TypeOK, ControlTypeOK
    <2>2. tags'[c] = tags[c] /\ Snapshot(hist', tags'[c]) = Snapshot(hist, tags[c])
      BY <2>1, TagKept DEF Published
    <2> QED BY <1>1, <2>1, <2>2 DEF Published
  <1> QED BY <1>1, <1>2, <1>3 DEF Phase, Written, HeadRows, Reporting

\* A crash ends every phase.
LEMMA CrashedPush ==
    ASSUME TypeOK, Crash, NEW p \in Push
    PROVE  pc'[p] \in {"idle", "dead"}
  BY DEF TypeOK, ControlTypeOK, Crash

\* The phases of all pushes are kept by every step.
LEMMA PhasesStep ==
    ASSUME StoreInv, LockDiscipline, FirstLife, Phases, [Next]_vars
    PROVE  Phases'
  <1> SUFFICES ASSUME incarn' = 0, NEW q \in Push PROVE Phase(q)'
    BY DEF Phases
  <1>1. CASE UNCHANGED vars
    BY <1>1 DEF Phases, Phase, Reporting, Written, Published, vars, pushVars
  <1>2. CASE Next
    <2>1. incarn = 0 /\ Phase(q)
      BY <1>2, IncarnationStep DEF Phases
    <2>2. CASE PushAction(q)
      BY <2>1, <2>2, OwnPhase
    <2>3. CASE \/ \E p \in Push \ {q} : PushAction(p)
               \/ \E a \in Admin : AdminAction(a)
      BY <1>2, <2>1, <2>3, OthersPhase
    <2>4. CASE Crash
      BY <2>4, CrashedPush DEF Phase, Reporting, StoreInv, DomainTypeOK
    <2> QED BY <1>2, <2>2, <2>3, <2>4 DEF Next, RequestNext, PushNext, PushAction, AdminAction
  <1> QED BY <1>1, <1>2

\* The facts about a domain in its first life.
PublishInv == StoreInv /\ LockDiscipline /\ FirstLife /\ Phases

\* They hold always.
LEMMA PublishInvariant == Spec => []PublishInv
  <1>1. Init => FirstLife /\ Phases
    BY DEF Init, PushInit, FirstLife, Phases, Phase, Reporting
  <1>2. StoreInv /\ LockDiscipline /\ FirstLife /\ Phases /\ [Next]_vars
           => FirstLife' /\ Phases'
    BY FirstLifeStep, PhasesStep
  <1> QED BY <1>1, <1>2, StoreInvariant, MutexesAreExclusive, PTL DEF Spec, PublishInv

\* Complete means published: for every set of requests, every fault and any
\* crash, a push that reports Complete (or is about to) has its commit tagged
\* on its branch, at a version that shows every row it added and no other row
\* of the documents it deleted, until the domain is deleted.
THEOREM CompleteMeansPublished == Spec => []CompleteIsPublished
  <1>1. PublishInv => CompleteIsPublished
    BY DEF PublishInv, Phases, Phase, Reporting, CompleteIsPublished
  <1> QED BY <1>1, PublishInvariant, PTL

-----------------------------------------------------------------------------
(* A push that reports Complete is the last indexed of its branch.  POST   *)
(* /assign tags older versions, so this is about a server that gets none.  *)

\* The new tag is at the head of the branch, and later than every other.
Newest(p) ==
    LET b == req[p].branch
        c == req[p].commit
    IN  /\ pc[p] = "tag" => ver[p] = Len(hist[b])
        /\ Reporting(p) => IsLastIndexed(tags, b, c)
        /\ pc[p] = "cache" => tags[c].version = ver[p]

AllNewest == incarn = 0 => \A p \in Push : Newest(p)

\* Creation times are in the past.
ClockAhead == \A c \in Commit : tags[c] # None => tags[c].at < clock

NoAssigning == \A a \in Admin : apc[a] \notin {"assignTag", "assignCache"}

\* Without POST /assign none is under way.
LEMMA NoAssigningStep ==
    ASSUME \A r \in AdminRequests : r.op # "assign",
           DomainTypeOK, NoAssigning, [Next]_vars
    PROVE  NoAssigning'
  <1>1. apc \in [Admin -> APC]
    BY DEF DomainTypeOK, AdminTypeOK
  <1>2. ASSUME NEW a \in Admin, AdminAction(a) PROVE NoAssigning'
    <2>1. ~AssignResolve(a) /\ ~AssignTag(a)
      BY DEF NoAssigning, AssignResolve, Admit, AssignTag
    <2>2. \E s \in APC \ {"assignTag", "assignCache"} : apc' = [apc EXCEPT ![a] = s]
      BY <1>2, <2>1 DEF AdminAction, AdminStart, LastIndexedRead, DeleteBranchCancel,
          DeleteDomainBegin, AdminFault, DeleteBranchFails, AdminDropped,
          AdminContinue, AssignCache, LastIndexedInsert, DeleteBranchTags,
          DeleteBranchPurge, DeleteDomainRemove, DeleteDomainPurge
    <2> QED BY <1>1, <2>2 DEF NoAssigning
  <1>3. CASE PushNext /\ UNCHANGED <<apc, adminLocal, crashes>>
    BY <1>3 DEF NoAssigning
  <1>4. CASE Crash
    BY <1>1, <1>4 DEF Crash, NoAssigning
  <1>5. CASE UNCHANGED vars
    BY <1>5 DEF vars, pushVars, NoAssigning
  <1> QED BY <1>2, <1>3, <1>4, <1>5 DEF Next, RequestNext, AdminAction

\* The other requests only remove tags, except POST /assign.
LEMMA AdminTags ==
    ASSUME NEW a \in Admin, AdminAction(a), apc[a] # "assignTag", NEW c \in Commit
    PROVE  tags'[c] \in {tags[c], None} /\ clock' = clock
  <1>1. ~AssignTag(a)
    BY DEF AssignTag
  <1>2. CASE DeleteBranchTags(a) \/ DeleteBranchFails(a) \/ DeleteDomainRemove(a)
    BY <1>2 DEF DeleteBranchTags, DeleteBranchFails, DeleteDomainRemove, NoTags
  <1>3. CASE AdminStart(a)
    BY <1>3 DEF AdminStart, AssignResolve, LastIndexedRead, DeleteBranchCancel,
        DeleteDomainBegin
  <1>4. CASE \/ AssignCache(a) \/ LastIndexedInsert(a) \/ DeleteBranchPurge(a)
             \/ DeleteDomainPurge(a) \/ AdminDropped(a)
    BY <1>4 DEF AssignCache, LastIndexedInsert, DeleteBranchPurge,
        DeleteDomainPurge, AdminDropped
  <1> QED BY <1>1, <1>2, <1>3, <1>4 DEF AdminAction, AdminContinue, AdminFault

\* A push changes the tag of no commit but its own, and that by tagging it.
LEMMA PushOneTag ==
    ASSUME StoreInv, NEW p \in Push, PushAction(p)
    PROVE  \/ UNCHANGED <<tags, clock>>
           \/ /\ pc[p] = "tag" /\ req[p].commit \in Commit
              /\ tags[req[p].commit] = None
              /\ tags' = [tags EXCEPT ![req[p].commit] =
                            [branch |-> req[p].branch, version |-> ver[p], at |-> clock]]
              /\ clock' = clock + 1
  <1>1. pc[p] # "idle" => req[p].commit \in Commit
    BY RequestFields DEF StoreInv, DomainTypeOK, TypeOK, ControlTypeOK
  <1> QED BY <1>1, PushTagEffect DEF TagCommit, CanTag, CreateTag, CacheAndClean

\* Tags get the time at which they are created.
LEMMA ClockStep ==
    ASSUME StoreInv, NoAssigning, ClockAhead, [Next]_vars
    PROVE  ClockAhead'
  <1>1. /\ tags \in Tags /\ clock \in Nat
        /\ \A c \in Commit : tags[c] # None => tags[c].at \in Nat
    BY DEF StoreInv, DomainTypeOK, TypeOK, StoreTypeOK, Tags, Tag
  <1>2. CASE UNCHANGED <<tags, clock>>
    BY <1>2 DEF ClockAhead
  <1>3. ASSUME NEW p \in Push, PushAction(p) PROVE ClockAhead'
    <2>1. CASE /\ clock' = clock + 1 /\ req[p].commit \in Commit
               /\ tags' = [tags EXCEPT ![req[p].commit] =
                            [branch |-> req[p].branch, version |-> ver[p], at |-> clock]]
      <3> SUFFICES ASSUME NEW c \in Commit, tags'[c] # None PROVE tags'[c].at < clock'
        BY DEF ClockAhead
      <3>1. CASE c = req[p].commit
        BY <1>1, <2>1, <3>1 DEF Tags
      <3>2. CASE c # req[p].commit
        BY <1>1, <2>1, <3>2 DEF Tags, ClockAhead
      <3> QED BY <3>1, <3>2
    <2> QED BY <1>2, <1>3, <2>1, PushOneTag
  <1>4. ASSUME NEW a \in Admin, AdminAction(a) PROVE ClockAhead'
    BY <1>4, AdminTags DEF NoAssigning, ClockAhead
  <1>5. CASE Crash \/ UNCHANGED vars
    BY <1>2, <1>5 DEF Crash, vars, pushVars
  <1> QED BY <1>3, <1>4, <1>5 DEF Next, RequestNext, PushNext, PushAction, AdminAction

\* The last indexed commit stays so while tags of its branch are only removed.
LEMMA LastIndexedKept ==
    ASSUME NEW b \in Branch, NEW c \in Commit, IsLastIndexed(tags, b, c),
           tags'[c] = tags[c],
           \A d \in Commit : d \in CommitsOn(tags', b) => tags'[d] = tags[d]
    PROVE  IsLastIndexed(tags', b, c)
  BY DEF IsLastIndexed, CommitsOn

\* A tag at the head of a branch, created now, makes its commit the last indexed.
LEMMA HeadIsLastIndexed ==
    ASSUME StoreInv, ClockAhead, NEW b \in Branch, NEW c \in Commit, BranchExists(hist, b),
           tags' = [tags EXCEPT ![c] = [branch |-> b, version |-> Len(hist[b]), at |-> clock]]
    PROVE  IsLastIndexed(tags', b, c)
  <1> DEFINE t == [branch |-> b, version |-> Len(hist[b]), at |-> clock]
  <1>1. /\ tags \in Tags /\ clock \in Nat /\ Len(hist[b]) \in Nat
        /\ hist \in Histories
        /\ \A d \in Commit : tags[d] # None => tags[d] \in Tag /\ tags[d].at \in Nat
    BY ExistsLen DEF StoreInv, DomainTypeOK, TypeOK, StoreTypeOK, Tags, Tag
  <1>2. tags'[c] = t /\ t # None
    BY <1>1, NoTagAssumption DEF Tags, Tag
  <1>3. ASSUME NEW d \in CommitsOn(tags', b) PROVE NotOlder(t, tags'[d])
    <2>1. CASE d = c
      BY <1>1, <1>2, <2>1 DEF NotOlder
    <2>2. CASE d # c
      <3>1. d \in Commit /\ tags'[d] = tags[d] /\ tags[d] # None /\ tags[d].branch = b
        BY <1>1, <1>3, <2>2 DEF CommitsOn, Tags
      <3>2. tags[d].version \in 1 .. Len(hist[b]) /\ tags[d].at < clock
        BY <3>1 DEF StoreInv, TagsResolve, VersionExists, ClockAhead
      <3> QED BY <1>1, <3>1, <3>2 DEF NotOlder
    <2> QED BY <2>1, <2>2
  <1> QED BY <1>2, <1>3 DEF IsLastIndexed, CommitsOn

\* In the first life two pipelines run on different branches.
LEMMA LockAlone ==
    ASSUME LockDiscipline, FirstLife, incarn = 0, NEW p \in Push, NEW q \in Push,
           pc[p] \in Running, pc[q] \in Running, req[p].branch = req[q].branch
    PROVE  p = q
  <1>1. <<req[p].branch, 0, p>> \in locks /\ <<req[q].branch, 0, q>> \in locks
    BY DEF LockDiscipline, FirstLife
  <1> QED BY <1>1 DEF LockDiscipline

\* The push's own steps: the version is the head when it is tagged.
LEMMA OwnNewest ==
    ASSUME StoreInv, LockDiscipline, FirstLife, ClockAhead, incarn = 0, incarn' = 0,
           NEW p \in Push, Newest(p), PushAction(p)
    PROVE  Newest(p)'
  <1> DEFINE b == req[p].branch
             c == req[p].commit
  <1>1. /\ pc \in [Push -> PC] /\ res \in [Push -> {"none", "ok", "err"}]
        /\ ver \in [Push -> Nat] /\ tags \in Tags
        /\ pc[p] # "idle" => b \in Branch /\ c \in Commit
    BY RequestFields
       DEF StoreInv, DomainTypeOK, TypeOK, StoreTypeOK, ControlTypeOK, FrameTypeOK
  <1>2. CASE \/ pc'[p] \in PC \ (Closing \cup {"tag", "cache"})
             \/ pc'[p] = "unregister" /\ res'[p] = "err"
    BY <1>2 DEF Newest, Reporting
  <1>3. CASE /\ pc[p] \in Closing /\ pc'[p] \in Closing
             /\ UNCHANGED <<hist, tags, clock, req, wr, ver, res>>
    BY <1>3 DEF Newest, Reporting
  <1>4. CASE UNCHANGED <<hist, tags, clock, pc, req, wr, ver, res>>
    BY <1>4 DEF Newest, Reporting
  <1>5. CASE EndOfInput(p)
    <2>1. NextWrite(wr'[p]) \in {"delete", "append", "noop"}
      BY DEF NextWrite
    <2> QED BY <1>1, <1>2, <1>5, <2>1 DEF EndOfInput, Fail
  <1>6. CASE Delete(p) \/ AppendRows(p)
    BY <1>1, <1>2, <1>6 DEF Delete, AppendRows
  <1>7. CASE BuildIndex(p)
    BY <1>1, <1>7 DEF BuildIndex, Write, Newest, Reporting
  <1>8. CASE Noop(p)
    <2>1. BranchExists(hist, b) /\ EnsureDataset(hist) = hist
      BY <1>8, GuardAlone DEF Noop
    <2> QED BY <1>1, <1>8, <2>1 DEF Noop, Newest, Reporting
  <1>9. CASE TagCommit(p)
    <2>1. pc[p] = "tag" /\ ver[p] = Len(hist[b]) /\ UNCHANGED <<req, ver>>
      BY <1>9 DEF TagCommit, Newest
    <2>2. CASE Fail(p)
      BY <1>1, <1>2, <2>2 DEF Fail
    <2>3. CASE CreateTag(b, c, ver[p]) /\ pc' = [pc EXCEPT ![p] = "cache"]
      <3>1. tags' = [tags EXCEPT ![c] = [branch |-> b, version |-> Len(hist[b]), at |-> clock]]
        BY <2>1, <2>3 DEF CreateTag
      <3>2. IsLastIndexed(tags', b, c)
        BY <1>1, <2>1, <3>1, GuardAlone, HeadIsLastIndexed
      <3>3. tags'[c].version = ver[p]
        BY <1>1, <2>1, <3>1 DEF Tags
      <3> QED BY <1>1, <2>1, <2>3, <3>2, <3>3 DEF Newest
    <2> QED BY <1>9, <2>2, <2>3 DEF TagCommit
  <1>10. CASE CacheAndClean(p)
    BY <1>1, <1>10 DEF CacheAndClean, Newest, Reporting
  <1> QED BY <1>2, <1>3, <1>4, <1>5, <1>6, <1>7, <1>8, <1>9, <1>10,
             PhaseSteps DEF StoreInv, DomainTypeOK

\* Everyone else's steps: they neither tag on the branch of a running pipeline
\* nor remove tags of it.
LEMMA OthersNewest ==
    ASSUME StoreInv, LockDiscipline, FirstLife, NoAssigning, incarn = 0, incarn' = 0,
           Next, NEW q \in Push, Newest(q),
           \/ \E p \in Push \ {q} : PushAction(p)
           \/ \E a \in Admin : AdminAction(a)
    PROVE  Newest(q)'
  <1> DEFINE b == req[q].branch
             c == req[q].commit
  <1>1. /\ pc'[q] = pc[q] /\ req'[q] = req[q]
        /\ ver'[q] = ver[q] /\ res'[q] = res[q]
    BY PushLocal, AdminLocal DEF StoreInv, DomainTypeOK
  <1>2. pc[q] \in Guarded => hist'[b] = hist[b]
    BY HeadKept
  <1>3. ASSUME Reporting(q) PROVE IsLastIndexed(tags', b, c) /\ tags'[c] = tags[c]
    <2>1. /\ pc[q] \in Running /\ c \in Commit /\ b \in Branch
          /\ tags[c] # None /\ tags[c].branch = b /\ IsLastIndexed(tags, b, c)
      BY <1>3, RequestFields DEF Reporting, Newest, IsLastIndexed, CommitsOn,
          StoreInv, DomainTypeOK, TypeOK, ControlTypeOK
    <2>2. tags'[c] = tags[c]
      BY <2>1, TagKept
    <2>3. ASSUME NEW p \in Push \ {q}, PushAction(p),
                 NEW d \in Commit, d \in CommitsOn(tags', b)
          PROVE  tags'[d] = tags[d]
      <3> SUFFICES ASSUME /\ pc[p] = "tag" /\ req[p].commit \in Commit
                          /\ tags' = [tags EXCEPT ![req[p].commit] =
                               [branch |-> req[p].branch, version |-> ver[p], at |-> clock]]
                   PROVE  tags'[d] = tags[d]
        BY <2>3, PushOneTag
      <3>1. req[p].branch # b
        BY <2>1, LockAlone
      <3>2. tags \in Tags
        BY DEF StoreInv, DomainTypeOK, TypeOK, StoreTypeOK
      <3> QED BY <2>3, <3>1, <3>2 DEF CommitsOn, Tags
    <2>4. ASSUME NEW a \in Admin, AdminAction(a),
                 NEW d \in Commit, d \in CommitsOn(tags', b)
          PROVE  tags'[d] = tags[d]
      BY <2>4, AdminTags DEF NoAssigning, CommitsOn
    <2> QED BY <2>1, <2>2, <2>3, <2>4, LastIndexedKept
  <1> QED BY <1>1, <1>2, <1>3 DEF Newest, Reporting

\* Every step keeps the pushes that report at the top of their branches.
LEMMA NewestStep ==
    ASSUME StoreInv, LockDiscipline, FirstLife, NoAssigning, ClockAhead, AllNewest,
           [Next]_vars
    PROVE  AllNewest'
  <1> SUFFICES ASSUME incarn' = 0, NEW q \in Push PROVE Newest(q)'
    BY DEF AllNewest
  <1>1. CASE UNCHANGED vars
    BY <1>1 DEF AllNewest, Newest, Reporting, vars, pushVars
  <1>2. CASE Next
    <2>1. incarn = 0 /\ Newest(q)
      BY <1>2, IncarnationStep DEF AllNewest
    <2>2. CASE PushAction(q)
      BY <2>1, <2>2, OwnNewest
    <2>3. CASE \/ \E p \in Push \ {q} : PushAction(p)
               \/ \E a \in Admin : AdminAction(a)
      BY <1>2, <2>1, <2>3, OthersNewest
    <2>4. CASE Crash
      BY <2>4, CrashedPush DEF Newest, Reporting, StoreInv, DomainTypeOK
    <2> QED BY <1>2, <2>2, <2>3, <2>4 DEF Next, RequestNext, PushNext, PushAction, AdminAction
  <1> QED BY <1>1, <1>2

\* Without POST /assign the reporting pushes are the last indexed ones, in the
\* first life of the domain.
NewestInv == PublishInv /\ NoAssigning /\ ClockAhead /\ AllNewest

\* They hold always, if nobody assigns a commit or deletes the domain.
LEMMA NewestInvariant ==
    ASSUME \A r \in AdminRequests : r.op # "assign"
    PROVE  Spec => []NewestInv
  <1>1. Init => NoAssigning /\ ClockAhead /\ AllNewest
    BY DEF Init, PushInit, NoTags, NoAssigning, ClockAhead, AllNewest, Newest, Reporting
  <1>2. PublishInv /\ NoAssigning /\ ClockAhead /\ AllNewest /\ [Next]_vars
           => NoAssigning' /\ ClockAhead' /\ AllNewest'
    BY NoAssigningStep, ClockStep, NewestStep DEF PublishInv, StoreInv
  <1> QED BY <1>1, <1>2, PublishInvariant, PTL DEF Spec, NewestInv

\* The directory was not removed yet.
NotRemoved == incarn = 0

\* Without DELETE /domain the directory is never removed.
LEMMA OneLife ==
    ASSUME \A r \in AdminRequests : r.op # "deleteDomain"
    PROVE  Spec => []NotRemoved
  <1>1. Init => OneGeneration /\ NotRemoved
    BY DEF Init, PushInit, OneGeneration, NotRemoved
  <1>2. StoreInv /\ OneGeneration /\ [Next]_vars => OneGeneration'
    BY OneGenerationStep DEF StoreInv
  <1>3. StoreInv /\ OneGeneration /\ NotRemoved /\ [Next]_vars => NotRemoved'
    <2>1. OneGeneration => \A a \in Admin : ~DeleteDomainRemove(a)
      BY DEF OneGeneration, DeleteDomainRemove
    <2>2. UNCHANGED vars => incarn' = incarn
      BY DEF vars, pushVars
    <2> QED BY <2>1, <2>2, IncarnationStep DEF NotRemoved
  <1> QED BY <1>1, <1>2, <1>3, StoreInvariant, PTL DEF Spec

\* io_tag_commit: "the just-written tag is the newest indexed commit on this
\* branch".  In a server without POST /assign and DELETE /domain, whatever
\* faults, crashes and DELETE /branch-index requests there are, a push that
\* reports Complete is the commit that io_derive_last_indexed finds.
THEOREM PushedCommitIsLastIndexed ==
    ASSUME \A r \in AdminRequests : r.op \notin {"assign", "deleteDomain"}
    PROVE  Spec => []PushedIsLastIndexed
  <1>1. NewestInv /\ NotRemoved => PushedIsLastIndexed
    BY DEF NewestInv, NotRemoved, AllNewest, Newest, Reporting, PushedIsLastIndexed
  <1>2. Spec => []NewestInv
    BY NewestInvariant
  <1>3. Spec => []NotRemoved
    BY OneLife
  <1> QED BY <1>1, <1>2, <1>3, PTL

-----------------------------------------------------------------------------
(* The cache of last-indexed.  A storage error or a panic between the tag  *)
(* and the cache leaves the old entry, /assign and the DELETEs write the   *)
(* cache on their own: this is about a server that only gets pushes and    *)
(* GET /last-indexed, whose tasks run to their end or die with it.         *)

\* The entry x of branch b is what io_derive_last_indexed finds.
Current(b, x) == IsLastIndexed(tags, b, x.commit) /\ tags[x.commit].version = x.version

\* A push of the branch has tagged its commit and will write the cache.
CacheDue(b) == \E p \in Push : pc[p] = "cache" /\ req[p].branch = b

\* An entry is current; a value read while there was none stays so until the
\* entry appears.
Coherent(b) ==
    \/ CacheDue(b)
    \/ /\ lastIdx[b] # None => Current(b, lastIdx[b])
       /\ lastIdx[b] = None =>
             \A a \in Admin : apc[a] = "insert" /\ areq[a].branch = b => Current(b, aval[a])

OnlyReading == \A a \in Admin : apc[a] \in {"idle", "insert", "done", "dead"}

CacheInv == OnlyReading /\ \A b \in Branch : Coherent(b)

\* Only a push that tagged writes the cache, and it does not leave without.
LEMMA PushCacheEffect ==
    ASSUME TypeOK, Faults \cap {"io", "panic"} = {}, NEW p \in Push, PushAction(p)
    PROVE  \/ CacheAndClean(p)
           \/ UNCHANGED lastIdx /\ (pc[p] = "cache" => pc'[p] = "cache")
  <1>1. pc \in [Push -> PC] /\ "io" \notin Faults /\ "panic" \notin Faults
    BY DEF TypeOK, ControlTypeOK
  <1>2. ASSUME NEW r \in Requests, Reserve(p, r)
        PROVE  UNCHANGED lastIdx /\ pc[p] # "cache"
    BY <1>2 DEF Reserve
  <1>3. CASE \/ Fork(p) \/ ForkFailed(p) \/ Register(p) \/ AcquireLock(p)
             \/ LockTimeout(p) \/ TimeoutReregister(p) \/ Disconnect(p)
    BY <1>3 DEF Fork, ForkFailed, Register, AcquireLock, LockTimeout,
        TimeoutReregister, Disconnect
  <1>4. CASE \/ Open(p) \/ EndOfInput(p) \/ StopReceiving(p) \/ Noop(p) \/ TagCommit(p)
             \/ WriteFails(p)
    BY <1>1, <1>4 DEF Open, EndOfInput, StopReceiving, Noop, TagCommit, WriteFails
  <1>5. CASE Delete(p) \/ AppendRows(p) \/ BuildIndex(p)
    BY <1>5 DEF Delete, AppendRows, BuildIndex, Write
  <1>6. CASE Unregister(p) \/ RecordResult(p) \/ Release(p) \/ Panic(p) \/ Monitor(p)
    BY <1>1, <1>6 DEF Unregister, RecordResult, Release, Panic, Monitor
  <1>7. CASE \/ BodyClosed(p) \/ BodyMalformed(p) \/ BodyBroken(p)
             \/ RecordBodyError(p)
    BY <1>7 DEF BodyClosed, BodyMalformed, BodyBroken, RecordBodyError
  <1> QED BY <1>2, <1>3, <1>4, <1>5, <1>6, <1>7
          DEF PushAction, PushStep, ClientStep, PushFault

\* Pushes keep the cache coherent.
LEMMA PushCoherent ==
    ASSUME Faults \cap {"io", "panic"} = {}, NewestInv, incarn = 0, CacheInv,
           NEW p \in Push, PushAction(p), UNCHANGED <<apc, adminLocal, crashes>>
    PROVE  CacheInv'
  <1> DEFINE c == req[p].commit
  <1>1. /\ StoreInv /\ TypeOK /\ tags \in Tags
        /\ pc \in [Push -> PC] /\ req \in [Push -> Requests \cup {None}]
        /\ lastIdx \in [Branch -> [commit : Commit, version : Nat] \cup {None}]
        /\ \A a \in Admin : apc[a] = "insert" => aval[a] \in Indexed
        /\ pc[p] # "idle" => req[p].branch \in Branch /\ c \in Commit
    BY RequestFields
       DEF NewestInv, PublishInv, StoreInv, DomainTypeOK, TypeOK, StoreTypeOK,
           ControlTypeOK, MapsTypeOK, AdminTypeOK
  <1>2. OnlyReading'
    BY DEF CacheInv, OnlyReading
  <1> SUFFICES ASSUME NEW b \in Branch PROVE Coherent(b)'
    BY <1>2 DEF CacheInv
  <1>3. Coherent(b)
    BY DEF CacheInv
  <1>4. ASSUME NEW q \in Push \ {p}, pc[q] = "cache", req[q].branch = b
        PROVE  CacheDue(b)'
    BY <1>1, <1>4, PushLocal DEF CacheDue
  <1>5. CASE CacheAndClean(p)
    <2>1. /\ pc[p] = "cache" /\ UNCHANGED <<tags, areq, aval, apc>>
          /\ lastIdx' = [lastIdx EXCEPT ![req[p].branch] = [commit |-> c, version |-> ver[p]]]
      BY <1>5 DEF CacheAndClean, CacheLastIndexed
    <2>2. CASE b = req[p].branch
      <3>1. lastIdx'[b] = [commit |-> c, version |-> ver[p]]
        BY <1>1, <2>1, <2>2
      <3>2. IsLastIndexed(tags', b, c) /\ tags'[c].version = ver[p]
        BY <2>1, <2>2 DEF NewestInv, AllNewest, Newest, Reporting
      <3>3. lastIdx'[b] # None
        BY <1>1, <2>1, <3>1, NotIndexedAssumption, PushFrameType, PushHistory
           DEF Indexed, TypeOK, FrameTypeOK
      <3> QED BY <3>1, <3>2, <3>3 DEF Coherent, Current
    <2>3. CASE b # req[p].branch
      <3>1. lastIdx'[b] = lastIdx[b]
        BY <1>1, <2>1, <2>3
      <3>2. CASE CacheDue(b)
        BY <1>4, <2>3, <3>2 DEF CacheDue, Coherent
      <3> QED BY <1>3, <2>1, <3>1, <3>2 DEF Coherent, Current
    <2> QED BY <2>2, <2>3
  <1>6. CASE UNCHANGED lastIdx /\ (pc[p] = "cache" => pc'[p] = "cache" /\ req'[p] = req[p])
    <2>1. CASE CacheDue(b)
      BY <1>4, <1>6, <2>1 DEF CacheDue, Coherent
    <2>2. CASE UNCHANGED tags /\ ~CacheDue(b)
      BY <1>3, <1>6, <2>2 DEF Coherent, Current
    <2>3. CASE /\ ~CacheDue(b)
               /\ pc[p] = "tag" /\ c \in Commit /\ tags[c] = None
               /\ tags' = [tags EXCEPT ![c] =
                     [branch |-> req[p].branch, version |-> ver[p], at |-> clock]]
               /\ pc'[p] = "cache" /\ req'[p] = req[p]
      <3>1. CASE b = req[p].branch
        BY <2>3, <3>1 DEF CacheDue, Coherent
      <3>2. CASE b # req[p].branch
        <4>1. ASSUME NEW x \in Indexed, Current(b, x) PROVE Current(b, x)'
          <5>1. x.commit \in Commit /\ tags[x.commit] # None
            BY <4>1 DEF Indexed, Current, IsLastIndexed, CommitsOn
          <5>2. tags'[x.commit] = tags[x.commit]
            BY <1>1, <2>3, <5>1 DEF Tags
          <5>3. \A d \in Commit : d \in CommitsOn(tags', b) => tags'[d] = tags[d]
            BY <1>1, <2>3, <3>2 DEF CommitsOn, Tags
          <5> QED BY <4>1, <5>1, <5>2, <5>3, LastIndexedKept DEF Current
        <4>2. lastIdx[b] # None => lastIdx[b] \in Indexed
          BY <1>1 DEF Indexed
        <4>3. /\ lastIdx[b] # None => Current(b, lastIdx[b])
              /\ lastIdx[b] = None => \A a \in Admin :
                    apc[a] = "insert" /\ areq[a].branch = b => Current(b, aval[a])
          BY <1>3, <2>3 DEF Coherent
        <4>4. lastIdx'[b] # None => Current(b, lastIdx[b])'
          BY <1>6, <4>1, <4>2, <4>3 DEF Current
        <4>5. lastIdx'[b] = None => \A a \in Admin :
                 apc'[a] = "insert" /\ areq'[a].branch = b => Current(b, aval[a])'
          BY <1>1, <1>6, <4>1, <4>3 DEF Current
        <4> QED BY <4>4, <4>5 DEF Coherent
      <3> QED BY <3>1, <3>2
    <2>4. \/ UNCHANGED tags
          \/ /\ pc[p] = "tag" /\ c \in Commit /\ tags[c] = None
             /\ tags' = [tags EXCEPT ![c] =
                   [branch |-> req[p].branch, version |-> ver[p], at |-> clock]]
             /\ pc'[p] = "cache" /\ req'[p] = req[p]
      BY <1>1, PushTagEffect DEF TagCommit, CanTag, CreateTag, CacheAndClean
    <2> QED BY <2>1, <2>2, <2>3, <2>4
  <1>7. pc[p] = "cache" => req'[p] = req[p]
    <2>1. ASSUME NEW r \in Requests, Reserve(p, r) PROVE pc[p] # "cache"
      BY <2>1 DEF Reserve
    <2>2. CASE PushStep(p) \/ PushFault(p) \/ BodyClosed(p) \/ BodyMalformed(p) \/ BodyBroken(p)
      BY <2>2 DEF PushStep, PushFault, Fork, ForkFailed, Register, AcquireLock,
          LockTimeout, TimeoutReregister, Disconnect, Open, EndOfInput, StopReceiving,
          Noop, TagCommit, WriteFails, CacheAndClean, Delete, AppendRows, BuildIndex,
          Write, Unregister, RecordResult, Release, Panic, Monitor, BodyClosed,
          BodyMalformed, BodyBroken, RecordBodyError
    <2> QED BY <2>1, <2>2 DEF PushAction, ClientStep
  <1> QED BY <1>1, <1>5, <1>6, <1>7, PushCacheEffect

\* GET /last-indexed keeps it coherent: what a miss derived is inserted only
\* where the entry is still absent, so that no push has tagged in between.
LEMMA ReadCoherent ==
    ASSUME \A r \in AdminRequests : r.op = "lastIndexed",
           DomainTypeOK, CacheInv, NEW a \in Admin, AdminAction(a)
    PROVE  CacheInv'
  <1>1. /\ apc \in [Admin -> APC] /\ areq \in [Admin -> AdminRequests \cup {None}]
        /\ aval \in [Admin -> Indexed \cup {None}]
        /\ lastIdx \in [Branch -> [commit : Commit, version : Nat] \cup {None}]
        /\ apc[a] \in {"idle", "insert", "done", "dead"}
        /\ apc[a] = "insert" => areq[a] \in AdminRequests /\ aval[a] \in Indexed
    BY DEF DomainTypeOK, TypeOK, MapsTypeOK, AdminTypeOK, CacheInv, OnlyReading
  <1>2. LastIndexedRead(a) \/ LastIndexedInsert(a) \/ AdminDropped(a)
    BY <1>1 DEF AdminAction, AdminStart, AssignResolve, DeleteBranchCancel,
        DeleteDomainBegin, Admit, AdminFault, DeleteBranchFails, AdminContinue,
        AssignTag, AssignCache, DeleteBranchTags, DeleteBranchPurge,
        DeleteDomainRemove, DeleteDomainPurge
  <1>3. UNCHANGED <<tags, pc, req>> /\ \E s \in {"insert", "done"} : apc' = [apc EXCEPT ![a] = s]
    BY <1>2 DEF LastIndexedRead, LastIndexedInsert, AdminDropped, PushesUnchanged
  <1>4. OnlyReading'
    BY <1>1, <1>3 DEF CacheInv, OnlyReading
  <1> SUFFICES ASSUME NEW b \in Branch, ~CacheDue(b) PROVE Coherent(b)'
    BY <1>3, <1>4 DEF CacheInv, Coherent, CacheDue
  <1>5. /\ lastIdx[b] # None => Current(b, lastIdx[b])
        /\ lastIdx[b] = None => \A x \in Admin :
              apc[x] = "insert" /\ areq[x].branch = b => Current(b, aval[x])
    BY DEF CacheInv, Coherent
  <1>6. CASE LastIndexedRead(a)
    <2>1. UNCHANGED lastIdx /\ \A x \in Admin \ {a} : areq'[x] = areq[x] /\ aval'[x] = aval[x]
      BY <1>1, <1>6 DEF LastIndexedRead, Admit
    <2>2. ASSUME apc'[a] = "insert", areq'[a].branch = b, lastIdx[b] = None
          PROVE  Current(b, aval[a])'
      <3>1. PICK c \in Commit : /\ IsLastIndexed(tags, b, c)
                                /\ aval' = [aval EXCEPT ![a] =
                                     [commit |-> c, version |-> tags[c].version]]
        BY <1>1, <1>6, <2>2 DEF LastIndexedRead
      <3>2. aval'[a] = [commit |-> c, version |-> tags[c].version]
        BY <1>1, <3>1
      <3> QED BY <1>3, <3>1, <3>2 DEF Current
    <2>3. ASSUME NEW x \in Admin, apc'[x] = "insert", areq'[x].branch = b, lastIdx[b] = None
          PROVE  Current(b, aval[x])'
      <3>1. CASE x = a
        BY <2>2, <2>3, <3>1
      <3>2. CASE x # a
        BY <1>1, <1>3, <1>5, <2>1, <2>3, <3>2 DEF Current
      <3> QED BY <3>1, <3>2
    <2>4. lastIdx'[b] # None => Current(b, lastIdx[b])'
      BY <1>3, <1>5, <2>1 DEF Current
    <2> QED BY <2>1, <2>3, <2>4 DEF Coherent
  <1>7. CASE LastIndexedInsert(a)
    <2>1. /\ apc[a] = "insert" /\ UNCHANGED <<areq, aval>> /\ apc'[a] = "done"
          /\ lastIdx' = IF lastIdx[areq[a].branch] = None
                        THEN [lastIdx EXCEPT ![areq[a].branch] = aval[a]] ELSE lastIdx
      BY <1>1, <1>7 DEF LastIndexedInsert
    <2>2. CASE areq[a].branch = b /\ lastIdx[b] = None
      <3>1. lastIdx'[b] = aval[a] /\ aval[a] # None
        BY <1>1, <2>1, <2>2, NotIndexedAssumption
      <3>2. Current(b, lastIdx[b])'
        BY <1>3, <1>5, <2>1, <2>2, <3>1 DEF Current
      <3> QED BY <3>1, <3>2 DEF Coherent
    <2>3. CASE ~(areq[a].branch = b /\ lastIdx[b] = None)
      <3>1. lastIdx'[b] = lastIdx[b]
        BY <1>1, <2>1, <2>3
      <3>2. \A x \in Admin : apc'[x] = "insert" => apc[x] = "insert"
        BY <1>1, <1>3, <2>1
      <3> QED BY <1>3, <1>5, <2>1, <3>1, <3>2 DEF Coherent, Current
    <2> QED BY <2>2, <2>3
  <1>8. CASE AdminDropped(a)
    <2>1. UNCHANGED <<lastIdx, areq, aval>> /\ apc' = [apc EXCEPT ![a] = "done"]
      BY <1>8 DEF AdminDropped
    <2>2. \A x \in Admin : apc'[x] = "insert" => apc[x] = "insert"
      BY <1>1, <2>1
    <2> QED BY <1>3, <1>5, <2>1, <2>2 DEF Coherent, Current
  <1> QED BY <1>2, <1>6, <1>7, <1>8

\* cache_last_indexed: "a cache HIT can never report a commit OLDER than the
\* latest durable tag".  In a server that gets pushes and GET /last-indexed
\* only, without storage errors and panics, every entry is the commit and the
\* version that io_derive_last_indexed would find, except between a push's tag
\* and its own cache update, whatever bodies, embedding failures, disconnects
\* and crashes there are.
THEOREM CacheIsCoherent ==
    ASSUME \A r \in AdminRequests : r.op = "lastIndexed",
           Faults \cap {"io", "panic"} = {}
    PROVE  Spec => []CacheCoherent
  <1>1. Init => CacheInv
    BY DEF Init, PushInit, CacheInv, OnlyReading, Coherent
  <1>2. NewestInv /\ NotRemoved /\ CacheInv /\ [Next]_vars => CacheInv'
    <2> SUFFICES ASSUME NewestInv, incarn = 0, CacheInv, [Next]_vars PROVE CacheInv'
      BY DEF NotRemoved
    <2>1. DomainTypeOK /\ TypeOK /\ AdminTypeOK
      BY DEF NewestInv, PublishInv, StoreInv, DomainTypeOK
    <2>2. CASE PushNext /\ UNCHANGED <<apc, adminLocal, crashes>>
      BY <2>2, PushCoherent DEF PushNext, PushAction
    <2>3. CASE \E a \in Admin : AdminAction(a)
      BY <2>1, <2>3, ReadCoherent
    <2>4. CASE Crash
      BY <2>1, <2>4 DEF Crash, CacheInv, OnlyReading, Coherent, AdminTypeOK
    <2>5. CASE UNCHANGED vars
      BY <2>5 DEF vars, pushVars, CacheInv, OnlyReading, Coherent, CacheDue, Current
    <2> QED BY <2>2, <2>3, <2>4, <2>5 DEF Next, RequestNext, AdminAction
  <1>3. CacheInv => CacheCoherent
    BY DEF CacheInv, Coherent, CacheDue, Current, CacheCoherent
  <1>4. Spec => []NewestInv
    BY NewestInvariant
  <1>5. Spec => []NotRemoved
    BY OneLife
  <1> QED BY <1>1, <1>2, <1>3, <1>4, <1>5, PTL DEF Spec
=============================================================================
