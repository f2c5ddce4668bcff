------------------------------- MODULE Tables -------------------------------
(***************************************************************************)
(* Two bounded tables that all domains of a process share: the cache of    *)
(* dataset handles, which evicts the least recently used one, with the     *)
(* statistics that are counted over it, and the table of tasks, which      *)
(* evicts finished ones by age and by number.                              *)
(***************************************************************************)
EXTENDS Integers, Sequences, FiniteSets, SequencesExt, FiniteSetsExt

CONSTANTS Domain,      \* domains
          Reader,      \* concurrent read requests
          Stats,       \* the request for statistics, itself a reader
          Bystander,   \* the read requests that run beside it
          CacheMax,    \* dataset_cache_max
          MaxIncs,     \* bound on the datasets created for one domain
          MaxVers,     \* bound on the versions of one dataset
          Task,        \* task ids, in the order of their creation
          MaxTasks,    \* MAX_TASKS
          TaskTTL      \* TASK_TTL, in ticks

ASSUME TablesAssumption ==
    /\ CacheMax \in Nat \ {0} /\ MaxTasks \in Nat \ {0}
    /\ Task \subseteq Nat /\ {TaskTTL, MaxIncs, MaxVers} \subseteq Nat
    /\ Bystander \subseteq Reader /\ Stats \notin Reader

VARIABLES
    disk,    \* [Domain -> dataset on disk], inc 0: none was created yet
    handles, \* cached handles: the dataset and version that they show
    lru,     \* domains with a handle, least recently used first
    reader,  \* [Reader and Stats -> open in progress]
    stat,    \* the request for statistics
    unsure,  \* domains that changed while it ran
    writer,  \* the push or DELETE /domain in progress
    raced,   \* domains whose handle was inserted too late
    behind,  \* domains whose handle a failed push left behind its versions
    tasks,   \* the task table: a function from ids to status and age
    running, \* tasks whose pipeline runs
    newest,  \* the task that was recorded last
    peak     \* the largest number of pending entries so far

tabVars == <<disk, handles, lru, reader, writer, raced, behind, stat, unsure, tasks, running, newest, peak>>
statVars == <<stat, unsure>>
cacheVars == <<disk, handles, lru, reader, writer, raced, behind, statVars>>
taskVars == <<tasks, running, newest, peak>>

NoData == [inc |-> 0, ver |-> 0, there |-> FALSE]
Closed == [inc |-> 0, ver |-> 0]
NoOpen == [pc |-> "idle", domain |-> CHOOSE d \in Domain : TRUE, got |-> Closed, late |-> FALSE]
NoStat == [pc |-> "idle", scope |-> {}, rows |-> [d \in Domain |-> 0], todo |-> {}]

TabInit ==
    /\ disk = [d \in Domain |-> NoData]
    /\ handles = [d \in Domain |-> Closed] /\ lru = << >>
    /\ reader = [r \in Reader \cup {Stats} |-> NoOpen] /\ writer = NoOpen
    /\ raced = {} /\ behind = {}
    /\ stat = NoStat /\ unsure = {}
    /\ tasks = << >> /\ running = {} /\ newest = 0 /\ peak = 0

-----------------------------------------------------------------------------
(* The handle cache.                                                       *)

Cached(d) == handles[d] # Closed
OnDisk(d) == [inc |-> disk[d].inc, ver |-> disk[d].ver]

\* The stamp of last_access: d becomes the most recently used.
Stamped(d) == Append(RemoveFirst(lru, d), d)
touch_entry(d) == lru' = Stamped(d)

\* evict_lru_if_over
Victims(order) ==
    IF Len(order) > CacheMax THEN ToSet(SubSeq(order, 1, Len(order) - CacheMax)) ELSE {}
Survivors(order) ==
    IF Len(order) > CacheMax THEN SubSeq(order, Len(order) - CacheMax + 1, Len(order)) ELSE order

\* An open that is under way when the handle of its domain goes is late.
Late(gone) == [r \in Reader \cup {Stats} |-> IF reader[r].pc = "insert" /\ reader[r].domain \in gone
                                THEN [reader[r] EXCEPT !.late = TRUE] ELSE reader[r]]

\* upsert_entry and the eviction.
Upsert(d, h) ==
    LET gone == Victims(Stamped(d))
    IN  /\ lru' = Survivors(Stamped(d))
        /\ handles' = [x \in Domain |-> IF x \in gone THEN Closed
                                        ELSE IF x = d THEN h ELSE handles[x]]

\* A handle that goes is no longer out of date.
OutOfDate(S, B) ==
    /\ raced' = {d \in S : handles'[d] # Closed}
    /\ behind' = {d \in B : handles'[d] # Closed}

\* insert_cached_dataset: a handle that is there by now stays.
InsertCached(d, h) ==
    IF Cached(d) THEN touch_entry(d) /\ UNCHANGED handles ELSE Upsert(d, h)

\* io_open_dataset_readonly: the cache, then the path, then the open.
FindHandle(r, d) ==
    /\ reader[r].pc = "idle"
    /\ \/ Cached(d) /\ touch_entry(d) /\ UNCHANGED reader
       \/ /\ ~Cached(d) /\ disk[d].there
          /\ reader' = [reader EXCEPT ![r] = [NoOpen EXCEPT !.pc = "open", !.domain = d]]
          /\ UNCHANGED lru
       \/ ~Cached(d) /\ ~disk[d].there /\ UNCHANGED <<lru, reader>>
    /\ UNCHANGED <<disk, handles, writer, raced, behind, taskVars>>

\* io_open_fresh: an error if the directory is gone by now.
OpenFresh(r) ==
    /\ reader[r].pc = "open"
    /\ reader' = [reader EXCEPT ![r] =
          IF disk[reader[r].domain].there
          THEN [@ EXCEPT !.pc = "insert", !.got = OnDisk(reader[r].domain)] ELSE NoOpen]
    /\ UNCHANGED <<disk, handles, lru, writer, raced, behind, taskVars>>

InsertHandle(r) ==
    LET d == reader[r].domain
    IN  /\ reader[r].pc = "insert"
        /\ InsertCached(d, reader[r].got)
        /\ reader' = [Late(Victims(Stamped(d))) EXCEPT ![r] = NoOpen]
        /\ OutOfDate(IF ~Cached(d) /\ reader[r].late THEN raced \cup {d} ELSE raced, behind)
        /\ UNCHANGED <<disk, writer, taskVars>>

-----------------------------------------------------------------------------
(* GET /statistics.  A handle shows the rows of its version; one for every *)
(* version after the first tells the versions apart.                       *)

Rows(h) == IF h = Closed THEN 0 ELSE h.ver - 1
Counting(d) == stat.rows[d] + Rows(handles[d])

\* Under the read lock of the map: every cached domain of the scope.
CountCached(scope) ==
    /\ stat.pc = "idle"
    /\ stat' = [pc |-> "counted", scope |-> scope, todo |-> {},
                rows |-> [d \in Domain |-> IF d \in scope THEN Counting(d) ELSE 0]]
    /\ UNCHANGED <<disk, handles, lru, reader, writer, raced, behind, taskVars>>

\* discover_on_disk_datasets; for one domain, only if the cache had nothing.
DiscoverOnDisk ==
    /\ stat.pc = "counted"
    /\ stat' = [stat EXCEPT !.pc = IF stat.scope = Domain THEN "listed" ELSE "opening",
                            !.todo = {d \in stat.scope : disk[d].there /\
                                        (stat.scope = Domain \/ stat.rows[d] = 0)}]
    /\ UNCHANGED <<disk, handles, lru, reader, writer, raced, behind, taskVars>>

\* Mutant of SkipCached: what is in the cache is counted again.
SkipNothing ==
    /\ stat.pc = "listed" /\ stat' = [stat EXCEPT !.pc = "opening"]
    /\ UNCHANGED <<disk, handles, lru, reader, writer, raced, behind, taskVars>>

\* cached_domains: the map is read a second time.
SkipCached ==
    /\ stat.pc = "listed"
    /\ stat' = [stat EXCEPT !.pc = "opening", !.todo = {d \in @ : ~Cached(d)}]
    /\ UNCHANGED <<disk, handles, lru, reader, writer, raced, behind, taskVars>>

\* A hit is counted at once, a miss by the insert; no dataset, no rows.
OpenListed(d) ==
    /\ stat.pc = "opening" /\ d \in stat.todo
    /\ FindHandle(Stats, d)
    /\ stat' = [stat EXCEPT !.todo = @ \ {d}, !.rows[d] = Counting(d)]

CountOpened ==
    /\ InsertHandle(Stats)
    /\ stat' = [stat EXCEPT !.rows[reader[Stats].domain] = @ + Rows(handles'[reader[Stats].domain])]

Report ==
    /\ stat.pc = "opening" /\ stat.todo = {} /\ reader[Stats].pc = "idle"
    /\ stat' = [stat EXCEPT !.pc = "done"]
    /\ UNCHANGED <<disk, handles, lru, reader, writer, raced, behind, taskVars>>

Reported == stat.pc = "done" /\ stat' = NoStat /\ UNCHANGED <<disk, handles, lru, reader, writer, raced, behind, taskVars>>

\* What a request cannot count exactly: a domain that is written or deleted, or
\* has a handle that came too late or was left behind, and, between the two
\* reads of the map, one whose handle enters or leaves the cache.
Unsettled == raced \cup behind \cup (IF writer.pc = "idle" THEN {} ELSE {writer.domain})
Observe ==
    unsure' = IF stat'.pc = "idle" THEN {}
              ELSE unsure \cup Unsettled \cup Unsettled' \cup
                   (IF stat.pc \in {"counted", "listed"} /\ stat.scope = Domain
                    THEN {d \in Domain : Cached(d) # (handles'[d] # Closed)} ELSE {})

StatNext ==
    \/ \E scope \in {Domain} \cup {{d} : d \in Domain} : CountCached(scope)
    \/ \E d \in Domain : OpenListed(d)
    \/ DiscoverOnDisk \/ SkipCached \/ CountOpened \/ Report \/ Reported
    \/ OpenFresh(Stats) /\ UNCHANGED stat

-----------------------------------------------------------------------------
(* Pushes and deletions.                                                   *)

\* A push under the domain guard: io_open_dataset, which creates.
PushOpen(d) ==
    /\ writer.pc = "idle"
    /\ \/ Cached(d) /\ touch_entry(d) /\ UNCHANGED <<disk, handles, reader>>
       \/ /\ ~Cached(d)
          /\ disk[d].there \/ disk[d].inc < MaxIncs
          /\ disk' = IF disk[d].there THEN disk
                     ELSE [disk EXCEPT ![d] = [inc |-> @.inc + 1, ver |-> 1, there |-> TRUE]]
          /\ Upsert(d, [inc |-> disk'[d].inc, ver |-> disk'[d].ver])
          /\ reader' = Late(Victims(Stamped(d)))
    /\ writer' = [NoOpen EXCEPT !.pc = "write", !.domain = d, !.late = (d \in raced)]
    /\ OutOfDate(raced, behind)
    /\ UNCHANGED taskVars

\* io_open_branch_for_write opens from disk and fails if there is nothing.
PushWrite ==
    LET d == writer.domain
    IN  /\ writer.pc = "write"
        /\ \/ /\ disk[d].there
              /\ disk' = [disk EXCEPT ![d].ver = @ + 1]
              /\ writer' = [writer EXCEPT !.pc = "refresh"]
           \/ ~disk[d].there /\ writer' = [writer EXCEPT !.pc = "failed"] /\ UNCHANGED disk
        /\ UNCHANGED <<handles, lru, reader, raced, behind, taskVars>>

\* After the refresh the push is over, or the index pass commits once more.
Refreshed(versions) ==
    \/ writer' = NoOpen
    \/ disk[writer.domain].ver < versions /\ writer' = [writer EXCEPT !.pc = "write"]

\* Mutant of Refresh: a handle that is there stays.
RefreshIfAbsent(versions) ==
    LET d == writer.domain
    IN  /\ writer.pc = "refresh"
        /\ InsertCached(d, OnDisk(d))
        /\ reader' = Late(Victims(Stamped(d)))
        /\ Refreshed(versions) /\ OutOfDate(raced \ {d}, behind \ {d})
        /\ UNCHANGED <<disk, taskVars>>

\* io_refresh_cached_dataset
Refresh(versions) ==
    LET d == writer.domain
    IN  /\ writer.pc = "refresh"
        /\ Upsert(d, OnDisk(d))
        /\ reader' = Late(Victims(Stamped(d)))
        /\ Refreshed(versions) /\ OutOfDate(raced \ {d}, behind \ {d})
        /\ UNCHANGED <<disk, taskVars>>

\* The first error ends the push: of an open, of the delete or the append, of
\* the index pass or of the refresh itself.  What was committed by then stays
\* on disk, and the handle stays where it was; so does an open under way.
WriteFails ==
    LET d == writer.domain
    IN  /\ writer.pc \in {"write", "refresh"} /\ writer' = NoOpen
        /\ IF writer.pc = "refresh"
           THEN /\ reader' = Late({d})
                /\ behind' = IF Cached(d) /\ d \notin raced THEN behind \cup {d} ELSE behind
           ELSE UNCHANGED <<reader, behind>>
        /\ UNCHANGED <<disk, handles, lru, raced, taskVars>>

PushAnswered ==
    /\ writer.pc = "failed" /\ writer' = NoOpen
    /\ UNCHANGED <<disk, handles, lru, reader, raced, behind, taskVars>>

\* DELETE /domain: the directory first, the handle second.
DeleteDisk(d) ==
    /\ writer.pc = "idle" /\ disk[d].inc > 0
    /\ disk' = [disk EXCEPT ![d].there = FALSE, ![d].ver = 0]
    /\ writer' = [NoOpen EXCEPT !.pc = "forget", !.domain = d]
    /\ UNCHANGED <<handles, lru, reader, raced, behind, taskVars>>

DeleteHandle ==
    LET d == writer.domain
    IN  /\ writer.pc = "forget"
        /\ handles' = [handles EXCEPT ![d] = Closed] /\ lru' = RemoveFirst(lru, d)
        /\ reader' = Late({d}) /\ OutOfDate(raced, behind) /\ writer' = NoOpen
        /\ UNCHANGED <<disk, taskVars>>

-----------------------------------------------------------------------------
(* The task table.  Ages stand for the instants of the last record.        *)

Entries(T) == DOMAIN T
Terminal(T) == {t \in Entries(T) : T[t].status = "terminal"}
OlderTask(T, t, u) ==
    \/ T[t].age > T[u].age
    \/ T[t].age = T[u].age /\ (T[t].at < T[u].at \/ (T[t].at = T[u].at /\ t < u))
\* Sorted by the instants, the first n of S.
Oldest(T, S, n) == {t \in S : Cardinality({u \in S : OlderTask(T, u, t)}) < n}
Without(T, S) == [t \in Entries(T) \ S |-> T[t]]
Over(T) == IF Cardinality(Entries(T)) > MaxTasks THEN Cardinality(Entries(T)) - MaxTasks ELSE 0

\* Mutant of evict_stale_tasks: the oldest entry goes, whatever its status.
EvictOldest(T) ==
    LET fresh == Without(T, {t \in Terminal(T) : T[t].age > TaskTTL})
    IN  Without(fresh, Oldest(fresh, Entries(fresh), Over(fresh)))

\* Terminal entries by age; over the cap the oldest terminal ones; then the
\* oldest of all.
evict_stale_tasks(T) ==
    LET fresh == Without(T, {t \in Terminal(T) : T[t].age > TaskTTL})
        capped == Without(fresh, Oldest(fresh, Terminal(fresh), Over(fresh)))
    IN  Without(capped, Oldest(capped, Entries(capped), Over(capped)))

Pending(T) == Entries(T) \ Terminal(T)

\* The order of the records of one tick.
Rank(T) == Max({0} \cup {T[t].at : t \in {u \in Entries(T) : T[u].age = 0}}) + 1
Ranked(T, t, status) ==
    [u \in Entries(T) \cup {t} |-> IF u = t THEN [status |-> status, age |-> 0, at |-> Rank(T)]
                                            ELSE T[u]]
record_task(t, status) ==
    LET T == Ranked(tasks, t, status)
    IN  /\ tasks' = evict_stale_tasks(T)
        /\ newest' = t
        /\ peak' = Max({peak, Cardinality(Pending(T))})

\* Ids are created in order.  A push that times out on the pipeline lock has
\* recorded its task before, and never records it again.
Submit(t) ==
    /\ t = Max({newest} \cup Entries(tasks) \cup running) + 1 /\ t \in Task
    /\ record_task(t, "pending")
    /\ running' \in {running, running \cup {t}}
    /\ UNCHANGED cacheVars

Finish(t) ==
    /\ t \in running
    /\ record_task(t, "terminal")
    /\ running' = running \ {t}
    /\ UNCHANGED cacheVars

Tick ==
    /\ \E t \in Entries(tasks) : tasks[t].age <= TaskTTL
    /\ tasks' = [t \in Entries(tasks) |->
                   [tasks[t] EXCEPT !.age = Min({@ + 1, TaskTTL + 1})]]
    /\ UNCHANGED <<cacheVars, running, newest, peak>>

-----------------------------------------------------------------------------
HandleNext(readers, versions) ==
    \/ \E r \in readers : OpenFresh(r) \/ InsertHandle(r) \/ \E d \in Domain : FindHandle(r, d)
    \/ \E d \in Domain : (disk[d].ver < versions /\ PushOpen(d)) \/ DeleteDisk(d)
    \/ PushWrite \/ Refresh(versions) \/ WriteFails \/ PushAnswered \/ DeleteHandle
CacheNext == HandleNext(Reader, MaxVers) /\ UNCHANGED statVars
CountNext == (StatNext \/ (HandleNext(Bystander, MaxVers - 1) /\ UNCHANGED stat)) /\ Observe
TaskNext == (\E t \in Task : Submit(t) \/ Finish(t)) \/ Tick

\* All of it at once; and the requests for statistics, with what they observe.
TabNext == CacheNext \/ CountNext \/ TaskNext
TabSpec == TabInit /\ [][TabNext]_tabVars
CountSpec == TabInit /\ [][CountNext \/ TaskNext]_tabVars

-----------------------------------------------------------------------------
(* Properties.                                                             *)

\* Type correctness; neither table exceeds its bound.
TabTypeOK ==
    /\ Len(lru) <= CacheMax /\ {d \in Domain : Cached(d)} = ToSet(lru)
    /\ raced \cup behind \subseteq ToSet(lru) /\ Cardinality(Entries(tasks)) <= MaxTasks
    /\ running \subseteq Task /\ peak \in Nat

\* Between writes the cached handle shows the dataset that is on disk, at its
\* head, and no push fails for want of one.  There are two ways out of this.  A
\* push that fails between a commit and the refresh leaves its handle at an
\* older version, of the same dataset.  An open that was between io_open_fresh
\* and the insert when the handle of its domain was evicted or deleted, or when
\* such a push failed, inserts what may be gone.  The next push that refreshes,
\* an eviction or a DELETE repairs both, a handle of a deleted dataset only the
\* latter two.
HandlesCurrent ==
    /\ \A d \in Domain \ raced :
          Cached(d) /\ (writer.pc = "idle" \/ writer.domain # d) =>
             /\ disk[d].there /\ handles[d].inc = disk[d].inc /\ handles[d].ver <= disk[d].ver
             /\ d \notin behind => handles[d] = OnDisk(d)
    /\ writer.pc = "failed" => writer.late

\* A settled domain is counted once, with all its rows, whether its handle was in
\* the cache, was opened by the request or by another reader meanwhile.
StatisticsExact ==
    stat.pc = "done" => \A d \in stat.scope \ unsure :
        stat.rows[d] = IF disk[d].there THEN disk[d].ver - 1 ELSE 0

\* The status of a running task, and the one recorded last, can be read, unless
\* more than MAX_TASKS pending entries were in the table; those that lock
\* timeouts left behind count, and no age removes them.
StatusKept ==
    /\ peak <= MaxTasks => running \subseteq Entries(tasks)
    /\ newest # 0 /\ Cardinality(Pending(tasks)) < MaxTasks => newest \in Entries(tasks)
=============================================================================
