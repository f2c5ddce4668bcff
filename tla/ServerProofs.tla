---------------------------- MODULE ServerProofs ----------------------------
(*************************************************************************)
(* Theorems about the tables that a server process keeps in memory (Tables) *)
(* and about the processes themselves (Lifecycle), for any number of     *)
(* domains, readers, tasks, processes, pushes, environments, starts and  *)
(* kills and any bound on the tables.                                    *)
(*************************************************************************)
EXTENDS Tables, Lifecycle, SequenceTheorems, FiniteSetTheorems, WellFoundedInduction, TLAPS

(*************************************************************************)
(* Tables: they are bounded (TabTypeOK), the handles are current         *)
(* (HandlesCurrent), the statistics that are counted over them are exact *)
(* (StatisticsExact), and the status of a running task, or the one recorded *)
(* last, is in the task table (StatusKept).                              *)
(*************************************************************************)

Handle == [inc : Nat, ver : Nat]
OpenType == [pc : {"idle", "open", "insert", "write", "refresh", "failed", "forget"},
             domain : Domain \cup {NoOpen.domain}, got : Handle, late : BOOLEAN]
Openers == Reader \cup {Stats}

\* Types of the cache; a request that is under way is on a domain.
CacheTypes ==
    /\ disk \in [Domain -> [inc : Nat, ver : Nat, there : BOOLEAN]]
    /\ handles \in [Domain -> Handle]
    /\ reader \in [Openers -> OpenType] /\ writer \in OpenType
    /\ \A r \in Openers : reader[r].pc # "idle" => reader[r].domain \in Domain
    /\ writer.pc # "idle" => writer.domain \in Domain
    /\ \A d \in Domain : disk[d].there => disk[d].ver # 0

\* The writer is about to replace or drop the handle of d.
Repairing(d) == writer.domain = d /\ writer.pc \in {"refresh", "forget"}
Current(d) == disk[d].there /\ handles[d] = OnDisk(d)

\* A handle of the dataset on disk, at its head or behind it.
Forgetting(d) == writer.domain = d /\ writer.pc = "forget"
Follows(d, h) == disk[d].there /\ h.inc = disk[d].inc /\ h.ver <= disk[d].ver

\* Handles, and opens before their insert, are of the dataset on disk.
FollowInv ==
    /\ \A d \in Domain \ raced : Cached(d) /\ ~Forgetting(d) => Follows(d, handles[d])
    /\ \A r \in Openers : reader[r].pc = "insert" /\ ~reader[r].late =>
          LET d == reader[r].domain
          IN  Cached(d) \/ Forgetting(d) \/ Follows(d, reader[r].got)

\* They show its head, but for what a failed push left behind.
CurrentInv ==
    /\ \A d \in Domain \ (raced \cup behind) : Cached(d) /\ ~Repairing(d) => Current(d)
    /\ \A r \in Openers : reader[r].pc = "insert" /\ ~reader[r].late =>
          LET d == reader[r].domain
          IN  Cached(d) \/ Repairing(d) \/ (disk[d].there /\ reader[r].got = OnDisk(d))
    /\ writer.pc = "write" /\ ~writer.late => disk[writer.domain].there
    /\ writer.pc = "refresh" => disk[writer.domain].there
    /\ writer.pc = "failed" => writer.late

HandleInv == CurrentInv /\ FollowInv

\* The order of use names the cached domains, each once.
Distinct(s) == \A i, j \in 1 .. Len(s) : s[i] = s[j] => i = j
OrderInv ==
    /\ lru \in Seq(Domain) /\ Distinct(lru) /\ Len(lru) <= CacheMax
    /\ {d \in Domain : Cached(d)} = ToSet(lru)
    /\ raced \cup behind \subseteq ToSet(lru)
    /\ \A r \in Openers : reader[r].pc = "insert" => reader[r].got # Closed

\* What the request for statistics has still to count of d.
Expected(d) == IF disk[d].there THEN disk[d].ver - 1 ELSE 0
Opening(d) == reader[Stats].pc \in {"open", "insert"} /\ reader[Stats].domain = d

StatType == [pc : {"idle", "counted", "listed", "opening", "done"}, scope : SUBSET Domain,
             rows : [Domain -> Int], todo : SUBSET Domain]
StatOK(d) ==
    /\ stat.pc \in {"counted", "listed"} /\ stat.scope = Domain =>
          stat.rows[d] = Rows(handles[d])
    /\ stat.pc = "listed" => stat.scope = Domain /\ (d \in stat.todo <=> disk[d].there)
    /\ stat.pc = "counted" => stat.rows[d] \in {0, Expected(d)}
    /\ stat.pc = "opening" =>
          /\ d \in stat.todo \/ Opening(d) => stat.rows[d] = 0 /\ disk[d].there
          /\ ~(d \in stat.todo /\ Opening(d))
          /\ d \notin stat.todo /\ ~Opening(d) => stat.rows[d] = Expected(d)
    /\ stat.pc = "done" => stat.rows[d] = Expected(d)
StatInv ==
    /\ stat \in StatType
    /\ stat.pc = "idle" => stat = NoStat
    /\ stat.pc # "opening" => reader[Stats].pc = "idle"
    /\ stat.pc # "idle" => Unsettled \subseteq unsure
    /\ \A d \in stat.scope \ unsure : StatOK(d)

-----------------------------------------------------------------------------
(* The order of use.                                                       *)

\* Taking a domain out of a sequence that has it once at most.
LEMMA RemoveFirstProperties ==
    ASSUME NEW D, NEW s \in Seq(D), Distinct(s), NEW d
    PROVE  LET r == RemoveFirst(s, d)
           IN  /\ r \in Seq(D) /\ Distinct(r) /\ ToSet(r) = ToSet(s) \ {d}
               /\ Len(r) <= Len(s) /\ (d \in ToSet(s) => Len(r) = Len(s) - 1)
  <1> DEFINE r == RemoveFirst(s, d)
  <1>1. CASE ~\E i \in 1 .. Len(s) : s[i] = d
    BY <1>1 DEF RemoveFirst, ToSet
  <1>2. CASE \E i \in 1 .. Len(s) : s[i] = d
    <2>1. PICK i \in 1 .. Len(s) : s[i] = d
      BY <1>2
    <2>2. SelectInSeq(s, LAMBDA v : v = d) = i
      <3> DEFINE I == {j \in 1 .. Len(s) : s[j] = d}
      <3>1. I = {i}
        BY <2>1 DEF Distinct
      <3>2. Min({i}) = i
        BY <2>1 DEF Min
      <3> QED BY <3>1, <3>2 DEF SelectInSeq
    <2>3. r = SubSeq(s, 1, i - 1) \o SubSeq(s, i + 1, Len(s))
      BY <1>2, <2>2 DEF RemoveFirst, RemoveAt
    <2> DEFINE a == SubSeq(s, 1, i - 1)
               b == SubSeq(s, i + 1, Len(s))
    <2>4. /\ a \in Seq(D) /\ Len(a) = i - 1 /\ \A k \in 1 .. i - 1 : a[k] = s[k]
      BY <2>1
    <2>5. /\ b \in Seq(D) /\ Len(b) = Len(s) - i /\ \A k \in 1 .. Len(s) - i : b[k] = s[i + k]
      BY <2>1
    <2>a. r = a \o b
      BY <2>3
    <2> HIDE DEF a, b, r
    <2>b. /\ r \in Seq(D) /\ Len(r) = Len(s) - 1
          /\ \A k \in 1 .. Len(r) : r[k] = IF k <= Len(a) THEN a[k] ELSE b[k - Len(a)]
      <3>1. /\ a \o b \in Seq(D) /\ Len(a \o b) = Len(a) + Len(b)
            /\ \A k \in 1 .. Len(a) + Len(b) :
                  (a \o b)[k] = IF k <= Len(a) THEN a[k] ELSE b[k - Len(a)]
        BY <2>4, <2>5, ConcatProperties
      <3>2. Len(a) + Len(b) = Len(s) - 1
        BY <2>1, <2>4, <2>5
      <3> QED BY <2>a, <3>1, <3>2
    <2>6. /\ r \in Seq(D) /\ Len(r) = Len(s) - 1
          /\ \A k \in 1 .. Len(s) - 1 : r[k] = IF k < i THEN s[k] ELSE s[k + 1]
      <3>1. SUFFICES ASSUME NEW k \in 1 .. Len(s) - 1
                     PROVE  r[k] = IF k < i THEN s[k] ELSE s[k + 1]
        BY <2>b
      <3>2. CASE k < i
        BY <2>1, <2>4, <2>b, <3>2
      <3>3. CASE k >= i
        <4>1. k - (i - 1) \in 1 .. Len(s) - i /\ i + (k - (i - 1)) = k + 1
          BY <2>1, <3>3
        <4>2. b[k - (i - 1)] = s[i + (k - (i - 1))]
          BY <2>5, <4>1
        <4> QED BY <2>1, <2>4, <2>b, <3>3, <4>1, <4>2
      <3> QED BY <2>1, <3>2, <3>3
    <2>7. Distinct(r)
      BY <2>1, <2>6 DEF Distinct
    <2>8. ToSet(r) = ToSet(s) \ {d}
      <3>1. ASSUME NEW x \in ToSet(r)
            PROVE  x \in ToSet(s) \ {d}
        <4>1. PICK k \in 1 .. Len(s) - 1 : x = r[k]
          BY <2>6 DEF ToSet
        <4> QED BY <2>1, <2>6, <4>1 DEF ToSet, Distinct
      <3>2. ASSUME NEW x \in ToSet(s) \ {d}
            PROVE  x \in ToSet(r)
        <4>1. PICK k \in 1 .. Len(s) : x = s[k]
          BY DEF ToSet
        <4>2. k # i
          BY <2>1, <4>1
        <4>3. CASE k < i
          BY <2>1, <2>6, <4>1, <4>3 DEF ToSet
        <4>4. CASE k > i
          <5>1. k - 1 \in 1 .. Len(s) - 1 /\ r[k - 1] = x
            BY <2>1, <2>6, <4>1, <4>4
          <5> QED BY <2>6, <5>1 DEF ToSet
        <4> QED BY <2>1, <4>1, <4>2, <4>3, <4>4
      <3> QED BY <3>1, <3>2
    <2> QED BY <2>1, <2>6, <2>7, <2>8 DEF r
  <1> QED BY <1>1, <1>2

\* The domain that is used last comes last.
LEMMA StampedProperties ==
    ASSUME lru \in Seq(Domain), Distinct(lru), NEW d \in Domain
    PROVE  LET s == Stamped(d)
           IN  /\ s \in Seq(Domain) /\ Distinct(s) /\ ToSet(s) = ToSet(lru) \cup {d}
               /\ Len(s) > 0 /\ s[Len(s)] = d
               /\ d \in ToSet(lru) => Len(s) = Len(lru)
  <1> DEFINE r == RemoveFirst(lru, d)
             s == Stamped(d)
  <1>1. /\ r \in Seq(Domain) /\ Distinct(r) /\ ToSet(r) = ToSet(lru) \ {d}
        /\ Len(r) <= Len(lru) /\ (d \in ToSet(lru) => Len(r) = Len(lru) - 1)
    BY RemoveFirstProperties
  <1> HIDE DEF r
  <1>2. s = Append(r, d)
    BY DEF Stamped, r
  <1>3. /\ s \in Seq(Domain) /\ Len(s) = Len(r) + 1 /\ s[Len(s)] = d
        /\ \A i \in 1 .. Len(r) : s[i] = r[i]
    BY <1>1, <1>2
  <1>4. \A i \in 1 .. Len(r) : r[i] \in ToSet(r)
    BY <1>1 DEF ToSet
  <1>5. Distinct(s)
    BY <1>1, <1>3, <1>4 DEF Distinct
  <1>6. ToSet(s) = ToSet(r) \cup {d}
    BY <1>1, <1>3 DEF ToSet
  <1> QED BY <1>1, <1>3, <1>5, <1>6

\* The eviction leaves CacheMax domains, and never takes the last.
LEMMA EvictionProperties ==
    ASSUME NEW s \in Seq(Domain), Distinct(s), Len(s) > 0
    PROVE  /\ Survivors(s) \in Seq(Domain) /\ Distinct(Survivors(s))
           /\ Len(Survivors(s)) <= CacheMax
           /\ ToSet(Survivors(s)) = ToSet(s) \ Victims(s)
           /\ s[Len(s)] \notin Victims(s)
           /\ Len(s) <= CacheMax => Victims(s) = {}
  <1>0. CacheMax \in Nat \ {0}
    BY TablesAssumption
  <1>1. CASE Len(s) <= CacheMax
    BY <1>0, <1>1 DEF Survivors, Victims
  <1>2. CASE Len(s) > CacheMax
    <2> DEFINE n == Len(s) - CacheMax
               a == SubSeq(s, 1, n)
               b == SubSeq(s, n + 1, Len(s))
    <2>1. Victims(s) = ToSet(a) /\ Survivors(s) = b
      BY <1>0, <1>2 DEF Victims, Survivors
    <2>2. n \in 1 .. Len(s) - 1 /\ Len(s) \in Nat
      BY <1>0, <1>2
    <2>3. Len(a) = n /\ a \in Seq(Domain) /\ \A k \in 1 .. n : a[k] = s[k]
      BY <2>2
    <2>4. Len(b) = CacheMax /\ b \in Seq(Domain) /\ \A k \in 1 .. CacheMax : b[k] = s[n + k]
      BY <1>0, <2>2
    <2> HIDE DEF a, b
    <2>5. \A x : x \in ToSet(a) <=> \E k \in 1 .. n : x = s[k]
      BY <2>3 DEF ToSet
    <2>6. \A x : x \in ToSet(b) <=> \E k \in 1 .. CacheMax : x = s[n + k]
      <3>1. DOMAIN b = 1 .. CacheMax
        BY <2>4
      <3> QED BY <2>4, <3>1 DEF ToSet
    <2>7. \A x : x \in ToSet(s) <=> \E k \in 1 .. Len(s) : x = s[k]
      BY DEF ToSet
    <2>8. Distinct(b)
      <3>1. \A k \in 1 .. CacheMax : n + k \in 1 .. Len(s)
        BY <1>0, <2>2
      <3>2. SUFFICES ASSUME NEW i \in 1 .. CacheMax, NEW j \in 1 .. CacheMax, b[i] = b[j]
                     PROVE  i = j
        BY <2>4 DEF Distinct
      <3>3. s[n + i] = s[n + j]
        BY <2>4, <3>2
      <3>4. n + i = n + j
        BY <3>1, <3>3 DEF Distinct
      <3> QED BY <2>2, <3>4
    <2>9. s[Len(s)] \notin ToSet(a)
      BY <2>2, <2>5 DEF Distinct
    <2>10. ToSet(b) = ToSet(s) \ ToSet(a)
      <3>1. ASSUME NEW x \in ToSet(b)
            PROVE  x \in ToSet(s) \ ToSet(a)
        <4>1. PICK k \in 1 .. CacheMax : x = s[n + k]
          BY <2>6
        <4>2. n + k \in 1 .. Len(s) /\ n + k > n
          BY <1>0, <2>2
        <4> QED BY <2>2, <2>5, <2>7, <4>1, <4>2 DEF Distinct
      <3>2. ASSUME NEW x \in ToSet(s) \ ToSet(a)
            PROVE  x \in ToSet(b)
        <4>1. PICK k \in 1 .. Len(s) : x = s[k]
          BY <2>7
        <4>2. k > n
          BY <2>2, <2>5, <4>1
        <4>3. k - n \in 1 .. CacheMax /\ n + (k - n) = k
          BY <1>0, <2>2, <4>2
        <4> QED BY <2>6, <4>1, <4>3
      <3> QED BY <3>1, <3>2
    <2> QED BY <1>0, <1>2, <2>1, <2>2, <2>4, <2>8, <2>9, <2>10
  <1> QED BY <1>0, <1>1, <1>2

-----------------------------------------------------------------------------
(* Steps and types.                                                        *)

\* A step that the cache sees.
CacheStep ==
    \/ \E r \in Openers : OpenFresh(r) \/ InsertHandle(r) \/ \E d \in Domain : FindHandle(r, d)
    \/ \E d \in Domain : PushOpen(d) \/ DeleteDisk(d)
    \/ PushWrite \/ WriteFails \/ PushAnswered \/ DeleteHandle
    \/ \E n \in Int : Refresh(n)

\* Every other step leaves the cache alone.
LEMMA CacheSteps ==
    ASSUME [TabNext]_tabVars
    PROVE  CacheStep \/ UNCHANGED <<disk, handles, lru, reader, writer, raced, behind>>
  <1>1. CASE UNCHANGED tabVars
    BY <1>1 DEF tabVars
  <1>2. CASE CacheNext
    BY <1>2, TablesAssumption DEF CacheNext, HandleNext, CacheStep, Openers
  <1>3. CASE CountNext
    <2>1. CASE HandleNext(Bystander, MaxVers - 1)
      BY <2>1, TablesAssumption DEF HandleNext, CacheStep, Openers
    <2>2. CASE StatNext
      BY <2>2 DEF StatNext, CountCached, OpenListed, DiscoverOnDisk, SkipCached, CountOpened, Report,
          Reported, CacheStep, Openers
    <2> QED BY <1>3, <2>1, <2>2 DEF CountNext
  <1>4. CASE TaskNext
    BY <1>4 DEF TaskNext, Submit, Finish, Tick, cacheVars
  <1> QED BY <1>1, <1>2, <1>3, <1>4 DEF TabNext

\* A request that is idle, and a closed handle.
LEMMA NoOpenType ==
    /\ NoOpen \in OpenType /\ NoOpen.pc = "idle" /\ ~NoOpen.late
    /\ Closed \in Handle
    /\ \A s \in {"open", "write", "forget"}, d \in Domain, l \in BOOLEAN :
          LET o == [NoOpen EXCEPT !.pc = s, !.domain = d, !.late = l]
          IN  o \in OpenType /\ o.pc = s /\ o.domain = d /\ o.late = l
    /\ \A s \in {"open", "write", "forget"}, d \in Domain :
          LET o == [NoOpen EXCEPT !.pc = s, !.domain = d]
          IN  o \in OpenType /\ o.pc = s /\ o.domain = d /\ ~o.late
  BY DEF NoOpen, OpenType, Closed, Handle

\* What becomes of the opens when handles go.
LEMMA LateEffect ==
    ASSUME CacheTypes, NEW gone
    PROVE  /\ Late(gone) \in [Openers -> OpenType]
           /\ \A r \in Openers :
                 /\ Late(gone)[r].pc = reader[r].pc /\ Late(gone)[r].domain = reader[r].domain
                 /\ Late(gone)[r].got = reader[r].got
                 /\ Late(gone)[r].late = (reader[r].late \/
                       (reader[r].pc = "insert" /\ reader[r].domain \in gone))
  <1>1. reader \in [Openers -> OpenType]
    BY DEF CacheTypes
  <1>2. \A r \in Openers : LET o == [reader[r] EXCEPT !.late = TRUE]
                           IN  /\ o \in OpenType /\ o.pc = reader[r].pc /\ o.domain = reader[r].domain
                               /\ o.got = reader[r].got /\ o.late = TRUE
    BY <1>1 DEF OpenType
  <1>3. \A r \in Openers : reader[r].late \in BOOLEAN
    BY <1>1 DEF OpenType
  <1>4. Late(gone) = [r \in Openers |-> IF reader[r].pc = "insert" /\ reader[r].domain \in gone
                                        THEN [reader[r] EXCEPT !.late = TRUE] ELSE reader[r]]
    BY DEF Late, Openers
  <1> QED BY <1>1, <1>2, <1>3, <1>4

\* The handles after an upsert.
LEMMA UpsertEffect ==
    ASSUME CacheTypes, NEW d \in Domain, NEW h \in Handle, Upsert(d, h)
    PROVE  /\ handles' \in [Domain -> Handle]
           /\ \A x \in Domain : handles'[x] = IF x \in Victims(Stamped(d)) THEN Closed
                                              ELSE IF x = d THEN h ELSE handles[x]
  BY NoOpenType DEF Upsert, CacheTypes

\* What is on disk has the type of a handle, and is not closed.
LEMMA OnDiskType ==
    ASSUME CacheTypes, NEW d \in Domain
    PROVE  OnDisk(d) \in Handle /\ (disk[d].there => OnDisk(d) # Closed)
  BY DEF CacheTypes, OnDisk, Handle, Closed

\* The initial state of the cache.
LEMMA CacheInit ==
    ASSUME TabInit
    PROVE  CacheTypes /\ HandleInv /\ OrderInv
  <1>1. CacheTypes
    BY NoOpenType DEF TabInit, CacheTypes, NoData, Openers
  <1>2. HandleInv
    BY NoOpenType DEF TabInit, HandleInv, CurrentInv, FollowInv, Cached, Openers
  <1>3. OrderInv
    <2>1. \A r \in Openers : reader[r].pc # "insert"
      BY NoOpenType DEF TabInit, Openers
    <2> QED BY <2>1, TablesAssumption DEF TabInit, OrderInv, Distinct, Cached, ToSet
  <1> QED BY <1>1, <1>2, <1>3

\* A push or a refresh that opens d, with its handle h.
Opened(d, h) ==
    /\ h \in Handle
    /\ \A x \in Domain : handles'[x] = IF x \in Victims(Stamped(d)) THEN Closed
                                       ELSE IF x = d THEN h ELSE handles[x]

\* The cases of PushOpen.
LEMMA PushOpenEffect ==
    ASSUME CacheTypes, NEW d \in Domain, PushOpen(d)
    PROVE  /\ writer.pc = "idle" /\ writer' \in OpenType
           /\ writer'.pc = "write" /\ writer'.domain = d /\ writer'.late = (d \in raced)
           /\ raced' = {x \in raced : handles'[x] # Closed}
           /\ behind' = {x \in behind : handles'[x] # Closed}
           /\ disk' \in [Domain -> [inc : Nat, ver : Nat, there : BOOLEAN]]
           /\ \A x \in Domain \ {d} : disk'[x] = disk[x]
           /\ \A x \in Domain : disk'[x].there => disk'[x].ver # 0
           /\ handles' \in [Domain -> Handle]
           /\ \/ /\ Cached(d) /\ lru' = Stamped(d) /\ UNCHANGED <<disk, handles, reader>>
              \/ /\ ~Cached(d) /\ lru' = Survivors(Stamped(d)) /\ disk'[d].there
                 /\ disk[d].there => disk' = disk
                 /\ handles' = [x \in Domain |-> IF x \in Victims(Stamped(d)) THEN Closed
                                   ELSE IF x = d THEN OnDisk(d)' ELSE handles[x]]
                 /\ reader' = Late(Victims(Stamped(d)))
  <1>0. /\ disk \in [Domain -> [inc : Nat, ver : Nat, there : BOOLEAN]]
        /\ handles \in [Domain -> Handle]
        /\ \A x \in Domain : disk[x].there => disk[x].ver # 0
    BY DEF CacheTypes
  <1>1. /\ writer.pc = "idle" /\ writer' \in OpenType
        /\ writer'.pc = "write" /\ writer'.domain = d /\ writer'.late = (d \in raced)
        /\ raced' = {x \in raced : handles'[x] # Closed}
        /\ behind' = {x \in behind : handles'[x] # Closed}
    <2>1. /\ writer.pc = "idle" /\ raced' = {x \in raced : handles'[x] # Closed}
          /\ behind' = {x \in behind : handles'[x] # Closed}
          /\ writer' = [NoOpen EXCEPT !.pc = "write", !.domain = d, !.late = (d \in raced)]
      BY DEF PushOpen, OutOfDate
    <2> DEFINE l == d \in raced
               o == [NoOpen EXCEPT !.pc = "write", !.domain = d, !.late = l]
    <2>2. l \in BOOLEAN
      OBVIOUS
    <2> HIDE DEF l
    <2>3. o \in OpenType /\ o.pc = "write" /\ o.domain = d /\ o.late = l
      BY <2>2 DEF NoOpen, OpenType, Handle, Closed
    <2> QED BY <2>1, <2>3 DEF l
  <1>2. CASE Cached(d)
    BY <1>0, <1>1, <1>2 DEF PushOpen, touch_entry
  <1>3. CASE ~Cached(d)
    <2>1. /\ disk' = IF disk[d].there THEN disk
                     ELSE [disk EXCEPT ![d] = [inc |-> @.inc + 1, ver |-> 1, there |-> TRUE]]
          /\ Upsert(d, [inc |-> disk'[d].inc, ver |-> disk'[d].ver])
          /\ reader' = Late(Victims(Stamped(d)))
      BY <1>3 DEF PushOpen
    <2>2. [inc |-> disk[d].inc + 1, ver |-> 1, there |-> TRUE] \in [inc : Nat, ver : Nat, there : BOOLEAN]
      BY <1>0
    <2>3. /\ disk' \in [Domain -> [inc : Nat, ver : Nat, there : BOOLEAN]] /\ disk'[d].there
          /\ \A x \in Domain \ {d} : disk'[x] = disk[x]
          /\ \A x \in Domain : disk'[x].there => disk'[x].ver # 0
          /\ disk[d].there => disk' = disk
      BY <1>0, <2>1, <2>2
    <2>4. OnDisk(d)' \in Handle /\ OnDisk(d)' = [inc |-> disk'[d].inc, ver |-> disk'[d].ver]
      BY <2>3 DEF OnDisk, Handle
    <2>5. /\ lru' = Survivors(Stamped(d))
          /\ handles' = [x \in Domain |-> IF x \in Victims(Stamped(d)) THEN Closed
                                   ELSE IF x = d THEN OnDisk(d)' ELSE handles[x]]
      BY <2>1, <2>4 DEF Upsert
    <2>6. handles' \in [Domain -> Handle]
      BY <1>0, <2>4, <2>5, NoOpenType
    <2> QED BY <1>1, <1>3, <2>1, <2>3, <2>5, <2>6
  <1> QED BY <1>2, <1>3

\* The types of the cache are kept.
LEMMA CacheTypesStep ==
    ASSUME CacheTypes, [TabNext]_tabVars
    PROVE  CacheTypes'
  <1>0. /\ disk \in [Domain -> [inc : Nat, ver : Nat, there : BOOLEAN]]
        /\ handles \in [Domain -> Handle]
        /\ reader \in [Openers -> OpenType] /\ writer \in OpenType
        /\ \A r \in Openers : reader[r].pc # "idle" => reader[r].domain \in Domain
        /\ writer.pc # "idle" => writer.domain \in Domain
        /\ \A d \in Domain : disk[d].there => disk[d].ver # 0
    BY DEF CacheTypes
  <1> DEFINE Readers == /\ reader \in [Openers -> OpenType]
                        /\ \A r \in Openers : reader[r].pc # "idle" => reader[r].domain \in Domain
             Writers == writer \in OpenType /\ (writer.pc # "idle" => writer.domain \in Domain)
             Disks == /\ disk \in [Domain -> [inc : Nat, ver : Nat, there : BOOLEAN]]
                      /\ \A d \in Domain : disk[d].there => disk[d].ver # 0
  <1>b. ASSUME NEW gone, reader' = Late(gone)
        PROVE  Readers'
    BY <1>0, <1>b, LateEffect
  <1>d. ASSUME NEW r \in Openers, NEW o \in OpenType, o.pc # "idle" => o.domain \in Domain,
               reader' = [reader EXCEPT ![r] = o]
        PROVE  Readers'
    <2>1. \A q \in Openers : reader'[q] = IF q = r THEN o ELSE reader[q]
      BY <1>0, <1>d
    <2>2. reader' \in [Openers -> OpenType]
      BY <1>0, <1>d
    <2> QED BY <1>0, <1>d, <2>1, <2>2
  <1>c. writer' = NoOpen => Writers'
    BY NoOpenType
  <1>1. ASSUME NEW r \in Openers, NEW d \in Domain, FindHandle(r, d)
        PROVE  CacheTypes'
    <2>1. UNCHANGED <<disk, handles, writer>>
      BY <1>1 DEF FindHandle
    <2>2. reader' = reader \/ reader' = [reader EXCEPT ![r] = [NoOpen EXCEPT !.pc = "open", !.domain = d]]
      BY <1>1 DEF FindHandle
    <2> DEFINE o == [NoOpen EXCEPT !.pc = "open", !.domain = d]
    <2>a. o \in OpenType /\ o.domain = d
      BY NoOpenType
    <2>b. ASSUME reader' = [reader EXCEPT ![r] = o]
          PROVE  Readers'
      <3> HIDE DEF o
      <3> QED BY <1>d, <2>a, <2>b
    <2>c. ASSUME reader' = reader
          PROVE  Readers'
      BY <1>0, <2>c
    <2>3. Readers'
      <3> HIDE DEF Readers
      <3> QED BY <2>2, <2>b, <2>c
    <2> QED BY <1>0, <2>1, <2>3 DEF CacheTypes
  <1>2. ASSUME NEW r \in Openers, OpenFresh(r)
        PROVE  CacheTypes'
    <2>1. UNCHANGED <<disk, handles, writer>>
      BY <1>2 DEF OpenFresh
    <2> DEFINE o == [reader[r] EXCEPT !.pc = "insert", !.got = OnDisk(reader[r].domain)]
    <2>2. reader' = [reader EXCEPT ![r] = o] \/ reader' = [reader EXCEPT ![r] = NoOpen]
      BY <1>2 DEF OpenFresh
    <2>3. o \in OpenType /\ o.domain = reader[r].domain /\ reader[r].domain \in Domain
      BY <1>0, <1>2, OnDiskType DEF OpenFresh, OpenType
    <2> HIDE DEF o
    <2>a. ASSUME reader' = [reader EXCEPT ![r] = o]
          PROVE  Readers'
      BY <1>d, <2>3, <2>a
    <2>b. ASSUME reader' = [reader EXCEPT ![r] = NoOpen]
          PROVE  Readers'
      BY <1>d, <2>b, NoOpenType
    <2>4. Readers'
      <3> HIDE DEF Readers
      <3> QED BY <2>2, <2>a, <2>b
    <2> QED BY <1>0, <2>1, <2>4 DEF CacheTypes
  <1>3. ASSUME NEW r \in Openers, InsertHandle(r)
        PROVE  CacheTypes'
    <2> DEFINE d == reader[r].domain
    <2>1. UNCHANGED <<disk, writer>> /\ d \in Domain /\ reader[r].got \in Handle
      BY <1>0, <1>3 DEF InsertHandle, OpenType
    <2>2. handles' \in [Domain -> Handle]
      BY <1>0, <1>3, <2>1, UpsertEffect DEF InsertHandle, InsertCached
    <2>3. Readers'
      <3> DEFINE L == Late(Victims(Stamped(d)))
      <3>1. /\ L \in [Openers -> OpenType]
            /\ \A q \in Openers : L[q].pc = reader[q].pc /\ L[q].domain = reader[q].domain
        BY LateEffect
      <3>2. reader' = [L EXCEPT ![r] = NoOpen]
        BY <1>3 DEF InsertHandle
      <3> HIDE DEF L
      <3>3. \A q \in Openers : reader'[q] = IF q = r THEN NoOpen ELSE L[q]
        BY <3>1, <3>2
      <3>4. reader' \in [Openers -> OpenType]
        BY <3>1, <3>2, NoOpenType
      <3>5. ASSUME NEW q \in Openers, reader'[q].pc # "idle"
            PROVE  reader'[q].domain \in Domain
        <4>1. q # r
          BY <3>3, <3>5, NoOpenType
        <4>2. reader'[q] = L[q]
          BY <3>3, <4>1
        <4> QED BY <1>0, <3>1, <3>5, <4>2
      <3> QED BY <3>4, <3>5
    <2> QED BY <1>0, <2>1, <2>2, <2>3 DEF CacheTypes
  <1>4. ASSUME NEW d \in Domain, PushOpen(d)
        PROVE  CacheTypes'
    <2>1. Readers'
      BY <1>0, <1>4, <1>b, PushOpenEffect
    <2> QED BY <1>4, <2>1, PushOpenEffect DEF CacheTypes
  <1>5. ASSUME NEW d \in Domain, DeleteDisk(d)
        PROVE  CacheTypes'
    <2>1. Disks'
      BY <1>0, <1>5 DEF DeleteDisk
    <2>2. Writers'
      BY <1>5, NoOpenType DEF DeleteDisk
    <2> QED BY <1>0, <1>5, <2>1, <2>2 DEF DeleteDisk, CacheTypes
  <1>6. CASE PushWrite
    <2>1. Disks' /\ Writers'
      <3>1. writer.domain \in Domain
        BY <1>0, <1>6 DEF PushWrite
      <3>2. \A s \in {"refresh", "failed"} : /\ [writer EXCEPT !.pc = s] \in OpenType
                                             /\ [writer EXCEPT !.pc = s].domain = writer.domain
        BY <1>0 DEF OpenType
      <3>3. Disks'
        <4>1. disk[writer.domain].ver + 1 \in Nat /\ disk[writer.domain].ver + 1 # 0
          BY <1>0, <3>1
        <4> QED BY <1>0, <1>6, <3>1, <4>1 DEF PushWrite
      <3>4. writer' = [writer EXCEPT !.pc = "refresh"] \/ writer' = [writer EXCEPT !.pc = "failed"]
        BY <1>6 DEF PushWrite
      <3> QED BY <3>1, <3>2, <3>3, <3>4
    <2> QED BY <1>0, <1>6, <2>1 DEF PushWrite, CacheTypes
  <1>7. ASSUME NEW n \in Int, Refresh(n)
        PROVE  CacheTypes'
    <2>1. writer.domain \in Domain /\ OnDisk(writer.domain) \in Handle
      BY <1>0, <1>7, OnDiskType DEF Refresh
    <2>2. handles' \in [Domain -> Handle]
      BY <1>7, <2>1, UpsertEffect DEF Refresh
    <2>3. Readers'
      BY <1>7, <1>b DEF Refresh
    <2>4. Writers'
      <3>1. /\ [writer EXCEPT !.pc = "write"] \in OpenType
            /\ [writer EXCEPT !.pc = "write"].domain = writer.domain
        BY <1>0 DEF OpenType
      <3>2. writer' = [writer EXCEPT !.pc = "write"] => Writers'
        BY <2>1, <3>1
      <3> HIDE DEF Writers
      <3> QED BY <1>7, <1>c, <3>2 DEF Refresh, Refreshed
    <2> QED BY <1>0, <1>7, <2>2, <2>3, <2>4 DEF Refresh, CacheTypes
  <1>8. CASE PushAnswered
    BY <1>0, <1>8, <1>c DEF PushAnswered, CacheTypes
  <1>11. CASE WriteFails
    <2>1. Readers'
      <3>1. reader' = reader => Readers'
        BY <1>0
      <3> HIDE DEF Readers
      <3> QED BY <1>11, <1>b, <3>1 DEF WriteFails
    <2> QED BY <1>0, <1>11, <1>c, <2>1 DEF WriteFails, CacheTypes
  <1>9. CASE DeleteHandle
    <2>1. Readers'
      BY <1>9, <1>b DEF DeleteHandle
    <2>2. handles' \in [Domain -> Handle]
      BY <1>0, <1>9, NoOpenType DEF DeleteHandle
    <2> QED BY <1>0, <1>9, <1>c, <2>1, <2>2 DEF DeleteHandle, CacheTypes
  <1>10. CASE UNCHANGED <<disk, handles, lru, reader, writer, raced, behind>>
    BY <1>0, <1>10 DEF CacheTypes
  <1> QED BY <1>1, <1>2, <1>3, <1>4, <1>5, <1>6, <1>7, <1>8, <1>9, <1>10, <1>11, CacheSteps DEF CacheStep

-----------------------------------------------------------------------------
(* Handles.                                                                *)

\* What is true of a handle, and of an open before its insert, by itself.
HandleOK(d) == d \notin raced \cup behind /\ Cached(d) /\ ~Repairing(d) => Current(d)
OpenOK(r) ==
    reader[r].pc = "insert" /\ ~reader[r].late =>
        LET d == reader[r].domain
        IN  Cached(d) \/ Repairing(d) \/ (disk[d].there /\ reader[r].got = OnDisk(d))
WriterOK ==
    /\ writer.pc = "write" /\ ~writer.late => disk[writer.domain].there
    /\ writer.pc = "refresh" => disk[writer.domain].there
    /\ writer.pc = "failed" => writer.late

\* The invariant, by these parts.
LEMMA HandleParts ==
    /\ CurrentInv <=> (\A d \in Domain : HandleOK(d)) /\ (\A r \in Openers : OpenOK(r)) /\ WriterOK
    /\ CurrentInv' <=> (\A d \in Domain : HandleOK(d)') /\ (\A r \in Openers : OpenOK(r)') /\ WriterOK'
  <1>1. CurrentInv <=> (\A d \in Domain : HandleOK(d)) /\ (\A r \in Openers : OpenOK(r)) /\ WriterOK
    BY DEF CurrentInv, HandleOK, OpenOK, WriterOK
  <1>2. CurrentInv' <=> (\A d \in Domain : HandleOK(d)') /\ (\A r \in Openers : OpenOK(r)') /\ WriterOK'
    BY DEF CurrentInv, HandleOK, OpenOK, WriterOK
  <1> QED BY <1>1, <1>2

\* A handle that is current stays so until the writer is about to replace it, and one
\* that is late is noted.
LEMMA CurrentStep ==
    ASSUME CacheTypes, CurrentInv, FollowInv, [TabNext]_tabVars
    PROVE  CurrentInv'
  <1>0. /\ disk \in [Domain -> [inc : Nat, ver : Nat, there : BOOLEAN]]
        /\ handles \in [Domain -> Handle]
        /\ reader \in [Openers -> OpenType] /\ writer \in OpenType
        /\ \A r \in Openers : reader[r].pc # "idle" => reader[r].domain \in Domain
        /\ writer.pc # "idle" => writer.domain \in Domain
    BY DEF CacheTypes
  <1>a. (\A d \in Domain : HandleOK(d)) /\ (\A r \in Openers : OpenOK(r)) /\ WriterOK
    BY HandleParts
  \* A domain, and an open on it, that a step does not concern.
  <1>b. ASSUME NEW x \in Domain, disk'[x] = disk[x], handles'[x] \in {handles[x], Closed},
               x \in raced \cup behind /\ Cached(x)' => x \in raced' \cup behind', Repairing(x)' = Repairing(x)
        PROVE  HandleOK(x)'
    BY <1>a, <1>b DEF HandleOK, Cached, Current, OnDisk
  <1>c. ASSUME NEW q \in Openers, NEW x \in Domain, reader[q].domain = x,
               reader'[q].pc = reader[q].pc, reader'[q].domain = x,
               reader'[q].got = reader[q].got, reader[q].late => reader'[q].late,
               reader'[q].late \/ Cached(x)' \/ Repairing(x)' \/
                  (disk'[x] = disk[x] /\ ~Repairing(x) /\ ~Cached(x))
        PROVE  OpenOK(q)'
    <2>1. SUFFICES ASSUME reader'[q].pc = "insert", ~reader'[q].late, ~Cached(x)', ~Repairing(x)'
                   PROVE  disk'[x].there /\ reader'[q].got = OnDisk(x)'
      BY <1>c DEF OpenOK
    <2>2. disk[x].there /\ reader[q].got = OnDisk(x)
      BY <1>a, <1>c, <2>1 DEF OpenOK
    <2> QED BY <1>c, <2>1, <2>2 DEF OnDisk
  <1>1. ASSUME NEW r \in Openers, NEW d \in Domain, FindHandle(r, d)
        PROVE  CurrentInv'
    <2>1. UNCHANGED <<disk, handles, writer, raced, behind>>
      BY <1>1 DEF FindHandle
    <2>2. (\A x \in Domain : HandleOK(x)') /\ WriterOK'
      BY <1>a, <2>1 DEF HandleOK, WriterOK, Cached, Repairing, Current, OnDisk
    <2>3. \A q \in Openers : reader'[q] = reader[q] \/ reader'[q].pc = "open"
      <3> DEFINE o == [NoOpen EXCEPT !.pc = "open", !.domain = d]
      <3>1. o.pc = "open"
        BY NoOpenType
      <3>2. reader' = reader \/ reader' = [reader EXCEPT ![r] = o]
        BY <1>1 DEF FindHandle
      <3> HIDE DEF o
      <3> QED BY <1>0, <3>1, <3>2
    <2>4. \A q \in Openers : OpenOK(q)'
      BY <1>a, <2>1, <2>3 DEF OpenOK, Cached, Repairing, OnDisk
    <2> QED BY <2>2, <2>4, HandleParts
  <1>2. ASSUME NEW r \in Openers, OpenFresh(r)
        PROVE  CurrentInv'
    <2>1. UNCHANGED <<disk, handles, writer, raced, behind>>
      BY <1>2 DEF OpenFresh
    <2>2. (\A x \in Domain : HandleOK(x)') /\ WriterOK'
      BY <1>a, <2>1 DEF HandleOK, WriterOK, Cached, Repairing, Current, OnDisk
    <2> DEFINE d == reader[r].domain
               o == [reader[r] EXCEPT !.pc = "insert", !.got = OnDisk(d)]
    <2>3. reader' = [reader EXCEPT ![r] = IF disk[d].there THEN o ELSE NoOpen]
      BY <1>2 DEF OpenFresh
    <2>4. o.domain = d /\ o.got = OnDisk(d)
      BY <1>0 DEF OpenType
    <2>5. OpenOK(r)'
      <3>1. CASE disk[d].there
        <4>1. reader'[r] = o
          BY <1>0, <2>3, <3>1
        <4>2. reader'[r].domain = d /\ reader'[r].got = OnDisk(d)
          BY <2>4, <4>1
        <4> QED BY <2>1, <3>1, <4>2 DEF OpenOK, OnDisk
      <3>2. CASE ~disk[d].there
        <4>1. reader'[r] = NoOpen
          BY <1>0, <2>3, <3>2
        <4> QED BY <4>1, NoOpenType DEF OpenOK
      <3> QED BY <3>1, <3>2
    <2>6. ASSUME NEW q \in Openers \ {r}
          PROVE  OpenOK(q)'
      <3>1. reader'[q] = reader[q]
        BY <1>0, <2>3
      <3> QED BY <1>a, <2>1, <3>1 DEF OpenOK, Cached, Repairing, OnDisk
    <2> QED BY <2>2, <2>5, <2>6, HandleParts
  <1>3. ASSUME NEW r \in Openers, InsertHandle(r)
        PROVE  CurrentInv'
    <2>0. PICK d : d = reader[r].domain
      OBVIOUS
    <2> DEFINE gone == Victims(Stamped(d))
               S == IF ~Cached(d) /\ reader[r].late THEN raced \cup {d} ELSE raced
    <2>1. /\ UNCHANGED <<disk, writer>> /\ d \in Domain /\ reader[r].got \in Handle
          /\ raced' = {x \in S : handles'[x] # Closed}
          /\ behind' = {x \in behind : handles'[x] # Closed}
          /\ reader[r].pc = "insert"
      BY <1>0, <1>3, <2>0 DEF InsertHandle, OpenType, OutOfDate
    <2>2. \A q \in Openers :
             /\ q # r => /\ reader'[q].pc = reader[q].pc /\ reader'[q].domain = reader[q].domain
                         /\ reader'[q].got = reader[q].got
                         /\ reader'[q].late = (reader[q].late \/
                               (reader[q].pc = "insert" /\ reader[q].domain \in gone))
             /\ q = r => reader'[q].pc = "idle"
      <3> DEFINE L == Late(gone)
      <3>1. /\ L \in [Openers -> OpenType]
            /\ \A q \in Openers :
                 /\ L[q].pc = reader[q].pc /\ L[q].domain = reader[q].domain
                 /\ L[q].got = reader[q].got
                 /\ L[q].late = (reader[q].late \/
                       (reader[q].pc = "insert" /\ reader[q].domain \in gone))
        BY LateEffect
      <3>2. reader' = [L EXCEPT ![r] = NoOpen]
        BY <1>3, <2>0 DEF InsertHandle
      <3> HIDE DEF L, gone
      <3>3. \A q \in Openers : reader'[q] = IF q = r THEN NoOpen ELSE L[q]
        BY <3>1, <3>2
      <3>4. reader'[r] = NoOpen /\ \A q \in Openers \ {r} : reader'[q] = L[q]
        BY <1>3, <3>3
      <3>5. \A q \in Openers \ {r} :
               /\ reader'[q].pc = reader[q].pc /\ reader'[q].domain = reader[q].domain
               /\ reader'[q].got = reader[q].got
               /\ reader'[q].late = (reader[q].late \/
                     (reader[q].pc = "insert" /\ reader[q].domain \in gone))
        BY <3>1, <3>4, Zenon
      <3>6. reader'[r].pc = "idle"
        BY <3>4, NoOpenType
      <3> QED BY <3>5, <3>6
    <2> HIDE DEF gone
    <2>3. WriterOK'
      BY <1>a, <2>1 DEF WriterOK
    <2>4. CASE Cached(d)
      <3>1. handles' = handles /\ raced' = {x \in raced : handles'[x] # Closed}
        BY <1>3, <2>0, <2>1, <2>4 DEF InsertHandle, InsertCached
      <3>2. \A x \in Domain : HandleOK(x)'
        BY <1>a, <2>1, <3>1 DEF HandleOK, Cached, Repairing, Current, OnDisk
      <3>3. \A q \in Openers : OpenOK(q)'
        BY <1>a, <2>1, <2>2, <3>1 DEF OpenOK, Cached, Repairing, OnDisk
      <3> QED BY <2>3, <3>2, <3>3, HandleParts
    <2>5. CASE ~Cached(d)
      <3>1. \A x \in Domain : handles'[x] = IF x \in gone THEN Closed
                                            ELSE IF x = d THEN reader[r].got ELSE handles[x]
        BY <1>3, <2>0, <2>1, <2>5, UpsertEffect DEF InsertHandle, InsertCached, gone
      <3>2. ASSUME NEW x \in Domain
            PROVE  HandleOK(x)'
        <4>1. CASE x # d
          BY <1>b, <2>1, <3>1, <4>1 DEF Repairing, Cached
        <4>2. CASE x = d
          <5>1. SUFFICES ASSUME d \notin raced' \cup behind', handles'[d] # Closed, ~Repairing(d)'
                         PROVE  Current(d)'
            BY <4>2 DEF HandleOK, Cached
          <5>2. ~reader[r].late /\ handles'[d] = reader[r].got
            BY <2>1, <2>5, <3>1, <5>1
          <5>3. ~Repairing(d)
            BY <2>1, <5>1 DEF Repairing
          <5>4. disk[d].there /\ reader[r].got = OnDisk(d)
            BY <1>a, <2>0, <2>1, <2>5, <5>2, <5>3 DEF OpenOK
          <5> QED BY <2>1, <5>2, <5>4 DEF Current, OnDisk
        <4> QED BY <4>1, <4>2
      <3>3. ASSUME NEW q \in Openers
            PROVE  OpenOK(q)'
        <4>1. CASE q = r
          BY <2>2, <4>1 DEF OpenOK
        <4>2. CASE q # r
          <5>1. CASE reader[q].pc = "insert"
            <6>1. PICK x \in Domain : reader[q].domain = x
              BY <1>0, <5>1
            <6>2. reader'[q].late \/ Cached(x)' \/ Repairing(x)' \/
                     (disk'[x] = disk[x] /\ ~Repairing(x) /\ ~Cached(x))
              BY <2>1, <2>2, <2>5, <3>1, <4>2, <5>1, <6>1 DEF Repairing, Cached
            <6> QED BY <1>c, <2>2, <4>2, <6>1, <6>2
          <5>2. CASE reader[q].pc # "insert"
            BY <2>2, <4>2, <5>2 DEF OpenOK
          <5> QED BY <5>1, <5>2
        <4> QED BY <4>1, <4>2
      <3> QED BY <2>3, <3>2, <3>3, HandleParts
    <2> QED BY <2>4, <2>5
  <1>4. ASSUME NEW d \in Domain, PushOpen(d)
        PROVE  CurrentInv'
    <2> DEFINE gone == Victims(Stamped(d))
    <2>1. /\ writer.pc = "idle" /\ writer'.pc = "write" /\ writer'.domain = d
          /\ writer'.late = (d \in raced)
          /\ raced' = {x \in raced : handles'[x] # Closed}
          /\ behind' = {x \in behind : handles'[x] # Closed}
          /\ \A x \in Domain \ {d} : disk'[x] = disk[x]
      BY <1>4, PushOpenEffect
    <2>2. \A x : ~Repairing(x) /\ ~Repairing(x)'
      BY <2>1 DEF Repairing
    <2>3. CASE Cached(d) /\ UNCHANGED <<disk, handles, reader>>
      <3>1. \A x \in Domain : HandleOK(x)'
        BY <1>a, <2>1, <2>2, <2>3 DEF HandleOK, Cached, Current, OnDisk
      <3>2. \A q \in Openers : OpenOK(q)'
        BY <1>a, <2>2, <2>3 DEF OpenOK, Cached, OnDisk
      <3>3. WriterOK'
        BY <2>1, <2>3 DEF WriterOK, FollowInv, Forgetting, Follows
      <3> QED BY <3>1, <3>2, <3>3, HandleParts
    <2>4. CASE /\ ~Cached(d) /\ disk'[d].there
               /\ handles' = [x \in Domain |-> IF x \in gone THEN Closed
                                   ELSE IF x = d THEN OnDisk(d)' ELSE handles[x]]
               /\ reader' = Late(gone)
      <3>1. \A q \in Openers :
                 /\ reader'[q].pc = reader[q].pc /\ reader'[q].domain = reader[q].domain
                 /\ reader'[q].got = reader[q].got
                 /\ reader'[q].late = (reader[q].late \/
                       (reader[q].pc = "insert" /\ reader[q].domain \in gone))
        BY <2>4, LateEffect
      <3>2. CacheTypes'
        BY CacheTypesStep
      <3>3. OnDisk(d)' # Closed
        BY <2>4, <3>2 DEF CacheTypes, OnDisk, Closed
      <3> HIDE DEF gone
      <3>4. \A x \in Domain : HandleOK(x)'
        BY <1>a, <2>1, <2>2, <2>4 DEF HandleOK, Cached, Current, OnDisk
      <3>5. ASSUME NEW q \in Openers
            PROVE  OpenOK(q)'
        <4>1. CASE reader[q].pc = "insert"
          <5>1. PICK x \in Domain : reader[q].domain = x
            BY <1>0, <4>1
          <5>2. reader'[q].late \/ Cached(x)' \/ Repairing(x)' \/
                   (disk'[x] = disk[x] /\ ~Repairing(x) /\ ~Cached(x))
            BY <2>1, <2>2, <2>4, <3>1, <3>3, <4>1, <5>1 DEF Cached
          <5> QED BY <1>c, <3>1, <5>1, <5>2
        <4> QED BY <3>1, <4>1 DEF OpenOK
      <3>6. WriterOK'
        BY <2>1, <2>4 DEF WriterOK
      <3> QED BY <3>4, <3>5, <3>6, HandleParts
    <2> QED BY <1>4, <2>3, <2>4, PushOpenEffect
  <1>5. ASSUME NEW d \in Domain, DeleteDisk(d)
        PROVE  CurrentInv'
    <2>1. /\ writer.pc = "idle" /\ writer'.pc = "forget" /\ writer'.domain = d
          /\ UNCHANGED <<handles, reader, raced, behind>> /\ \A x \in Domain \ {d} : disk'[x] = disk[x]
      <3> DEFINE o == [NoOpen EXCEPT !.pc = "forget", !.domain = d]
      <3>1. o.pc = "forget" /\ o.domain = d
        BY NoOpenType
      <3>2. /\ writer.pc = "idle" /\ writer' = o /\ UNCHANGED <<handles, reader, raced, behind>>
            /\ disk' = [disk EXCEPT ![d].there = FALSE, ![d].ver = 0]
        BY <1>5 DEF DeleteDisk
      <3>3. \A x \in Domain \ {d} : disk'[x] = disk[x]
        BY <1>0, <3>2
      <3> QED BY <3>1, <3>2, <3>3
    <2>2. \A x : ~Repairing(x) /\ (Repairing(x)' <=> x = d)
      BY <2>1 DEF Repairing
    <2>3. \A x \in Domain : HandleOK(x)'
      BY <1>a, <2>1, <2>2 DEF HandleOK, Cached, Current, OnDisk
    <2>4. \A q \in Openers : OpenOK(q)'
      BY <1>0, <1>a, <2>1, <2>2 DEF OpenOK, Cached, OnDisk
    <2>5. WriterOK'
      BY <2>1 DEF WriterOK
    <2> QED BY <2>3, <2>4, <2>5, HandleParts
  <1>6. CASE PushWrite
    <2> DEFINE d == writer.domain
    <2>1. /\ writer.pc = "write" /\ d \in Domain /\ UNCHANGED <<handles, reader, raced, behind>>
      BY <1>0, <1>6 DEF PushWrite
    <2>2. \A s \in {"refresh", "failed"} : LET w == [writer EXCEPT !.pc = s]
             IN  w.pc = s /\ w.domain = d /\ w.late = writer.late
      BY <1>0 DEF OpenType
    <2>3. CASE disk[d].there
      <3>1. /\ writer' = [writer EXCEPT !.pc = "refresh"] /\ disk' = [disk EXCEPT ![d].ver = @ + 1]
        BY <1>6, <2>3 DEF PushWrite
      <3>2. writer'.pc = "refresh" /\ writer'.domain = d
        BY <2>2, <3>1
      <3>3. disk'[d].there /\ \A x \in Domain \ {d} : disk'[x] = disk[x]
        BY <1>0, <2>1, <2>3, <3>1
      <3>4. \A x : ~Repairing(x) /\ (Repairing(x)' <=> x = d)
        BY <2>1, <3>2 DEF Repairing
      <3>5. \A x \in Domain : HandleOK(x)'
        BY <1>a, <2>1, <3>3, <3>4 DEF HandleOK, Cached, Current, OnDisk
      <3>6. \A q \in Openers : OpenOK(q)'
        BY <1>0, <1>a, <2>1, <3>3, <3>4 DEF OpenOK, Cached, OnDisk
      <3>7. WriterOK'
        BY <3>2, <3>3 DEF WriterOK
      <3> QED BY <3>5, <3>6, <3>7, HandleParts
    <2>4. CASE ~disk[d].there
      <3>1. writer' = [writer EXCEPT !.pc = "failed"] /\ disk' = disk
        BY <1>6, <2>4 DEF PushWrite
      <3>2. writer'.pc = "failed" /\ writer'.domain = d /\ writer'.late = writer.late
        BY <2>2, <3>1
      <3>3. \A x : ~Repairing(x) /\ ~Repairing(x)'
        BY <2>1, <3>2 DEF Repairing
      <3>4. \A x \in Domain : HandleOK(x)'
        BY <1>a, <2>1, <3>1, <3>3 DEF HandleOK, Cached, Current, OnDisk
      <3>5. \A q \in Openers : OpenOK(q)'
        BY <1>a, <2>1, <3>1, <3>3 DEF OpenOK, Cached, OnDisk
      <3>6. WriterOK'
        BY <1>a, <2>1, <2>4, <3>2 DEF WriterOK
      <3> QED BY <3>4, <3>5, <3>6, HandleParts
    <2> QED BY <2>3, <2>4
  <1>7. ASSUME NEW n \in Int, Refresh(n)
        PROVE  CurrentInv'
    <2> DEFINE d == writer.domain
               gone == Victims(Stamped(d))
    <2>1. /\ writer.pc = "refresh" /\ d \in Domain /\ disk' = disk /\ disk[d].there
          /\ writer'.pc \in {"idle", "write"} /\ (writer'.pc = "write" => writer'.domain = d)
          /\ raced' = {x \in raced \ {d} : handles'[x] # Closed}
          /\ behind' = {x \in behind \ {d} : handles'[x] # Closed}
      <3>1. /\ [writer EXCEPT !.pc = "write"].pc = "write"
            /\ [writer EXCEPT !.pc = "write"].domain = d
        BY <1>0 DEF OpenType
      <3> QED BY <1>0, <1>7, <1>a, <3>1, NoOpenType DEF Refresh, Refreshed, OutOfDate, WriterOK
    <2>2. OnDisk(d) \in Handle /\ OnDisk(d) # Closed
      BY <2>1, OnDiskType
    <2>3. \A x \in Domain : handles'[x] = IF x \in gone THEN Closed
                                          ELSE IF x = d THEN OnDisk(d) ELSE handles[x]
      BY <1>7, <2>1, <2>2, UpsertEffect DEF Refresh
    <2>4. \A q \in Openers :
                 /\ reader'[q].pc = reader[q].pc /\ reader'[q].domain = reader[q].domain
                 /\ reader'[q].got = reader[q].got
                 /\ reader'[q].late = (reader[q].late \/
                       (reader[q].pc = "insert" /\ reader[q].domain \in gone))
      BY <1>7, LateEffect DEF Refresh
    <2> HIDE DEF gone
    <2>5. \A x : ~Repairing(x)' /\ (Repairing(x) <=> x = d)
      BY <2>1, NoOpenType DEF Repairing
    <2>6. \A x \in Domain : HandleOK(x)'
      BY <1>a, <2>1, <2>3, <2>5 DEF HandleOK, Cached, Current, OnDisk
    <2>7. ASSUME NEW q \in Openers
          PROVE  OpenOK(q)'
      <3>1. CASE reader[q].pc = "insert"
        <4>1. PICK x \in Domain : reader[q].domain = x
          BY <1>0, <3>1
        <4>2. reader'[q].late \/ Cached(x)' \/ Repairing(x)' \/
                 (disk'[x] = disk[x] /\ ~Repairing(x) /\ ~Cached(x))
          BY <2>1, <2>2, <2>3, <2>4, <2>5, <3>1, <4>1 DEF Cached
        <4> QED BY <1>c, <2>4, <4>1, <4>2
      <3> QED BY <2>4, <3>1 DEF OpenOK
    <2>8. WriterOK'
      BY <2>1, NoOpenType DEF WriterOK
    <2> QED BY <2>6, <2>7, <2>8, HandleParts
  <1>8. CASE PushAnswered
    <2>1. UNCHANGED <<disk, handles, reader, raced, behind>> /\ writer.pc = "failed" /\ writer' = NoOpen
      BY <1>8 DEF PushAnswered
    <2>2. \A x : ~Repairing(x) /\ ~Repairing(x)'
      BY <2>1, NoOpenType DEF Repairing
    <2>3. (\A x \in Domain : HandleOK(x)') /\ (\A q \in Openers : OpenOK(q)')
      BY <1>a, <2>1, <2>2 DEF HandleOK, OpenOK, Cached, Current, OnDisk
    <2>4. WriterOK'
      BY <2>1, NoOpenType DEF WriterOK
    <2> QED BY <2>3, <2>4, HandleParts
  <1>11. CASE WriteFails
    <2> DEFINE d == writer.domain
    <2>1. /\ writer.pc \in {"write", "refresh"} /\ d \in Domain /\ writer' = NoOpen
          /\ UNCHANGED <<disk, handles, raced>>
      BY <1>0, <1>11 DEF WriteFails
    <2>2. \A x : ~Repairing(x)' /\ (Repairing(x) <=> x = d /\ writer.pc = "refresh")
      BY <2>1, NoOpenType DEF Repairing
    <2>3. WriterOK'
      BY <2>1, NoOpenType DEF WriterOK
    <2>4. CASE writer.pc = "write"
      <3>1. UNCHANGED <<reader, behind>>
        BY <1>11, <2>4 DEF WriteFails
      <3>2. (\A x \in Domain : HandleOK(x)') /\ (\A q \in Openers : OpenOK(q)')
        BY <1>a, <2>1, <2>2, <2>4, <3>1 DEF HandleOK, OpenOK, Cached, Current, OnDisk
      <3> QED BY <2>3, <3>2, HandleParts
    <2>5. CASE writer.pc = "refresh"
      <3>1. /\ reader' = Late({d})
            /\ behind' = IF Cached(d) /\ d \notin raced THEN behind \cup {d} ELSE behind
        BY <1>11, <2>5 DEF WriteFails
      <3>2. \A q \in Openers :
                 /\ reader'[q].pc = reader[q].pc /\ reader'[q].domain = reader[q].domain
                 /\ reader'[q].got = reader[q].got
                 /\ reader'[q].late = (reader[q].late \/
                       (reader[q].pc = "insert" /\ reader[q].domain \in {d}))
        BY <3>1, LateEffect
      <3>3. \A x \in Domain : HandleOK(x)'
        BY <1>a, <2>1, <2>2, <3>1 DEF HandleOK, Cached, Current, OnDisk
      <3>4. \A q \in Openers : OpenOK(q)'
        BY <1>a, <2>1, <2>2, <3>2 DEF OpenOK, Cached, OnDisk
      <3> QED BY <2>3, <3>3, <3>4, HandleParts
    <2> QED BY <2>1, <2>4, <2>5
  <1>9. CASE DeleteHandle
    <2> DEFINE d == writer.domain
    <2>1. /\ writer.pc = "forget" /\ d \in Domain /\ disk' = disk /\ writer' = NoOpen
          /\ raced' = {x \in raced : handles'[x] # Closed}
          /\ behind' = {x \in behind : handles'[x] # Closed}
          /\ handles' = [handles EXCEPT ![d] = Closed]
      BY <1>0, <1>9 DEF DeleteHandle, OutOfDate
    <2>2. \A q \in Openers :
                 /\ reader'[q].pc = reader[q].pc /\ reader'[q].domain = reader[q].domain
                 /\ reader'[q].got = reader[q].got
                 /\ reader'[q].late = (reader[q].late \/
                       (reader[q].pc = "insert" /\ reader[q].domain \in {d}))
      BY <1>9, LateEffect DEF DeleteHandle
    <2>3. \A x : ~Repairing(x)' /\ (Repairing(x) <=> x = d)
      BY <2>1, NoOpenType DEF Repairing
    <2>4. \A x \in Domain : HandleOK(x)'
      BY <1>0, <1>a, <2>1, <2>3 DEF HandleOK, Cached, Current, OnDisk
    <2>5. ASSUME NEW q \in Openers
          PROVE  OpenOK(q)'
      <3>1. CASE reader[q].pc = "insert"
        <4>1. reader[q].domain \in Domain
          BY <1>0, <3>1
        <4> QED BY <1>0, <1>a, <2>1, <2>2, <2>3, <3>1, <4>1 DEF OpenOK, Cached, OnDisk
      <3> QED BY <2>2, <3>1 DEF OpenOK
    <2>6. WriterOK'
      BY <2>1, NoOpenType DEF WriterOK
    <2> QED BY <2>4, <2>5, <2>6, HandleParts
  <1>10. CASE UNCHANGED <<disk, handles, lru, reader, writer, raced, behind>>
    BY <1>10 DEF CurrentInv, Cached, Repairing, Current, OnDisk
  <1> QED BY <1>1, <1>2, <1>3, <1>4, <1>5, <1>6, <1>7, <1>8, <1>9, <1>10, <1>11, CacheSteps DEF CacheStep

\* The parts of FollowInv.
FollowOK(d) == d \notin raced /\ Cached(d) /\ ~Forgetting(d) => Follows(d, handles[d])
FollowOpen(r) ==
    reader[r].pc = "insert" /\ ~reader[r].late =>
        LET d == reader[r].domain
        IN  Cached(d) \/ Forgetting(d) \/ Follows(d, reader[r].got)

LEMMA FollowParts ==
    /\ FollowInv <=> (\A d \in Domain : FollowOK(d)) /\ (\A r \in Openers : FollowOpen(r))
    /\ FollowInv' <=> (\A d \in Domain : FollowOK(d)') /\ (\A r \in Openers : FollowOpen(r)')
  <1>1. FollowInv <=> (\A d \in Domain : FollowOK(d)) /\ (\A r \in Openers : FollowOpen(r))
    BY DEF FollowInv, FollowOK, FollowOpen
  <1>2. FollowInv' <=> (\A d \in Domain : FollowOK(d)') /\ (\A r \in Openers : FollowOpen(r)')
    BY DEF FollowInv, FollowOK, FollowOpen
  <1> QED BY <1>1, <1>2

\* A handle that is not late stays one of the dataset on disk.
LEMMA FollowStep ==
    ASSUME CacheTypes, CurrentInv, FollowInv, [TabNext]_tabVars
    PROVE  FollowInv'
  <1>0. /\ disk \in [Domain -> [inc : Nat, ver : Nat, there : BOOLEAN]]
        /\ handles \in [Domain -> Handle]
        /\ reader \in [Openers -> OpenType] /\ writer \in OpenType
        /\ \A r \in Openers : reader[r].pc # "idle" => reader[r].domain \in Domain
        /\ writer.pc # "idle" => writer.domain \in Domain
    BY DEF CacheTypes
  <1>a. (\A d \in Domain : FollowOK(d)) /\ (\A r \in Openers : FollowOpen(r))
    BY FollowParts
  \* What is on disk follows itself.
  <1>h. \A x \in Domain : disk[x].there => Follows(x, OnDisk(x))
    BY <1>0 DEF Follows, OnDisk
  \* The opens after some handles went, if the rest of the step leaves those of
  \* other domains alone or grows their dataset.
  <1>c. ASSUME NEW gone, reader' = Late(gone),
               \A x \in Domain : x \in gone \/ Cached(x)' \/ Forgetting(x)' \/
                   (~Cached(x) /\ ~Forgetting(x) /\ disk'[x] = disk[x])
        PROVE  \A q \in Openers : FollowOpen(q)'
    <2>1. \A q \in Openers :
                 /\ reader'[q].pc = reader[q].pc /\ reader'[q].domain = reader[q].domain
                 /\ reader'[q].got = reader[q].got
                 /\ reader'[q].late = (reader[q].late \/
                       (reader[q].pc = "insert" /\ reader[q].domain \in gone))
      BY <1>c, LateEffect
    <2>2. SUFFICES ASSUME NEW q \in Openers, reader'[q].pc = "insert", ~reader'[q].late
                   PROVE  FollowOpen(q)'
      BY DEF FollowOpen
    <2>3. PICK x \in Domain : x = reader[q].domain /\ x = reader'[q].domain
      BY <1>0, <2>1, <2>2
    <2>4. PICK g : g = reader[q].got /\ g = reader'[q].got
      BY <2>1
    <2>5. x \notin gone /\ (Cached(x) \/ Forgetting(x) \/ Follows(x, g))
      BY <1>a, <2>1, <2>2, <2>3, <2>4 DEF FollowOpen
    <2>6. Cached(x)' \/ Forgetting(x)' \/ Follows(x, g)'
      BY <1>c, <2>5 DEF Follows
    <2> QED BY <2>3, <2>4, <2>6 DEF FollowOpen
  <1>1. ASSUME NEW r \in Openers, NEW d \in Domain, FindHandle(r, d)
        PROVE  FollowInv'
    <2>1. UNCHANGED <<disk, handles, writer, raced>>
      BY <1>1 DEF FindHandle
    <2>2. \A x \in Domain : FollowOK(x)'
      BY <1>a, <2>1 DEF FollowOK, Cached, Forgetting, Follows
    <2>3. \A q \in Openers : reader'[q] = reader[q] \/ reader'[q].pc = "open"
      <3> DEFINE o == [NoOpen EXCEPT !.pc = "open", !.domain = d]
      <3>1. o.pc = "open"
        BY NoOpenType
      <3>2. reader' = reader \/ reader' = [reader EXCEPT ![r] = o]
        BY <1>1 DEF FindHandle
      <3> HIDE DEF o
      <3> QED BY <1>0, <3>1, <3>2
    <2>4. \A q \in Openers : FollowOpen(q)'
      BY <1>a, <2>1, <2>3 DEF FollowOpen, Cached, Forgetting, Follows
    <2> QED BY <2>2, <2>4, FollowParts
  <1>2. ASSUME NEW r \in Openers, OpenFresh(r)
        PROVE  FollowInv'
    <2>1. UNCHANGED <<disk, handles, writer, raced>>
      BY <1>2 DEF OpenFresh
    <2>2. \A x \in Domain : FollowOK(x)'
      BY <1>a, <2>1 DEF FollowOK, Cached, Forgetting, Follows
    <2>0. PICK d \in Domain : d = reader[r].domain
      BY <1>0, <1>2 DEF OpenFresh
    <2> DEFINE o == [reader[r] EXCEPT !.pc = "insert", !.got = OnDisk(d)]
    <2>3. reader' = [reader EXCEPT ![r] = IF disk[d].there THEN o ELSE NoOpen]
      BY <1>2, <2>0 DEF OpenFresh
    <2>4. o.domain = d /\ o.got = OnDisk(d)
      BY <1>0, <2>0 DEF OpenType
    <2> HIDE DEF o
    <2>5. FollowOpen(r)'
      <3>1. CASE disk[d].there
        <4>1. reader'[r].domain = d /\ reader'[r].got = OnDisk(d)
          BY <1>0, <2>3, <2>4, <3>1
        <4>2. PICK g : g = OnDisk(d)
          OBVIOUS
        <4>3. Follows(d, g)'
          BY <1>h, <2>0, <2>1, <3>1, <4>2 DEF Follows
        <4> QED BY <4>1, <4>2, <4>3 DEF FollowOpen
      <3>2. CASE ~disk[d].there
        <4>1. reader'[r] = NoOpen
          BY <1>0, <2>3, <3>2
        <4> QED BY <4>1, NoOpenType DEF FollowOpen
      <3> QED BY <3>1, <3>2
    <2>6. ASSUME NEW q \in Openers \ {r}
          PROVE  FollowOpen(q)'
      <3>1. reader'[q] = reader[q]
        BY <1>0, <2>3
      <3> QED BY <1>a, <2>1, <3>1 DEF FollowOpen, Cached, Forgetting, Follows
    <2> QED BY <2>2, <2>5, <2>6, FollowParts
  <1>3. ASSUME NEW r \in Openers, InsertHandle(r)
        PROVE  FollowInv'
    <2>0. PICK d : d = reader[r].domain
      OBVIOUS
    <2> DEFINE gone == Victims(Stamped(d))
               S == IF ~Cached(d) /\ reader[r].late THEN raced \cup {d} ELSE raced
    <2>1. /\ UNCHANGED <<disk, writer>> /\ d \in Domain /\ reader[r].got \in Handle
          /\ raced' = {x \in S : handles'[x] # Closed} /\ reader[r].pc = "insert"
      BY <1>0, <1>3, <2>0 DEF InsertHandle, OpenType, OutOfDate
    <2>2. \A q \in Openers :
             /\ q # r => /\ reader'[q].pc = reader[q].pc /\ reader'[q].domain = reader[q].domain
                         /\ reader'[q].got = reader[q].got
                         /\ reader'[q].late = (reader[q].late \/
                               (reader[q].pc = "insert" /\ reader[q].domain \in gone))
             /\ q = r => reader'[q].pc = "idle"
      <3> DEFINE L == Late(gone)
      <3>1. /\ L \in [Openers -> OpenType]
            /\ \A q \in Openers :
                 /\ L[q].pc = reader[q].pc /\ L[q].domain = reader[q].domain
                 /\ L[q].got = reader[q].got
                 /\ L[q].late = (reader[q].late \/
                       (reader[q].pc = "insert" /\ reader[q].domain \in gone))
        BY LateEffect
      <3>2. reader' = [L EXCEPT ![r] = NoOpen]
        BY <1>3, <2>0 DEF InsertHandle
      <3> HIDE DEF L, gone
      <3>3. reader'[r] = NoOpen /\ \A q \in Openers \ {r} : reader'[q] = L[q]
        BY <1>3, <3>1, <3>2
      <3>4. \A q \in Openers \ {r} :
               /\ reader'[q].pc = reader[q].pc /\ reader'[q].domain = reader[q].domain
               /\ reader'[q].got = reader[q].got
               /\ reader'[q].late = (reader[q].late \/
                     (reader[q].pc = "insert" /\ reader[q].domain \in gone))
        BY <3>1, <3>3, Zenon
      <3>5. reader'[r].pc = "idle"
        BY <3>3, NoOpenType
      <3> QED BY <3>4, <3>5
    <2> HIDE DEF gone
    <2>3. CASE Cached(d)
      <3>1. handles' = handles /\ raced' = {x \in raced : handles'[x] # Closed}
        BY <1>3, <2>0, <2>1, <2>3 DEF InsertHandle, InsertCached
      <3>2. \A x \in Domain : FollowOK(x)'
        BY <1>a, <2>1, <3>1 DEF FollowOK, Cached, Forgetting, Follows
      <3>3. \A q \in Openers : FollowOpen(q)'
        BY <1>a, <2>1, <2>2, <3>1 DEF FollowOpen, Cached, Forgetting, Follows
      <3> QED BY <3>2, <3>3, FollowParts
    <2>4. CASE ~Cached(d)
      <3>1. \A x \in Domain : handles'[x] = IF x \in gone THEN Closed
                                            ELSE IF x = d THEN reader[r].got ELSE handles[x]
        BY <1>3, <2>0, <2>1, <2>4, UpsertEffect DEF InsertHandle, InsertCached, gone
      <3>2. ASSUME NEW x \in Domain
            PROVE  FollowOK(x)'
        <4>1. SUFFICES ASSUME x \notin raced', handles'[x] # Closed, ~Forgetting(x)'
                       PROVE  Follows(x, handles[x])'
          BY DEF FollowOK, Cached
        <4>2. ~Forgetting(x)
          BY <2>1, <4>1 DEF Forgetting
        <4>3. CASE x # d
          BY <1>a, <2>1, <3>1, <4>1, <4>2, <4>3 DEF FollowOK, Cached, Follows
        <4>4. CASE x = d
          <5>1. ~reader[r].late /\ handles'[d] = reader[r].got
            BY <2>1, <2>4, <3>1, <4>1, <4>4
          <5>2. Follows(d, reader[r].got)
            BY <1>a, <2>0, <2>1, <2>4, <4>2, <4>4, <5>1 DEF FollowOpen
          <5> QED BY <2>1, <4>4, <5>1, <5>2 DEF Follows
        <4> QED BY <4>3, <4>4
      <3>3. ASSUME NEW q \in Openers
            PROVE  FollowOpen(q)'
        <4>1. SUFFICES ASSUME reader'[q].pc = "insert", ~reader'[q].late, q # r
                       PROVE  FollowOpen(q)'
          BY <2>2 DEF FollowOpen
        <4>2. PICK x \in Domain : x = reader[q].domain /\ x = reader'[q].domain
          BY <1>0, <2>2, <4>1
        <4>3. PICK g : g = reader[q].got /\ g = reader'[q].got
          BY <2>2, <4>1
        <4>4. x \notin gone /\ (Cached(x) \/ Forgetting(x) \/ Follows(x, g))
          BY <1>a, <2>2, <4>1, <4>2, <4>3 DEF FollowOpen
        <4>5. Cached(x) => Cached(x)'
          BY <2>4, <3>1, <4>4 DEF Cached
        <4>6. Cached(x)' \/ Forgetting(x)' \/ Follows(x, g)'
          BY <2>1, <4>4, <4>5 DEF Forgetting, Follows
        <4> QED BY <4>2, <4>3, <4>6 DEF FollowOpen
      <3> QED BY <3>2, <3>3, FollowParts
    <2> QED BY <2>3, <2>4
  <1>4. ASSUME NEW d \in Domain, PushOpen(d)
        PROVE  FollowInv'
    <2> DEFINE gone == Victims(Stamped(d))
    <2>1. /\ writer.pc = "idle" /\ writer'.pc = "write"
          /\ raced' = {x \in raced : handles'[x] # Closed}
          /\ \A x \in Domain \ {d} : disk'[x] = disk[x]
      BY <1>4, PushOpenEffect
    <2>2. \A x : ~Forgetting(x) /\ ~Forgetting(x)'
      BY <2>1 DEF Forgetting
    <2>3. CASE Cached(d) /\ UNCHANGED <<disk, handles, reader>>
      <3>1. \A x \in Domain : FollowOK(x)'
        BY <1>a, <2>1, <2>2, <2>3 DEF FollowOK, Cached, Follows
      <3>2. \A q \in Openers : FollowOpen(q)'
        BY <1>a, <2>2, <2>3 DEF FollowOpen, Cached, Follows
      <3> QED BY <3>1, <3>2, FollowParts
    <2>4. CASE /\ ~Cached(d) /\ disk'[d].there
               /\ handles' = [x \in Domain |-> IF x \in gone THEN Closed
                                   ELSE IF x = d THEN OnDisk(d)' ELSE handles[x]]
               /\ reader' = Late(gone)
      <3>1. CacheTypes'
        BY CacheTypesStep
      <3>2. OnDisk(d)' # Closed /\ Follows(d, OnDisk(d))'
        BY <2>4, <3>1 DEF CacheTypes, OnDisk, Closed, Follows
      <3> HIDE DEF gone
      <3>3. \A x \in Domain : handles'[x] = IF x \in gone THEN Closed
                                            ELSE IF x = d THEN OnDisk(d)' ELSE handles[x]
        BY <2>4
      <3>4. ASSUME NEW x \in Domain
            PROVE  FollowOK(x)'
        <4>1. CASE x = d
          BY <3>2, <3>3, <4>1 DEF FollowOK, Cached, Follows
        <4>2. CASE x # d
          BY <1>a, <2>1, <2>2, <3>3, <4>2 DEF FollowOK, Cached, Follows
        <4> QED BY <4>1, <4>2
      <3>5. \A x \in Domain : x \in gone \/ Cached(x)' \/ Forgetting(x)' \/
                   (~Cached(x) /\ ~Forgetting(x) /\ disk'[x] = disk[x])
        BY <2>1, <2>2, <3>2, <3>3 DEF Cached
      <3>6. \A q \in Openers : FollowOpen(q)'
        BY <1>c, <2>4, <3>5
      <3> QED BY <3>4, <3>6, FollowParts
    <2> QED BY <1>4, <2>3, <2>4, PushOpenEffect
  <1>5. ASSUME NEW d \in Domain, DeleteDisk(d)
        PROVE  FollowInv'
    <2>1. /\ writer.pc = "idle" /\ writer'.pc = "forget" /\ writer'.domain = d
          /\ UNCHANGED <<handles, reader, raced>> /\ \A x \in Domain \ {d} : disk'[x] = disk[x]
      <3> DEFINE o == [NoOpen EXCEPT !.pc = "forget", !.domain = d]
      <3>1. o.pc = "forget" /\ o.domain = d
        BY NoOpenType
      <3>2. /\ writer.pc = "idle" /\ writer' = o /\ UNCHANGED <<handles, reader, raced>>
            /\ disk' = [disk EXCEPT ![d].there = FALSE, ![d].ver = 0]
        BY <1>5 DEF DeleteDisk
      <3>3. \A x \in Domain \ {d} : disk'[x] = disk[x]
        BY <1>0, <3>2
      <3> QED BY <3>1, <3>2, <3>3
    <2>2. \A x : ~Forgetting(x) /\ (Forgetting(x)' <=> x = d)
      BY <2>1 DEF Forgetting
    <2>3. \A x \in Domain : FollowOK(x)'
      BY <1>a, <2>1, <2>2 DEF FollowOK, Cached, Follows
    <2>4. \A q \in Openers : FollowOpen(q)'
      BY <1>0, <1>a, <2>1, <2>2 DEF FollowOpen, Cached, Follows
    <2> QED BY <2>3, <2>4, FollowParts
  <1>6. CASE PushWrite
    <2> DEFINE d == writer.domain
    <2>1. /\ writer.pc = "write" /\ d \in Domain /\ UNCHANGED <<handles, reader, raced>>
      BY <1>0, <1>6 DEF PushWrite
    <2>2. \A s \in {"refresh", "failed"} : [writer EXCEPT !.pc = s].pc = s
      BY <1>0 DEF OpenType
    <2>3. \A x : ~Forgetting(x) /\ ~Forgetting(x)'
      BY <1>6, <2>1, <2>2 DEF Forgetting, PushWrite
    <2>4. \A x \in Domain : /\ disk'[x].there = disk[x].there /\ disk'[x].inc = disk[x].inc
                            /\ disk[x].ver <= disk'[x].ver /\ disk'[x].ver \in Nat
      BY <1>0, <1>6, <2>1 DEF PushWrite
    <2>5. \A x \in Domain : \A g \in Handle : Follows(x, g) => Follows(x, g)'
      BY <1>0, <2>4 DEF Follows, Handle
    <2>6. \A x \in Domain : FollowOK(x)'
      BY <1>0, <1>a, <2>1, <2>3, <2>5 DEF FollowOK, Cached, Follows
    <2>7. ASSUME NEW q \in Openers
          PROVE  FollowOpen(q)'
      <3>1. CASE reader[q].pc = "insert"
        <4>1. reader[q].domain \in Domain /\ reader[q].got \in Handle
          BY <1>0, <3>1 DEF OpenType
        <4> QED BY <1>a, <2>1, <2>3, <2>5, <4>1 DEF FollowOpen, Cached, Follows
      <3> QED BY <2>1, <3>1 DEF FollowOpen
    <2> QED BY <2>6, <2>7, FollowParts
  <1>7. ASSUME NEW n \in Int, Refresh(n)
        PROVE  FollowInv'
    <2> DEFINE d == writer.domain
               gone == Victims(Stamped(d))
    <2>1. /\ writer.pc = "refresh" /\ d \in Domain /\ disk' = disk /\ disk[d].there
          /\ raced' = {x \in raced \ {d} : handles'[x] # Closed} /\ reader' = Late(gone)
      BY <1>0, <1>7 DEF Refresh, OutOfDate, CurrentInv
    <2>2. OnDisk(d) \in Handle /\ OnDisk(d) # Closed /\ Follows(d, OnDisk(d))
      BY <1>h, <2>1, OnDiskType
    <2>3. \A x \in Domain : handles'[x] = IF x \in gone THEN Closed
                                          ELSE IF x = d THEN OnDisk(d) ELSE handles[x]
      BY <1>7, <2>1, <2>2, UpsertEffect DEF Refresh
    <2>4. \A x : ~Forgetting(x) /\ ~Forgetting(x)'
      <3>1. [writer EXCEPT !.pc = "write"].pc = "write"
        BY <1>0 DEF OpenType
      <3> QED BY <1>7, <2>1, <3>1, NoOpenType DEF Forgetting, Refresh, Refreshed
    <2> HIDE DEF gone
    <2>5. ASSUME NEW x \in Domain
          PROVE  FollowOK(x)'
      <3>1. CASE x = d
        BY <2>1, <2>2, <2>3, <3>1 DEF FollowOK, Cached, Follows
      <3>2. CASE x # d
        BY <1>a, <2>1, <2>3, <2>4, <3>2 DEF FollowOK, Cached, Follows
      <3> QED BY <3>1, <3>2
    <2>6. \A x \in Domain : x \in gone \/ Cached(x)' \/ Forgetting(x)' \/
                   (~Cached(x) /\ ~Forgetting(x) /\ disk'[x] = disk[x])
      BY <2>1, <2>2, <2>3, <2>4 DEF Cached
    <2>7. \A q \in Openers : FollowOpen(q)'
      BY <1>c, <2>1, <2>6
    <2> QED BY <2>5, <2>7, FollowParts
  <1>8. CASE PushAnswered \/ WriteFails
    <2>1. /\ UNCHANGED <<disk, handles, raced>> /\ writer.pc # "forget" /\ writer' = NoOpen
          /\ reader' = reader \/ reader' = Late({writer.domain})
      BY <1>8 DEF PushAnswered, WriteFails
    <2>2. \A x : ~Forgetting(x) /\ ~Forgetting(x)'
      BY <2>1, NoOpenType DEF Forgetting
    <2>3. \A x \in Domain : FollowOK(x)'
      BY <1>a, <2>1, <2>2 DEF FollowOK, Cached, Follows
    <2>4. \A q \in Openers : FollowOpen(q)'
      <3>1. CASE reader' = reader
        BY <1>a, <2>1, <2>2, <3>1 DEF FollowOpen, Cached, Follows
      <3>2. CASE reader' = Late({writer.domain})
        <4>1. \A x \in Domain : x \in {writer.domain} \/ Cached(x)' \/ Forgetting(x)' \/
                   (~Cached(x) /\ ~Forgetting(x) /\ disk'[x] = disk[x])
          BY <2>1, <2>2 DEF Cached
        <4> QED BY <1>c, <3>2, <4>1
      <3> QED BY <2>1, <3>1, <3>2
    <2> QED BY <2>3, <2>4, FollowParts
  <1>9. CASE DeleteHandle
    <2> DEFINE d == writer.domain
    <2>1. /\ writer.pc = "forget" /\ d \in Domain /\ disk' = disk /\ writer' = NoOpen
          /\ raced' = {x \in raced : handles'[x] # Closed}
          /\ handles' = [handles EXCEPT ![d] = Closed] /\ reader' = Late({d})
      BY <1>0, <1>9 DEF DeleteHandle, OutOfDate
    <2>2. \A x : ~Forgetting(x)' /\ (Forgetting(x) <=> x = d)
      BY <2>1, NoOpenType DEF Forgetting
    <2>3. \A x \in Domain : FollowOK(x)'
      BY <1>0, <1>a, <2>1, <2>2 DEF FollowOK, Cached, Follows
    <2>4. \A x \in Domain : x \in {d} \/ Cached(x)' \/ Forgetting(x)' \/
                   (~Cached(x) /\ ~Forgetting(x) /\ disk'[x] = disk[x])
      BY <1>0, <2>1, <2>2 DEF Cached
    <2>5. \A q \in Openers : FollowOpen(q)'
      BY <1>c, <2>1, <2>4
    <2> QED BY <2>3, <2>5, FollowParts
  <1>10. CASE UNCHANGED <<disk, handles, lru, reader, writer, raced, behind>>
    BY <1>10 DEF FollowInv, Cached, Forgetting, Follows
  <1> QED BY <1>1, <1>2, <1>3, <1>4, <1>5, <1>6, <1>7, <1>8, <1>9, <1>10, CacheSteps DEF CacheStep

\* Both together.
LEMMA HandleStep ==
    ASSUME CacheTypes, HandleInv, [TabNext]_tabVars
    PROVE  HandleInv'
  BY CurrentStep, FollowStep DEF HandleInv

\* In every behaviour the handle that is cached between writes shows the head of the
\* dataset on disk, or one that a failed push left behind an older version of it, but
\* for an open that came too late.
THEOREM HandlesAreCurrent == TabSpec => []HandlesCurrent
  <1> DEFINE Inv == CacheTypes /\ HandleInv
  <1>1. TabInit => Inv
    BY CacheInit
  <1>2. Inv /\ [TabNext]_tabVars => Inv'
    BY CacheTypesStep, HandleStep
  <1>3. Inv => HandlesCurrent
    BY DEF HandleInv, CurrentInv, FollowInv, HandlesCurrent, Repairing, Current, Forgetting, Follows
  <1> QED BY <1>1, <1>2, <1>3, PTL DEF TabSpec

-----------------------------------------------------------------------------
(* The bound of the cache.                                                 *)

\* The order of use, apart from what is said of it elsewhere.
Ordered ==
    /\ lru \in Seq(Domain) /\ Distinct(lru) /\ Len(lru) <= CacheMax
    /\ {d \in Domain : Cached(d)} = ToSet(lru)

\* A use of a cached domain.
LEMMA TouchOrder ==
    ASSUME Ordered, NEW d \in Domain, Cached(d)
    PROVE  /\ Stamped(d) \in Seq(Domain) /\ Distinct(Stamped(d)) /\ Len(Stamped(d)) <= CacheMax
           /\ ToSet(Stamped(d)) = ToSet(lru)
  <1>1. lru \in Seq(Domain) /\ Distinct(lru) /\ Len(lru) <= CacheMax /\ d \in ToSet(lru)
    BY DEF Ordered
  <1>2. /\ Stamped(d) \in Seq(Domain) /\ Distinct(Stamped(d))
        /\ ToSet(Stamped(d)) = ToSet(lru) \cup {d} /\ Len(Stamped(d)) = Len(lru)
    BY <1>1, StampedProperties
  <1> QED BY <1>1, <1>2

\* A handle that is inserted stays, and others go until the bound is kept.
LEMMA UpsertOrder ==
    ASSUME Ordered, NEW d \in Domain, NEW h \in Handle, h # Closed,
           lru' = Survivors(Stamped(d)),
           \A x \in Domain : handles'[x] = IF x \in Victims(Stamped(d)) THEN Closed
                                           ELSE IF x = d THEN h ELSE handles[x]
    PROVE  Ordered' /\ d \notin Victims(Stamped(d))
  <1> DEFINE s == Stamped(d)
  <1>1. /\ s \in Seq(Domain) /\ Distinct(s) /\ ToSet(s) = ToSet(lru) \cup {d}
        /\ Len(s) > 0 /\ s[Len(s)] = d
    BY StampedProperties DEF Ordered
  <1> HIDE DEF s
  <1>2. /\ Survivors(s) \in Seq(Domain) /\ Distinct(Survivors(s))
        /\ Len(Survivors(s)) <= CacheMax /\ ToSet(Survivors(s)) = ToSet(s) \ Victims(s)
        /\ d \notin Victims(s)
    BY <1>1, EvictionProperties
  <1>3. lru' = Survivors(s)
    BY DEF s
  <1>4. \A x \in Domain : handles'[x] # Closed <=> x \in ToSet(lru')
    <2>1. \A x \in Domain : handles'[x] = IF x \in Victims(s) THEN Closed
                                          ELSE IF x = d THEN h ELSE handles[x]
      BY DEF s
    <2>2. \A x \in Domain : handles[x] # Closed <=> x \in ToSet(lru)
      BY DEF Ordered, Cached
    <2> QED BY <1>1, <1>2, <1>3, <2>1, <2>2
  <1>5. ToSet(lru') \subseteq Domain
    BY <1>2, <1>3 DEF ToSet
  <1>6. {x \in Domain : Cached(x)'} = ToSet(lru')
    BY <1>4, <1>5 DEF Cached
  <1> QED BY <1>2, <1>3, <1>6 DEF Ordered, s

\* The order of use keeps step with the handles.
LEMMA OrderStep ==
    ASSUME CacheTypes, HandleInv, OrderInv, [TabNext]_tabVars
    PROVE  OrderInv'
  <1>0. /\ handles \in [Domain -> Handle] /\ reader \in [Openers -> OpenType]
        /\ \A r \in Openers : reader[r].pc # "idle" => reader[r].domain \in Domain
        /\ writer.pc # "idle" => writer.domain \in Domain
        /\ CacheTypes'
    BY CacheTypesStep DEF CacheTypes
  <1> DEFINE Gots == \A r \in Openers : reader[r].pc = "insert" => reader[r].got # Closed
  <1>a. Ordered /\ raced \cup behind \subseteq ToSet(lru) /\ Gots
    BY DEF OrderInv, Ordered
  <1>b. OrderInv' <=> Ordered' /\ raced' \cup behind' \subseteq ToSet(lru') /\ Gots'
    BY DEF OrderInv, Ordered
  <1>c. ASSUME NEW gone, reader' = Late(gone)
        PROVE  Gots'
    BY <1>a, <1>c, LateEffect
  <1>d. ASSUME NEW S \in SUBSET Domain, NEW B \in SUBSET Domain, OutOfDate(S, B), Ordered'
        PROVE  raced' \cup behind' \subseteq ToSet(lru')
    BY <1>d DEF Ordered, Cached, OutOfDate
  <1>e. raced \subseteq Domain /\ behind \subseteq Domain
    BY <1>a DEF Ordered
  <1>1. ASSUME NEW r \in Openers, NEW d \in Domain, FindHandle(r, d)
        PROVE  OrderInv'
    <2>1. UNCHANGED <<handles, raced, behind>>
      BY <1>1 DEF FindHandle
    <2>2. Gots'
      <3> DEFINE o == [NoOpen EXCEPT !.pc = "open", !.domain = d]
      <3>1. o.pc = "open"
        BY NoOpenType
      <3>2. reader' = reader \/ reader' = [reader EXCEPT ![r] = o]
        BY <1>1 DEF FindHandle
      <3> HIDE DEF o
      <3> QED BY <1>0, <1>a, <3>1, <3>2
    <2>3. CASE lru' = lru
      BY <1>a, <1>b, <2>1, <2>2, <2>3 DEF Ordered, Cached
    <2>4. CASE Cached(d) /\ lru' = Stamped(d)
      <3>1. Ordered' /\ ToSet(lru') = ToSet(lru)
        BY <1>a, <2>1, <2>4, TouchOrder DEF Ordered, Cached
      <3> QED BY <1>a, <1>b, <2>1, <2>2, <3>1
    <2> QED BY <1>1, <2>3, <2>4 DEF FindHandle, touch_entry
  <1>2. ASSUME NEW r \in Openers, OpenFresh(r)
        PROVE  OrderInv'
    <2>1. UNCHANGED <<handles, lru, raced, behind>>
      BY <1>2 DEF OpenFresh
    <2> DEFINE d == reader[r].domain
               o == [reader[r] EXCEPT !.pc = "insert", !.got = OnDisk(d)]
    <2>2. reader' = [reader EXCEPT ![r] = IF disk[d].there THEN o ELSE NoOpen] /\ d \in Domain
      BY <1>0, <1>2 DEF OpenFresh
    <2>3. o.got = OnDisk(d)
      BY <1>0 DEF OpenType
    <2>4. disk[d].there => OnDisk(d) # Closed
      BY <2>2, OnDiskType
    <2>5. Gots'
      <3>1. SUFFICES ASSUME NEW q \in Openers, reader'[q].pc = "insert"
                     PROVE  reader'[q].got # Closed
        OBVIOUS
      <3>2. CASE q = r
        <4>1. reader'[q] = IF disk[d].there THEN o ELSE NoOpen
          BY <1>0, <2>2, <3>2
        <4>2. disk[d].there
          BY <3>1, <4>1, NoOpenType
        <4> QED BY <2>3, <2>4, <4>1, <4>2
      <3>3. CASE q # r
        BY <1>0, <1>a, <2>2, <3>1, <3>3
      <3> QED BY <3>2, <3>3
    <2> QED BY <1>a, <1>b, <2>1, <2>5 DEF Ordered, Cached
  <1>3. ASSUME NEW r \in Openers, InsertHandle(r)
        PROVE  OrderInv'
    <2>0. PICK d : d = reader[r].domain
      OBVIOUS
    <2> DEFINE S == IF ~Cached(d) /\ reader[r].late THEN raced \cup {d} ELSE raced
    <2>1. /\ d \in Domain /\ reader[r].got \in Handle /\ reader[r].got # Closed
          /\ OutOfDate(S, behind) /\ S \in SUBSET Domain
      BY <1>0, <1>3, <1>a, <1>e, <2>0 DEF InsertHandle, OpenType
    <2>2. Gots'
      <3> DEFINE L == Late(Victims(Stamped(d)))
      <3>1. /\ L \in [Openers -> OpenType]
            /\ \A q \in Openers : L[q].pc = reader[q].pc /\ L[q].got = reader[q].got
        BY LateEffect
      <3>2. reader' = [L EXCEPT ![r] = NoOpen]
        BY <1>3, <2>0 DEF InsertHandle
      <3> HIDE DEF L
      <3>3. reader'[r] = NoOpen /\ \A q \in Openers \ {r} : reader'[q] = L[q]
        BY <1>3, <3>1, <3>2
      <3>4. SUFFICES ASSUME NEW q \in Openers, reader'[q].pc = "insert"
                     PROVE  reader'[q].got # Closed
        OBVIOUS
      <3>5. q # r
        BY <3>3, <3>4, NoOpenType
      <3> QED BY <1>a, <3>1, <3>3, <3>4, <3>5
    <2>3. Ordered'
      <3>1. CASE Cached(d)
        <4>1. lru' = Stamped(d) /\ handles' = handles
          BY <1>3, <2>0, <3>1 DEF InsertHandle, InsertCached, touch_entry
        <4> QED BY <1>a, <2>1, <3>1, <4>1, TouchOrder DEF Ordered, Cached
      <3>2. CASE ~Cached(d)
        <4>1. Upsert(d, reader[r].got)
          BY <1>3, <2>0, <3>2 DEF InsertHandle, InsertCached
        <4>2. lru' = Survivors(Stamped(d))
          BY <4>1 DEF Upsert
        <4>3. \A x \in Domain : handles'[x] = IF x \in Victims(Stamped(d)) THEN Closed
                                              ELSE IF x = d THEN reader[r].got ELSE handles[x]
          BY <2>1, <4>1, UpsertEffect
        <4> QED BY <1>a, <2>1, <4>2, <4>3, UpsertOrder
      <3> QED BY <3>1, <3>2
    <2> QED BY <1>b, <1>d, <1>e, <2>1, <2>2, <2>3
  <1>4. ASSUME NEW d \in Domain, PushOpen(d)
        PROVE  OrderInv'
    <2>1. OutOfDate(raced, behind)
      BY <1>4 DEF PushOpen
    <2>2. CASE Cached(d) /\ lru' = Stamped(d) /\ UNCHANGED <<handles, reader>>
      <3>1. Ordered'
        BY <1>a, <2>2, TouchOrder DEF Ordered, Cached
      <3> QED BY <1>a, <1>b, <1>d, <1>e, <2>1, <2>2, <3>1
    <2>3. CASE /\ lru' = Survivors(Stamped(d)) /\ disk'[d].there
               /\ handles' = [x \in Domain |-> IF x \in Victims(Stamped(d)) THEN Closed
                                   ELSE IF x = d THEN OnDisk(d)' ELSE handles[x]]
               /\ reader' = Late(Victims(Stamped(d)))
      <3>1. OnDisk(d)' \in Handle /\ OnDisk(d)' # Closed
        BY <1>0, <2>3 DEF CacheTypes, OnDisk, Closed, Handle
      <3>2. \A x \in Domain : handles'[x] = IF x \in Victims(Stamped(d)) THEN Closed
                                            ELSE IF x = d THEN OnDisk(d)' ELSE handles[x]
        BY <2>3
      <3>3. Ordered'
        BY <1>a, <2>3, <3>1, <3>2, UpsertOrder
      <3> QED BY <1>b, <1>c, <1>d, <1>e, <2>1, <2>3, <3>3
    <2> QED BY <1>4, <2>2, <2>3, PushOpenEffect
  <1>9. CASE WriteFails
    <2>1. UNCHANGED <<handles, lru, raced>>
      BY <1>9 DEF WriteFails
    <2>2. Gots'
      BY <1>9, <1>a, <1>c DEF WriteFails
    <2>3. Ordered'
      BY <1>a, <2>1 DEF Ordered, Cached
    <2>4. behind' = behind \/ (Cached(writer.domain) /\ behind' = behind \cup {writer.domain})
      BY <1>9 DEF WriteFails
    <2>5. Cached(writer.domain) /\ writer.domain \in Domain => writer.domain \in ToSet(lru)
      BY <1>a DEF Ordered
    <2>6. writer.domain \in Domain
      BY <1>0, <1>9 DEF WriteFails
    <2> QED BY <1>a, <1>b, <2>1, <2>2, <2>3, <2>4, <2>5, <2>6
  <1>5. CASE PushWrite \/ PushAnswered \/ \E d \in Domain : DeleteDisk(d)
    <2>1. UNCHANGED <<handles, lru, reader, raced, behind>>
      BY <1>5 DEF PushWrite, PushAnswered, DeleteDisk
    <2> QED BY <2>1 DEF OrderInv, Cached
  <1>6. ASSUME NEW n \in Int, Refresh(n)
        PROVE  OrderInv'
    <2>0. PICK d : d = writer.domain
      OBVIOUS
    <2>1. d \in Domain /\ disk[d].there
      BY <1>0, <1>6, <2>0 DEF Refresh, HandleInv, CurrentInv
    <2>2. OnDisk(d) \in Handle /\ OnDisk(d) # Closed
      BY <2>1, OnDiskType
    <2>3. Upsert(d, OnDisk(d)) /\ OutOfDate(raced \ {d}, behind \ {d})
          /\ reader' = Late(Victims(Stamped(d)))
      BY <1>6, <2>0 DEF Refresh
    <2>4. Ordered'
      <3>1. lru' = Survivors(Stamped(d))
        BY <2>3 DEF Upsert
      <3>2. \A x \in Domain : handles'[x] = IF x \in Victims(Stamped(d)) THEN Closed
                                            ELSE IF x = d THEN OnDisk(d) ELSE handles[x]
        BY <2>1, <2>2, <2>3, UpsertEffect
      <3> QED BY <1>a, <2>1, <2>2, <3>1, <3>2, UpsertOrder
    <2>5. raced \ {d} \in SUBSET Domain /\ behind \ {d} \in SUBSET Domain
      BY <1>e
    <2> QED BY <1>b, <1>c, <1>d, <2>3, <2>4, <2>5
  <1>7. CASE DeleteHandle
    <2>0. PICK d : d = writer.domain
      OBVIOUS
    <2>1. /\ d \in Domain /\ handles' = [handles EXCEPT ![d] = Closed] /\ lru' = RemoveFirst(lru, d)
          /\ reader' = Late({d}) /\ OutOfDate(raced, behind)
      BY <1>0, <1>7, <2>0 DEF DeleteHandle
    <2>2. Ordered'
      <3>1. /\ lru' \in Seq(Domain) /\ Distinct(lru') /\ ToSet(lru') = ToSet(lru) \ {d}
            /\ Len(lru') <= Len(lru)
        BY <1>a, <2>1, RemoveFirstProperties DEF Ordered
      <3>2. \A x \in Domain : handles'[x] # Closed <=> x # d /\ handles[x] # Closed
        BY <1>0, <2>1
      <3>3. {x \in Domain : Cached(x)'} = ToSet(lru')
        BY <1>a, <3>1, <3>2 DEF Cached, Ordered
      <3>4. Len(lru') <= CacheMax
        BY <1>a, <3>1, TablesAssumption DEF Ordered
      <3> QED BY <3>1, <3>3, <3>4 DEF Ordered
    <2> QED BY <1>b, <1>c, <1>d, <1>e, <2>1, <2>2
  <1>8. CASE UNCHANGED <<disk, handles, lru, reader, writer, raced, behind>>
    BY <1>8 DEF OrderInv, Cached
  <1> QED BY <1>1, <1>2, <1>3, <1>4, <1>5, <1>6, <1>7, <1>8, <1>9, CacheSteps DEF CacheStep

-----------------------------------------------------------------------------
(* Statistics.                                                             *)

CountStep == CountNext \/ TaskNext

\* A step of the requests for statistics is one of the cache.
LEMMA CountIsTab ==
    ASSUME [CountStep]_tabVars
    PROVE  [TabNext]_tabVars
  BY DEF CountStep, TabNext

\* A writer changes the dataset of its domain only.
LEMMA DiskOfWriter ==
    ASSUME CacheTypes, CacheStep \/ UNCHANGED <<disk, handles, lru, reader, writer, raced, behind>>,
           NEW d \in Domain,
           writer.pc = "idle" \/ writer.domain # d, writer'.pc = "idle" \/ writer'.domain # d
    PROVE  disk'[d] = disk[d]
  <1>0. disk \in [Domain -> [inc : Nat, ver : Nat, there : BOOLEAN]]
    BY DEF CacheTypes
  <1>1. ASSUME NEW x \in Domain, PushOpen(x)
        PROVE  disk'[d] = disk[d]
    BY <1>1, PushOpenEffect
  <1>2. ASSUME NEW x \in Domain, DeleteDisk(x)
        PROVE  disk'[d] = disk[d]
    <2> DEFINE o == [NoOpen EXCEPT !.pc = "forget", !.domain = x]
    <2>1. o.pc = "forget" /\ o.domain = x
      BY NoOpenType
    <2>2. writer' = o /\ disk' = [disk EXCEPT ![x].there = FALSE, ![x].ver = 0]
      BY <1>2 DEF DeleteDisk
    <2>3. x # d
      BY <2>1, <2>2
    <2> QED BY <1>0, <2>2, <2>3
  <1>3. CASE PushWrite
    <2>1. writer.domain # d
      BY <1>3 DEF PushWrite
    <2> QED BY <1>0, <1>3, <2>1 DEF PushWrite
  <1>4. CASE disk' = disk
    BY <1>4
  <1> QED BY <1>1, <1>2, <1>3, <1>4
          DEF CacheStep, OpenFresh, InsertHandle, FindHandle, Refresh, WriteFails, PushAnswered,
              DeleteHandle

\* A domain that is not unsure after a step was settled in it.
LEMMA Settled ==
    ASSUME CacheTypes, HandleInv, CountNext, stat'.pc # "idle", NEW d \in Domain, d \notin unsure'
    PROVE  /\ d \notin unsure /\ disk'[d] = disk[d]
           /\ Cached(d) => disk[d].there /\ Rows(handles[d]) = Expected(d)
           /\ ~Cached(d) => Rows(handles[d]) = 0
           /\ Cached(d)' => disk[d].there /\ Rows(handles'[d]) = Expected(d)
           /\ ~Cached(d)' => Rows(handles'[d]) = 0
           /\ Expected(d)' = Expected(d)
           /\ stat.pc \in {"counted", "listed"} /\ stat.scope = Domain => (Cached(d) <=> Cached(d)')
  <1>0. [TabNext]_tabVars
    BY DEF TabNext
  <1>1. unsure' = unsure \cup Unsettled \cup Unsettled' \cup
                   (IF stat.pc \in {"counted", "listed"} /\ stat.scope = Domain
                    THEN {x \in Domain : Cached(x) # (handles'[x] # Closed)} ELSE {})
    BY DEF CountNext, Observe
  <1>2. d \notin unsure /\ d \notin Unsettled /\ d \notin Unsettled'
    BY <1>1
  <1>3. /\ writer.pc = "idle" \/ writer.domain # d
        /\ writer'.pc = "idle" \/ writer'.domain # d
        /\ d \notin raced \cup behind /\ d \notin raced' \cup behind'
    BY <1>2 DEF Unsettled
  <1>4. disk'[d] = disk[d]
    BY <1>0, <1>3, CacheSteps, DiskOfWriter
  <1>5. CacheTypes' /\ HandleInv'
    BY <1>0, CacheTypesStep, HandleStep
  <1>6. Cached(d) => Current(d)
    BY <1>3 DEF HandleInv, CurrentInv, Repairing
  <1>7. Cached(d)' => Current(d)'
    BY <1>3, <1>5 DEF HandleInv, CurrentInv, Repairing
  <1>8. stat.pc \in {"counted", "listed"} /\ stat.scope = Domain => (Cached(d) <=> Cached(d)')
    BY <1>1 DEF Cached
  <1>9. disk[d].there => OnDisk(d) # Closed /\ OnDisk(d).ver = disk[d].ver
    BY OnDiskType DEF OnDisk
  <1>10. OnDisk(d)' = OnDisk(d) /\ Expected(d)' = Expected(d)
    BY <1>4 DEF OnDisk, Expected
  <1>11. /\ Cached(d) => disk[d].there /\ Rows(handles[d]) = Expected(d)
         /\ ~Cached(d) => Rows(handles[d]) = 0
    BY <1>6, <1>9 DEF Current, Rows, Expected, Cached
  <1>12. /\ Cached(d)' => disk[d].there /\ Rows(handles'[d]) = Expected(d)
         /\ ~Cached(d)' => Rows(handles'[d]) = 0
    BY <1>4, <1>7, <1>9, <1>10 DEF Current, Rows, Expected, Cached
  <1> QED BY <1>2, <1>4, <1>8, <1>10, <1>11, <1>12

\* A bystander leaves the open of the request alone, but for its being late.
LEMMA BystanderEffect ==
    ASSUME CacheTypes, HandleNext(Bystander, MaxVers - 1)
    PROVE  reader'[Stats].pc = reader[Stats].pc /\ reader'[Stats].domain = reader[Stats].domain
  <1>0. reader \in [Openers -> OpenType] /\ Stats \in Openers
    BY DEF CacheTypes, Openers
  <1>1. ASSUME NEW gone, reader' = Late(gone)
        PROVE  reader'[Stats].pc = reader[Stats].pc /\ reader'[Stats].domain = reader[Stats].domain
    BY <1>0, <1>1, LateEffect
  <1>2. ASSUME NEW r \in Bystander
        PROVE  r # Stats /\ r \in Openers
    BY TablesAssumption DEF Openers
  <1>3. ASSUME NEW r \in Bystander, OpenFresh(r) \/ \E d \in Domain : FindHandle(r, d)
        PROVE  reader'[Stats] = reader[Stats]
    <2>1. reader' = reader \/ \E o : reader' = [reader EXCEPT ![r] = o]
      BY <1>3 DEF OpenFresh, FindHandle
    <2> QED BY <1>0, <1>2, <2>1
  <1>4. ASSUME NEW r \in Bystander, InsertHandle(r)
        PROVE  reader'[Stats].pc = reader[Stats].pc /\ reader'[Stats].domain = reader[Stats].domain
    <2> DEFINE L == Late(Victims(Stamped(reader[r].domain)))
    <2>1. L \in [Openers -> OpenType] /\ L[Stats].pc = reader[Stats].pc
          /\ L[Stats].domain = reader[Stats].domain
      BY <1>0, LateEffect
    <2>2. reader' = [L EXCEPT ![r] = NoOpen]
      BY <1>4 DEF InsertHandle
    <2> HIDE DEF L
    <2>3. reader'[Stats] = L[Stats]
      BY <1>0, <1>2, <2>1, <2>2
    <2> QED BY <2>1, <2>3
  <1>5. ASSUME NEW d \in Domain, PushOpen(d)
        PROVE  reader'[Stats].pc = reader[Stats].pc /\ reader'[Stats].domain = reader[Stats].domain
    BY <1>1, <1>5, PushOpenEffect
  <1>6. CASE Refresh(MaxVers - 1) \/ DeleteHandle
    BY <1>1, <1>6 DEF Refresh, DeleteHandle
  <1>7. CASE reader' = reader
    BY <1>7
  <1>8. CASE WriteFails
    BY <1>1, <1>7, <1>8 DEF WriteFails
  <1> QED BY <1>3, <1>4, <1>5, <1>6, <1>7, <1>8 DEF HandleNext, DeleteDisk, PushWrite, PushAnswered

\* The part of StatInv that is not about one domain.
StatShape ==
    /\ stat \in StatType
    /\ stat.pc = "idle" => stat = NoStat
    /\ stat.pc # "opening" => reader[Stats].pc = "idle"

\* No request for statistics runs at the start.
LEMMA StatInit ==
    ASSUME TabInit
    PROVE  StatInv
  <1>1. NoStat \in StatType /\ NoStat.pc = "idle" /\ NoStat.scope = {}
    BY DEF NoStat, StatType
  <1>2. reader[Stats].pc = "idle"
    BY NoOpenType DEF TabInit
  <1> QED BY <1>1, <1>2 DEF TabInit, StatInv

\* A bystander disturbs neither what was counted of a settled domain nor what is left.
LEMMA BystanderCounts ==
    ASSUME CacheTypes, HandleInv, StatInv, CountNext, HandleNext(Bystander, MaxVers - 1), stat' = stat
    PROVE  StatShape' /\ \A d \in stat'.scope \ unsure' : StatOK(d)'
  <1>1. /\ reader'[Stats].pc = reader[Stats].pc /\ reader'[Stats].domain = reader[Stats].domain
    BY BystanderEffect
  <1>2. StatShape'
    BY <1>1 DEF StatShape, StatInv
  <1>3. ASSUME NEW d \in stat'.scope \ unsure'
        PROVE  StatOK(d)'
    <2>1. stat'.pc # "idle" /\ d \in Domain
      BY <1>3 DEF StatInv, NoStat, StatType
    <2>2. /\ d \notin unsure /\ disk'[d] = disk[d]
          /\ Cached(d) => disk[d].there /\ Rows(handles[d]) = Expected(d)
          /\ ~Cached(d) => Rows(handles[d]) = 0
          /\ Cached(d)' => disk[d].there /\ Rows(handles'[d]) = Expected(d)
          /\ ~Cached(d)' => Rows(handles'[d]) = 0
          /\ Expected(d)' = Expected(d)
          /\ stat.pc \in {"counted", "listed"} /\ stat.scope = Domain => (Cached(d) <=> Cached(d)')
      BY <1>3, <2>1, Settled
    <2>3. StatOK(d)
      BY <1>3, <2>2 DEF StatInv
    <2>4. Opening(d)' <=> Opening(d)
      BY <1>1 DEF Opening
    <2>5. stat.pc \in {"counted", "listed"} /\ stat.scope = Domain => Rows(handles'[d]) = Rows(handles[d])
      BY <2>2
    <2> QED BY <2>2, <2>3, <2>4, <2>5 DEF StatOK
  <1> QED BY <1>2, <1>3

\* The reads of the map and of the directories: the cache is as it was.
LEMMA MapReads ==
    ASSUME CacheTypes, HandleInv, StatInv, CountNext,
           \/ \E scope \in {Domain} \cup {{d} : d \in Domain} : CountCached(scope)
           \/ DiscoverOnDisk \/ SkipCached \/ Report \/ Reported
    PROVE  StatShape' /\ \A d \in stat'.scope \ unsure' : StatOK(d)'
  <1>0. stat \in StatType /\ UNCHANGED <<disk, handles, reader>>
    BY DEF StatInv, CountCached, DiscoverOnDisk, SkipCached, Report, Reported
  <1>a. \A d \in Domain : Cached(d)' = Cached(d) /\ Opening(d)' = Opening(d)
    BY <1>0 DEF Cached, Opening
  <1>b. \A d \in Domain : Rows(handles[d]) \in Int
    BY DEF Rows, CacheTypes, Handle
  <1>1. ASSUME NEW d \in Domain, d \notin unsure', stat'.pc # "idle"
        PROVE  /\ d \notin unsure /\ disk'[d] = disk[d]
               /\ Cached(d) => disk[d].there /\ Rows(handles[d]) = Expected(d)
               /\ ~Cached(d) => Rows(handles[d]) = 0
               /\ Expected(d)' = Expected(d)
    BY <1>1, Settled
  <1>2. ASSUME NEW scope \in SUBSET Domain, CountCached(scope)
        PROVE  StatShape' /\ \A d \in stat'.scope \ unsure' : StatOK(d)'
    <2>1. stat = NoStat /\ stat.pc = "idle" /\ reader[Stats].pc = "idle"
      BY <1>2 DEF StatInv, CountCached
    <2>2. \A d \in Domain : Counting(d) = Rows(handles[d])
      BY <1>b, <2>1 DEF Counting, NoStat
    <2>3. /\ stat'.pc = "counted" /\ stat'.scope = scope
          /\ stat'.rows = [d \in Domain |-> IF d \in scope THEN Counting(d) ELSE 0]
          /\ stat'.todo = {} /\ stat' = [pc |-> stat'.pc, scope |-> scope, todo |-> {}, rows |-> stat'.rows]
      BY <1>2 DEF CountCached
    <2>4. \A d \in Domain : stat'.rows[d] = IF d \in scope THEN Rows(handles[d]) ELSE 0
      BY <2>2, <2>3
    <2>5. stat' \in StatType
      <3>1. stat'.rows \in [Domain -> Int]
        BY <1>b, <2>3, <2>4
      <3> QED BY <2>3, <3>1 DEF StatType
    <2>6. ASSUME NEW d \in stat'.scope \ unsure'
          PROVE  StatOK(d)'
      BY <1>0, <1>1, <2>3, <2>4, <2>6 DEF StatOK
    <2> QED BY <1>0, <2>1, <2>3, <2>5, <2>6 DEF StatShape
  <1>3. CASE DiscoverOnDisk
    <2>1. /\ stat.pc = "counted"
          /\ stat'.pc = IF stat.scope = Domain THEN "listed" ELSE "opening"
          /\ stat'.todo = {d \in stat.scope : disk[d].there /\ (stat.scope = Domain \/ stat.rows[d] = 0)}
          /\ stat'.scope = stat.scope /\ stat'.rows = stat.rows /\ stat' \in StatType
      BY <1>0, <1>3 DEF DiscoverOnDisk, StatType
    <2>2. reader'[Stats].pc = "idle"
      BY <1>0, <2>1 DEF StatInv
    <2>3. ASSUME NEW d \in stat'.scope \ unsure'
          PROVE  StatOK(d)'
      <3>1. d \in Domain /\ stat'.pc # "idle"
        BY <1>0, <2>1 DEF StatType
      <3>2. StatOK(d) /\ disk'[d] = disk[d] /\ Expected(d)' = Expected(d)
        BY <1>1, <2>1, <2>3, <3>1 DEF StatInv
      <3>3. ~Opening(d)'
        BY <2>2 DEF Opening
      <3>4. stat.rows[d] \in {0, Expected(d)}
        BY <2>1, <3>2 DEF StatOK
      <3>5. CASE stat.scope = Domain
        <4>1. stat'.pc = "listed" /\ (d \in stat'.todo <=> disk[d].there)
          BY <2>1, <3>1, <3>5
        <4>2. stat.rows[d] = Rows(handles[d])
          BY <2>1, <3>2, <3>5 DEF StatOK
        <4> QED BY <1>0, <2>1, <3>2, <3>5, <4>1, <4>2 DEF StatOK
      <3>6. CASE stat.scope # Domain
        <4>1. stat'.pc = "opening" /\ (d \in stat'.todo <=> disk[d].there /\ stat.rows[d] = 0)
          BY <2>1, <2>3, <3>6
        <4>2. ~disk[d].there => Expected(d) = 0
          BY DEF Expected
        <4> QED BY <2>1, <3>2, <3>3, <3>4, <4>1, <4>2 DEF StatOK
      <3> QED BY <3>5, <3>6
    <2> QED BY <2>1, <2>2, <2>3 DEF StatShape
  <1>4. CASE SkipCached
    <2>1. /\ stat.pc = "listed" /\ stat'.pc = "opening"
          /\ stat'.todo = {d \in stat.todo : ~Cached(d)}
          /\ stat'.scope = stat.scope /\ stat'.rows = stat.rows /\ stat' \in StatType
      BY <1>0, <1>4 DEF SkipCached, StatType
    <2>2. reader'[Stats].pc = "idle"
      BY <1>0, <2>1 DEF StatInv
    <2>3. ASSUME NEW d \in stat'.scope \ unsure'
          PROVE  StatOK(d)'
      <3>1. d \in Domain /\ stat'.pc # "idle"
        BY <1>0, <2>1 DEF StatType
      <3>2. /\ StatOK(d) /\ disk'[d] = disk[d] /\ Expected(d)' = Expected(d)
            /\ Cached(d) => disk[d].there /\ Rows(handles[d]) = Expected(d)
            /\ ~Cached(d) => Rows(handles[d]) = 0
        BY <1>1, <2>1, <2>3, <3>1 DEF StatInv
      <3>3. ~Opening(d)'
        BY <2>2 DEF Opening
      <3>4. stat.rows[d] = Rows(handles[d]) /\ (d \in stat.todo <=> disk[d].there)
        BY <2>1, <3>2 DEF StatOK
      <3>5. ~disk[d].there => Expected(d) = 0
        BY DEF Expected
      <3> QED BY <2>1, <3>2, <3>3, <3>4, <3>5 DEF StatOK
    <2> QED BY <2>1, <2>2, <2>3 DEF StatShape
  <1>5. CASE Report
    <2>1. /\ stat.pc = "opening" /\ stat'.pc = "done" /\ stat.todo = {}
          /\ stat'.scope = stat.scope /\ stat'.rows = stat.rows /\ stat' \in StatType
          /\ reader[Stats].pc = "idle" /\ reader'[Stats].pc = "idle"
      BY <1>0, <1>5 DEF Report, StatType
    <2>2. ASSUME NEW d \in stat'.scope \ unsure'
          PROVE  StatOK(d)'
      <3>1. d \in Domain /\ stat'.pc # "idle"
        BY <1>0, <2>1 DEF StatType
      <3>2. /\ StatOK(d) /\ Expected(d)' = Expected(d)
        BY <1>1, <2>1, <2>2, <3>1 DEF StatInv
      <3>3. ~Opening(d)
        BY <2>1 DEF Opening
      <3> QED BY <2>1, <3>2, <3>3 DEF StatOK
    <2> QED BY <2>1, <2>2 DEF StatShape
  <1>6. CASE Reported
    <2>1. stat' = NoStat /\ reader'[Stats].pc = "idle"
      BY <1>0, <1>6 DEF Reported, StatInv
    <2> QED BY <2>1 DEF StatShape, NoStat, StatType
  <1> QED BY <1>2, <1>3, <1>4, <1>5, <1>6

\* An entry of the list is counted from the cache, or opened first.
LEMMA ListedCounts ==
    ASSUME CacheTypes, HandleInv, StatInv, CountNext, NEW x \in Domain, OpenListed(x)
    PROVE  StatShape' /\ \A d \in stat'.scope \ unsure' : StatOK(d)'
  <1>0. stat \in StatType /\ reader \in [Openers -> OpenType] /\ Stats \in Openers
    BY DEF StatInv, CacheTypes, Openers
  <1>a. Counting(x) \in Int
    BY <1>0 DEF Counting, Rows, CacheTypes, Handle, StatType
  <1>1. /\ stat.pc = "opening" /\ stat'.pc = "opening" /\ x \in stat.todo
        /\ stat'.todo = stat.todo \ {x} /\ stat'.scope = stat.scope
        /\ stat'.rows = [stat.rows EXCEPT ![x] = Counting(x)] /\ stat' \in StatType
    BY <1>0, <1>a DEF OpenListed, StatType
  <1>2. stat'.rows[x] = Counting(x) /\ \A d \in Domain \ {x} : stat'.rows[d] = stat.rows[d]
    BY <1>0, <1>1 DEF StatType
  <1>3. /\ reader[Stats].pc = "idle" /\ UNCHANGED <<disk, handles>>
        /\ \/ Cached(x) /\ reader' = reader
           \/ /\ ~Cached(x) /\ disk[x].there
              /\ reader' = [reader EXCEPT ![Stats] = [NoOpen EXCEPT !.pc = "open", !.domain = x]]
           \/ ~Cached(x) /\ ~disk[x].there /\ reader' = reader
    BY DEF OpenListed, FindHandle
  <1>4. /\ Cached(x) \/ ~disk[x].there => reader'[Stats].pc = "idle"
        /\ ~Cached(x) /\ disk[x].there => reader'[Stats].pc = "open" /\ reader'[Stats].domain = x
    <2> DEFINE o == [NoOpen EXCEPT !.pc = "open", !.domain = x]
    <2>1. o.pc = "open" /\ o.domain = x
      BY NoOpenType
    <2>2. ~Cached(x) /\ disk[x].there => reader' = [reader EXCEPT ![Stats] = o]
      BY <1>3
    <2> HIDE DEF o
    <2>3. ~Cached(x) /\ disk[x].there => reader'[Stats] = o
      BY <1>0, <2>2
    <2>4. Cached(x) \/ ~disk[x].there => reader'[Stats] = reader[Stats]
      BY <1>3
    <2> QED BY <1>3, <2>1, <2>3, <2>4
  <1>5. \A d : ~Opening(d)
    BY <1>3 DEF Opening
  <1>6. ASSUME NEW d \in stat'.scope \ unsure'
        PROVE  StatOK(d)'
    <2>1. d \in Domain /\ stat'.pc # "idle"
      BY <1>0, <1>1 DEF StatType
    <2>2. /\ StatOK(d) /\ disk'[d] = disk[d] /\ Expected(d)' = Expected(d)
          /\ Cached(d) => disk[d].there /\ Rows(handles[d]) = Expected(d)
          /\ ~Cached(d) => Rows(handles[d]) = 0
      BY <1>1, <1>6, <2>1, Settled DEF StatInv
    <2>3. CASE d # x
      <3>1. ~Opening(d)'
        BY <1>4, <2>3 DEF Opening
      <3>2. (d \in stat'.todo <=> d \in stat.todo) /\ stat'.rows[d] = stat.rows[d]
        BY <1>1, <1>2, <2>1, <2>3
      <3> QED BY <1>1, <1>5, <2>2, <3>1, <3>2 DEF StatOK
    <2>4. CASE d = x
      <3>1. stat.rows[x] = 0 /\ disk[x].there /\ d \notin stat'.todo
        BY <1>1, <2>2, <2>4 DEF StatOK
      <3>2. stat'.rows[x] = Rows(handles[x])
        <4>1. Rows(handles[x]) \in Int
          BY DEF Rows, CacheTypes, Handle
        <4> QED BY <1>2, <3>1, <4>1 DEF Counting
      <3>3. CASE Cached(x)
        <4>1. ~Opening(d)'
          BY <1>4, <3>3 DEF Opening
        <4> QED BY <1>1, <2>2, <2>4, <3>1, <3>2, <3>3, <4>1 DEF StatOK
      <3>4. CASE ~Cached(x)
        <4>1. Opening(d)'
          BY <1>4, <2>4, <3>1, <3>4 DEF Opening
        <4> QED BY <1>1, <2>2, <2>4, <3>1, <3>2, <3>4, <4>1 DEF StatOK
      <3> QED BY <3>3, <3>4
    <2> QED BY <2>3, <2>4
  <1> QED BY <1>1, <1>6 DEF StatShape

\* The open of the request: a settled domain on the list is still on disk.
LEMMA FreshCounts ==
    ASSUME CacheTypes, HandleInv, StatInv, CountNext, OpenFresh(Stats), stat' = stat
    PROVE  StatShape' /\ \A d \in stat'.scope \ unsure' : StatOK(d)'
  <1>0. PICK x : x = reader[Stats].domain
    OBVIOUS
  <1>a. /\ stat \in StatType /\ reader \in [Openers -> OpenType] /\ Stats \in Openers
        /\ reader[Stats].pc = "open" /\ stat.pc = "opening"
    BY DEF StatInv, CacheTypes, Openers, OpenFresh
  <1> DEFINE o == [reader[Stats] EXCEPT !.pc = "insert", !.got = OnDisk(x)]
  <1>1. reader' = [reader EXCEPT ![Stats] = IF disk[x].there THEN o ELSE NoOpen]
    BY <1>0 DEF OpenFresh
  <1>2. o.pc = "insert" /\ o.domain = x
    BY <1>0, <1>a DEF OpenType
  <1> HIDE DEF o
  <1>3. /\ disk[x].there => reader'[Stats].pc = "insert" /\ reader'[Stats].domain = x
        /\ ~disk[x].there => reader'[Stats].pc = "idle"
    BY <1>a, <1>1, <1>2, NoOpenType
  <1>4. ASSUME NEW d \in stat'.scope \ unsure'
        PROVE  StatOK(d)'
    <2>1. d \in Domain /\ stat'.pc # "idle"
      BY <1>a DEF StatType
    <2>2. StatOK(d) /\ disk'[d] = disk[d] /\ Expected(d)' = Expected(d)
      BY <1>4, <2>1, Settled DEF StatInv
    <2>3. Opening(d) <=> d = x
      BY <1>0, <1>a DEF Opening
    <2>4. d = x => disk[x].there
      BY <1>a, <2>2, <2>3 DEF StatOK
    <2>5. Opening(d)' <=> d = x
      BY <1>3, <2>4 DEF Opening
    <2> QED BY <1>a, <2>2, <2>3, <2>5 DEF StatOK
  <1> QED BY <1>a, <1>4 DEF StatShape

\* The handle that the request inserts, or finds there by now, shows all rows.
LEMMA OpenedCounts ==
    ASSUME CacheTypes, HandleInv, OrderInv, StatInv, CountNext, CountOpened
    PROVE  StatShape' /\ \A d \in stat'.scope \ unsure' : StatOK(d)'
  <1>0. PICK x : x = reader[Stats].domain
    OBVIOUS
  <1>a. /\ stat \in StatType /\ reader \in [Openers -> OpenType] /\ Stats \in Openers
        /\ reader[Stats].pc = "insert" /\ stat.pc = "opening" /\ x \in Domain
    BY <1>0 DEF StatInv, CacheTypes, Openers, CountOpened, InsertHandle
  <1>b. CacheTypes'
    BY CacheTypesStep DEF TabNext
  <1>c. Rows(handles'[x]) \in Int
    BY <1>a, <1>b DEF Rows, CacheTypes, Handle
  <1>1. /\ stat'.pc = "opening" /\ stat'.todo = stat.todo /\ stat'.scope = stat.scope
        /\ stat'.rows = [stat.rows EXCEPT ![x] = @ + Rows(handles'[x])] /\ stat' \in StatType
    BY <1>0, <1>a, <1>c DEF CountOpened, StatType
  <1>2. /\ stat'.rows[x] = stat.rows[x] + Rows(handles'[x])
        /\ \A d \in Domain \ {x} : stat'.rows[d] = stat.rows[d]
    BY <1>a, <1>1 DEF StatType
  <1>3. reader'[Stats].pc = "idle"
    <2> DEFINE L == Late(Victims(Stamped(x)))
    <2>1. L \in [Openers -> OpenType]
      BY LateEffect
    <2>2. reader' = [L EXCEPT ![Stats] = NoOpen]
      BY <1>0 DEF CountOpened, InsertHandle
    <2> HIDE DEF L
    <2>3. reader'[Stats] = NoOpen
      BY <1>a, <2>1, <2>2
    <2> QED BY <2>3, NoOpenType
  <1>4. Cached(x)'
    <2>1. CASE Cached(x)
      BY <1>0, <2>1 DEF CountOpened, InsertHandle, InsertCached, Cached
    <2>2. CASE ~Cached(x)
      <3>1. Upsert(x, reader[Stats].got) /\ reader[Stats].got \in Handle /\ reader[Stats].got # Closed
        BY <1>0, <1>a, <2>2 DEF CountOpened, InsertHandle, InsertCached, OpenType, OrderInv
      <3>2. x \notin Victims(Stamped(x))
        <4>1. /\ Stamped(x) \in Seq(Domain) /\ Distinct(Stamped(x)) /\ Len(Stamped(x)) > 0
              /\ Stamped(x)[Len(Stamped(x))] = x
          BY <1>a, StampedProperties DEF OrderInv
        <4> QED BY <4>1, EvictionProperties
      <3>3. handles'[x] = reader[Stats].got
        BY <1>a, <3>1, <3>2, UpsertEffect
      <3> QED BY <3>1, <3>3 DEF Cached
    <2> QED BY <2>1, <2>2
  <1>5. ASSUME NEW d \in stat'.scope \ unsure'
        PROVE  StatOK(d)'
    <2>1. d \in Domain /\ stat'.pc # "idle"
      BY <1>a, <1>1 DEF StatType
    <2>2. /\ StatOK(d) /\ disk'[d] = disk[d] /\ Expected(d)' = Expected(d)
          /\ Cached(d)' => disk[d].there /\ Rows(handles'[d]) = Expected(d)
      BY <1>1, <1>5, <2>1, Settled DEF StatInv
    <2>3. (Opening(d) <=> d = x) /\ ~Opening(d)'
      BY <1>0, <1>a, <1>3 DEF Opening
    <2>4. CASE d # x
      BY <1>a, <1>1, <1>2, <2>1, <2>2, <2>3, <2>4 DEF StatOK
    <2>5. CASE d = x
      <3>1. stat.rows[d] = 0 /\ d \notin stat.todo
        BY <1>a, <2>2, <2>3, <2>5 DEF StatOK
      <3>2. stat'.rows[d] = Expected(d)
        BY <1>2, <1>4, <1>c, <2>2, <2>5, <3>1
      <3> QED BY <1>1, <2>2, <2>3, <3>1, <3>2 DEF StatOK
    <2> QED BY <2>4, <2>5
  <1> QED BY <1>1, <1>5 DEF StatShape

\* StatInv is preserved by every step.
LEMMA StatStep ==
    ASSUME CacheTypes, HandleInv, OrderInv, StatInv, [CountStep]_tabVars
    PROVE  StatInv'
  <1>1. CASE CountNext
    <2>1. stat'.pc # "idle" => Unsettled' \subseteq unsure'
      BY <1>1 DEF CountNext, Observe
    <2>2. ASSUME StatShape', \A d \in stat'.scope \ unsure' : StatOK(d)'
          PROVE  StatInv'
      BY <2>1, <2>2 DEF StatInv, StatShape
    <2>3. CASE StatNext
      BY <1>1, <2>2, <2>3, MapReads, ListedCounts, FreshCounts, OpenedCounts DEF StatNext
    <2>4. CASE HandleNext(Bystander, MaxVers - 1) /\ UNCHANGED stat
      BY <1>1, <2>2, <2>4, BystanderCounts
    <2> QED BY <1>1, <2>3, <2>4 DEF CountNext
  <1>2. CASE UNCHANGED cacheVars
    <2>1. UNCHANGED <<disk, handles, reader, writer, raced, behind, stat, unsure>>
      BY <1>2 DEF cacheVars, statVars
    <2>2. \A d : StatOK(d)' <=> StatOK(d)
      BY <2>1 DEF StatOK, Opening, Expected
    <2> QED BY <2>1, <2>2 DEF StatInv, Unsettled
  <1>3. TaskNext => UNCHANGED cacheVars
    BY DEF TaskNext, Submit, Finish, Tick
  <1>4. UNCHANGED tabVars => UNCHANGED cacheVars
    BY DEF tabVars, cacheVars, statVars
  <1> QED BY <1>1, <1>2, <1>3, <1>4 DEF CountStep

\* In every behaviour GET /statistics reports all rows of a domain that was settled
\* while it ran, each once, whoever opened its handle and when.
THEOREM StatisticsAreExact == CountSpec => []StatisticsExact
  <1> DEFINE Inv == CacheTypes /\ HandleInv /\ OrderInv /\ StatInv
  <1>1. TabInit => Inv
    BY CacheInit, StatInit
  <1>2. Inv /\ [CountStep]_tabVars => Inv'
    BY CountIsTab, CacheTypesStep, HandleStep, OrderStep, StatStep
  <1>3. Inv => StatisticsExact
    <2>1. ASSUME StatInv, stat.pc = "done", NEW d \in stat.scope \ unsure
          PROVE  stat.rows[d] = IF disk[d].there THEN disk[d].ver - 1 ELSE 0
      BY <2>1 DEF StatInv, StatOK, Expected
    <2> QED BY <2>1 DEF StatisticsExact
  <1>4. CountSpec <=> TabInit /\ [][CountStep]_tabVars
    BY DEF CountSpec, CountStep
  <1> QED BY <1>1, <1>2, <1>3, <1>4, PTL

-----------------------------------------------------------------------------
(* The task table.                                                         *)

TaskRecord == [status : {"pending", "terminal"}, age : Nat, at : Nat]
TaskTable(T) ==
    /\ DOMAIN T \subseteq Nat /\ IsFiniteSet(DOMAIN T)
    /\ \A t \in DOMAIN T : T[t] \in TaskRecord

\* A finite set of numbers has a largest one.
LEMMA LargestNumber ==
    ASSUME NEW S \in SUBSET Nat, IsFiniteSet(S), S # {}
    PROVE  Max(S) \in S /\ \A y \in S : y <= Max(S)
  <1> DEFINE Above(x) == {y \in S : y > x}
             A == {Above(x) : x \in S}
  <1>1. IsWellFoundedOn(StrictSubsetOrdering(S), FiniteSubsetsOf(S))
    BY FS_StrictSubsetOrderingWellFounded
  <1>2. A \subseteq FiniteSubsetsOf(S) /\ A # {}
    <2>1. \A x \in S : Above(x) \in SUBSET S
      OBVIOUS
    <2> HIDE DEF Above
    <2>2. A \subseteq SUBSET S
      BY <2>1
    <2>3. A # {}
      OBVIOUS
    <2> QED BY <2>2, <2>3, FS_FiniteSubsetsOfFinite
  <1>3. PICK a \in A : \A b \in A : ~(<<b, a>> \in StrictSubsetOrdering(S))
    BY <1>1, <1>2, WFMin
  <1>4. PICK x \in S : a = Above(x)
    BY <1>3
  <1>5. \A y \in S : y <= x
    <2>1. SUFFICES ASSUME NEW y \in S, y > x
                   PROVE  FALSE
      OBVIOUS
    <2>a. S \subseteq Nat
      OBVIOUS
    <2>b. x \in Nat /\ y \in Nat /\ \A z \in S : z \in Nat
      BY <2>a
    <2>2. Above(y) \subseteq a /\ y \in a /\ y \notin Above(y)
      <3>1. \A z : z \in a <=> z \in S /\ z > x
        BY <1>4
      <3>2. \A z : z \in Above(y) <=> z \in S /\ z > y
        OBVIOUS
      <3>3. y \notin Above(y)
        BY <2>b, <3>2
      <3>4. \A z \in Above(y) : z \in a
        BY <2>1, <2>b, <3>1, <3>2
      <3> HIDE DEF Above
      <3> QED BY <2>1, <3>1, <3>3, <3>4
    <2>3. <<Above(y), a>> \in StrictSubsetOrdering(S)
      BY <1>4, <2>2 DEF StrictSubsetOrdering
    <2> QED BY <1>3, <2>3
  <1> QED BY <1>5 DEF Max

\* The n oldest are n in number, if there are that many, and the youngest is the last.
LEMMA OldestProperties ==
    ASSUME NEW T, TaskTable(T), NEW S \in SUBSET DOMAIN T, NEW n \in Nat
    PROVE  /\ IsFiniteSet(S) /\ Cardinality(S) \in Nat
           /\ Oldest(T, S, n) \subseteq S /\ IsFiniteSet(Oldest(T, S, n))
           /\ n <= Cardinality(S) => Cardinality(Oldest(T, S, n)) = n
           /\ n >= Cardinality(S) => Oldest(T, S, n) = S
           /\ \A t \in S : (\A u \in S \ {t} : OlderTask(T, u, t)) /\ n < Cardinality(S)
                              => t \notin Oldest(T, S, n)
  <1> DEFINE Before(t) == {u \in S : OlderTask(T, u, t)}
             k == Cardinality(S)
             rank == [t \in S |-> Cardinality(Before(t))]
             O == Oldest(T, S, n)
  <1>1. IsFiniteSet(S) /\ k \in Nat
    BY FS_Subset, FS_CardinalityType DEF TaskTable
  <1>2. /\ \A t \in S : ~OlderTask(T, t, t)
        /\ \A t, u \in S : t # u => OlderTask(T, t, u) \/ OlderTask(T, u, t)
        /\ \A t, u, v \in S : OlderTask(T, t, u) /\ OlderTask(T, u, v) => OlderTask(T, t, v)
    <2>1. \A t \in S : t \in Nat /\ T[t].age \in Nat /\ T[t].at \in Nat
      BY DEF TaskTable, TaskRecord
    <2> QED BY <2>1 DEF OlderTask
  <1>3. ASSUME NEW t \in S
        PROVE  /\ Before(t) \subseteq S \ {t} /\ IsFiniteSet(Before(t))
               /\ Cardinality(Before(t)) \in 0 .. k - 1
    <2>1. Before(t) \subseteq S \ {t}
      BY <1>2
    <2>2. IsFiniteSet(S \ {t}) /\ Cardinality(S \ {t}) = k - 1
      BY <1>1, FS_RemoveElement
    <2>3. IsFiniteSet(Before(t)) /\ Cardinality(Before(t)) <= k - 1
      BY <2>1, <2>2, FS_Subset
    <2>4. Cardinality(Before(t)) \in Nat
      BY <2>3, FS_CardinalityType
    <2> QED BY <1>1, <2>1, <2>3, <2>4
  <1>4. ASSUME NEW t \in S, NEW u \in S, OlderTask(T, t, u)
        PROVE  Cardinality(Before(t)) < Cardinality(Before(u))
    <2>1. Before(t) \subseteq Before(u) /\ t \in Before(u) /\ t \notin Before(t)
      BY <1>2, <1>4
    <2>2. Cardinality(Before(t)) <= Cardinality(Before(u))
          /\ Cardinality(Before(t)) # Cardinality(Before(u))
      BY <1>3, <2>1, FS_Subset
    <2>3. Cardinality(Before(t)) \in Nat /\ Cardinality(Before(u)) \in Nat
      BY <1>3, FS_CardinalityType
    <2> HIDE DEF Before
    <2> QED BY <2>2, <2>3
  <1>5. rank \in Injection(S, 0 .. k - 1)
    <2>1. rank \in [S -> 0 .. k - 1]
      BY <1>3
    <2>2. ASSUME NEW t \in S, NEW u \in S, t # u
          PROVE  rank[t] # rank[u]
      <3>0. /\ rank[t] = Cardinality(Before(t)) /\ rank[u] = Cardinality(Before(u))
            /\ rank[t] \in Nat /\ rank[u] \in Nat
        BY <1>3, FS_CardinalityType
      <3> HIDE DEF rank, Before
      <3>1. CASE OlderTask(T, t, u)
        BY <1>4, <3>0, <3>1
      <3>2. CASE OlderTask(T, u, t)
        BY <1>4, <3>0, <3>2
      <3> QED BY <1>2, <2>2, <3>1, <3>2
    <2> HIDE DEF rank
    <2>3. \A t, u \in S : rank[t] = rank[u] => t = u
      BY <2>2
    <2> QED BY <2>1, <2>3 DEF Injection, IsInjective
  <1>6. rank \in Surjection(S, 0 .. k - 1)
    <2>1. IsFiniteSet(0 .. k - 1) /\ Cardinality(0 .. k - 1) = k
      BY <1>1, FS_Interval
    <2> HIDE DEF rank
    <2> QED BY <1>5, <2>1, FS_Injection
  <1>7. O = {t \in S : rank[t] < n}
    BY DEF Oldest
  <1>8. O \subseteq S /\ IsFiniteSet(O)
    BY <1>1, <1>7, FS_Subset
  <1>9. ASSUME n <= k
        PROVE  Cardinality(O) = n
    <2> DEFINE r == [t \in O |-> rank[t]]
    <2> HIDE DEF rank, O
    <2>1. r \in Bijection(O, 0 .. n - 1)
      <3>1. r \in [O -> 0 .. n - 1]
        <4>1. \A t \in S : rank[t] \in 0 .. k - 1
          BY <1>5 DEF Injection
        <4> QED BY <1>1, <1>7, <4>1
      <3>2. \A t, u \in O : r[t] = r[u] => t = u
        <4>1. \A t, u \in S : rank[t] = rank[u] => t = u
          BY <1>5 DEF Injection, IsInjective
        <4> QED BY <1>7, <4>1
      <3>3. ASSUME NEW i \in 0 .. n - 1
            PROVE  \E t \in O : r[t] = i
        <4>1. PICK t \in S : rank[t] = i
          BY <1>1, <1>6, <1>9 DEF Surjection
        <4> QED BY <1>7, <4>1
      <3> HIDE DEF r
      <3>4. IsInjective(r)
        BY <3>1, <3>2 DEF IsInjective
      <3> QED BY <3>1, <3>3, <3>4 DEF Bijection, Injection, Surjection
    <2>2. Cardinality(0 .. n - 1) = n
      BY FS_Interval
    <2>3. ExistsBijection(O, 0 .. n - 1)
      BY <2>1 DEF ExistsBijection
    <2> QED BY <1>8, <2>2, <2>3, FS_Bijection
  <1>10. n >= k => O = S
    <2>1. \A t \in S : rank[t] \in 0 .. k - 1
      BY <1>5 DEF Injection
    <2> HIDE DEF rank, O
    <2> QED BY <1>1, <1>7, <2>1
  <1>11. ASSUME NEW t \in S, \A u \in S \ {t} : OlderTask(T, u, t), n < k
         PROVE  t \notin O
    <2>1. Before(t) = S \ {t}
      BY <1>2, <1>11
    <2>2. Cardinality(S \ {t}) = k - 1
      BY <1>1, FS_RemoveElement
    <2> QED BY <1>1, <1>7, <1>11, <2>1, <2>2
  <1> QED BY <1>1, <1>8, <1>9, <1>10, <1>11

\* The table T without the entries S.
Rest(T, S, W) ==
    /\ TaskTable(W) /\ DOMAIN W = DOMAIN T \ S
    /\ \A t \in DOMAIN W : W[t] = T[t]
    /\ Terminal(W) = Terminal(T) \ S /\ Pending(W) = Pending(T) \ S
    /\ Cardinality(DOMAIN W) = Cardinality(DOMAIN T) - Cardinality(S)
    /\ \A t, u \in DOMAIN W : OlderTask(W, t, u) <=> OlderTask(T, t, u)

\* Taking entries out of the table.
LEMMA WithoutProperties ==
    ASSUME NEW T, TaskTable(T), NEW S, S \subseteq DOMAIN T, NEW W, W = Without(T, S)
    PROVE  Rest(T, S, W)
  <1>1. DOMAIN W = DOMAIN T \ S /\ \A t \in DOMAIN W : W[t] = T[t]
    BY DEF Without, Entries
  <1>2. IsFiniteSet(DOMAIN W) /\ Cardinality(DOMAIN W) = Cardinality(DOMAIN T) - Cardinality(S)
    <2>1. DOMAIN T \cap S = S
      OBVIOUS
    <2> QED BY <1>1, <2>1, FS_Difference DEF TaskTable
  <1>3. TaskTable(W)
    BY <1>1, <1>2 DEF TaskTable
  <1>4. Terminal(W) = Terminal(T) \ S /\ Pending(W) = Pending(T) \ S
    BY <1>1 DEF Terminal, Pending, Entries
  <1>5. \A t, u \in DOMAIN W : OlderTask(W, t, u) <=> OlderTask(T, t, u)
    BY <1>1 DEF OlderTask
  <1> QED BY <1>1, <1>2, <1>3, <1>4, <1>5 DEF Rest

\* What the eviction leaves: the bound holds, pending entries go only if there are too
\* many of them, and the youngest entry goes only if MAX_TASKS are pending without it.
LEMMA EvictStaleTasks ==
    ASSUME NEW T, TaskTable(T)
    PROVE  LET E == evict_stale_tasks(T)
           IN  /\ TaskTable(E) /\ DOMAIN E \subseteq DOMAIN T
               /\ \A t \in DOMAIN E : E[t] = T[t]
               /\ Cardinality(DOMAIN E) <= MaxTasks
               /\ Cardinality(Pending(T)) <= MaxTasks => Pending(E) = Pending(T)
               /\ \A t \in DOMAIN T :
                     /\ T[t].age = 0 /\ \A u \in DOMAIN T \ {t} : OlderTask(T, u, t)
                     /\ Cardinality(Pending(E)) < MaxTasks
                     => t \in DOMAIN E
  <1>0. MaxTasks \in Nat \ {0} /\ TaskTTL \in Nat
    BY TablesAssumption
  <1> DEFINE S == {t \in Terminal(T) : T[t].age > TaskTTL}
  <1>1. PICK F : F = Without(T, S)
    OBVIOUS
  <1>2. /\ TaskTable(F) /\ DOMAIN F = DOMAIN T \ S /\ \A t \in DOMAIN F : F[t] = T[t]
        /\ Pending(F) = Pending(T) \ S /\ \A t, u \in DOMAIN F : OlderTask(F, t, u) <=> OlderTask(T, t, u)
    <2>1. S \subseteq DOMAIN T
      BY DEF Terminal, Entries
    <2> HIDE DEF S
    <2>2. Rest(T, S, F)
      BY <1>1, <2>1, WithoutProperties
    <2> QED BY <2>2 DEF Rest
  <1>3. PICK A : A = Oldest(F, Terminal(F), Over(F))
    OBVIOUS
  <1>4. PICK C : C = Without(F, A)
    OBVIOUS
  <1>5. PICK B : B = Oldest(C, DOMAIN C, Over(C))
    OBVIOUS
  <1>6. PICK E : E = Without(C, B)
    OBVIOUS
  <1>7. evict_stale_tasks(T) = E
    BY <1>1, <1>3, <1>4, <1>5, <1>6 DEF evict_stale_tasks, Entries
  <1>8. /\ IsFiniteSet(DOMAIN F) /\ Cardinality(DOMAIN F) \in Nat
        /\ Over(F) \in Nat /\ Over(F) = IF Cardinality(DOMAIN F) > MaxTasks
                                        THEN Cardinality(DOMAIN F) - MaxTasks ELSE 0
    BY <1>0, <1>2, FS_CardinalityType DEF TaskTable, Over, Entries
  <1>9. Terminal(F) \in SUBSET DOMAIN F /\ Pending(F) = DOMAIN F \ Terminal(F)
    BY DEF Terminal, Pending, Entries
  <1>10. /\ IsFiniteSet(Terminal(F)) /\ Cardinality(Terminal(F)) \in Nat
         /\ A \subseteq Terminal(F) /\ IsFiniteSet(A)
         /\ Over(F) <= Cardinality(Terminal(F)) => Cardinality(A) = Over(F)
         /\ Over(F) >= Cardinality(Terminal(F)) => A = Terminal(F)
         /\ \A t \in Terminal(F) :
               (\A u \in Terminal(F) \ {t} : OlderTask(F, u, t)) /\ Over(F) < Cardinality(Terminal(F))
                  => t \notin A
    BY <1>2, <1>3, <1>8, <1>9, OldestProperties
  <1>11. /\ TaskTable(C) /\ DOMAIN C = DOMAIN F \ A /\ \A t \in DOMAIN C : C[t] = F[t]
         /\ Pending(C) = Pending(F) \ A
         /\ Cardinality(DOMAIN C) = Cardinality(DOMAIN F) - Cardinality(A)
         /\ \A t, u \in DOMAIN C : OlderTask(C, t, u) <=> OlderTask(F, t, u)
    <2>1. A \subseteq DOMAIN F
      BY <1>9, <1>10
    <2>2. Rest(F, A, C)
      BY <1>2, <1>4, <2>1, WithoutProperties
    <2> QED BY <2>2 DEF Rest
  <1>12. /\ IsFiniteSet(DOMAIN C) /\ Cardinality(DOMAIN C) \in Nat
         /\ Over(C) \in Nat /\ Over(C) = IF Cardinality(DOMAIN C) > MaxTasks
                                         THEN Cardinality(DOMAIN C) - MaxTasks ELSE 0
    BY <1>0, <1>11, FS_CardinalityType DEF TaskTable, Over, Entries
  <1>13. /\ B \subseteq DOMAIN C /\ IsFiniteSet(B) /\ Cardinality(B) = Over(C)
         /\ \A t \in DOMAIN C :
               (\A u \in DOMAIN C \ {t} : OlderTask(C, u, t)) /\ Over(C) < Cardinality(DOMAIN C)
                  => t \notin B
    <2>1. Over(C) <= Cardinality(DOMAIN C)
      BY <1>0, <1>12
    <2>2. DOMAIN C \in SUBSET DOMAIN C
      OBVIOUS
    <2> QED BY <1>5, <1>11, <1>12, <2>1, <2>2, OldestProperties
  <1>14. /\ TaskTable(E) /\ DOMAIN E = DOMAIN C \ B /\ \A t \in DOMAIN E : E[t] = C[t]
         /\ Pending(E) = Pending(C) \ B
         /\ Cardinality(DOMAIN E) = Cardinality(DOMAIN C) - Cardinality(B)
    <2>1. Rest(C, B, E)
      BY <1>6, <1>11, <1>13, WithoutProperties
    <2> QED BY <2>1 DEF Rest
  <1>15. Cardinality(DOMAIN E) <= MaxTasks
    BY <1>0, <1>12, <1>13, <1>14
  <1>16. Cardinality(DOMAIN F) = Cardinality(Terminal(F)) + Cardinality(Pending(F))
         /\ Cardinality(Pending(F)) \in Nat
    <2>1. DOMAIN F \cap Terminal(F) = Terminal(F)
      BY <1>9
    <2>2. /\ IsFiniteSet(Pending(F))
          /\ Cardinality(Pending(F)) = Cardinality(DOMAIN F) - Cardinality(Terminal(F))
      BY <1>8, <1>9, <2>1, FS_Difference
    <2>3. Cardinality(Pending(F)) \in Nat
      BY <2>2, FS_CardinalityType
    <2> QED BY <1>8, <1>10, <2>2, <2>3
  <1>17. Pending(F) = Pending(T)
    BY <1>2 DEF Pending
  <1>18. ASSUME Cardinality(Pending(T)) <= MaxTasks
         PROVE  Pending(E) = Pending(T)
    <2>1. Over(F) <= Cardinality(Terminal(F))
      BY <1>0, <1>8, <1>10, <1>16, <1>17, <1>18
    <2>2. Cardinality(A) = Over(F)
      BY <1>10, <2>1
    <2>3. Cardinality(DOMAIN C) <= MaxTasks
      BY <1>0, <1>8, <1>11, <2>2
    <2>4. Over(C) = 0
      BY <1>0, <1>12, <2>3
    <2>5. B = {}
      BY <1>13, <2>4, FS_EmptySet
    <2> QED BY <1>9, <1>10, <1>11, <1>14, <1>17, <2>5
  <1>19. ASSUME NEW t \in DOMAIN T, T[t].age = 0, \A u \in DOMAIN T \ {t} : OlderTask(T, u, t),
                Cardinality(Pending(E)) < MaxTasks
         PROVE  t \in DOMAIN E
    <2>1. t \in DOMAIN F
      BY <1>0, <1>2, <1>19
    <2>2. t \in DOMAIN C
      <3>1. SUFFICES ASSUME t \in A
                     PROVE  FALSE
        BY <1>11, <2>1
      <3>2. \A u \in Terminal(F) \ {t} : OlderTask(F, u, t)
        BY <1>2, <1>9, <1>19, <2>1
      <3>3. Over(F) >= Cardinality(Terminal(F))
        BY <1>8, <1>10, <3>1, <3>2
      <3>4. A = Terminal(F)
        BY <1>10, <3>3
      <3>5. Cardinality(Terminal(F)) # 0
        BY <1>10, <3>1, FS_EmptySet
      <3>6. Cardinality(DOMAIN C) >= MaxTasks
        BY <1>0, <1>8, <1>10, <1>11, <3>3, <3>4, <3>5
      <3>7. Pending(C) = DOMAIN C
        BY <1>9, <1>11, <3>4
      <3>8. Pending(E) = DOMAIN E
        BY <1>14, <3>7
      <3>9. Cardinality(DOMAIN E) = MaxTasks
        BY <1>0, <1>12, <1>13, <1>14, <3>6
      <3> QED BY <1>0, <1>19, <3>8, <3>9
    <2>3. \A u \in DOMAIN C \ {t} : OlderTask(C, u, t)
      BY <1>2, <1>11, <1>19, <2>1, <2>2
    <2>4. Cardinality(DOMAIN C) # 0
      BY <1>12, <2>2, FS_EmptySet
    <2>5. Over(C) < Cardinality(DOMAIN C)
      BY <1>0, <1>12, <2>4
    <2> QED BY <1>13, <1>14, <2>2, <2>3, <2>5
  <1>20. DOMAIN E \subseteq DOMAIN T /\ \A t \in DOMAIN E : E[t] = T[t]
    BY <1>2, <1>11, <1>14
  <1> QED BY <1>7, <1>14, <1>15, <1>18, <1>19, <1>20

\* The table R is T with t recorded last.
Recorded(T, t, s, R) ==
    /\ TaskTable(R) /\ DOMAIN R = DOMAIN T \cup {t}
    /\ R[t].status = s /\ R[t].age = 0
    /\ \A u \in DOMAIN R \ {t} : R[u] = T[u] /\ OlderTask(R, u, t)

\* An entry that was just recorded is the youngest.
LEMMA RankedProperties ==
    ASSUME NEW T, TaskTable(T), NEW t \in Nat, NEW s \in {"pending", "terminal"}
    PROVE  Recorded(T, t, s, Ranked(T, t, s))
  <1> DEFINE R == Ranked(T, t, s)
             A == {u \in DOMAIN T : T[u].age = 0}
             N == {0} \cup {T[u].at : u \in A}
  <1>1. IsFiniteSet(N) /\ N \subseteq Nat /\ N # {}
    <2>1. \A u \in A : T[u].at \in Nat
      BY DEF TaskTable, TaskRecord
    <2>2. IsFiniteSet({T[u].at : u \in A})
      <3> DEFINE f == [u \in A |-> T[u].at]
                 Q == {T[u].at : u \in A}
      <3>1. f \in Surjection(A, Q)
        <4>1. f \in [A -> Q]
          OBVIOUS
        <4>2. \A q \in Q : \E u \in A : f[u] = q
          OBVIOUS
        <4> HIDE DEF f, A, Q
        <4> QED BY <4>1, <4>2 DEF Surjection
      <3>2. IsFiniteSet(A)
        BY FS_Subset DEF TaskTable
      <3> HIDE DEF f, A
      <3> QED BY <3>1, <3>2, FS_Surjection
    <2>3. IsFiniteSet(N)
      BY <2>2, FS_AddElement
    <2> QED BY <2>1, <2>3
  <1>2. Rank(T) = Max(N) + 1
    BY DEF Rank, Entries
  <1>3. Max(N) \in Nat /\ \A x \in N : x <= Max(N)
    <2> HIDE DEF N
    <2> QED BY <1>1, LargestNumber
  <1>4. /\ DOMAIN R = DOMAIN T \cup {t} /\ R[t] = [status |-> s, age |-> 0, at |-> Rank(T)]
        /\ \A u \in DOMAIN R \ {t} : R[u] = T[u]
    BY DEF Ranked, Entries
  <1> HIDE DEF R
  <1>5. Rank(T) \in Nat
    BY <1>2, <1>3
  <1>6. R[t] \in TaskRecord /\ R[t].status = s /\ R[t].age = 0 /\ R[t].at = Rank(T)
    BY <1>4, <1>5 DEF TaskRecord
  <1>7. TaskTable(R)
    <2>1. IsFiniteSet(DOMAIN T \cup {t})
      BY FS_AddElement DEF TaskTable
    <2> QED BY <1>4, <1>6, <2>1 DEF TaskTable
  <1>8. ASSUME NEW u \in DOMAIN R \ {t}
        PROVE  OlderTask(R, u, t)
    <2>1. R[u] = T[u] /\ u \in DOMAIN T /\ T[u].age \in Nat /\ T[u].at \in Nat
      BY <1>4, <1>8 DEF TaskTable, TaskRecord
    <2>2. CASE T[u].age > 0
      BY <1>6, <2>1, <2>2 DEF OlderTask
    <2>3. CASE T[u].age = 0
      <3>1. T[u].at \in N
        BY <2>1, <2>3
      <3>2. T[u].at < Rank(T)
        BY <1>2, <1>3, <2>1, <3>1
      <3> QED BY <1>6, <2>1, <2>3, <3>2 DEF OlderTask
    <2> QED BY <2>1, <2>2, <2>3
  <1>9. Recorded(T, t, s, R)
    BY <1>4, <1>6, <1>7, <1>8 DEF Recorded
  <1> QED BY <1>9 DEF R

\* The table keeps its types and its bound, StatusKept, and the running tasks are pending.
StatusInv ==
    /\ TaskTable(tasks) /\ Cardinality(Entries(tasks)) <= MaxTasks
    /\ running \subseteq Task /\ peak \in Nat
    /\ peak <= MaxTasks => running \subseteq Pending(tasks)
    /\ newest # 0 /\ Cardinality(Pending(tasks)) < MaxTasks => newest \in Entries(tasks)

\* What record_task does, its eviction included.
LEMMA RecordTask ==
    ASSUME StatusInv, NEW t \in Task, NEW s \in {"pending", "terminal"}, record_task(t, s)
    PROVE  /\ TaskTable(tasks)' /\ Cardinality(Entries(tasks))' <= MaxTasks
           /\ peak' \in Nat
           /\ peak' <= MaxTasks => /\ running \ {t} \subseteq Pending(tasks)'
                                   /\ s = "pending" => t \in Pending(tasks)'
           /\ newest' # 0 /\ Cardinality(Pending(tasks))' < MaxTasks => newest' \in Entries(tasks)'
  <1>0. t \in Nat /\ TaskTable(tasks) /\ peak \in Nat
    BY TablesAssumption DEF StatusInv
  <1>1. PICK R : R = Ranked(tasks, t, s)
    OBVIOUS
  <1>2. /\ TaskTable(R) /\ DOMAIN R = DOMAIN tasks \cup {t}
        /\ R[t].status = s /\ R[t].age = 0
        /\ \A u \in DOMAIN R \ {t} : R[u] = tasks[u] /\ OlderTask(R, u, t)
    <2>1. Recorded(tasks, t, s, R)
      BY <1>0, <1>1, RankedProperties
    <2> QED BY <2>1 DEF Recorded
  <1>3. /\ tasks' = evict_stale_tasks(R) /\ newest' = t
        /\ peak' = Max({peak, Cardinality(Pending(R))})
    BY <1>1 DEF record_task
  <1>4. /\ TaskTable(tasks') /\ DOMAIN tasks' \subseteq DOMAIN R
        /\ Cardinality(DOMAIN tasks') <= MaxTasks
        /\ Cardinality(Pending(R)) <= MaxTasks => Pending(tasks') = Pending(R)
        /\ \A u \in DOMAIN R :
              /\ R[u].age = 0 /\ \A v \in DOMAIN R \ {u} : OlderTask(R, v, u)
              /\ Cardinality(Pending(tasks')) < MaxTasks
              => u \in DOMAIN tasks'
    BY <1>2, <1>3, EvictStaleTasks
  <1>5. Cardinality(Pending(R)) \in Nat
    <2>1. Pending(R) \subseteq DOMAIN R
      BY DEF Pending, Entries
    <2> QED BY <1>2, <2>1, FS_Subset, FS_CardinalityType DEF TaskTable
  <1>6. peak' \in Nat /\ peak' >= peak /\ peak' >= Cardinality(Pending(R))
    <2> DEFINE c == Cardinality(Pending(R))
               N == {peak, c}
    <2>1. N \in SUBSET Nat /\ N # {}
      BY <1>0, <1>5
    <2>2. IsFiniteSet(N)
      <3>1. IsFiniteSet({peak})
        BY FS_Singleton
      <3>2. IsFiniteSet({peak} \cup {c})
        BY <3>1, FS_AddElement
      <3>3. N = {peak} \cup {c}
        OBVIOUS
      <3> QED BY <3>2, <3>3
    <2>3. peak \in N /\ c \in N /\ peak' = Max(N)
      BY <1>3
    <2> HIDE DEF N, c
    <2>4. Max(N) \in N /\ \A y \in N : y <= Max(N)
      BY <2>1, <2>2, LargestNumber
    <2> QED BY <2>1, <2>3, <2>4 DEF c
  <1>7. ASSUME peak' <= MaxTasks
        PROVE  running \ {t} \subseteq Pending(tasks') /\ (s = "pending" => t \in Pending(tasks'))
    <2>0. MaxTasks \in Nat
      BY TablesAssumption
    <2>1. running \subseteq Pending(tasks) /\ Pending(tasks') = Pending(R)
      BY <1>0, <1>4, <1>5, <1>6, <1>7, <2>0 DEF StatusInv
    <2>2. Pending(tasks) \ {t} \subseteq Pending(R) /\ (s = "pending" => t \in Pending(R))
      BY <1>2 DEF Pending, Terminal, Entries
    <2> QED BY <2>1, <2>2
  <1>8. Cardinality(Pending(tasks')) < MaxTasks => t \in DOMAIN tasks'
    BY <1>2, <1>4
  <1>9. Pending(tasks)' = Pending(tasks') /\ Entries(tasks)' = DOMAIN tasks'
    BY DEF Pending, Terminal, Entries
  <1>10. TaskTable(tasks)' <=> TaskTable(tasks')
    BY DEF TaskTable
  <1> QED BY <1>3, <1>4, <1>6, <1>7, <1>8, <1>9, <1>10

\* StatusInv is preserved by every step.
LEMMA StatusStep ==
    ASSUME StatusInv, [TabNext]_tabVars
    PROVE  StatusInv'
  <1>1. ASSUME NEW t \in Task, Submit(t)
        PROVE  StatusInv'
    <2>1. /\ TaskTable(tasks)' /\ Cardinality(Entries(tasks))' <= MaxTasks
          /\ peak' \in Nat
          /\ peak' <= MaxTasks => /\ running \ {t} \subseteq Pending(tasks)'
                                  /\ t \in Pending(tasks)'
          /\ newest' # 0 /\ Cardinality(Pending(tasks))' < MaxTasks => newest' \in Entries(tasks)'
      BY <1>1, RecordTask DEF Submit
    <2>2. running' \subseteq running \cup {t} /\ running \subseteq Task
      BY <1>1 DEF Submit, StatusInv
    <2> QED BY <2>1, <2>2 DEF StatusInv
  <1>2. ASSUME NEW t \in Task, Finish(t)
        PROVE  StatusInv'
    <2>1. /\ TaskTable(tasks)' /\ Cardinality(Entries(tasks))' <= MaxTasks
          /\ peak' \in Nat
          /\ peak' <= MaxTasks => running \ {t} \subseteq Pending(tasks)'
          /\ newest' # 0 /\ Cardinality(Pending(tasks))' < MaxTasks => newest' \in Entries(tasks)'
      BY <1>2, RecordTask DEF Finish
    <2>2. running' = running \ {t} /\ running \subseteq Task
      BY <1>2 DEF Finish, StatusInv
    <2> QED BY <2>1, <2>2 DEF StatusInv
  <1>3. CASE Tick
    <2> DEFINE a(t) == Min({tasks[t].age + 1, TaskTTL + 1})
    <2>0. TaskTable(tasks) /\ TaskTTL \in Nat
      BY TablesAssumption DEF StatusInv
    <2>1. /\ tasks' = [t \in DOMAIN tasks |-> [tasks[t] EXCEPT !.age = a(t)]]
          /\ UNCHANGED <<running, newest, peak>>
      BY <1>3 DEF Tick, Entries
    <2>2. \A t \in DOMAIN tasks : a(t) \in Nat
      <3>1. \A m, n \in Nat : Min({m, n}) \in Nat
        <4>1. SUFFICES ASSUME NEW m \in Nat, NEW n \in Nat
                       PROVE  Min({m, n}) \in {m, n}
          OBVIOUS
        <4>2. \E x \in {m, n} : \A y \in {m, n} : x <= y
          <5>1. CASE m <= n
            BY <5>1
          <5>2. CASE n <= m
            BY <5>2
          <5> QED BY <5>1, <5>2
        <4> QED BY <4>2 DEF Min
      <3>2. \A t \in DOMAIN tasks : tasks[t].age \in Nat
        BY <2>0 DEF TaskTable, TaskRecord
      <3> QED BY <2>0, <3>1, <3>2
    <2> HIDE DEF a
    <2>3. /\ DOMAIN tasks' = DOMAIN tasks
          /\ \A t \in DOMAIN tasks : tasks'[t] \in TaskRecord /\ tasks'[t].status = tasks[t].status
      BY <2>0, <2>1, <2>2 DEF TaskTable, TaskRecord
    <2>4. TaskTable(tasks)'
      BY <2>0, <2>3 DEF TaskTable
    <2>5. Pending(tasks)' = Pending(tasks) /\ Entries(tasks)' = Entries(tasks)
      BY <2>3 DEF Pending, Terminal, Entries
    <2> QED BY <2>1, <2>4, <2>5 DEF StatusInv
  <1>4. CASE UNCHANGED taskVars
    <2>1. UNCHANGED <<tasks, running, newest, peak>>
      BY <1>4 DEF taskVars
    <2> QED BY <2>1 DEF StatusInv, TaskTable, Pending, Terminal, Entries
  <1>5. CacheNext \/ CountNext => UNCHANGED taskVars
    BY DEF CacheNext, CountNext, HandleNext, StatNext, OpenFresh, InsertHandle, FindHandle, PushOpen,
       DeleteDisk, PushWrite, Refresh, WriteFails, PushAnswered, DeleteHandle, CountCached, DiscoverOnDisk,
       SkipCached, OpenListed, CountOpened, Report, Reported
  <1>6. UNCHANGED tabVars => UNCHANGED taskVars
    BY DEF tabVars, taskVars
  <1> QED BY <1>1, <1>2, <1>3, <1>4, <1>5, <1>6 DEF TabNext, TaskNext

\* The task table is empty at the start.
LEMMA StatusInit ==
    ASSUME TabInit
    PROVE  StatusInv
  <1>1. tasks = << >> /\ running = {} /\ newest = 0 /\ peak = 0
    BY DEF TabInit
  <1>2. DOMAIN tasks = {}
    BY <1>1
  <1>3. MaxTasks \in Nat
    BY TablesAssumption
  <1> QED BY <1>1, <1>2, <1>3, FS_EmptySet DEF StatusInv, TaskTable, Entries

\* In every behaviour the status of a running task, and the one that was recorded last,
\* can be read, unless more than MAX_TASKS entries were pending.
THEOREM StatusIsKept == TabSpec => []StatusKept
  <1>1. TabInit => StatusInv
    BY StatusInit
  <1>2. StatusInv /\ [TabNext]_tabVars => StatusInv'
    BY StatusStep
  <1>3. StatusInv => StatusKept
    BY DEF StatusInv, StatusKept, Pending
  <1> QED BY <1>1, <1>2, <1>3, PTL DEF TabSpec

\* In every behaviour neither table exceeds its bound, and the handles of the cache are
\* those of the domains in the order of use.
THEOREM TablesAreBounded == TabSpec => []TabTypeOK
  <1> DEFINE Inv == CacheTypes /\ HandleInv /\ OrderInv /\ StatusInv
  <1>1. TabInit => Inv
    BY CacheInit, StatusInit
  <1>2. Inv /\ [TabNext]_tabVars => Inv'
    BY CacheTypesStep, HandleStep, OrderStep, StatusStep
  <1>3. Inv => TabTypeOK
    BY DEF OrderInv, StatusInv, TabTypeOK
  <1> QED BY <1>1, <1>2, <1>3, PTL DEF TabSpec

-----------------------------------------------------------------------------
(*************************************************************************)
(* Lifecycle: LifeBase (types, and that a live push is at a server that  *)
(* answers) is inductive; the three properties have an inductive invariant *)
(* each, on top of it: OwnerInv and GuardInv for the start, MapInv for the *)
(* settings and DrainInv for the shutdown.                               *)
(*************************************************************************)

\* Where a process can be, and a push.
ProcPC == {"off", "verify", "lock", "locking", "load", "probe", "bind", "serving",
           "draining", "grace"}
LivePC == {"setting", "insert", "write", "waiting", "running", "panicked"}
JobPC == LivePC \cup {"none", "done", "cut", "overdue", "lost"}

ProcType == [pc : ProcPC, env : Envs \cup {NoProc.env}, caching : BOOLEAN, ro : BOOLEAN,
             map : SUBSET Db, active : Int, waited : BOOLEAN]
JobType == [pc : JobPC, at : Proc \cup {Missing}, old : BOOLEAN]
PastType == [raced : BOOLEAN, adopted : BOOLEAN, overlap : BOOLEAN, torn : BOOLEAN,
             boots : Nat, kills : Nat]

LifeTypeOK ==
    /\ params \in LockedType \cup {NoFile, TornFile}
    /\ settings \in (SUBSET Db) \cup {Torn}
    /\ owner \in Proc \cup {Missing}
    /\ proc \in [Proc -> ProcType]
    /\ \A p \in Proc : proc[p].pc # "off" => proc[p].env \in Envs
    /\ job \in [Job -> JobType]
    /\ kept \in SUBSET Db
    /\ past \in PastType

\* A push that is alive is at a server that answers.
JobsPlaced ==
    \A t \in Job : job[t].pc \in LivePC => job[t].at \in Proc /\ Answering(job[t].at)

LifeBase == LifeTypeOK /\ JobsPlaced

\* The owner of the cache's lock is the process that opened it first.
OwnerInv ==
    \A p \in Proc :
        owner = p <=> /\ proc[p].pc \in {"bind", "serving", "draining", "grace"}
                      /\ proc[p].caching /\ ~proc[p].ro

\* The process passed the check of the parameters.
Passed(p) == proc[p].pc = "load" \/ Loaded(p)

GuardInv ==
    ~past.raced /\ ~past.adopted =>
        /\ \A x, y \in vectors : x = y
        /\ params \in LockedType => \A env \in Envs :
              params_match(params, Locked(env)) => vectors \subseteq {Space(env)}
        /\ \A p \in Proc : Passed(p) =>
              params \in LockedType /\ params_match(params, Locked(proc[p].env))
        /\ \A p \in Proc : proc[p].pc = "locking" => params = TornFile /\ vectors = {}
        /\ \A p, q \in Proc : proc[p].pc = "locking" /\ proc[q].pc = "locking" => p = q

\* One process at a time has the settings in memory, with all that was kept.
MapInv ==
    ~past.overlap =>
        /\ \A p, q \in Proc : Loaded(p) /\ Loaded(q) => p = q
        /\ ~past.torn =>
              /\ settings = Torn => \E t \in Job : job[t].pc = "write"
              /\ settings # Torn => kept \subseteq settings
              /\ \A p \in Proc : Loaded(p) => kept \subseteq proc[p].map
              /\ \A t \in Job : job[t].pc \in {"insert", "write"} => DbOf[t] \in proc[job[t].at].map

\* The tasks of p that have not ended.
RunningOf(p) == {t \in Job : job[t].at = p /\ job[t].pc \in {"running", "panicked"}}

DrainInv ==
    /\ \A p \in Proc : IsFiniteSet(RunningOf(p)) /\ proc[p].active = Cardinality(RunningOf(p))
    /\ \A t \in Job : job[t].old => job[t].pc \in {"running", "panicked", "overdue", "lost"}
    /\ \A p \in Proc : proc[p].pc = "grace" /\ ~proc[p].waited =>
          \A t \in Job : job[t].at = p /\ job[t].pc \in LivePC => ~job[t].old

LifeAction == LifeNext(Envs, BOOLEAN, Job, BOOLEAN)

-----------------------------------------------------------------------------
(* Types, and where pushes are.                                            *)

\* The parameters that a start locks are none of the two marks.
LEMMA LockedTypes ==
    ASSUME NEW env \in Envs
    PROVE  Locked(env) \in LockedType
  <1>1. env \in EnvType
    BY EnvsAssumption
  <1>2. Slot2(env) \in Seq(SlotType)
    <2>1. CASE env.model2 = Missing
      BY <2>1 DEF Slot2
    <2>2. CASE env.model2 # Missing
      <3>1. [model |-> env.model2, prefixes |-> prefixes_for_model(env.model2)] \in SlotType
        BY <1>1, <2>2 DEF EnvType, SlotType, prefixes_for_model
      <3> QED BY <2>2, <3>1 DEF Slot2
    <2> QED BY <2>1, <2>2
  <1> QED BY <1>1, <1>2
          DEF Locked, LockedType, EnvType, Models, resolve_prefixes, prefixes_for_model

\* Neither mark is a set of parameters.
LEMMA NoFileDistinct == NoFile \notin LockedType /\ TornFile \notin LockedType /\ NoFile # TornFile
  BY DEF NoFile, TornFile, LockedType, Models, Missing

\* A process that is off has the type of a process.
LEMMA NoProcType == NoProc \in ProcType /\ NoProc.pc = "off" /\ NoProc.active = 0
  BY DEF NoProc, ProcType, ProcPC

\* The initial state.
LEMMA LifeBaseInit ==
    ASSUME LifeInit
    PROVE  LifeBase
  <1>1. LifeTypeOK
    BY NoProcType, StoresAssumption
       DEF LifeInit, LifeTypeOK, NoJob, JobType, JobPC, LivePC, PastType
  <1>2. JobsPlaced
    BY DEF LifeInit, JobsPlaced, NoJob, LivePC
  <1> QED BY <1>1, <1>2 DEF LifeBase

\* The steps of a start keep the types.
LEMMA StartTypes ==
    ASSUME LifeTypeOK, NEW p \in Proc,
           \/ \E env \in Envs, caching \in BOOLEAN : Boot(p, env, caching)
           \/ Verify(p) \/ LockParams(p) \/ LockWritten(p) \/ LoadSettings(p)
           \/ OpenCache(p) \/ Listen(p)
    PROVE  LifeTypeOK'
  <1> USE DEF LifeTypeOK
  <1>1. proc[p] \in ProcType /\ (proc[p].pc # "off" => proc[p].env \in Envs)
    OBVIOUS
  <1>2. ASSUME NEW env \in Envs, NEW caching \in BOOLEAN, Boot(p, env, caching)
        PROVE  LifeTypeOK'
    <2>1. [NoProc EXCEPT !.pc = "verify", !.env = env, !.caching = caching] \in ProcType
      BY NoProcType DEF ProcType, ProcPC
    <2>2. [NoProc EXCEPT !.pc = "verify", !.env = env, !.caching = caching].env = env
      BY NoProcType DEF ProcType
    <2>3. past' \in PastType
      <3>1. past.boots \in Nat /\ past' = [past EXCEPT !.boots = past.boots + 1]
        BY <1>2 DEF Boot, PastType
      <3>2. past.boots + 1 \in Nat
        BY <3>1
      <3> QED BY <3>1, <3>2 DEF PastType
    <2> QED BY <1>2, <2>1, <2>2, <2>3 DEF Boot
  <1>3. ASSUME NEW x \in ProcType, x.env = proc[p].env, x.pc \in ProcPC \ {"off"},
               proc' = [proc EXCEPT ![p] = x], proc[p].pc # "off",
               params' \in LockedType \cup {NoFile, TornFile},
               owner' \in Proc \cup {Missing}, past' \in PastType,
               UNCHANGED <<settings, job, kept>>
        PROVE  LifeTypeOK'
    BY <1>1, <1>3
  <1>4. CASE Verify(p)
    <2>1. CASE proc' = [proc EXCEPT ![p] = NoProc]
      BY <1>4, <2>1, NoProcType DEF Verify
    <2>2. ASSUME NEW s \in {"lock", "load"},
                 proc' = [proc EXCEPT ![p] = [proc[p] EXCEPT !.pc = s]]
          PROVE  LifeTypeOK'
      <3>1. [proc[p] EXCEPT !.pc = s] \in ProcType
        BY <1>1 DEF ProcType, ProcPC
      <3> QED BY <1>1, <1>3, <1>4, <2>2, <3>1 DEF Verify, ProcType, ProcPC
    <2> QED BY <1>4, <2>1, <2>2 DEF Verify
  <1>5. CASE LockParams(p)
    <2>1. [proc[p] EXCEPT !.pc = "locking"] \in ProcType /\ past' \in PastType
      BY <1>1, <1>5 DEF LockParams, ProcType, ProcPC, PastType
    <2> QED BY <1>1, <1>3, <1>5, <2>1 DEF LockParams, ProcType, ProcPC
  <1>6. CASE LockWritten(p)
    <2>1. [proc[p] EXCEPT !.pc = "load"] \in ProcType /\ past' \in PastType
      BY <1>1, <1>6 DEF LockWritten, ProcType, ProcPC, PastType
    <2>2. params' \in LockedType
      BY <1>1, <1>6, LockedTypes DEF LockWritten
    <2> QED BY <1>1, <1>3, <1>6, <2>1, <2>2 DEF LockWritten, ProcType, ProcPC
  <1>7. CASE LoadSettings(p)
    <2> DEFINE m == IF settings = Torn THEN {} ELSE settings
    <2>1. [proc[p] EXCEPT !.pc = "probe", !.map = m] \in ProcType
      BY <1>1 DEF ProcType, ProcPC
    <2>3. past' \in PastType
      BY <1>7 DEF LoadSettings, PastType
    <2>2. proc' = [proc EXCEPT ![p] = [proc[p] EXCEPT !.pc = "probe", !.map = m]]
      BY <1>7 DEF LoadSettings
    <2> QED BY <1>1, <1>3, <1>7, <2>1, <2>2, <2>3 DEF LoadSettings, ProcType, ProcPC
  <1>8. CASE OpenCache(p)
    <2> DEFINE ro == proc[p].caching /\ owner # Missing
    <2>1. [proc[p] EXCEPT !.pc = "bind", !.ro = ro] \in ProcType
      BY <1>1 DEF ProcType, ProcPC
    <2>2. proc' = [proc EXCEPT ![p] = [proc[p] EXCEPT !.pc = "bind", !.ro = ro]]
      BY <1>8 DEF OpenCache
    <2> QED BY <1>1, <1>3, <1>8, <2>1, <2>2 DEF OpenCache, ProcType, ProcPC
  <1>9. CASE Listen(p)
    <2>1. [proc[p] EXCEPT !.pc = "serving"] \in ProcType
      BY <1>1 DEF ProcType, ProcPC
    <2> QED BY <1>1, <1>3, <1>9, <2>1 DEF Listen, ProcType, ProcPC
  <1> QED BY <1>2, <1>4, <1>5, <1>6, <1>7, <1>8, <1>9

\* Pushes and the end of processes keep the types.
LEMMA JobTypes ==
    ASSUME LifeBase, NEW t \in Job,
           \/ \E p \in Proc, clustering \in BOOLEAN : Arrive(t, p, clustering)
           \/ InsertSetting(t) \/ TruncateSettings(t) \/ WriteSettings(t) \/ RunJob(t)
           \/ StoreVectors(t) \/ EndJob(t) \/ JobPanics(t)
    PROVE  LifeTypeOK'
  <1> USE DEF LifeTypeOK, LifeBase
  <1> DEFINE p == job[t].at
  <1>1. /\ job[t] \in JobType /\ DbOf[t] \in Db
        /\ job[t].pc \in LivePC => p \in Proc /\ proc[p] \in ProcType /\ proc[p].pc # "off"
    BY LifeBoundAssumption DEF JobsPlaced, Answering
  <1>2. ASSUME UNCHANGED <<params, owner, proc, past>>,
               settings' \in (SUBSET Db) \cup {Torn}, kept' \in SUBSET Db,
               NEW x \in JobType, job' = [job EXCEPT ![t] = x]
        PROVE  LifeTypeOK'
    BY <1>2
  <1>3. ASSUME UNCHANGED <<params, owner, past, settings, kept>>, p \in Proc,
               NEW x \in JobType, job' = [job EXCEPT ![t] = x],
               NEW y \in ProcType, proc' = [proc EXCEPT ![p] = y],
               y.env = proc[p].env, proc[p].pc # "off"
        PROVE  LifeTypeOK'
    BY <1>3
  <1>4. ASSUME NEW q \in Proc, NEW clustering \in BOOLEAN, Arrive(t, q, clustering)
        PROVE  LifeTypeOK'
    <2>1. [NoJob EXCEPT !.pc = IF clustering THEN "setting" ELSE "waiting", !.at = q] \in JobType
      BY DEF NoJob, JobType, JobPC, LivePC
    <2> QED BY <1>2, <1>4, <2>1 DEF Arrive
  <1>5. \A s \in JobPC : [job[t] EXCEPT !.pc = s] \in JobType
    BY <1>1 DEF JobType
  <1>6. CASE InsertSetting(t)
    <2>1. job[t].pc \in LivePC
      BY <1>6 DEF InsertSetting, LivePC
    <2>2. [proc[p] EXCEPT !.map = proc[p].map \cup {DbOf[t]}] \in ProcType
      BY <1>1, <2>1 DEF ProcType
    <2>3. /\ job' = [job EXCEPT ![t] = [job[t] EXCEPT !.pc = "insert"]]
          /\ proc' = [proc EXCEPT ![p] = [proc[p] EXCEPT !.map = proc[p].map \cup {DbOf[t]}]]
          /\ UNCHANGED <<params, owner, past, settings, kept>>
      BY <1>6 DEF InsertSetting
    <2>4. [proc[p] EXCEPT !.map = proc[p].map \cup {DbOf[t]}].env = proc[p].env
      BY <1>1, <2>1 DEF ProcType
    <2> QED BY <1>1, <1>3, <1>5, <2>1, <2>2, <2>3, <2>4 DEF JobPC, LivePC
  <1>7. CASE TruncateSettings(t)
    BY <1>2, <1>5, <1>7 DEF TruncateSettings, JobPC, LivePC
  <1>8. CASE WriteSettings(t)
    <2>1. job[t].pc \in LivePC
      BY <1>8 DEF WriteSettings, LivePC
    <2>2. settings' \in SUBSET Db /\ kept' \in SUBSET Db
      BY <1>1, <1>8, <2>1 DEF WriteSettings, ProcType
    <2> QED BY <1>2, <1>5, <1>8, <2>2 DEF WriteSettings, JobPC, LivePC
  <1>9. ASSUME NEW n \in Int, NEW x \in JobType, job' = [job EXCEPT ![t] = x],
               proc' = [proc EXCEPT ![p] = [proc[p] EXCEPT !.active = n]],
               job[t].pc \in LivePC, UNCHANGED <<params, owner, past, settings, kept>>
        PROVE  LifeTypeOK'
    <2>1. /\ [proc[p] EXCEPT !.active = n] \in ProcType
          /\ [proc[p] EXCEPT !.active = n].env = proc[p].env
      BY <1>1, <1>9 DEF ProcType
    <2> QED BY <1>1, <1>3, <1>9, <2>1
  <1>10. job[t].pc \in LivePC => proc[p].active \in Int
    BY <1>1 DEF ProcType
  <1>11. CASE RunJob(t)
    <2>1. proc[p].active + 1 \in Int /\ job[t].pc \in LivePC
      BY <1>10, <1>11 DEF RunJob, LivePC
    <2> QED BY <1>5, <1>9, <1>11, <2>1 DEF RunJob, JobPC, LivePC
  <1>12. CASE EndJob(t)
    <2>1. proc[p].active - 1 \in Int /\ job[t].pc \in LivePC
      BY <1>10, <1>12 DEF EndJob, LivePC
    <2>2. [NoJob EXCEPT !.pc = "done"] \in JobType
      BY DEF NoJob, JobType, JobPC
    <2> QED BY <1>9, <1>12, <2>1, <2>2 DEF EndJob
  <1>13. CASE StoreVectors(t)
    BY <1>13 DEF StoreVectors
  <1>14. CASE JobPanics(t)
    BY <1>2, <1>5, <1>14 DEF JobPanics, JobPC, LivePC
  <1> QED BY <1>4, <1>6, <1>7, <1>8, <1>11, <1>12, <1>13, <1>14

\* The signal, the wait and the end of a process keep the types.
LEMMA StopTypes ==
    ASSUME LifeTypeOK, NEW p \in Proc,
           Signal(p) \/ Drained(p) \/ DrainTimeout(p) \/ Exit(p) \/ Kill(p)
    PROVE  LifeTypeOK'
  <1> USE DEF LifeTypeOK
  <1>1. proc[p] \in ProcType /\ (proc[p].pc # "off" => proc[p].env \in Envs)
    OBVIOUS
  <1>2. ASSUME NEW y \in ProcType, proc' = [proc EXCEPT ![p] = y],
               y.env = proc[p].env \/ y.pc = "off", y.pc = "off" \/ proc[p].pc # "off",
               owner' \in {owner, Missing}, past' \in PastType, job' \in [Job -> JobType],
               UNCHANGED <<params, settings, kept>>
        PROVE  LifeTypeOK'
    BY <1>1, <1>2
  <1>3. CASE Signal(p)
    <2>1. [proc[p] EXCEPT !.pc = "draining"] \in ProcType
          /\ [proc[p] EXCEPT !.pc = "draining"].env = proc[p].env
      BY <1>1 DEF ProcType, ProcPC
    <2>2. job' \in [Job -> JobType]
      <3>1. \A t \in Job : [job[t] EXCEPT !.old = TRUE] \in JobType
        BY DEF JobType
      <3> QED BY <1>3, <3>1 DEF Signal
    <2> QED BY <1>2, <1>3, <2>1, <2>2 DEF Signal
  <1>4. CASE Drained(p)
    <2>1. [proc[p] EXCEPT !.pc = "grace"] \in ProcType
          /\ [proc[p] EXCEPT !.pc = "grace"].env = proc[p].env
      BY <1>1 DEF ProcType, ProcPC
    <2> QED BY <1>2, <1>4, <2>1 DEF Drained
  <1>5. CASE DrainTimeout(p)
    <2> DEFINE y == [proc[p] EXCEPT !.pc = "grace", !.waited = TRUE]
    <2>1. y \in ProcType /\ y.env = proc[p].env
      BY <1>1 DEF ProcType, ProcPC
    <2>2. proc' = [proc EXCEPT ![p] = y]
      BY <1>5 DEF DrainTimeout
    <2> QED BY <1>2, <1>5, <2>1, <2>2 DEF DrainTimeout
  <1>6. ASSUME NEW how \in {"overdue", "cut", "lost"}, Gone(p, how), past' \in PastType
        PROVE  LifeTypeOK'
    <2>1. job' \in [Job -> JobType]
      <3>1. \A t \in Job : [job[t] EXCEPT !.pc = how, !.at = Missing] \in JobType
        BY DEF JobType, JobPC
      <3> QED BY <1>6, <3>1 DEF Gone
    <2> QED BY <1>2, <1>6, <2>1, NoProcType DEF Gone
  <1>7. CASE Exit(p)
    <2>1. past' \in PastType
      BY <1>7 DEF Exit, PastType
    <2> QED BY <1>6, <1>7, <2>1 DEF Exit
  <1>8. CASE Kill(p)
    <2>1. past' \in PastType
      <3>1. past.kills + 1 \in Nat
        BY DEF PastType
      <3> QED BY <1>8, <3>1 DEF Kill, PastType
    <2> QED BY <1>6, <1>8, <2>1 DEF Kill
  <1> QED BY <1>3, <1>4, <1>5, <1>7, <1>8

StartStep(p) ==
    \/ \E env \in Envs, caching \in BOOLEAN : Boot(p, env, caching)
    \/ Verify(p) \/ LockParams(p) \/ LockWritten(p) \/ LoadSettings(p)
    \/ OpenCache(p) \/ Listen(p)
WaitStep(p) == Signal(p) \/ Drained(p) \/ DrainTimeout(p)
EndStep(p) == Exit(p) \/ Kill(p)
JobStep(t) ==
    \/ InsertSetting(t) \/ TruncateSettings(t) \/ WriteSettings(t) \/ RunJob(t)
    \/ StoreVectors(t) \/ EndJob(t) \/ JobPanics(t)

\* A start concerns one process, which does not answer yet, and no push.
LEMMA StartEffect ==
    ASSUME LifeTypeOK, NEW p \in Proc, StartStep(p)
    PROVE  /\ ~Answering(p) /\ UNCHANGED <<settings, vectors, job, kept>>
           /\ \A q \in Proc \ {p} : proc'[q] = proc[q]
  BY DEF LifeTypeOK, StartStep, Boot, Verify, LockParams, LockWritten, LoadSettings, OpenCache,
      Listen, Answering

\* Signal and waiting concern one process, which answers before and after.
LEMMA WaitEffect ==
    ASSUME LifeTypeOK, NEW p \in Proc, WaitStep(p)
    PROVE  /\ Answering(p) /\ Answering(p)'
           /\ UNCHANGED <<params, settings, vectors, owner, kept, past>>
           /\ \A q \in Proc \ {p} : proc'[q] = proc[q]
           /\ proc'[p].env = proc[p].env /\ proc'[p].caching = proc[p].caching
           /\ proc'[p].ro = proc[p].ro /\ proc'[p].map = proc[p].map
           /\ proc'[p].active = proc[p].active
           /\ \A t \in Job : job'[t].pc = job[t].pc /\ job'[t].at = job[t].at
  <1>1. proc \in [Proc -> ProcType] /\ job \in [Job -> JobType]
    BY DEF LifeTypeOK
  <1>2. CASE Signal(p)
    <2>1. \A t \in Job : /\ [job[t] EXCEPT !.old = TRUE].pc = job[t].pc
                         /\ [job[t] EXCEPT !.old = TRUE].at = job[t].at
      BY <1>1 DEF JobType
    <2> QED BY <1>1, <1>2, <2>1 DEF Signal, Answering, ProcType
  <1>3. CASE Drained(p)
    BY <1>1, <1>3 DEF Drained, Answering, ProcType
  <1>4. CASE DrainTimeout(p)
    <2> DEFINE y == [proc[p] EXCEPT !.pc = "grace", !.waited = TRUE]
    <2>1. proc' = [proc EXCEPT ![p] = y]
      BY <1>4 DEF DrainTimeout
    <2>2. y.pc = "grace" /\ y.env = proc[p].env /\ y.caching = proc[p].caching
          /\ y.ro = proc[p].ro /\ y.map = proc[p].map /\ y.active = proc[p].active
      BY <1>1 DEF ProcType
    <2> QED BY <1>1, <1>4, <2>1, <2>2 DEF DrainTimeout, Answering
  <1> QED BY <1>2, <1>3, <1>4 DEF WaitStep

\* When a process is gone, so are its pushes.
LEMMA EndEffect ==
    ASSUME LifeTypeOK, NEW p \in Proc, EndStep(p)
    PROVE  /\ proc[p].pc # "off" /\ proc' = [proc EXCEPT ![p] = NoProc] /\ proc'[p].pc = "off"
           /\ owner' = IF owner = p THEN Missing ELSE owner
           /\ UNCHANGED <<params, settings, vectors, kept>>
           /\ past'.raced = past.raced /\ past'.adopted = past.adopted
           /\ past'.overlap = past.overlap
           /\ past'.torn = (past.torn \/ \E t \in JobsOf(p) : job[t].pc = "write")
           /\ \A t \in Job :
                 IF t \in JobsOf(p)
                 THEN /\ job'[t].pc \in {"cut", "overdue", "lost"} /\ job'[t].at = Missing
                      /\ job'[t].old = job[t].old
                      /\ job'[t].pc = "cut" => proc[p].pc = "grace" /\ ~proc[p].waited
                 ELSE job'[t] = job[t]
  <1>1. proc \in [Proc -> ProcType] /\ job \in [Job -> JobType] /\ past \in PastType
    BY DEF LifeTypeOK
  <1>2. PICK how \in {"cut", "overdue", "lost"} :
           Gone(p, how) /\ (how = "cut" => proc[p].pc = "grace" /\ ~proc[p].waited)
    BY DEF EndStep, Exit, Kill
  <1>3. \A t \in Job : LET j == [job[t] EXCEPT !.pc = how, !.at = Missing]
                       IN  j.pc = how /\ j.at = Missing /\ j.old = job[t].old
    BY <1>1 DEF JobType
  <1>4. proc[p].pc # "off"
    BY DEF EndStep, Exit, Kill
  <1>5. /\ past'.raced = past.raced /\ past'.adopted = past.adopted
        /\ past'.overlap = past.overlap
        /\ past'.torn = (past.torn \/ \E t \in JobsOf(p) : job[t].pc = "write")
    BY <1>1 DEF EndStep, Exit, Kill, PastType
  <1>6. ASSUME NEW t \in Job
        PROVE  IF t \in JobsOf(p)
               THEN /\ job'[t].pc \in {"cut", "overdue", "lost"} /\ job'[t].at = Missing
                    /\ job'[t].old = job[t].old
                    /\ job'[t].pc = "cut" => proc[p].pc = "grace" /\ ~proc[p].waited
               ELSE job'[t] = job[t]
    <2>1. job'[t] = IF t \in JobsOf(p) THEN [job[t] EXCEPT !.pc = how, !.at = Missing] ELSE job[t]
      BY <1>2 DEF Gone
    <2> QED BY <1>2, <1>3, <2>1
  <1>7. proc' = [proc EXCEPT ![p] = NoProc] /\ proc'[p].pc = "off"
    BY <1>1, <1>2, NoProcType DEF Gone
  <1>8. owner' = (IF owner = p THEN Missing ELSE owner) /\ UNCHANGED <<params, settings, vectors, kept>>
    BY <1>2 DEF Gone
  <1> QED BY <1>4, <1>5, <1>6, <1>7, <1>8

\* A step of a push leaves where processes are.
LEMMA JobEffect ==
    ASSUME LifeBase, NEW t \in Job, JobStep(t)
    PROVE  /\ job[t].pc \in LivePC /\ job[t].at \in Proc
           /\ UNCHANGED <<params, owner, past>>
           /\ \A q \in Proc : /\ proc'[q].pc = proc[q].pc /\ proc'[q].env = proc[q].env
                              /\ proc'[q].caching = proc[q].caching /\ proc'[q].ro = proc[q].ro
                              /\ proc'[q].waited = proc[q].waited
           /\ \A u \in Job \ {t} : job'[u] = job[u]
           /\ job'[t].pc \in LivePC => job'[t].at = job[t].at
           /\ job'[t].pc \in LivePC \cup {"done"}
  <1> DEFINE p == job[t].at
  <1>1. job[t].pc \in LivePC
    BY DEF JobStep, InsertSetting, TruncateSettings, WriteSettings, RunJob, StoreVectors,
        EndJob, JobPanics, LivePC
  <1>2. proc \in [Proc -> ProcType] /\ job \in [Job -> JobType] /\ p \in Proc
    BY <1>1 DEF LifeBase, LifeTypeOK, JobsPlaced
  <1>3. /\ UNCHANGED <<params, owner, past>>
        /\ \/ UNCHANGED proc
           \/ \E m : proc' = [proc EXCEPT ![p].map = m]
           \/ \E n : proc' = [proc EXCEPT ![p].active = n]
    BY DEF JobStep, InsertSetting, TruncateSettings, WriteSettings, RunJob, StoreVectors,
        EndJob, JobPanics
  <1>4. \A q \in Proc : /\ proc'[q].pc = proc[q].pc /\ proc'[q].env = proc[q].env
                        /\ proc'[q].caching = proc[q].caching /\ proc'[q].ro = proc[q].ro
                        /\ proc'[q].waited = proc[q].waited
    <2> SUFFICES ASSUME NEW q \in Proc
                 PROVE  /\ proc'[q].pc = proc[q].pc /\ proc'[q].env = proc[q].env
                        /\ proc'[q].caching = proc[q].caching /\ proc'[q].ro = proc[q].ro
                        /\ proc'[q].waited = proc[q].waited
      OBVIOUS
    <2>1. ASSUME NEW m, proc' = [proc EXCEPT ![p].map = m]
          PROVE  proc'[q] = proc[q] \/ proc'[q] = [proc[q] EXCEPT !.map = m]
      BY <1>2, <2>1
    <2>2. ASSUME NEW n, proc' = [proc EXCEPT ![p].active = n]
          PROVE  proc'[q] = proc[q] \/ proc'[q] = [proc[q] EXCEPT !.active = n]
      BY <1>2, <2>2
    <2>3. \A m : LET y == [proc[q] EXCEPT !.map = m]
                 IN  /\ y.pc = proc[q].pc /\ y.env = proc[q].env
                     /\ y.caching = proc[q].caching /\ y.ro = proc[q].ro
                     /\ y.waited = proc[q].waited
      BY <1>2 DEF ProcType
    <2>4. \A n : LET y == [proc[q] EXCEPT !.active = n]
                 IN  /\ y.pc = proc[q].pc /\ y.env = proc[q].env
                     /\ y.caching = proc[q].caching /\ y.ro = proc[q].ro
                     /\ y.waited = proc[q].waited
      BY <1>2 DEF ProcType
    <2>5. CASE UNCHANGED proc
      BY <2>5
    <2>6. CASE \E m : proc' = [proc EXCEPT ![p].map = m]
      <3>1. PICK m : proc' = [proc EXCEPT ![p].map = m]
        BY <2>6
      <3>2. proc'[q] = proc[q] \/ proc'[q] = [proc[q] EXCEPT !.map = m]
        BY <2>1, <3>1
      <3>3. CASE proc'[q] = proc[q]
        BY <3>3
      <3>4. CASE proc'[q] = [proc[q] EXCEPT !.map = m]
        BY <2>3, <3>4
      <3> QED BY <3>2, <3>3, <3>4
    <2>7. CASE \E n : proc' = [proc EXCEPT ![p].active = n]
      <3>1. PICK n : proc' = [proc EXCEPT ![p].active = n]
        BY <2>7
      <3>2. proc'[q] = proc[q] \/ proc'[q] = [proc[q] EXCEPT !.active = n]
        BY <2>2, <3>1
      <3>3. CASE proc'[q] = proc[q]
        BY <3>3
      <3>4. CASE proc'[q] = [proc[q] EXCEPT !.active = n]
        BY <2>4, <3>4
      <3> QED BY <3>2, <3>3, <3>4
    <2> QED BY <1>3, <2>5, <2>6, <2>7
  <1>5. \/ UNCHANGED job
        \/ \E s \in LivePC : job' = [job EXCEPT ![t].pc = s]
        \/ job' = [job EXCEPT ![t] = [NoJob EXCEPT !.pc = "done"]]
    BY DEF JobStep, InsertSetting, TruncateSettings, WriteSettings, RunJob, StoreVectors,
        EndJob, JobPanics, LivePC
  <1>6. /\ \A u \in Job \ {t} : job'[u] = job[u]
        /\ job'[t].pc \in LivePC => job'[t].at = job[t].at
        /\ job'[t].pc \in LivePC \cup {"done"}
    BY <1>1, <1>2, <1>5 DEF JobType, NoJob, LivePC
  <1> QED BY <1>1, <1>2, <1>3, <1>4, <1>6

\* A push arrives at a server that answers.
LEMMA ArriveEffect ==
    ASSUME LifeTypeOK, NEW t \in Job, NEW p \in Proc, NEW clustering \in BOOLEAN,
           Arrive(t, p, clustering)
    PROVE  /\ job[t].pc = "none" /\ Answering(p)
           /\ UNCHANGED <<params, settings, vectors, owner, proc, kept, past>>
           /\ \A u \in Job \ {t} : job'[u] = job[u]
           /\ job'[t].pc \in {"setting", "waiting"} /\ job'[t].at = p /\ ~job'[t].old
  BY DEF LifeTypeOK, Arrive, NoJob

\* drop-store keeps processes and pushes, and takes the store away.
LEMMA DropEffect ==
    ASSUME LifeTypeOK, DropStore
    PROVE  /\ LifeTypeOK' /\ UNCHANGED <<owner, proc, job>>
           /\ params' = NoFile /\ settings' = {} /\ vectors' = {} /\ kept' = {}
           /\ \A p \in Proc : proc[p].pc = "off"
  <1>1. past' \in PastType
    BY DEF LifeTypeOK, DropStore, PastType
  <1> QED BY <1>1 DEF LifeTypeOK, DropStore

\* Every step is of one of these kinds.
LEMMA LifeKinds ==
    ASSUME [LifeAction]_lifeVars
    PROVE  \/ \E p \in Proc : StartStep(p) \/ WaitStep(p) \/ EndStep(p)
           \/ \E p \in Proc, t \in Job, clustering \in BOOLEAN : Arrive(t, p, clustering)
           \/ \E t \in Job : JobStep(t)
           \/ DropStore
           \/ UNCHANGED lifeVars
  BY DEF LifeAction, LifeNext, StartStep, WaitStep, EndStep, JobStep

\* Types and places are kept by every step.
LEMMA LifeBaseStep ==
    ASSUME LifeBase, [LifeAction]_lifeVars
    PROVE  LifeBase'
  <1> USE DEF LifeBase
  <1>1. ASSUME NEW p \in Proc, StartStep(p)
        PROVE  LifeBase'
    <2>1. LifeTypeOK'
      BY <1>1, StartTypes DEF StartStep
    <2>2. JobsPlaced'
      BY <1>1, StartEffect DEF JobsPlaced, Answering
    <2> QED BY <2>1, <2>2
  <1>2. ASSUME NEW p \in Proc, WaitStep(p)
        PROVE  LifeBase'
    <2>1. LifeTypeOK'
      BY <1>2, StopTypes DEF WaitStep
    <2>2. JobsPlaced'
      BY <1>2, WaitEffect DEF JobsPlaced, Answering
    <2> QED BY <2>1, <2>2
  <1>3. ASSUME NEW p \in Proc, EndStep(p)
        PROVE  LifeBase'
    <2>1. LifeTypeOK'
      BY <1>3, StopTypes DEF EndStep
    <2>2. JobsPlaced'
      <3>1. SUFFICES ASSUME NEW t \in Job, job'[t].pc \in LivePC
                     PROVE  job'[t].at \in Proc /\ Answering(job[t].at)'
        BY DEF JobsPlaced
      <3>2. t \notin JobsOf(p) /\ job'[t] = job[t]
        BY <1>3, <3>1, EndEffect DEF LivePC
      <3>3. job[t].at \in Proc \ {p} /\ Answering(job[t].at)
        BY <3>1, <3>2 DEF JobsPlaced, JobsOf, LivePC
      <3>4. proc'[job[t].at] = proc[job[t].at]
        BY <1>3, <3>3, EndEffect DEF LifeTypeOK
      <3> QED BY <3>2, <3>3, <3>4 DEF Answering
    <2> QED BY <2>1, <2>2
  <1>4. ASSUME NEW p \in Proc, NEW t \in Job, NEW clustering \in BOOLEAN, Arrive(t, p, clustering)
        PROVE  LifeBase'
    <2>1. LifeTypeOK'
      BY <1>4, JobTypes
    <2>2. JobsPlaced'
      BY <1>4, ArriveEffect DEF JobsPlaced, Answering
    <2> QED BY <2>1, <2>2
  <1>5. ASSUME NEW t \in Job, JobStep(t)
        PROVE  LifeBase'
    <2>1. LifeTypeOK'
      BY <1>5, JobTypes DEF JobStep
    <2>2. JobsPlaced'
      BY <1>5, JobEffect DEF JobsPlaced, Answering
    <2> QED BY <2>1, <2>2
  <1>6. CASE DropStore
    BY <1>6, DropEffect DEF JobsPlaced, Answering
  <1>7. CASE UNCHANGED lifeVars
    BY <1>7 DEF lifeVars, LifeTypeOK, JobsPlaced, Answering
  <1> QED BY <1>1, <1>2, <1>3, <1>4, <1>5, <1>6, <1>7, LifeKinds

\* In every behaviour the variables have their types, and a push that is alive is
\* at a server that answers.
THEOREM LifePlaces == LifeSpec => []LifeBase
  <1>1. LifeInit => LifeBase
    BY LifeBaseInit
  <1>2. LifeBase /\ [LifeAction]_lifeVars => LifeBase'
    BY LifeBaseStep
  <1> QED BY <1>1, <1>2, PTL DEF LifeSpec, LifeAction

-----------------------------------------------------------------------------
(* The start.                                                              *)

\* Parameters that both match one locked file mean the same vectors.
LEMMA MatchMeansSpace ==
    ASSUME NEW file \in LockedType, NEW e \in Envs, NEW f \in Envs,
           params_match(file, Locked(e)), params_match(file, Locked(f))
    PROVE  Space(e) = Space(f)
  <1>1. e \in EnvType /\ f \in EnvType
    BY EnvsAssumption
  <1>2. \A x \in EnvType : /\ Locked(x).model = x.model
                           /\ effective_prefixes(Locked(x)) = resolve_prefixes(x)
                           /\ Locked(x).clustering = Slot2(x)
    BY DEF EnvType, Locked, effective_prefixes, resolve_prefixes, prefixes_for_model, Missing
  <1>3. Slot1(e) = Slot1(f)
    BY <1>1, <1>2 DEF params_match, slots_match, Slot1
  <1>4. Len(Slot2(e)) = Len(Slot2(f))
    BY <1>1, <1>2 DEF params_match
  <1>5. \A x \in EnvType : x.model2 = Missing <=> Len(Slot2(x)) = 0
    BY DEF Slot2
  <1>6. CASE e.model2 = Missing
    BY <1>1, <1>3, <1>4, <1>5, <1>6 DEF Space
  <1>7. CASE e.model2 # Missing
    <2>1. f.model2 # Missing
      BY <1>1, <1>4, <1>5, <1>7
    <2>2. \A x \in EnvType : x.model2 # Missing =>
             /\ Slot2(x)[1].model = x.model2 /\ Len(Slot2(x)) = 1
      BY DEF Slot2
    <2>3. 1 \in DOMAIN file.clustering
      <3>1. Len(file.clustering) = 1 /\ file.clustering \in Seq(SlotType)
        BY <1>1, <1>2, <1>7, <2>2 DEF params_match, LockedType
      <3> QED BY <3>1
    <2>4. e.model2 = f.model2
      BY <1>1, <1>2, <1>7, <2>1, <2>2, <2>3 DEF params_match, slots_match
    <2> QED BY <1>3, <1>7, <2>1, <2>4 DEF Space
  <1> QED BY <1>6, <1>7

\* A start passes the check of what it locked.
LEMMA MatchItself ==
    ASSUME NEW e \in Envs
    PROVE  params_match(Locked(e), Locked(e))
  BY DEF params_match, slots_match

\* A server that passes the check makes vectors of the space that the file records.
LEMMA MatchMeansRecorded ==
    ASSUME NEW file \in LockedType, NEW e \in Envs, params_match(file, Locked(e))
    PROVE  Space(e) = RecordedSpace(file)
  <1>1. e \in EnvType
    BY EnvsAssumption
  <1>2. /\ effective_prefixes(Locked(e)) = resolve_prefixes(e) /\ Locked(e).model = e.model
        /\ Locked(e).clustering = Slot2(e)
    BY <1>1 DEF EnvType, Locked, effective_prefixes, resolve_prefixes, prefixes_for_model, Missing
  <1>3. RecordedSlot(file) = Slot1(e)
    BY <1>2 DEF params_match, slots_match, Slot1, RecordedSlot
  <1>4. file.clustering \in Seq(SlotType) /\ Len(file.clustering) = Len(Slot2(e))
    BY <1>2 DEF params_match, LockedType
  <1>5. CASE e.model2 = Missing
    <2>1. file.clustering = << >>
      BY <1>4, <1>5 DEF Slot2
    <2> QED BY <1>3, <1>5, <2>1 DEF Space, RecordedSpace
  <1>6. CASE e.model2 # Missing
    <2>1. /\ Slot2(e)[1].model = e.model2 /\ Len(Slot2(e)) = 1
          /\ effective_prefixes(Slot2(e)[1]) = prefixes_for_model(e.model2)
      BY <1>6 DEF Slot2, effective_prefixes, prefixes_for_model, Missing
    <2>2. 1 \in DOMAIN file.clustering /\ file.clustering # << >>
      <3>1. Len(file.clustering) = 1 /\ file.clustering \in Seq(SlotType)
        BY <1>4, <2>1
      <3>2. 1 \in DOMAIN file.clustering
        BY <3>1
      <3>3. Len(file.clustering) # Len(<< >>)
        BY <3>1
      <3> QED BY <3>2, <3>3
    <2>3. RecordedSlot(file.clustering[1]) = <<e.model2, prefixes_for_model(e.model2)>>
      BY <1>2, <2>1, <2>2 DEF params_match, slots_match, RecordedSlot
    <2> QED BY <1>3, <1>6, <2>2, <2>3 DEF Space, RecordedSpace
  <1> QED BY <1>5, <1>6

\* The owner and the guard of the start, in the initial state.
LEMMA OwnerInit ==
    ASSUME LifeInit
    PROVE  OwnerInv /\ GuardInv
  <1>1. OwnerInv
    BY NoProcType, LifeNamesAssumption DEF LifeInit, OwnerInv
  <1>2. \A p \in Proc : ~Passed(p) /\ proc[p].pc # "locking"
    BY NoProcType DEF LifeInit, Passed, Loaded
  <1>3. PICK s \in Stores : params = s.params /\ vectors = s.vectors
    BY DEF LifeInit
  <1>4. params \in LockedType => \A env \in Envs :
           params_match(params, Locked(env)) => vectors \subseteq {Space(env)}
    BY <1>3, StoresAssumption, MatchMeansRecorded
  <1> QED BY <1>1, <1>2, <1>3, <1>4, StoresAssumption DEF GuardInv

\* The lock of the cache is opened by one process and released at its end.
LEMMA OwnerStep ==
    ASSUME LifeBase, OwnerInv, [LifeAction]_lifeVars
    PROVE  OwnerInv'
  <1> USE DEF LifeBase
  <1>0. proc \in [Proc -> ProcType] /\ owner \in Proc \cup {Missing}
    BY DEF LifeTypeOK
  <1>1. ASSUME NEW p \in Proc, StartStep(p)
        PROVE  OwnerInv'
    <2>1. \A q \in Proc \ {p} : proc'[q] = proc[q]
      BY <1>1, StartEffect
    <2>2. CASE OpenCache(p)
      <3>1. /\ proc'[p].pc = "bind" /\ proc'[p].caching = proc[p].caching
            /\ proc'[p].ro = (proc[p].caching /\ owner # Missing)
        <4> DEFINE y == [proc[p] EXCEPT !.pc = "bind", !.ro = proc[p].caching /\ owner # Missing]
        <4>1. proc' = [proc EXCEPT ![p] = y]
          BY <2>2 DEF OpenCache
        <4>2. /\ y.pc = "bind" /\ y.caching = proc[p].caching
              /\ y.ro = (proc[p].caching /\ owner # Missing)
          BY <1>0 DEF ProcType
        <4> QED BY <1>0, <4>1, <4>2
      <3>2. owner' = IF proc[p].caching /\ owner = Missing THEN p ELSE owner
        BY <2>2 DEF OpenCache
      <3>3. owner # p
        BY <2>2 DEF OwnerInv, OpenCache
      <3> QED BY <1>0, <2>1, <3>1, <3>2, <3>3, LifeNamesAssumption DEF OwnerInv
    <2>3. CASE Listen(p)
      <3>1. /\ proc'[p].pc = "serving" /\ proc'[p].caching = proc[p].caching
            /\ proc'[p].ro = proc[p].ro
        BY <1>0, <2>3 DEF Listen, ProcType
      <3> QED BY <1>0, <2>1, <2>3, <3>1 DEF OwnerInv, Listen
    <2>4. CASE ~OpenCache(p) /\ ~Listen(p)
      <3>1. proc'[p].pc \notin {"bind", "serving", "draining", "grace"}
        <4>1. CASE \E env \in Envs, caching \in BOOLEAN : Boot(p, env, caching)
          BY <1>0, <4>1, NoProcType DEF Boot, ProcType
        <4>2. CASE Verify(p)
          BY <1>0, <4>2, NoProcType DEF Verify, ProcType
        <4>3. CASE LockParams(p) \/ LockWritten(p)
          BY <1>0, <4>3 DEF LockParams, LockWritten, ProcType
        <4>4. CASE LoadSettings(p)
          <5> DEFINE m == IF settings = Torn THEN {} ELSE settings
          <5>1. proc' = [proc EXCEPT ![p] = [proc[p] EXCEPT !.pc = "probe", !.map = m]]
            BY <4>4 DEF LoadSettings
          <5>2. [proc[p] EXCEPT !.pc = "probe", !.map = m].pc = "probe"
            BY <1>0 DEF ProcType
          <5> QED BY <1>0, <5>1, <5>2
        <4> QED BY <1>1, <2>4, <4>1, <4>2, <4>3, <4>4 DEF StartStep
      <3>2. owner' = owner /\ proc[p].pc \notin {"bind", "serving", "draining", "grace"}
        BY <1>1, <2>4 DEF StartStep, Boot, Verify, LockParams, LockWritten, LoadSettings
      <3> QED BY <1>0, <2>1, <3>1, <3>2 DEF OwnerInv
    <2> QED BY <2>2, <2>3, <2>4
  <1>2. ASSUME NEW p \in Proc, WaitStep(p)
        PROVE  OwnerInv'
    BY <1>2, WaitEffect DEF OwnerInv, Answering
  <1>3. ASSUME NEW p \in Proc, EndStep(p)
        PROVE  OwnerInv'
    <2>1. /\ proc'[p].pc = "off" /\ owner' = IF owner = p THEN Missing ELSE owner
          /\ \A q \in Proc \ {p} : proc'[q] = proc[q]
      BY <1>0, <1>3, EndEffect
    <2> QED BY <2>1, LifeNamesAssumption DEF OwnerInv
  <1>4. ASSUME NEW p \in Proc, NEW t \in Job, NEW clustering \in BOOLEAN, Arrive(t, p, clustering)
        PROVE  OwnerInv'
    BY <1>4, ArriveEffect DEF OwnerInv
  <1>5. ASSUME NEW t \in Job, JobStep(t)
        PROVE  OwnerInv'
    BY <1>5, JobEffect DEF OwnerInv
  <1>6. CASE DropStore
    BY <1>6, DropEffect DEF OwnerInv
  <1>7. CASE UNCHANGED lifeVars
    BY <1>7 DEF lifeVars, OwnerInv
  <1> QED BY <1>1, <1>2, <1>3, <1>4, <1>5, <1>6, <1>7, LifeKinds

\* Until two first starts race or a store without parameters is adopted, the file of
\* parameters, the vectors and the processes that passed the check agree.
LEMMA GuardStep ==
    ASSUME LifeBase, GuardInv, [LifeAction]_lifeVars
    PROVE  GuardInv'
  <1> USE DEF LifeBase
  <1>0. /\ proc \in [Proc -> ProcType] /\ past \in PastType
        /\ params \in LockedType \cup {NoFile, TornFile}
        /\ \A q \in Proc : proc[q].pc # "off" => proc[q].env \in Envs
    BY DEF LifeTypeOK
  <1> DEFINE Clean == ~past.raced /\ ~past.adopted
             Fits(q) == params \in LockedType /\ params_match(params, Locked(proc[q].env))
  \* A step of p that leaves the file and the vectors alone.
  <1>1. ASSUME NEW p \in Proc, \A q \in Proc \ {p} : proc'[q] = proc[q],
               UNCHANGED <<params, vectors>>, Clean' => Clean,
               proc'[p].pc # "locking",
               Clean /\ Passed(p)' => Fits(p)'
        PROVE  GuardInv'
    <2>1. SUFFICES ASSUME Clean'
                   PROVE  GuardInv'
      BY DEF GuardInv
    <2>2. Clean
      BY <1>1, <2>1
    <2>3. /\ \A x, y \in vectors' : x = y
          /\ params' \in LockedType => \A env \in Envs :
                params_match(params', Locked(env)) => vectors' \subseteq {Space(env)}
      BY <1>1, <2>2 DEF GuardInv
    <2>4. \A q \in Proc : Passed(q)' => Fits(q)'
      BY <1>1, <2>2 DEF GuardInv, Passed, Loaded
    <2>5. \A q \in Proc : proc'[q].pc = "locking" => params' = TornFile /\ vectors' = {}
      BY <1>1, <2>2 DEF GuardInv
    <2>6. \A q, r \in Proc : proc'[q].pc = "locking" /\ proc'[r].pc = "locking" => q = r
      BY <1>1, <2>2 DEF GuardInv
    <2> QED BY <2>3, <2>4, <2>5, <2>6 DEF GuardInv
  <1>2. ASSUME NEW p \in Proc, StartStep(p)
        PROVE  GuardInv'
    <2>1. \A q \in Proc \ {p} : proc'[q] = proc[q]
      BY <1>2, StartEffect
    <2>2. CASE \E env \in Envs, caching \in BOOLEAN : Boot(p, env, caching)
      <3>1. proc'[p].pc = "verify" /\ UNCHANGED <<params, vectors>>
        BY <1>0, <2>2, NoProcType DEF Boot, ProcType
      <3>2. Clean' => Clean
        BY <1>0, <2>2 DEF Boot, PastType
      <3> QED BY <1>1, <2>1, <3>1, <3>2 DEF Passed, Loaded
    <2>3. CASE Verify(p)
      <3>1. CASE proc' = [proc EXCEPT ![p] = NoProc]
        BY <1>0, <1>1, <2>1, <2>3, <3>1, NoProcType DEF Verify, Passed, Loaded
      <3>2. CASE proc' = [proc EXCEPT ![p] = [proc[p] EXCEPT !.pc = "lock"]]
        <4>1. proc'[p].pc = "lock"
          BY <1>0, <3>2 DEF ProcType
        <4> QED BY <1>1, <2>1, <2>3, <4>1 DEF Verify, Passed, Loaded
      <3>3. CASE /\ params # NoFile /\ params # TornFile /\ params_match(params, Locked(proc[p].env))
                 /\ proc' = [proc EXCEPT ![p] = [proc[p] EXCEPT !.pc = "load"]]
        <4>1. proc'[p].pc = "load" /\ proc'[p].env = proc[p].env
          BY <1>0, <3>3 DEF ProcType
        <4>2. Fits(p) /\ params' = params
          BY <1>0, <2>3, <3>3 DEF Verify
        <4> QED BY <1>1, <2>1, <2>3, <4>1, <4>2 DEF Verify, Passed, Loaded
      <3> QED BY <2>3, <3>1, <3>2, <3>3 DEF Verify
    <2>4. CASE LockParams(p)
      <3>1. SUFFICES ASSUME Clean'
                     PROVE  GuardInv'
        BY DEF GuardInv
      <3>2. Clean /\ params = NoFile /\ vectors = {}
        BY <1>0, <2>4, <3>1 DEF LockParams, PastType
      <3>3. \A q \in Proc : ~Passed(q) /\ proc[q].pc # "locking"
        BY <3>2, NoFileDistinct DEF GuardInv
      <3>4. proc'[p].pc = "locking" /\ params' = TornFile /\ vectors' = {}
        BY <1>0, <2>4, <3>2 DEF LockParams, ProcType
      <3>5. \A q \in Proc : ~Passed(q)' /\ (proc'[q].pc = "locking" => q = p)
        BY <2>1, <3>3, <3>4 DEF Passed, Loaded
      <3> QED BY <3>4, <3>5, NoFileDistinct DEF GuardInv
    <2>5. CASE LockWritten(p)
      <3>1. SUFFICES ASSUME Clean'
                     PROVE  GuardInv'
        BY DEF GuardInv
      <3>2. Clean /\ params = TornFile
        BY <1>0, <2>5, <3>1 DEF LockWritten, PastType
      <3>3. vectors = {} /\ \A q \in Proc : ~Passed(q) /\ (proc[q].pc = "locking" => q = p)
        BY <2>5, <3>2, NoFileDistinct DEF GuardInv, LockWritten
      <3>4. /\ proc'[p].pc = "load" /\ proc'[p].env = proc[p].env /\ vectors' = {}
            /\ params' = Locked(proc[p].env) /\ proc[p].env \in Envs
        BY <1>0, <2>5, <3>3 DEF LockWritten, ProcType
      <3>5. Fits(p)'
        BY <3>4, LockedTypes, MatchItself
      <3>6. \A q \in Proc : (Passed(q)' => q = p) /\ proc'[q].pc # "locking"
        BY <2>1, <3>3, <3>4 DEF Passed, Loaded
      <3> QED BY <3>4, <3>5, <3>6 DEF GuardInv
    <2>6. CASE LoadSettings(p) \/ OpenCache(p) \/ Listen(p)
      <3>1. /\ Passed(p) /\ proc'[p].pc # "locking" /\ proc'[p].env = proc[p].env
        <4>1. CASE LoadSettings(p)
          <5> DEFINE m == IF settings = Torn THEN {} ELSE settings
                     y == [proc[p] EXCEPT !.pc = "probe", !.map = m]
          <5>1. proc' = [proc EXCEPT ![p] = y] /\ proc[p].pc = "load"
            BY <4>1 DEF LoadSettings
          <5>2. y.pc = "probe" /\ y.env = proc[p].env
            BY <1>0 DEF ProcType
          <5> QED BY <1>0, <5>1, <5>2 DEF Passed, Loaded
        <4>2. CASE OpenCache(p)
          <5> DEFINE y == [proc[p] EXCEPT !.pc = "bind", !.ro = proc[p].caching /\ owner # Missing]
          <5>1. proc' = [proc EXCEPT ![p] = y] /\ proc[p].pc = "probe"
            BY <4>2 DEF OpenCache
          <5>2. y.pc = "bind" /\ y.env = proc[p].env
            BY <1>0 DEF ProcType
          <5> QED BY <1>0, <5>1, <5>2 DEF Passed, Loaded
        <4>3. CASE Listen(p)
          BY <1>0, <4>3 DEF Listen, ProcType, Passed, Loaded
        <4> QED BY <2>6, <4>1, <4>2, <4>3
      <3>2. UNCHANGED <<params, vectors>>
        BY <2>6 DEF LoadSettings, OpenCache, Listen
      <3>3. Clean' = Clean
        BY <1>0, <2>6 DEF LoadSettings, OpenCache, Listen, PastType
      <3>4. Clean => Fits(p)
        BY <3>1 DEF GuardInv
      <3> QED BY <1>1, <2>1, <3>1, <3>2, <3>3, <3>4
    <2> QED BY <1>2, <2>2, <2>3, <2>4, <2>5, <2>6 DEF StartStep
  <1>3. ASSUME NEW p \in Proc, WaitStep(p)
        PROVE  GuardInv'
    <2>1. Clean => Fits(p)
      BY <1>3, WaitEffect DEF GuardInv, Passed, Loaded, Answering
    <2> QED BY <1>1, <1>3, <2>1, WaitEffect DEF Answering
  <1>4. ASSUME NEW p \in Proc, EndStep(p)
        PROVE  GuardInv'
    <2>1. /\ proc'[p].pc = "off" /\ \A q \in Proc \ {p} : proc'[q] = proc[q]
          /\ UNCHANGED <<params, vectors>> /\ Clean' = Clean
      BY <1>0, <1>4, EndEffect
    <2> QED BY <1>1, <2>1 DEF Passed, Loaded
  <1>5. ASSUME NEW p \in Proc, NEW t \in Job, NEW clustering \in BOOLEAN, Arrive(t, p, clustering)
        PROVE  GuardInv'
    BY <1>5, ArriveEffect DEF GuardInv, Passed, Loaded
  <1>6. ASSUME NEW t \in Job, JobStep(t)
        PROVE  GuardInv'
    <2>1. SUFFICES ASSUME Clean'
                   PROVE  GuardInv'
      BY DEF GuardInv
    <2>2. /\ Clean /\ params' = params /\ job[t].at \in Proc /\ job[t].pc \in LivePC
          /\ \A q \in Proc : proc'[q].pc = proc[q].pc /\ proc'[q].env = proc[q].env
      BY <1>6, <2>1, JobEffect
    <2>3. \A q \in Proc : Passed(q)' => Fits(q)'
      BY <2>2 DEF GuardInv, Passed, Loaded
    <2>4. \A q, r \in Proc : proc'[q].pc = "locking" /\ proc'[r].pc = "locking" => q = r
      BY <2>2 DEF GuardInv
    <2>5. CASE StoreVectors(t)
      <3> DEFINE p == job[t].at
                 e == proc[p].env
      <3>1. Answering(p) /\ p \in Proc
        BY <2>2 DEF JobsPlaced
      <3>2. Fits(p) /\ e \in Envs
        BY <1>0, <2>2, <3>1 DEF GuardInv, Passed, Loaded, Answering
      <3>3. vectors' \subseteq {Space(e)}
        <4>1. vectors \subseteq {Space(e)}
          BY <2>2, <3>2 DEF GuardInv
        <4>2. vectors' = vectors \cup {Space(e)}
          BY <2>5 DEF StoreVectors
        <4> QED BY <4>1, <4>2
      <3>4. \A env \in Envs : params_match(params, Locked(env)) => Space(env) = Space(e)
        BY <3>2, MatchMeansSpace
      <3>5. /\ \A x, y \in vectors' : x = y
            /\ \A env \in Envs : params_match(params', Locked(env)) => vectors' \subseteq {Space(env)}
        BY <2>2, <3>3, <3>4
      <3>6. \A q \in Proc : proc'[q].pc # "locking"
        BY <2>2, <3>2, NoFileDistinct DEF GuardInv
      <3> QED BY <2>3, <2>4, <3>5, <3>6 DEF GuardInv
    <2>6. CASE vectors' = vectors
      <3>1. \A q \in Proc : proc'[q].pc = "locking" => params' = TornFile /\ vectors' = {}
        BY <2>2, <2>6 DEF GuardInv
      <3>2. /\ \A x, y \in vectors' : x = y
            /\ params' \in LockedType => \A env \in Envs :
                  params_match(params', Locked(env)) => vectors' \subseteq {Space(env)}
        BY <2>2, <2>6 DEF GuardInv
      <3> QED BY <2>3, <2>4, <3>1, <3>2 DEF GuardInv
    <2> QED BY <1>6, <2>5, <2>6
            DEF JobStep, InsertSetting, TruncateSettings, WriteSettings, RunJob, EndJob, JobPanics
  <1>7. CASE DropStore
    <2>1. /\ \A q \in Proc : proc'[q].pc = "off"
          /\ params' = NoFile /\ vectors' = {}
      BY <1>7, DropEffect
    <2> QED BY <2>1, NoFileDistinct DEF GuardInv, Passed, Loaded
  <1>8. CASE UNCHANGED lifeVars
    BY <1>8 DEF lifeVars, GuardInv, Passed, Loaded
  <1> QED BY <1>2, <1>3, <1>4, <1>5, <1>6, <1>7, <1>8, LifeKinds

\* What the invariants say of the servers that answer.
LEMMA GuardsFollow ==
    ASSUME LifeBase, OwnerInv, GuardInv
    PROVE  StartGuards
  <1> USE DEF LifeBase
  <1>1. \A p \in Proc : Answering(p) /\ proc[p].caching => proc[p].ro = (owner # p)
    BY DEF OwnerInv, Answering, LifeTypeOK, ProcType
  <1>2. ASSUME ~past.raced, ~past.adopted
        PROVE  /\ Cardinality(vectors) <= 1
               /\ \A p \in Proc : Answering(p) => vectors \subseteq {Space(proc[p].env)}
               /\ \A p, q \in Proc : Answering(p) /\ Answering(q) =>
                     Space(proc[p].env) = Space(proc[q].env)
    <2>1. Cardinality(vectors) <= 1
      <3>1. CASE vectors = {}
        BY <3>1, FS_EmptySet
      <3>2. CASE vectors # {}
        <4>1. PICK x \in vectors : TRUE
          BY <3>2
        <4>2. vectors = {x}
          BY <1>2, <4>1 DEF GuardInv
        <4>3. Cardinality({x}) = 1
          BY FS_Singleton
        <4> QED BY <4>2, <4>3
      <3> QED BY <3>1, <3>2
    <2>2. \A p \in Proc : Answering(p) => /\ params \in LockedType /\ proc[p].env \in Envs
                                          /\ params_match(params, Locked(proc[p].env))
      BY <1>2 DEF GuardInv, Passed, Loaded, Answering, LifeTypeOK
    <2>3. \A p \in Proc : Answering(p) => vectors \subseteq {Space(proc[p].env)}
      BY <1>2, <2>2 DEF GuardInv
    <2>4. \A p, q \in Proc : Answering(p) /\ Answering(q) =>
             Space(proc[p].env) = Space(proc[q].env)
      BY <2>2, MatchMeansSpace
    <2> QED BY <2>1, <2>3, <2>4
  <1> QED BY <1>1, <1>2 DEF StartGuards

\* In every behaviour the start of a server guards the store: one vector space for
\* what is stored and what is asked, and one writable server with the cache.
THEOREM StartsAreGuarded == LifeSpec => []StartGuards
  <1> DEFINE Inv == LifeBase /\ OwnerInv /\ GuardInv
  <1>1. LifeInit => Inv
    BY LifeBaseInit, OwnerInit
  <1>2. Inv /\ [LifeAction]_lifeVars => Inv'
    BY LifeBaseStep, OwnerStep, GuardStep
  <1>3. Inv => StartGuards
    BY GuardsFollow
  <1> QED BY <1>1, <1>2, <1>3, PTL DEF LifeSpec, LifeAction

-----------------------------------------------------------------------------
(* The settings.                                                           *)

\* No settings are in memory at first, and none were kept.
LEMMA MapInit ==
    ASSUME LifeInit
    PROVE  MapInv
  <1>1. /\ \A p \in Proc : proc[p].pc = "off"
        /\ \A t \in Job : job[t].pc = "none"
    BY NoProcType DEF LifeInit, NoJob
  <1> QED BY <1>1 DEF LifeInit, MapInv, Loaded, Torn

\* What a start does to the settings in memory.
LEMMA StartMap ==
    ASSUME LifeTypeOK, NEW p \in Proc, StartStep(p)
    PROVE  \/ /\ LoadSettings(p) /\ proc'[p].pc = "probe"
              /\ proc'[p].map = IF settings = Torn THEN {} ELSE settings
              /\ past'.torn = past.torn
              /\ past'.overlap = (past.overlap \/ \E q \in Proc \ {p} : Loaded(q))
           \/ /\ past'.torn = past.torn /\ past'.overlap = past.overlap
              /\ Loaded(p)' => Loaded(p) /\ proc'[p].map = proc[p].map
  <1>0. proc \in [Proc -> ProcType] /\ past \in PastType
    BY DEF LifeTypeOK
  <1>1. CASE LoadSettings(p)
    <2> DEFINE m == IF settings = Torn THEN {} ELSE settings
               y == [proc[p] EXCEPT !.pc = "probe", !.map = m]
    <2>1. proc' = [proc EXCEPT ![p] = y]
      BY <1>1 DEF LoadSettings
    <2>2. y.pc = "probe" /\ y.map = m
      BY <1>0 DEF ProcType
    <2>3. /\ past'.torn = past.torn
          /\ past'.overlap = (past.overlap \/ \E q \in Proc \ {p} : Loaded(q))
      BY <1>0, <1>1 DEF LoadSettings, PastType
    <2> QED BY <1>0, <1>1, <2>1, <2>2, <2>3
  <1>2. CASE ~LoadSettings(p)
    <2>1. past'.torn = past.torn /\ past'.overlap = past.overlap
      BY <1>0, <1>2 DEF StartStep, Boot, Verify, LockParams, LockWritten, OpenCache, Listen, PastType
    <2>2. CASE OpenCache(p)
      <3> DEFINE y == [proc[p] EXCEPT !.pc = "bind", !.ro = proc[p].caching /\ owner # Missing]
      <3>1. proc' = [proc EXCEPT ![p] = y] /\ proc[p].pc = "probe"
        BY <2>2 DEF OpenCache
      <3>2. y.map = proc[p].map
        BY <1>0 DEF ProcType
      <3> QED BY <1>0, <2>1, <3>1, <3>2 DEF Loaded
    <2>3. CASE Listen(p)
      BY <1>0, <2>1, <2>3 DEF Listen, Loaded, ProcType
    <2>4. CASE \E env \in Envs, caching \in BOOLEAN : Boot(p, env, caching)
      <3>1. proc'[p].pc = "verify"
        BY <1>0, <2>4, NoProcType DEF Boot, ProcType
      <3> QED BY <2>1, <3>1 DEF Loaded
    <2>5. CASE Verify(p) \/ LockParams(p) \/ LockWritten(p)
      <3>1. proc'[p].pc \in {"off", "lock", "locking", "load"}
        BY <1>0, <2>5, NoProcType DEF Verify, LockParams, LockWritten, ProcType
      <3> QED BY <2>1, <3>1 DEF Loaded
    <2> QED BY <1>2, <2>2, <2>3, <2>4, <2>5 DEF StartStep
  <1> QED BY <1>1, <1>2

\* What a push does to the settings, in memory and in the file.
LEMMA JobMap ==
    ASSUME LifeBase, NEW t \in Job, JobStep(t)
    PROVE  /\ \A q \in Proc : proc[q].map \subseteq proc'[q].map
           /\ \/ /\ job[t].pc = "setting" /\ job'[t].pc = "insert"
                 /\ UNCHANGED <<settings, kept>> /\ DbOf[t] \in proc'[job[t].at].map
              \/ /\ job[t].pc = "insert" /\ job'[t].pc = "write"
                 /\ settings' = Torn /\ kept' = kept
              \/ /\ job[t].pc = "write" /\ job'[t].pc = "waiting"
                 /\ settings' = proc[job[t].at].map /\ kept' = kept \cup {DbOf[t]}
              \/ /\ job[t].pc \notin {"insert", "write"} /\ job'[t].pc \notin {"insert", "write"}
                 /\ UNCHANGED <<settings, kept>>
  <1> DEFINE p == job[t].at
  <1>0. proc \in [Proc -> ProcType] /\ job \in [Job -> JobType] /\ p \in Proc
    BY JobEffect DEF LifeBase, LifeTypeOK
  <1>1. CASE InsertSetting(t)
    <2> DEFINE y == [proc[p] EXCEPT !.map = proc[p].map \cup {DbOf[t]}]
    <2>1. proc' = [proc EXCEPT ![p] = y]
      BY <1>1 DEF InsertSetting
    <2>2. y.map = proc[p].map \cup {DbOf[t]}
      BY <1>0 DEF ProcType
    <2>3. job[t].pc = "setting" /\ job'[t].pc = "insert" /\ UNCHANGED <<settings, kept>>
      BY <1>0, <1>1 DEF InsertSetting, JobType
    <2> QED BY <1>0, <2>1, <2>2, <2>3
  <1>2. CASE TruncateSettings(t)
    BY <1>0, <1>2 DEF TruncateSettings, JobType
  <1>3. CASE WriteSettings(t)
    BY <1>0, <1>3 DEF WriteSettings, JobType
  <1>4. CASE StoreVectors(t) \/ JobPanics(t)
    BY <1>0, <1>4 DEF StoreVectors, JobPanics, JobType
  <1>5. CASE RunJob(t) \/ EndJob(t)
    <2>1. PICK n : proc' = [proc EXCEPT ![p] = [proc[p] EXCEPT !.active = n]]
      BY <1>5 DEF RunJob, EndJob
    <2>2. [proc[p] EXCEPT !.active = n].map = proc[p].map
      BY <1>0 DEF ProcType
    <2>3. /\ job[t].pc \notin {"insert", "write"} /\ job'[t].pc \notin {"insert", "write"}
          /\ UNCHANGED <<settings, kept>>
      BY <1>0, <1>5 DEF RunJob, EndJob, JobType, NoJob
    <2> QED BY <1>0, <2>1, <2>2, <2>3
  <1> QED BY <1>1, <1>2, <1>3, <1>4, <1>5 DEF JobStep

\* One process that loaded the settings holds and writes all that was kept.
LEMMA MapStep ==
    ASSUME LifeBase, MapInv, [LifeAction]_lifeVars
    PROVE  MapInv'
  <1> USE DEF LifeBase
  <1>0. proc \in [Proc -> ProcType] /\ past \in PastType
    BY DEF LifeTypeOK
  <1> DEFINE One == \A p, q \in Proc : Loaded(p) /\ Loaded(q) => p = q
             TornByOne == settings = Torn => \E t \in Job : job[t].pc = "write"
             KeptInFile == settings # Torn => kept \subseteq settings
             KeptInMap == \A p \in Proc : Loaded(p) => kept \subseteq proc[p].map
             OwnInMap == \A t \in Job : job[t].pc \in {"insert", "write"} =>
                            DbOf[t] \in proc[job[t].at].map
  <1>a. MapInv = (~past.overlap => One /\ (~past.torn =>
                     TornByOne /\ KeptInFile /\ KeptInMap /\ OwnInMap))
    BY DEF MapInv
  <1>b. MapInv' = (~past'.overlap => One' /\ (~past'.torn =>
                     TornByOne' /\ KeptInFile' /\ KeptInMap' /\ OwnInMap'))
    BY DEF MapInv
  <1>1. ASSUME NEW p \in Proc, StartStep(p)
        PROVE  MapInv'
    <2>1. /\ ~Answering(p) /\ UNCHANGED <<settings, job, kept>>
          /\ \A q \in Proc \ {p} : proc'[q] = proc[q]
      BY <1>1, StartEffect
    <2>2. OwnInMap => OwnInMap'
      <3>1. \A t \in Job : job[t].pc \in {"insert", "write"} => job[t].at \in Proc \ {p}
        BY <2>1 DEF JobsPlaced, LivePC
      <3> QED BY <2>1, <3>1
    <2>3. CASE /\ LoadSettings(p) /\ proc'[p].pc = "probe"
               /\ proc'[p].map = IF settings = Torn THEN {} ELSE settings
               /\ past'.torn = past.torn
               /\ past'.overlap = (past.overlap \/ \E q \in Proc \ {p} : Loaded(q))
      <3>1. SUFFICES ASSUME ~past'.overlap
                     PROVE  One' /\ (~past'.torn =>
                               TornByOne' /\ KeptInFile' /\ KeptInMap' /\ OwnInMap')
        BY <1>b
      <3>2. ~past.overlap /\ \A q \in Proc \ {p} : ~Loaded(q)
        BY <2>3, <3>1
      <3>3. One' /\ \A q \in Proc : Loaded(q)' => q = p
        BY <2>1, <3>2 DEF Loaded
      <3>4. ASSUME ~past'.torn
            PROVE  TornByOne' /\ KeptInFile' /\ KeptInMap' /\ OwnInMap'
        <4>1. TornByOne /\ KeptInFile /\ OwnInMap
          BY <1>a, <2>3, <3>2, <3>4
        <4>2. \A t \in Job : job[t].pc # "write"
          <5>1. \A q \in Proc : ~Answering(q)
            BY <2>1, <3>2 DEF Loaded, Answering
          <5> QED BY <5>1 DEF JobsPlaced, LivePC
        <4>3. settings # Torn /\ kept \subseteq settings
          BY <4>1, <4>2
        <4>4. KeptInMap'
          BY <2>1, <2>3, <3>3, <4>3
        <4> QED BY <2>1, <2>2, <4>1, <4>3, <4>4
      <3> QED BY <3>3, <3>4
    <2>4. CASE /\ past'.torn = past.torn /\ past'.overlap = past.overlap
               /\ Loaded(p)' => Loaded(p) /\ proc'[p].map = proc[p].map
      <3>1. One => One'
        BY <2>1, <2>4 DEF Loaded
      <3>2. KeptInMap => KeptInMap'
        BY <2>1, <2>4 DEF Loaded
      <3>3. (TornByOne => TornByOne') /\ (KeptInFile => KeptInFile')
        BY <2>1
      <3> QED BY <1>a, <1>b, <2>2, <2>4, <3>1, <3>2, <3>3
    <2> QED BY <1>1, <2>3, <2>4, StartMap
  <1>2. ASSUME NEW p \in Proc, WaitStep(p)
        PROVE  MapInv'
    <2>1. /\ \A q \in Proc : (Loaded(q)' <=> Loaded(q)) /\ proc'[q].map = proc[q].map
          /\ UNCHANGED <<settings, kept, past>>
          /\ \A t \in Job : job'[t].pc = job[t].pc /\ job'[t].at = job[t].at
      BY <1>2, WaitEffect DEF Loaded, Answering
    <2>2. OwnInMap => OwnInMap'
      BY <2>1 DEF JobsPlaced, LivePC
    <2>3. /\ One => One'
          /\ TornByOne => TornByOne'
          /\ KeptInFile => KeptInFile'
          /\ KeptInMap => KeptInMap'
      BY <2>1
    <2> QED BY <1>a, <1>b, <2>1, <2>2, <2>3
  <1>3. ASSUME NEW p \in Proc, EndStep(p)
        PROVE  MapInv'
    <2>1. /\ proc'[p].pc = "off" /\ \A q \in Proc \ {p} : proc'[q] = proc[q]
          /\ UNCHANGED <<settings, kept>> /\ past'.overlap = past.overlap
          /\ past'.torn = (past.torn \/ \E t \in JobsOf(p) : job[t].pc = "write")
          /\ \A t \in Job : t \notin JobsOf(p) => job'[t] = job[t]
          /\ \A t \in Job : t \in JobsOf(p) => job'[t].pc \notin {"insert", "write"}
      BY <1>0, <1>3, EndEffect
    <2>2. One => One'
      BY <2>1 DEF Loaded
    <2>3. KeptInMap => KeptInMap'
      BY <2>1 DEF Loaded
    <2>4. OwnInMap => OwnInMap'
      <3>1. SUFFICES ASSUME OwnInMap, NEW t \in Job, job'[t].pc \in {"insert", "write"}
                     PROVE  DbOf[t] \in proc'[job'[t].at].map
        OBVIOUS
      <3>2. t \notin JobsOf(p) /\ job'[t] = job[t]
        BY <2>1, <3>1
      <3>3. job[t].at \in Proc \ {p}
        BY <3>1, <3>2 DEF JobsPlaced, JobsOf, LivePC
      <3> QED BY <2>1, <3>1, <3>2, <3>3
    <2>5. ~past'.torn /\ TornByOne => TornByOne'
      <3>1. SUFFICES ASSUME ~past'.torn, TornByOne, settings' = Torn
                     PROVE  \E t \in Job : job'[t].pc = "write"
        OBVIOUS
      <3>2. PICK t \in Job : job[t].pc = "write"
        BY <2>1, <3>1
      <3>3. t \notin JobsOf(p)
        BY <2>1, <3>1, <3>2
      <3> QED BY <2>1, <3>2, <3>3
    <2>6. KeptInFile => KeptInFile'
      BY <2>1
    <2> QED BY <1>a, <1>b, <2>1, <2>2, <2>3, <2>4, <2>5, <2>6
  <1>4. ASSUME NEW p \in Proc, NEW t \in Job, NEW clustering \in BOOLEAN, Arrive(t, p, clustering)
        PROVE  MapInv'
    <2>1. /\ job[t].pc = "none" /\ job'[t].pc \in {"setting", "waiting"}
          /\ UNCHANGED <<settings, proc, kept, past>> /\ \A u \in Job \ {t} : job'[u] = job[u]
      BY <1>4, ArriveEffect
    <2>2. /\ One => One'
          /\ KeptInFile => KeptInFile'
          /\ KeptInMap => KeptInMap'
      BY <2>1 DEF Loaded
    <2>3. (TornByOne => TornByOne') /\ (OwnInMap => OwnInMap')
      BY <2>1
    <2> QED BY <1>a, <1>b, <2>1, <2>2, <2>3
  <1>5. ASSUME NEW t \in Job, JobStep(t)
        PROVE  MapInv'
    <2> DEFINE p == job[t].at
    <2>1. /\ p \in Proc /\ past' = past /\ job[t].pc \in LivePC
          /\ \A q \in Proc : Loaded(q)' <=> Loaded(q)
          /\ \A u \in Job \ {t} : job'[u] = job[u]
          /\ job'[t].pc \in LivePC => job'[t].at = p
      BY <1>5, JobEffect DEF Loaded
    <2>2. \A q \in Proc : proc[q].map \subseteq proc'[q].map
      BY <1>5, JobMap
    <2>3. One => One'
      BY <2>1
    <2>4. KeptInMap /\ kept' = kept => KeptInMap'
      BY <2>1, <2>2
    <2>5. OwnInMap => \A u \in Job \ {t} : job'[u].pc \in {"insert", "write"} =>
             DbOf[u] \in proc'[job'[u].at].map
      <3>1. SUFFICES ASSUME OwnInMap, NEW u \in Job \ {t}, job'[u].pc \in {"insert", "write"}
                     PROVE  DbOf[u] \in proc'[job'[u].at].map
        OBVIOUS
      <3>2. job'[u] = job[u] /\ job[u].at \in Proc
        BY <2>1, <3>1 DEF JobsPlaced, LivePC
      <3> QED BY <2>2, <3>1, <3>2
    <2>6. CASE /\ job[t].pc = "setting" /\ job'[t].pc = "insert"
               /\ UNCHANGED <<settings, kept>> /\ DbOf[t] \in proc'[p].map
      <3>1. OwnInMap => OwnInMap'
        BY <2>1, <2>5, <2>6 DEF LivePC
      <3>2. (TornByOne => TornByOne') /\ (KeptInFile => KeptInFile')
        BY <2>1, <2>6
      <3> QED BY <1>a, <1>b, <2>1, <2>3, <2>4, <2>6, <3>1, <3>2
    <2>7. CASE /\ job[t].pc = "insert" /\ job'[t].pc = "write"
               /\ settings' = Torn /\ kept' = kept
      <3>1. OwnInMap => OwnInMap'
        <4>1. OwnInMap => DbOf[t] \in proc'[p].map
          BY <2>1, <2>2, <2>7
        <4> QED BY <2>1, <2>5, <2>7, <4>1 DEF LivePC
      <3>2. TornByOne' /\ KeptInFile'
        BY <2>7
      <3> QED BY <1>a, <1>b, <2>1, <2>3, <2>4, <2>7, <3>1, <3>2
    <2>8. CASE /\ job[t].pc = "write" /\ job'[t].pc = "waiting"
               /\ settings' = proc[p].map /\ kept' = kept \cup {DbOf[t]}
      <3>1. OwnInMap => OwnInMap'
        BY <2>1, <2>5, <2>8
      <3>2. settings' # Torn
        <4>1. settings' \subseteq Db
          BY <1>0, <2>1, <2>8 DEF ProcType
        <4> QED BY <4>1, LifeNamesAssumption DEF Torn
      <3>3. Loaded(p)
        BY <2>1 DEF JobsPlaced, Answering, Loaded
      <3>4. OwnInMap /\ KeptInMap => kept' \subseteq proc[p].map
        BY <2>1, <2>8, <3>3
      <3>5. OwnInMap /\ KeptInMap => KeptInFile'
        BY <2>8, <3>4
      <3>6. OwnInMap /\ KeptInMap /\ One => KeptInMap'
        <4>1. SUFFICES ASSUME OwnInMap, KeptInMap, One, NEW q \in Proc, Loaded(q)'
                       PROVE  kept' \subseteq proc'[q].map
          OBVIOUS
        <4>2. q = p
          BY <2>1, <3>3, <4>1
        <4> QED BY <2>1, <2>2, <3>4, <4>1, <4>2
      <3>7. TornByOne'
        BY <3>2
      <3> QED BY <1>a, <1>b, <2>1, <2>3, <3>1, <3>5, <3>6, <3>7
    <2>9. CASE /\ job[t].pc \notin {"insert", "write"} /\ job'[t].pc \notin {"insert", "write"}
               /\ UNCHANGED <<settings, kept>>
      <3>1. OwnInMap => OwnInMap'
        BY <2>1, <2>5, <2>9
      <3>2. (TornByOne => TornByOne') /\ (KeptInFile => KeptInFile')
        BY <2>1, <2>9
      <3> QED BY <1>a, <1>b, <2>1, <2>3, <2>4, <2>9, <3>1, <3>2
    <2> QED BY <1>5, <2>6, <2>7, <2>8, <2>9, JobMap
  <1>6. CASE DropStore
    <2>1. /\ \A p \in Proc : ~Loaded(p)' /\ ~Answering(p)
          /\ settings' = {} /\ kept' = {} /\ UNCHANGED <<proc, job>>
      BY <1>6, DropEffect DEF Loaded, Answering
    <2>2. \A t \in Job : job'[t].pc \notin {"insert", "write"}
      BY <2>1 DEF JobsPlaced, LivePC
    <2>3. One' /\ KeptInMap' /\ OwnInMap' /\ KeptInFile'
      BY <2>1, <2>2
    <2>4. TornByOne'
      BY <2>1 DEF Torn
    <2> QED BY <1>b, <2>3, <2>4
  <1>7. CASE UNCHANGED lifeVars
    BY <1>7 DEF lifeVars, MapInv, Loaded
  <1> QED BY <1>1, <1>2, <1>3, <1>4, <1>5, <1>6, <1>7, LifeKinds

\* In every behaviour a setting that was written stays in the file, until two
\* processes overlap or one is stopped inside the write.
THEOREM SettingsAreKept == LifeSpec => []SettingsKept
  <1> DEFINE Inv == LifeBase /\ MapInv
  <1>1. LifeInit => Inv
    BY LifeBaseInit, MapInit
  <1>2. Inv /\ [LifeAction]_lifeVars => Inv'
    BY LifeBaseStep, MapStep
  <1>3. Inv => SettingsKept
    BY DEF MapInv, SettingsKept
  <1> QED BY <1>1, <1>2, <1>3, PTL DEF LifeSpec, LifeAction

-----------------------------------------------------------------------------
(* The shutdown.                                                           *)

\* No push runs at first.
LEMMA DrainInit ==
    ASSUME LifeInit
    PROVE  DrainInv
  <1>1. /\ \A p \in Proc : proc[p].pc = "off" /\ proc[p].active = 0
        /\ \A t \in Job : job[t].pc = "none" /\ ~job[t].old
    BY NoProcType DEF LifeInit, NoJob
  <1>2. \A p \in Proc : RunningOf(p) = {}
    BY <1>1 DEF RunningOf
  <1> QED BY <1>1, <1>2, FS_EmptySet DEF DrainInv

\* A start counts no task, and is not the end.
LEMMA StartActive ==
    ASSUME LifeTypeOK, NEW p \in Proc, StartStep(p)
    PROVE  proc'[p].active \in {0, proc[p].active} /\ proc'[p].pc # "grace"
  <1>0. proc \in [Proc -> ProcType]
    BY DEF LifeTypeOK
  <1>1. CASE \E env \in Envs, caching \in BOOLEAN : Boot(p, env, caching)
    <2>1. PICK env \in Envs, caching \in BOOLEAN : Boot(p, env, caching)
      BY <1>1
    <2> DEFINE y == [NoProc EXCEPT !.pc = "verify", !.env = env, !.caching = caching]
    <2>2. proc' = [proc EXCEPT ![p] = y]
      BY <2>1 DEF Boot
    <2>3. y.pc = "verify" /\ y.active = NoProc.active
      BY NoProcType DEF ProcType
    <2> QED BY <1>0, <2>2, <2>3, NoProcType
  <1>2. CASE Verify(p)
    <2>1. \A s \in STRING : /\ [proc[p] EXCEPT !.pc = s].pc = s
                            /\ [proc[p] EXCEPT !.pc = s].active = proc[p].active
      BY <1>0 DEF ProcType
    <2>2. \/ proc'[p] = NoProc
          \/ proc'[p] = [proc[p] EXCEPT !.pc = "lock"]
          \/ proc'[p] = [proc[p] EXCEPT !.pc = "load"]
      BY <1>0, <1>2 DEF Verify
    <2>3. CASE proc'[p] = NoProc
      BY <2>3, NoProcType
    <2>4. CASE proc'[p] = [proc[p] EXCEPT !.pc = "lock"]
      BY <2>1, <2>4
    <2>5. CASE proc'[p] = [proc[p] EXCEPT !.pc = "load"]
      BY <2>1, <2>5
    <2> QED BY <2>2, <2>3, <2>4, <2>5
  <1>3. CASE LockParams(p) \/ LockWritten(p) \/ Listen(p)
    BY <1>0, <1>3 DEF LockParams, LockWritten, Listen, ProcType
  <1>4. CASE LoadSettings(p)
    <2> DEFINE m == IF settings = Torn THEN {} ELSE settings
               y == [proc[p] EXCEPT !.pc = "probe", !.map = m]
    <2>1. proc' = [proc EXCEPT ![p] = y]
      BY <1>4 DEF LoadSettings
    <2>2. y.pc = "probe" /\ y.active = proc[p].active
      BY <1>0 DEF ProcType
    <2> QED BY <1>0, <2>1, <2>2
  <1>5. CASE OpenCache(p)
    <2> DEFINE y == [proc[p] EXCEPT !.pc = "bind", !.ro = proc[p].caching /\ owner # Missing]
    <2>1. proc' = [proc EXCEPT ![p] = y]
      BY <1>5 DEF OpenCache
    <2>2. y.pc = "bind" /\ y.active = proc[p].active
      BY <1>0 DEF ProcType
    <2> QED BY <1>0, <2>1, <2>2
  <1> QED BY <1>1, <1>2, <1>3, <1>4, <1>5 DEF StartStep

\* The counter that the shutdown polls is the number of tasks that have not ended.
LEMMA ActiveStep ==
    ASSUME LifeBase, DrainInv, [LifeAction]_lifeVars, NEW q \in Proc
    PROVE  IsFiniteSet(RunningOf(q)') /\ proc'[q].active = Cardinality(RunningOf(q)')
  <1> USE DEF LifeBase
  <1>0. /\ proc \in [Proc -> ProcType] /\ job \in [Job -> JobType]
        /\ IsFiniteSet(RunningOf(q)) /\ proc[q].active = Cardinality(RunningOf(q))
    BY DEF LifeTypeOK, DrainInv
  <1> DEFINE Runs == {"running", "panicked"}
  <1>1. ASSUME NEW p \in Proc, StartStep(p)
        PROVE  IsFiniteSet(RunningOf(q)') /\ proc'[q].active = Cardinality(RunningOf(q)')
    <2>1. /\ ~Answering(p) /\ job' = job /\ \A r \in Proc \ {p} : proc'[r] = proc[r]
          /\ proc'[p].active \in {0, proc[p].active}
      BY <1>1, StartEffect, StartActive
    <2>2. RunningOf(q)' = RunningOf(q)
      BY <2>1 DEF RunningOf
    <2>3. CASE q = p
      <3>1. RunningOf(q) = {}
        BY <2>1, <2>3 DEF RunningOf, JobsPlaced, LivePC
      <3> QED BY <1>0, <2>1, <2>2, <2>3, <3>1, FS_EmptySet
    <2> QED BY <1>0, <2>1, <2>2, <2>3
  <1>2. ASSUME NEW p \in Proc, WaitStep(p)
        PROVE  IsFiniteSet(RunningOf(q)') /\ proc'[q].active = Cardinality(RunningOf(q)')
    <2>1. RunningOf(q)' = RunningOf(q) /\ proc'[q].active = proc[q].active
      BY <1>2, WaitEffect DEF RunningOf
    <2> QED BY <1>0, <2>1
  <1>3. ASSUME NEW p \in Proc, EndStep(p)
        PROVE  IsFiniteSet(RunningOf(q)') /\ proc'[q].active = Cardinality(RunningOf(q)')
    <2>1. /\ proc' = [proc EXCEPT ![p] = NoProc]
          /\ \A t \in Job : IF t \in JobsOf(p)
                            THEN job'[t].at = Missing /\ job'[t].pc \notin Runs
                            ELSE job'[t] = job[t]
      BY <1>3, EndEffect
    <2>2. CASE q = p
      <3>1. RunningOf(q)' = {}
        BY <2>1, <2>2 DEF RunningOf, JobsOf
      <3>2. proc'[q].active = 0
        BY <1>0, <2>1, <2>2, NoProcType
      <3> QED BY <3>1, <3>2, FS_EmptySet
    <2>3. CASE q # p
      <3>1. RunningOf(q)' = RunningOf(q)
        BY <2>1, <2>3 DEF RunningOf, JobsOf
      <3> QED BY <1>0, <2>1, <2>3, <3>1
    <2> QED BY <2>2, <2>3
  <1>4. ASSUME NEW p \in Proc, NEW t \in Job, NEW clustering \in BOOLEAN, Arrive(t, p, clustering)
        PROVE  IsFiniteSet(RunningOf(q)') /\ proc'[q].active = Cardinality(RunningOf(q)')
    <2>1. RunningOf(q)' = RunningOf(q) /\ proc' = proc
      BY <1>4, ArriveEffect DEF RunningOf
    <2> QED BY <1>0, <2>1
  <1>5. ASSUME NEW t \in Job, JobStep(t)
        PROVE  IsFiniteSet(RunningOf(q)') /\ proc'[q].active = Cardinality(RunningOf(q)')
    <2> DEFINE p == job[t].at
    <2>0. p \in Proc /\ p # Missing /\ \A u \in Job \ {t} : job'[u] = job[u]
      BY <1>5, JobEffect, LifeNamesAssumption
    <2>1. CASE RunJob(t)
      <3>1. t \notin RunningOf(q) /\ job'[t].pc = "running" /\ job'[t].at = p
        BY <1>0, <2>1 DEF RunJob, RunningOf, JobType
      <3>2. proc' = [proc EXCEPT ![p] = [proc[p] EXCEPT !.active = proc[p].active + 1]]
        BY <2>1 DEF RunJob
      <3>3. [proc[p] EXCEPT !.active = proc[p].active + 1].active = proc[p].active + 1
        BY <1>0, <2>0 DEF ProcType
      <3>4. CASE q = p
        <4>1. RunningOf(q)' = RunningOf(q) \cup {t}
          BY <2>0, <3>1, <3>4 DEF RunningOf
        <4>2. /\ IsFiniteSet(RunningOf(q) \cup {t})
              /\ Cardinality(RunningOf(q) \cup {t}) = Cardinality(RunningOf(q)) + 1
          BY <1>0, <3>1, FS_AddElement
        <4> QED BY <1>0, <3>2, <3>3, <3>4, <4>1, <4>2
      <3>5. CASE q # p
        <4>1. RunningOf(q)' = RunningOf(q)
          BY <2>0, <3>1, <3>5 DEF RunningOf
        <4> QED BY <1>0, <3>2, <3>5, <4>1
      <3> QED BY <3>4, <3>5
    <2>2. CASE EndJob(t)
      <3>1. job[t].pc \in Runs /\ job'[t].pc = "done"
        BY <1>0, <2>2 DEF EndJob, NoJob
      <3>2. proc' = [proc EXCEPT ![p] = [proc[p] EXCEPT !.active = proc[p].active - 1]]
        BY <2>2 DEF EndJob
      <3>3. [proc[p] EXCEPT !.active = proc[p].active - 1].active = proc[p].active - 1
        BY <1>0, <2>0 DEF ProcType
      <3>4. CASE q = p
        <4>1. RunningOf(q)' = RunningOf(q) \ {t} /\ t \in RunningOf(q)
          BY <2>0, <3>1, <3>4 DEF RunningOf
        <4>2. /\ IsFiniteSet(RunningOf(q) \ {t})
              /\ Cardinality(RunningOf(q) \ {t}) = Cardinality(RunningOf(q)) - 1
          BY <1>0, <4>1, FS_RemoveElement
        <4> QED BY <1>0, <3>2, <3>3, <3>4, <4>1, <4>2
      <3>5. CASE q # p
        <4>1. RunningOf(q)' = RunningOf(q)
          BY <2>0, <3>1, <3>5 DEF RunningOf
        <4> QED BY <1>0, <3>2, <3>5, <4>1
      <3> QED BY <3>4, <3>5
    <2>3. CASE ~RunJob(t) /\ ~EndJob(t)
      <3>1. job'[t].at = p /\ (job'[t].pc \in Runs <=> job[t].pc \in Runs)
        BY <1>0, <1>5, <2>3 DEF JobStep, InsertSetting, TruncateSettings, WriteSettings,
            StoreVectors, JobPanics, JobType
      <3>2. RunningOf(q)' = RunningOf(q)
        BY <2>0, <3>1 DEF RunningOf
      <3>3. proc'[q].active = proc[q].active
        <4>1. CASE InsertSetting(t)
          <5>1. PICK m : proc' = [proc EXCEPT ![p] = [proc[p] EXCEPT !.map = m]]
            BY <4>1 DEF InsertSetting
          <5>2. [proc[p] EXCEPT !.map = m].active = proc[p].active
            BY <1>0, <2>0 DEF ProcType
          <5> QED BY <1>0, <2>0, <5>1, <5>2
        <4> QED BY <1>5, <2>3, <4>1
                DEF JobStep, TruncateSettings, WriteSettings, StoreVectors, JobPanics
      <3> QED BY <1>0, <3>2, <3>3
    <2> QED BY <2>1, <2>2, <2>3
  <1>6. CASE DropStore \/ UNCHANGED lifeVars
    <2>1. proc' = proc /\ job' = job
      BY <1>6 DEF DropStore, lifeVars
    <2> QED BY <1>0, <2>1 DEF RunningOf
  <1> QED BY <1>1, <1>2, <1>3, <1>4, <1>5, <1>6, LifeKinds

\* A push that ran at the signal is not at a process in its grace period, unless the
\* 120 seconds are over.
LEMMA DrainStep ==
    ASSUME LifeBase, DrainInv, [LifeAction]_lifeVars
    PROVE  DrainInv'
  <1> USE DEF LifeBase
  <1>0. proc \in [Proc -> ProcType] /\ job \in [Job -> JobType]
    BY DEF LifeTypeOK
  <1> DEFINE Old == \A t \in Job : job[t].old => job[t].pc \in {"running", "panicked", "overdue", "lost"}
             Grace == \A p \in Proc : proc[p].pc = "grace" /\ ~proc[p].waited =>
                         \A t \in Job : job[t].at = p /\ job[t].pc \in LivePC => ~job[t].old
  <1>a. Old /\ Grace
    BY DEF DrainInv
  <1>b. SUFFICES Old' /\ Grace'
    BY ActiveStep DEF DrainInv
  <1>1. ASSUME NEW p \in Proc, StartStep(p)
        PROVE  Old' /\ Grace'
    <2>1. job' = job /\ (\A r \in Proc \ {p} : proc'[r] = proc[r]) /\ proc'[p].pc # "grace"
      BY <1>1, StartEffect, StartActive
    <2> QED BY <1>a, <2>1
  <1>2. CASE \E p \in Proc : Signal(p)
    <2>1. PICK p \in Proc : Signal(p)
      BY <1>2
    <2>2. WaitStep(p)
      BY <2>1 DEF WaitStep
    <2>3. /\ \A t \in Job : job'[t].pc = job[t].pc /\ job'[t].at = job[t].at
          /\ \A r \in Proc \ {p} : proc'[r] = proc[r]
      BY <2>2, WaitEffect
    <2>4. proc'[p].pc # "grace"
      BY <1>0, <2>1 DEF Signal, ProcType
    <2>5. \A t \in Job : job'[t] = job[t] \/ (job[t].at = p /\ job[t].pc \in {"running", "panicked"})
      BY <1>0, <2>1 DEF Signal, JobsOf
    <2>6. Old'
      BY <1>a, <2>3, <2>5
    <2>7. Grace'
      BY <1>a, <2>3, <2>4, <2>5
    <2> QED BY <2>6, <2>7
  <1>3. ASSUME NEW p \in Proc, Drained(p) \/ DrainTimeout(p)
        PROVE  Old' /\ Grace'
    <2>1. job' = job /\ \A r \in Proc \ {p} : proc'[r] = proc[r]
      BY <1>0, <1>3 DEF Drained, DrainTimeout
    <2>2. CASE Drained(p)
      <3>1. RunningOf(p) = {}
        <4>1. proc[p].active = 0 /\ IsFiniteSet(RunningOf(p)) /\ Cardinality(RunningOf(p)) = 0
          BY <2>2 DEF Drained, DrainInv
        <4> QED BY <4>1, FS_EmptySet
      <3>2. \A t \in Job : job[t].at = p /\ job[t].pc \in LivePC => ~job[t].old
        BY <1>a, <3>1 DEF RunningOf, LivePC
      <3> QED BY <1>a, <2>1, <3>2
    <2>3. CASE DrainTimeout(p)
      <3> DEFINE y == [proc[p] EXCEPT !.pc = "grace", !.waited = TRUE]
      <3>1. proc' = [proc EXCEPT ![p] = y]
        BY <2>3 DEF DrainTimeout
      <3>2. y.waited
        BY <1>0 DEF ProcType
      <3> QED BY <1>0, <1>a, <2>1, <3>1, <3>2
    <2> QED BY <1>3, <2>2, <2>3
  <1>4. ASSUME NEW p \in Proc, EndStep(p)
        PROVE  Old' /\ Grace'
    <2>1. /\ proc' = [proc EXCEPT ![p] = NoProc] /\ proc'[p].pc = "off"
          /\ \A t \in Job :
                IF t \in JobsOf(p)
                THEN /\ job'[t].pc \in {"cut", "overdue", "lost"} /\ job'[t].at = Missing
                     /\ job'[t].old = job[t].old
                     /\ job'[t].pc = "cut" => proc[p].pc = "grace" /\ ~proc[p].waited
                ELSE job'[t] = job[t]
      BY <1>4, EndEffect
    <2>2. Old'
      <3>1. SUFFICES ASSUME NEW t \in Job, job'[t].old
                     PROVE  job'[t].pc \in {"running", "panicked", "overdue", "lost"}
        OBVIOUS
      <3>2. CASE t \in JobsOf(p)
        BY <1>a, <2>1, <3>1, <3>2 DEF JobsOf, LivePC
      <3> QED BY <1>a, <2>1, <3>1, <3>2
    <2>3. Grace'
      <3>1. \A r \in Proc : proc'[r].pc = "grace" => r # p /\ proc'[r] = proc[r]
        BY <1>0, <2>1
      <3>2. \A t \in Job : job'[t].pc \in LivePC => job'[t] = job[t]
        BY <2>1 DEF LivePC
      <3> QED BY <1>a, <3>1, <3>2
    <2> QED BY <2>2, <2>3
  <1>5. ASSUME NEW p \in Proc, NEW t \in Job, NEW clustering \in BOOLEAN, Arrive(t, p, clustering)
        PROVE  Old' /\ Grace'
    BY <1>5, <1>a, ArriveEffect
  <1>6. ASSUME NEW t \in Job, JobStep(t)
        PROVE  Old' /\ Grace'
    <2>1. /\ \A u \in Job \ {t} : job'[u] = job[u]
          /\ \A r \in Proc : proc'[r].pc = proc[r].pc /\ proc'[r].waited = proc[r].waited
          /\ job'[t].pc \in LivePC => job'[t].at = job[t].at
          /\ job[t].pc \in LivePC
      BY <1>6, JobEffect
    <2>2. job'[t].old => job[t].old /\ job'[t].pc \in LivePC
      <3>1. CASE EndJob(t)
        BY <1>0, <3>1 DEF EndJob, NoJob
      <3>2. CASE ~EndJob(t)
        BY <1>0, <1>6, <3>2 DEF JobStep, InsertSetting, TruncateSettings, WriteSettings, RunJob,
            StoreVectors, JobPanics, JobType, LivePC
      <3> QED BY <3>1, <3>2
    <2>3. job[t].pc \in {"running", "panicked"} /\ job'[t].pc \in LivePC =>
             job'[t].pc \in {"running", "panicked"}
      BY <1>0, <1>6 DEF JobStep, InsertSetting, TruncateSettings, WriteSettings, RunJob,
            StoreVectors, JobPanics, EndJob, JobType, LivePC, NoJob
    <2>4. Old'
      BY <1>a, <2>1, <2>2, <2>3 DEF LivePC
    <2>5. Grace'
      BY <1>a, <2>1, <2>2
    <2> QED BY <2>4, <2>5
  <1>7. CASE DropStore \/ UNCHANGED lifeVars
    BY <1>7, <1>a DEF DropStore, lifeVars
  <1> QED BY <1>1, <1>2, <1>3, <1>4, <1>5, <1>6, <1>7, LifeKinds DEF WaitStep

\* In every behaviour the shutdown waits for the pushes that ran when the signal came.
THEOREM DrainKeepsRunningJobs == LifeSpec => []DrainKeepsJobs
  <1> DEFINE Inv == LifeBase /\ DrainInv
  <1>1. LifeInit => Inv
    BY LifeBaseInit, DrainInit
  <1>2. Inv /\ [LifeAction]_lifeVars => Inv'
    BY LifeBaseStep, DrainStep
  <1>3. Inv => DrainKeepsJobs
    <2>1. \A p \in Proc : {t \in JobsOf(p) : job[t].pc \in {"running", "panicked"}} = RunningOf(p)
      BY DEF JobsOf, RunningOf
    <2> QED BY <2>1 DEF DrainInv, DrainKeepsJobs
  <1> QED BY <1>1, <1>2, <1>3, PTL DEF LifeSpec, LifeAction

=============================================================================
