----------------------------- MODULE Lifecycle -----------------------------
(***************************************************************************)
(* Server processes on one data directory: the start, with the lock on the *)
(* embedding parameters and the probe that makes a second process read     *)
(* only; the per-domain settings that pushes persist; and the shutdown     *)
(* that waits for running pushes.  Several processes may run at once, each *)
(* with the environment it was started in, and each may be killed.         *)
(***************************************************************************)
EXTENDS Integers, Sequences, FiniteSets

CONSTANTS Proc,      \* server processes
          Job,       \* pushes
          Db,        \* domains
          DbOf,      \* [Job -> domain of the push]
          Envs,      \* environments, see EnvType
          Stores,    \* data directories to begin with: params and vectors
          MaxBoots,  \* bound on starts of a process
          MaxKills   \* bound on processes killed

ASSUME LifeBoundAssumption == MaxBoots \in Nat /\ MaxKills \in Nat /\ DbOf \in [Job -> Db]

VARIABLES
    params,    \* vectorlink-params.json: NoFile, TornFile or locked parameters
    settings,  \* domain_settings.json: Torn, or the domains with clustering on
    vectors,   \* the vector spaces of the stored vectors
    owner,     \* the process that holds the lock of the embedding cache, or Missing
    proc,      \* [Proc -> process]
    job,       \* [Job -> push]
    kept,      \* domains whose setting was written completely
    past       \* what the properties must know of the past

lifeVars == <<params, settings, vectors, owner, proc, job, kept, past>>

-----------------------------------------------------------------------------
(* Embedding parameters.  A model stands for provider, URL, name and       *)
(* dimension; "known" is one with an entry in the table of prefixes.       *)

Missing == "missing"
Torn == {"torn"}
ASSUME LifeNamesAssumption == Missing \notin Proc /\ "torn" \notin Db

Models == {"known", "other"}
EnvType == [model : Models, override : BOOLEAN, model2 : Models \cup {Missing}]
ASSUME EnvsAssumption == Envs \subseteq EnvType

prefixes_for_model(model) == IF model = "known" THEN "table" ELSE Missing
resolve_prefixes(env) == IF env.override THEN "custom" ELSE prefixes_for_model(env.model)

\* LockedEmbeddingParams: slot 2 has no overrides in this model.
Slot2(env) == IF env.model2 = Missing THEN << >>
              ELSE <<[model |-> env.model2, prefixes |-> prefixes_for_model(env.model2)]>>
Locked(env) == [model |-> env.model, prefixes |-> resolve_prefixes(env), clustering |-> Slot2(env)]

NoFile == [model |-> Missing, prefixes |-> Missing, clustering |-> << >>]
TornFile == [NoFile EXCEPT !.model = "torn"]

\* A lock file of before the prefixes were recorded means those of the table.
effective_prefixes(locked) ==
    IF locked.prefixes = Missing THEN prefixes_for_model(locked.model) ELSE locked.prefixes

slots_match(a, b) == a.model = b.model /\ effective_prefixes(a) = effective_prefixes(b)

\* Mutant of params_match: slot 2 is not compared.
params_match_slot1(a, b) == slots_match(a, b)

params_match(a, b) ==
    /\ slots_match(a, b)
    /\ Len(a.clustering) = Len(b.clustering)
    /\ \A i \in DOMAIN a.clustering : slots_match(a.clustering[i], b.clustering[i])

\* The vectors that a provider makes, for search and for clustering.
Slot1(env) == <<env.model, resolve_prefixes(env)>>
Space(env) == <<Slot1(env), IF env.model2 = Missing THEN Slot1(env)
                            ELSE <<env.model2, prefixes_for_model(env.model2)>> >>

\* A data directory to begin with is one that servers left: it holds vectors of
\* one space, that of its parameter file if it has one.
SlotType == [model : Models, prefixes : {"table", "custom", Missing}]
LockedType == [model : Models, prefixes : {"table", "custom", Missing},
               clustering : Seq(SlotType)]
RecordedSlot(slot) == <<slot.model, effective_prefixes(slot)>>
RecordedSpace(locked) ==
    <<RecordedSlot(locked), IF locked.clustering = << >> THEN RecordedSlot(locked)
                            ELSE RecordedSlot(locked.clustering[1])>>
ASSUME StoresAssumption ==
    \A s \in Stores :
        /\ s.params \in LockedType \cup {NoFile, TornFile}
        /\ \A x, y \in s.vectors : x = y
        /\ s.params \in LockedType => s.vectors \subseteq {RecordedSpace(s.params)}

-----------------------------------------------------------------------------
NoProc == [pc |-> "off", env |-> CHOOSE e \in Envs : TRUE, caching |-> FALSE,
           ro |-> FALSE, map |-> {}, active |-> 0, waited |-> FALSE]
NoJob == [pc |-> "none", at |-> Missing, old |-> FALSE]

Loaded(p) == proc[p].pc \in {"probe", "bind", "serving", "draining", "grace"}
Answering(p) == proc[p].pc \in {"serving", "draining", "grace"}
JobsOf(p) == {t \in Job : job[t].at = p /\ job[t].pc \in
                 {"setting", "insert", "write", "waiting", "running", "panicked"}}

\* raced: two first starts met.  adopted: parameters were locked over vectors
\* made before.  overlap: two processes had loaded the settings at one time.
\* torn: a process was killed while it wrote the settings.
LifeInit ==
    /\ \E s \in Stores : params = s.params /\ vectors = s.vectors
    /\ settings = {} /\ owner = Missing /\ kept = {}
    /\ proc = [p \in Proc |-> NoProc] /\ job = [t \in Job |-> NoJob]
    /\ past = [raced |-> FALSE, adopted |-> FALSE, overlap |-> FALSE, torn |-> FALSE,
               boots |-> 0, kills |-> 0]

-----------------------------------------------------------------------------
(* Start: run_server.                                                      *)

Boot(p, env, caching) ==
    /\ proc[p].pc = "off" /\ past.boots < MaxBoots
    /\ proc' = [proc EXCEPT ![p] = [NoProc EXCEPT !.pc = "verify", !.env = env, !.caching = caching]]
    /\ past' = [past EXCEPT !.boots = @ + 1]
    /\ UNCHANGED <<params, settings, vectors, owner, job, kept>>

\* verify_or_lock_embedding_params: a file that is there decides.
Verify(p) ==
    /\ proc[p].pc = "verify"
    /\ proc' = [proc EXCEPT ![p] =
          IF params = NoFile THEN [@ EXCEPT !.pc = "lock"]
          ELSE IF params # TornFile /\ params_match(params, Locked(proc[p].env))
          THEN [@ EXCEPT !.pc = "load"] ELSE NoProc]
    /\ UNCHANGED <<params, settings, vectors, owner, job, kept, past>>

\* fs::write creates or truncates the file, then writes it.
LockParams(p) ==
    /\ proc[p].pc = "lock"
    /\ params' = TornFile
    /\ proc' = [proc EXCEPT ![p].pc = "locking"]
    /\ past' = [past EXCEPT !.raced = @ \/ params # NoFile, !.adopted = @ \/ vectors # {}]
    /\ UNCHANGED <<settings, vectors, owner, job, kept>>

LockWritten(p) ==
    /\ proc[p].pc = "locking"
    /\ params' = Locked(proc[p].env)
    /\ proc' = [proc EXCEPT ![p].pc = "load"]
    /\ past' = [past EXCEPT !.raced = @ \/ params # TornFile]
    /\ UNCHANGED <<settings, vectors, owner, job, kept>>

\* LanceStore::new; a settings file that cannot be parsed is an empty map.
LoadSettings(p) ==
    /\ proc[p].pc = "load"
    /\ proc' = [proc EXCEPT ![p].pc = "probe", ![p].map = IF settings = Torn THEN {} ELSE settings]
    /\ past' = [past EXCEPT !.overlap = @ \/ \E q \in Proc \ {p} : Loaded(q)]
    /\ UNCHANGED <<params, settings, vectors, owner, job, kept>>

\* EmbedCache::open and new_with_cache; without a cache there is no lock.
OpenCache(p) ==
    /\ proc[p].pc = "probe"
    /\ proc' = [proc EXCEPT ![p].pc = "bind", ![p].ro = proc[p].caching /\ owner # Missing]
    /\ owner' = IF proc[p].caching /\ owner = Missing THEN p ELSE owner
    /\ UNCHANGED <<params, settings, vectors, job, kept, past>>

Listen(p) ==
    /\ proc[p].pc = "bind"
    /\ proc' = [proc EXCEPT ![p].pc = "serving"]
    /\ UNCHANGED <<params, settings, vectors, owner, job, kept, past>>

-----------------------------------------------------------------------------
(* Pushes.                                                                 *)

\* handle_push; store_clustering comes before anything is checked or locked.
Arrive(t, p, clustering) ==
    /\ job[t].pc = "none" /\ Answering(p)
    /\ job' = [job EXCEPT ![t] = [NoJob EXCEPT !.pc = IF clustering THEN "setting" ELSE "waiting",
                                              !.at = p]]
    /\ UNCHANGED <<params, settings, vectors, owner, proc, kept, past>>

\* DomainSettingsMap::set: the insert needs the write lock, ...
InsertSetting(t) ==
    LET p == job[t].at
    IN  /\ job[t].pc = "setting"
        /\ \A u \in JobsOf(p) : job[u].pc # "write"
        /\ proc' = [proc EXCEPT ![p].map = @ \cup {DbOf[t]}]
        /\ job' = [job EXCEPT ![t].pc = "insert"]
        /\ UNCHANGED <<params, settings, vectors, owner, kept, past>>

\* ... and the map is written under the read lock.
TruncateSettings(t) ==
    /\ job[t].pc = "insert"
    /\ settings' = Torn
    /\ job' = [job EXCEPT ![t].pc = "write"]
    /\ UNCHANGED <<params, vectors, owner, proc, kept, past>>

\* Mutant of WriteSettings: only the entry of this push is written.
WriteOneSetting(t) ==
    /\ job[t].pc = "write"
    /\ settings' = {DbOf[t]}
    /\ kept' = kept \cup {DbOf[t]}
    /\ job' = [job EXCEPT ![t].pc = "waiting"]
    /\ UNCHANGED <<params, vectors, owner, proc, past>>

WriteSettings(t) ==
    /\ job[t].pc = "write"
    /\ settings' = proc[job[t].at].map
    /\ kept' = kept \cup {DbOf[t]}
    /\ job' = [job EXCEPT ![t].pc = "waiting"]
    /\ UNCHANGED <<params, vectors, owner, proc, past>>

\* The spawned task counts itself.
RunJob(t) ==
    /\ job[t].pc = "waiting"
    /\ job' = [job EXCEPT ![t].pc = "running"]
    /\ proc' = [proc EXCEPT ![job[t].at].active = @ + 1]
    /\ UNCHANGED <<params, settings, vectors, owner, kept, past>>

\* A write; ensure_writable refuses it in a read-only process.
StoreVectors(t) ==
    /\ job[t].pc = "running" /\ ~proc[job[t].at].ro
    /\ vectors' = vectors \cup {Space(proc[job[t].at].env)}
    /\ UNCHANGED <<params, settings, owner, proc, job, kept, past>>

\* The end of the task, and a panic, which the monitor task accounts for.
EndJob(t) ==
    /\ job[t].pc \in {"running", "panicked"}
    /\ job' = [job EXCEPT ![t] = [NoJob EXCEPT !.pc = "done"]]
    /\ proc' = [proc EXCEPT ![job[t].at].active = @ - 1]
    /\ UNCHANGED <<params, settings, vectors, owner, kept, past>>

JobPanics(t) ==
    /\ job[t].pc = "running"
    /\ job' = [job EXCEPT ![t].pc = "panicked"]
    /\ UNCHANGED <<params, settings, vectors, owner, proc, kept, past>>

-----------------------------------------------------------------------------
(* The end of a process, and of the store.                                 *)

\* SIGTERM or SIGINT; the server still accepts requests.
Signal(p) ==
    /\ proc[p].pc = "serving"
    /\ proc' = [proc EXCEPT ![p].pc = "draining"]
    /\ job' = [t \in Job |-> IF t \in JobsOf(p) /\ job[t].pc \in {"running", "panicked"}
                             THEN [job[t] EXCEPT !.old = TRUE] ELSE job[t]]
    /\ UNCHANGED <<params, settings, vectors, owner, kept, past>>

\* Mutant of Drained: the number of running tasks is not asked for.
DrainedAtOnce(p) ==
    /\ proc[p].pc = "draining"
    /\ proc' = [proc EXCEPT ![p].pc = "grace"]
    /\ UNCHANGED <<params, settings, vectors, owner, job, kept, past>>

Drained(p) ==
    /\ proc[p].pc = "draining" /\ proc[p].active = 0
    /\ proc' = [proc EXCEPT ![p].pc = "grace"]
    /\ UNCHANGED <<params, settings, vectors, owner, job, kept, past>>

\* 120 seconds.
DrainTimeout(p) ==
    /\ proc[p].pc = "draining" /\ proc[p].active # 0
    /\ proc' = [proc EXCEPT ![p].pc = "grace", ![p].waited = TRUE]
    /\ UNCHANGED <<params, settings, vectors, owner, job, kept, past>>

\* What a process leaves when it is gone: "cut" by its own exit, or "lost".
Gone(p, how) ==
    /\ proc' = [proc EXCEPT ![p] = NoProc]
    /\ owner' = IF owner = p THEN Missing ELSE owner
    /\ job' = [t \in Job |-> IF t \in JobsOf(p) THEN [job[t] EXCEPT !.pc = how, !.at = Missing] ELSE job[t]]
    /\ UNCHANGED <<params, settings, vectors, kept>>

\* The grace period is over: process::exit.
Exit(p) ==
    /\ proc[p].pc = "grace"
    /\ Gone(p, IF proc[p].waited THEN "overdue" ELSE "cut")
    /\ past' = [past EXCEPT !.torn = @ \/ \E t \in JobsOf(p) : job[t].pc = "write"]

Kill(p) ==
    /\ proc[p].pc # "off" /\ past.kills < MaxKills
    /\ Gone(p, "lost")
    /\ past' = [past EXCEPT !.kills = @ + 1,
                            !.torn = @ \/ \E t \in JobsOf(p) : job[t].pc = "write"]

\* drop-store, while no server runs.
DropStore ==
    /\ \A p \in Proc : proc[p].pc = "off"
    /\ params # NoFile
    /\ params' = NoFile /\ settings' = {} /\ vectors' = {} /\ kept' = {}
    /\ past' = [past EXCEPT !.raced = FALSE, !.adopted = FALSE, !.overlap = FALSE, !.torn = FALSE]
    /\ UNCHANGED <<owner, proc, job>>

LifeNext(envs, cachings, jobs, clusterings) ==
    \/ \E p \in Proc :
          \/ \E env \in envs, caching \in cachings : Boot(p, env, caching)
          \/ Verify(p) \/ LockParams(p) \/ LockWritten(p) \/ LoadSettings(p) \/ OpenCache(p)
          \/ Listen(p) \/ Signal(p) \/ Drained(p) \/ DrainTimeout(p) \/ Exit(p) \/ Kill(p)
          \/ \E t \in jobs, clustering \in clusterings : Arrive(t, p, clustering)
    \/ \E t \in Job :
          \/ InsertSetting(t) \/ TruncateSettings(t) \/ WriteSettings(t)
          \/ RunJob(t) \/ StoreVectors(t) \/ EndJob(t) \/ JobPanics(t)
    \/ DropStore

LifeSpec == LifeInit /\ [][LifeNext(Envs, BOOLEAN, Job, BOOLEAN)]_lifeVars

-----------------------------------------------------------------------------
(* Properties.                                                             *)

\* What the start of a server guards.  All stored vectors are of one space, that of
\* the queries of every server, unless two first starts raced or a store without a
\* parameter file was adopted; and of the servers that use the embedding cache one
\* at most is writable, the one that holds its lock.
StartGuards ==
    /\ ~past.raced /\ ~past.adopted =>
          /\ Cardinality(vectors) <= 1
          /\ \A p \in Proc : Answering(p) => vectors \subseteq {Space(proc[p].env)}
          /\ \A p, q \in Proc : Answering(p) /\ Answering(q) =>
                Space(proc[p].env) = Space(proc[q].env)
    /\ \A p \in Proc : Answering(p) /\ proc[p].caching => proc[p].ro = (owner # p)

\* A clustering setting that was written once stays in a file that can be read,
\* unless two processes overlapped (each writes the map it loaded, the read-only
\* one too) or one was stopped inside the write.
SettingsKept ==
    ~past.overlap /\ ~past.torn /\ settings # Torn => kept \subseteq settings

\* A push that ran when the signal came is not cut by the exit: it is waited for
\* for 120 seconds, also if it panics, because the counter that the shutdown polls
\* is the number of tasks that have not ended.
DrainKeepsJobs ==
    /\ \A t \in Job : job[t].old => job[t].pc # "cut"
    /\ \A p \in Proc : proc[p].active =
          Cardinality({t \in JobsOf(p) : job[t].pc \in {"running", "panicked"}})
=============================================================================
