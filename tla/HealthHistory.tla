--------------------------- MODULE HealthHistory ---------------------------
(***************************************************************************)
(* Overlapping pipeline runs that share one health-history file            *)
(* (src/src/scheduler/health_history.py).  Each run is one process: it     *)
(* loads the file once into its own cache, adds the verdicts of each list  *)
(* it validates to that cache, and at the end prunes the cache, takes the  *)
(* file lock, re-reads the file, merges and replaces it atomically.  A run *)
(* may die at any point.  A full run and a fast-track run differ only in   *)
(* the source statistics: the fast track's synthetic sources are skipped.  *)
(***************************************************************************)
EXTENDS HealthRecords

CONSTANTS
    Runs,          \* the runs of this history, each a process of its own
    FastTrack,     \* the runs that re-probe the published configs
    Configs,       \* config keys
    Sources,       \* source names
    SourceOf,      \* the source that serves each config
    MaxLists,      \* lists a run validates (blacklist and whitelist)
    BanMinAlive,   \* quality.health_ban_min_alive
    LockMayFail,   \* whether opening the lock file can fail
    MaxTime        \* bound on the clock

ASSUME RunsAssumption ==
    /\ IsFiniteSet(Runs) /\ IsFiniteSet(Configs) /\ IsFiniteSet(Sources)
    /\ FastTrack \subseteq Runs
    /\ SourceOf \in [Configs -> Sources]
    /\ MaxLists \in Nat \ {0}
    /\ BanMinAlive \in Nat
    /\ LockMayFail \in BOOLEAN
    /\ MaxTime \in Nat
    /\ None \notin Runs

VARIABLES
    clock,      \* time.time()
    disk,       \* the history file; an absent file is an empty one
    lock,       \* the holder of the history lock, or None
    pc,         \* where each run is
    cache,      \* HealthHistory._cache of each run
    loadedAt,   \* HealthHistory._cache_loaded_at
    pruned,     \* HealthHistory._pruned_keys
    stamp,      \* payload["updated_at"] of the save under way
    merged,     \* the merge read under the lock and not yet written
    seen,       \* _health_update_seen: the configs judged in this run
    lists,      \* lists validated so far
    deadRuns,   \* history: the runs that recorded a failure of each config
    sampled,    \* history: verdicts ever counted for each source
    alone       \* history: the runs that load what no save has changed since

vars == <<clock, disk, lock, pc, cache, loadedAt, pruned, stamp, merged, seen,
          lists, deadRuns, sampled, alone>>

\* What a save under way leaves alone, and the history variables.
probing == <<seen, lists, deadRuns, sampled, alone>>

History == [configs: [Configs -> ConfigRecord \cup {None}],
            sources: [Sources -> SourceRecord \cup {None}]]

File == [configs: [Configs -> ConfigRecord \cup {None}],
         sources: [Sources -> SourceRecord \cup {None}],
         updated: Nat]

EmptyHistory == [configs |-> [c \in Configs |-> None],
                 sources |-> [s \in Sources |-> None]]

Phases == {"start", "probing", "pruned", "locked", "merged", "done"}

TypeOK ==
    /\ clock \in Nat
    /\ disk \in File
    /\ lock \in Runs \cup {None}
    /\ pc \in [Runs -> Phases]
    /\ cache \in [Runs -> History]
    /\ loadedAt \in [Runs -> Nat]
    /\ pruned \in [Runs -> SUBSET (Configs \cup Sources)]
    /\ stamp \in [Runs -> Nat]
    /\ merged \in [Runs -> History]
    /\ seen \in [Runs -> SUBSET Configs]
    /\ lists \in [Runs -> Nat]
    /\ deadRuns \in [Configs -> SUBSET Runs]
    /\ sampled \in [Sources -> Nat]
    /\ alone \in SUBSET Runs

Init ==
    /\ clock = 0
    /\ disk = [configs |-> EmptyHistory.configs,
               sources |-> EmptyHistory.sources, updated |-> 0]
    /\ lock = None
    /\ pc = [r \in Runs |-> "start"]
    /\ cache = [r \in Runs |-> EmptyHistory]
    /\ loadedAt = [r \in Runs |-> 0]
    /\ pruned = [r \in Runs |-> {}]
    /\ stamp = [r \in Runs |-> 0]
    /\ merged = [r \in Runs |-> EmptyHistory]
    /\ seen = [r \in Runs |-> {}]
    /\ lists = [r \in Runs |-> 0]
    /\ deadRuns = [c \in Configs |-> {}]
    /\ sampled = [s \in Sources |-> 0]
    /\ alone = {}

Goto(r, phase) == pc' = [pc EXCEPT ![r] = phase]

Tick ==
    /\ clock < MaxTime
    /\ clock' = clock + 1
    /\ UNCHANGED <<disk, lock, pc, cache, loadedAt, pruned, stamp, merged,
                   probing>>

(***************************************************************************)
(* load(): the first read of a run copies the file into its cache.  The    *)
(* concurrency group of the update workflow keeps its runs apart; runs     *)
(* started by hand overlap.                                                *)
(***************************************************************************)
Load(r) ==
    /\ pc[r] = "start"
    /\ alone' = alone \cup {r}
    /\ Goto(r, "probing")
    /\ cache' = [cache EXCEPT ![r] = [configs |-> disk.configs,
                                      sources |-> disk.sources]]
    /\ loadedAt' = [loadedAt EXCEPT ![r] = clock]
    /\ UNCHANGED <<clock, disk, lock, pruned, stamp, merged, seen, lists,
                   deadRuns, sampled>>

(***************************************************************************)
(* The pre-filter of _validate_configs: a list longer than BanMinAlive is  *)
(* probed without the configs whose own ban is running.                    *)
(***************************************************************************)
Probed(r, listed) ==
    IF Cardinality(listed) > BanMinAlive
    THEN {c \in listed : ~BannedAt(cache[r].configs[c], clock)}
    ELSE listed

\* The verdicts a list adds: one for each config and run.
Unjudged(r, verdicts) == verdicts \ seen[r]

\* update(): the verdicts of the judged configs enter their records.
UpdatedConfigs(configs, judged, alive) ==
    [c \in Configs |-> IF c \in judged
                       THEN Judged(configs[c], c \in alive, clock)
                       ELSE configs[c]]

FromSource(s, configs) == {c \in configs : SourceOf[c] = s}

\* Wrong on purpose: the fast track counts against the source.
UpdatedAllSources(r, judged, alive) ==
    [s \in Sources |->
        LET mine == FromSource(s, judged)
        IN  IF mine = {} THEN cache[r].sources[s]
            ELSE Sampled(cache[r].sources[s], Cardinality(mine),
                         Cardinality(mine \cap alive), clock)]

\* source_run_stats() and update_sources(): one sample per source of the list.
UpdatedSources(r, judged, alive) ==
    [s \in Sources |->
        LET mine == FromSource(s, judged)
        IN  IF r \in FastTrack \/ mine = {} THEN cache[r].sources[s]
            ELSE Sampled(cache[r].sources[s], Cardinality(mine),
                         Cardinality(mine \cap alive), clock)]

(***************************************************************************)
(* _record_probe_health() at the end of one list: of the probed configs    *)
(* those with a verdict that this run has not judged yet are recorded.     *)
(***************************************************************************)
RecordProbeHealth(r, listed, verdicts, alive) ==
    /\ pc[r] = "probing"
    /\ lists[r] < MaxLists
    /\ verdicts \subseteq Probed(r, listed)
    /\ LET judged == Unjudged(r, verdicts)
       IN  /\ cache' = [cache EXCEPT
                 ![r] = [configs |-> UpdatedConfigs(@.configs, judged, alive),
                         sources |-> UpdatedSources(r, judged, alive)]]
           /\ seen' = [seen EXCEPT ![r] = @ \cup judged]
           /\ deadRuns' = [c \in Configs |->
                 IF c \in judged \ alive THEN deadRuns[c] \cup {r}
                 ELSE deadRuns[c]]
           /\ sampled' = [s \in Sources |->
                 IF r \in FastTrack THEN sampled[s]
                 ELSE sampled[s] + Cardinality(FromSource(s, judged))]
    /\ lists' = [lists EXCEPT ![r] = @ + 1]
    /\ UNCHANGED <<clock, disk, lock, pc, loadedAt, pruned, stamp, merged,
                   alone>>

ValidateList(r) ==
    \E listed \in SUBSET Configs :
        \E verdicts \in SUBSET listed :
            \E alive \in SUBSET verdicts :
                RecordProbeHealth(r, listed, verdicts, alive)

HoldsNothing(section) == \A k \in DOMAIN section : section[k] = None

(***************************************************************************)
(* save(), before the lock: the prune set is reset, prune() drops stale    *)
(* records of both sections and the cap its evictions, and the payload is  *)
(* stamped.  A cache without any config record returns from prune() early. *)
(***************************************************************************)
Prune(r) ==
    /\ pc[r] = "probing"
    /\ LET mine      == cache[r]
           stale     == StaleKeys(mine.configs, clock)
           rest      == Without(mine.configs, stale)
           staleSrcs == IF HoldsNothing(mine.configs) THEN {}
                        ELSE StaleKeys(mine.sources, clock)
       IN  \E evicted \in Evictions(rest, clock) :
             /\ cache' = [cache EXCEPT
                  ![r] = [configs |-> Without(rest, evicted),
                          sources |-> Without(mine.sources, staleSrcs)]]
             /\ pruned' = [pruned EXCEPT ![r] = stale \cup evicted \cup staleSrcs]
    /\ stamp' = [stamp EXCEPT ![r] = clock]
    /\ Goto(r, "pruned")
    /\ UNCHANGED <<clock, disk, lock, loadedAt, merged, probing>>

\* history_file_lock(): flock blocks until the lock is free.
AcquireLock(r) ==
    /\ pc[r] = "pruned"
    /\ lock = None
    /\ lock' = r
    /\ Goto(r, "locked")
    /\ UNCHANGED <<clock, disk, cache, loadedAt, pruned, stamp, merged, probing>>

\* history_file_lock(), lock file cannot be opened: the save goes on unlocked.
ProceedUnlocked(r) ==
    /\ pc[r] = "pruned"
    /\ LockMayFail
    /\ Goto(r, "locked")
    /\ UNCHANGED <<clock, disk, lock, cache, loadedAt, pruned, stamp, merged,
                   probing>>

\* _merged_with_disk(): re-read the file and merge the cache into it.
MergeWithDisk(r) ==
    /\ pc[r] = "locked"
    /\ LET ties == disk.updated > loadedAt[r]
       IN  merged' = [merged EXCEPT ![r] =
               [configs |-> MergedSection(cache[r].configs, disk.configs,
                                          pruned[r], ties, clock),
                sources |-> MergedSection(cache[r].sources, disk.sources,
                                          pruned[r], ties, clock)]]
    /\ Goto(r, "merged")
    /\ UNCHANGED <<clock, disk, lock, cache, loadedAt, pruned, stamp, probing>>

\* Wrong on purpose: a lock that outlives its holder.
LeakedLock(r) == lock

LockAfter(r) == IF lock = r THEN None ELSE lock

\* The run is over: its lock goes with the descriptor, its memory with the
\* process.  (The save is the last use a run makes of its cache; that the
\* cache adopts the merged state shows nowhere else.)
Exit(r) ==
    /\ lock' = LockAfter(r)
    /\ Goto(r, "done")
    /\ cache' = [cache EXCEPT ![r] = EmptyHistory]
    /\ merged' = [merged EXCEPT ![r] = EmptyHistory]
    /\ pruned' = [pruned EXCEPT ![r] = {}]
    /\ loadedAt' = [loadedAt EXCEPT ![r] = 0]
    /\ stamp' = [stamp EXCEPT ![r] = 0]
    /\ seen' = [seen EXCEPT ![r] = {}]
    /\ lists' = [lists EXCEPT ![r] = 0]
    /\ UNCHANGED <<clock, deadRuns, sampled>>

\* write_text_atomic() succeeds: the file is replaced.
WriteFile(r) ==
    /\ pc[r] = "merged"
    /\ disk' = [configs |-> merged[r].configs, sources |-> merged[r].sources,
                updated |-> stamp[r]]
    /\ alone' = {}
    /\ Exit(r)

\* The write fails, or the process dies: the file keeps its old content.
Abandon(r) ==
    /\ pc[r] \in {"probing", "pruned", "locked", "merged"}
    /\ alone' = alone \ {r}
    /\ Exit(r)
    /\ UNCHANGED disk

RunStep(r) ==
    \/ Load(r)
    \/ ValidateList(r)
    \/ Prune(r)
    \/ AcquireLock(r)
    \/ MergeWithDisk(r)
    \/ WriteFile(r)

Next ==
    \/ Tick
    \/ \E r \in Runs : RunStep(r) \/ ProceedUnlocked(r) \/ Abandon(r)

\* A run is a program that keeps executing until it ends; nothing makes its
\* lock file unusable or makes it crash.
Fairness == \A r \in Runs : WF_vars(RunStep(r))

Spec == Init /\ [][Next]_vars
FairSpec == Spec /\ Fairness
-----------------------------------------------------------------------------
(***************************************************************************)
(* Properties.                                                             *)
(***************************************************************************)

\* Every copy of a record: in the file, in a cache, in a merge under way.
ConfigCopies(c) ==
    {disk.configs[c]} \cup {cache[r].configs[c] : r \in Runs}
                      \cup {merged[r].configs[c] : r \in Runs}

SourceCopies(s) ==
    {disk.sources[s]} \cup {cache[r].sources[s] : r \in Runs}
                      \cup {merged[r].sources[s] : r \in Runs}

\* A config is banned, in the file or in any cache, only when at least
\* FailThreshold different runs recorded a failure of it: the same server in
\* two lists of one run, a skipped probe or a merge of two copies never makes
\* up for a missing failure (update, _record_probe_health, _merged_with_disk).
BanIsEarned ==
    \A c \in Configs : \A rec \in ConfigCopies(c) :
        rec # None /\ rec.banned_until > 0 =>
            Cardinality(deadRuns[c]) >= FailThreshold

\* A source is banned only on BadRunsToBan (or, earlier, BadRunsToDisable) full
\* judgement windows: MinChecked verdicts of a full run for each of them, none
\* counted twice and none from a fast-track run (update_sources).
SourceBanIsEarned ==
    \A s \in Sources : \A rec \in SourceCopies(s) :
        rec # None =>
            /\ rec.bad_runs * MinChecked + rec.sample_checked <= sampled[s]
            /\ rec.banned_until > 0 =>
                 \/ rec.bad_runs >= BadRunsToBan
                 \/ BadRunsToDisable > 0 /\ rec.bad_runs >= BadRunsToDisable

Newest(a, b) == IF a = None THEN b ELSE IF b = None THEN a
                ELSE IF a.at >= b.at THEN a ELSE b

SameAge(a, b) == IF a = None THEN b = None ELSE b # None /\ a.at = b.at

\* A save that holds the lock leaves, for every key it did not prune, a copy as
\* recent as the newer of the run's own and the file's at that moment: a stale
\* cache never overwrites a fresher record, and a verdict of this run is never
\* dropped for an older one, whatever the other runs saved meanwhile (save).
NewestCopyWins ==
    [][\A r \in Runs : WriteFile(r) /\ ~LockMayFail =>
         \A c \in Configs \ pruned[r] :
             SameAge(disk'.configs[c],
                     Newest(cache[r].configs[c], disk.configs[c]))]_vars

\* With a lock that works, no save removes a record whose ban is running in the
\* file, if the record is no older than the retention window, as every banned one
\* is when bans are no longer than that: not the age rule nor the cap of a run
\* whose own, older copy was not banned (prune, _merged_with_disk).
LiveBanKept ==
    [][~LockMayFail =>
         \A c \in Configs :
            /\ BannedAt(disk.configs[c], clock)
            /\ Cooldown <= Retention \/ disk.configs[c].at >= Cutoff(clock)
            => disk'.configs[c] # None]_vars

\* Every run that starts ends, with its history saved or abandoned: the lock
\* of a run that crashed or failed to write never blocks another (save).
EveryRunEnds == \A r \in Runs : pc[r] = "pruned" ~> pc[r] = "done"

\* A save of r that replaces a record whose ban is running by a later one keeps
\* the config banned, or a probe of r found it alive (update, is_banned).
EndsBanByPass(c) ==
    LET old == disk.configs[c]
        new == disk'.configs[c]
    IN  BannedAt(old, clock) /\ new # None /\ new.at > old.at =>
           BannedAt(new, clock) \/ new.last_alive = new.at

\* A run that no save overtook since it loaded, as every run the update workflow
\* starts, ends an earned ban by a pass only: failures renew it, whatever the
\* order of bans, failures, prunes and crashes before.
LoneRunKeepsBans ==
    [][\A r \in alone : WriteFile(r) => \A c \in Configs : EndsBanByPass(c)]_vars

\* "no run's evidence is lost" (comment in save): the same of overlapping runs.
BanEndsByPass == [][\A c \in Configs : EndsBanByPass(c)]_vars
============================================================================
