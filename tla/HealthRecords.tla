--------------------------- MODULE HealthRecords ---------------------------
(***************************************************************************)
(* The records of the health history (src/src/scheduler/health_history.py) *)
(* and what the code computes from them: how one verdict changes a config  *)
(* record, how one sample changes a source record, which records a save    *)
(* drops, and which of two copies of a record a save keeps.                *)
(*                                                                         *)
(* Only the fields some decision reads are kept.  `at' is the field the    *)
(* merge compares: last_seen of a config record, updated_at of a source    *)
(* record.  Times are whole ticks of time.time().                          *)
(***************************************************************************)
EXTENDS Integers, Sequences, FiniteSets

CONSTANTS
    FailThreshold,     \* quality.ban_after_consecutive_failures
    Cooldown,          \* quality.ban_cooldown_hours, in ticks
    RecentWindow,      \* quality.health_recent_window
    Retention,         \* quality.health_history_retention_days, in ticks
    MaxRecords,        \* quality.health_history_max_records, 0 = unlimited
    MinChecked,        \* quality.source_min_checked
    BadPerMille,       \* quality.source_bad_alive_rate, in thousandths
    BadRunsToBan,      \* quality.source_bad_runs_to_ban
    BadRunsToDisable,  \* quality.source_bad_runs_to_disable, 0 = never
    SourceCooldown,    \* quality.source_ban_cooldown_hours, in ticks
    DisableTerm,       \* the "about ten years" of a permanent disable
    None               \* no record under this key

\* The minimum= arguments of the as_int / as_float reads in the code.
ASSUME SettingsAssumption ==
    /\ FailThreshold \in Nat \ {0}
    /\ Cooldown \in Nat \ {0}
    /\ RecentWindow \in Nat \ {0}
    /\ Retention \in Nat \ {0}
    /\ MaxRecords \in Nat
    /\ MinChecked \in Nat \ {0}
    /\ BadPerMille \in Nat
    /\ BadRunsToBan \in Nat \ {0}
    /\ BadRunsToDisable \in Nat
    /\ SourceCooldown \in Nat \ {0}
    /\ DisableTerm \in Nat \ {0}

ConfigRecord ==
    [at: Nat, last_alive: Nat, failures: Nat, banned_until: Nat,
     recent: {s \in Seq(BOOLEAN) : Len(s) <= RecentWindow}]

SourceRecord ==
    [at: Nat, bad_runs: Nat, banned_until: Nat,
     sample_checked: 0 .. MinChecked - 1, sample_alive: Nat]

ASSUME NoneAssumption == None \notin ConfigRecord \cup SourceRecord

NewConfigRecord ==
    [at |-> 0, last_alive |-> 0, failures |-> 0, banned_until |-> 0,
     recent |-> <<>>]

NewSourceRecord ==
    [at |-> 0, bad_runs |-> 0, banned_until |-> 0,
     sample_checked |-> 0, sample_alive |-> 0]

OrNew(rec, new) == IF rec = None THEN new ELSE rec

\* A record whose ban has not run out; is_banned() and both prune rules ask it.
BannedAt(rec, now) == rec # None /\ rec.banned_until > now

\* Wrong on purpose: the window is never trimmed.
LastOfUntrimmed(s, n) == s

\* recent[-max_recent:]
LastOf(s, n) == IF Len(s) > n THEN SubSeq(s, Len(s) - n + 1, Len(s)) ELSE s

\* Wrong on purpose: only the failure that reaches the threshold bans.
BanOnlyAtThreshold(failures, old, now) ==
    IF failures = FailThreshold THEN now + Cooldown ELSE 0

\* Wrong on purpose: a ban one failure too early.
BanEarly(failures, old, now) ==
    IF failures + 1 >= FailThreshold THEN now + Cooldown ELSE old

\* The ban a failed probe leaves behind.
BanAfter(failures, old, now) ==
    IF failures >= FailThreshold THEN now + Cooldown ELSE old

\* update(): one verdict of the current run is added to a config record.
Judged(rec, alive, now) ==
    LET old      == OrNew(rec, NewConfigRecord)
        failures == IF alive THEN 0 ELSE old.failures + 1
    IN  [at           |-> now,
         last_alive   |-> IF alive THEN now ELSE old.last_alive,
         failures     |-> failures,
         banned_until |-> IF alive THEN 0
                          ELSE BanAfter(failures, old.banned_until, now),
         recent       |-> LastOf(Append(old.recent, alive), RecentWindow)]

\* consecutive_successes(): the passes that end the recent window.
StreakOf(rec) ==
    IF rec = None THEN 0
    ELSE Cardinality({i \in DOMAIN rec.recent :
                          \A j \in i .. Len(rec.recent) : rec.recent[j]})

\* is_first_pass(): at most one verdict is on record.
FirstPass(rec) == rec = None \/ Len(rec.recent) <= 1

\* The ban a bad judgement window earns: far future, cooldown, or unchanged.
SourceBan(badRuns, old, now) ==
    IF BadRunsToDisable > 0 /\ badRuns >= BadRunsToDisable
      THEN now + DisableTerm
    ELSE IF badRuns >= BadRunsToBan THEN now + SourceCooldown
    ELSE old

\* The alive rate of a window is not above the bad rate.
BadSample(alive, checked) == 1000 * alive <= BadPerMille * checked

\* update_sources(): the sample of one list is added to a source record, and
\* the record is judged once the accumulated sample reaches MinChecked.
Sampled(rec, checked, alive, now) ==
    LET old        == OrNew(rec, NewSourceRecord)
        cumChecked == old.sample_checked + checked
        cumAlive   == old.sample_alive + alive
        bad        == BadSample(cumAlive, cumChecked)
    IN  IF cumChecked < MinChecked
          THEN [old EXCEPT !.at = now, !.sample_checked = cumChecked,
                           !.sample_alive = cumAlive]
        ELSE [at             |-> now,
              bad_runs       |-> IF bad THEN old.bad_runs + 1 ELSE 0,
              banned_until   |-> IF bad
                                 THEN SourceBan(old.bad_runs + 1,
                                                old.banned_until, now)
                                 ELSE 0,
              sample_checked |-> 0,
              sample_alive   |-> 0]

Cutoff(now) == now - Retention

\* prune(): the keys the age rule drops; a running ban keeps a record.
StaleKeys(section, now) ==
    {k \in DOMAIN section : /\ section[k] # None
                            /\ section[k].at < Cutoff(now)
                            /\ ~BannedAt(section[k], now)}

\* _prune_over_cap(): the sets of keys the cap may evict, oldest first and
\* never one whose ban is running; equally old keys are ordered by their hash.
Evictions(section, now) ==
    LET held      == {k \in DOMAIN section : section[k] # None}
        evictable == {k \in held : ~BannedAt(section[k], now)}
        overflow  == Cardinality(held) - MaxRecords
        drop      == IF overflow < Cardinality(evictable) THEN overflow
                     ELSE Cardinality(evictable)
    IN  IF MaxRecords = 0 \/ overflow <= 0 THEN {{}}
        ELSE {E \in SUBSET evictable :
                /\ Cardinality(E) = drop
                /\ \A e \in E, k \in evictable \ E :
                       section[e].at <= section[k].at}

Without(section, keys) ==
    [k \in DOMAIN section |-> IF k \in keys THEN None ELSE section[k]]

\* Wrong on purpose: the last writer wins.
MergedMemoryWins(mem, onDisk, pruned, tiesGoToDisk, now) ==
    IF pruned THEN IF onDisk # None /\ onDisk.at >= Cutoff(now)
                   THEN onDisk ELSE None
    ELSE IF mem = None THEN onDisk ELSE mem

\* Wrong on purpose: a pruned key is dropped although another run refreshed it.
MergedDropsPruned(mem, onDisk, pruned, tiesGoToDisk, now) ==
    IF pruned THEN None
    ELSE IF mem = None THEN onDisk
    ELSE IF onDisk = None THEN mem
    ELSE IF mem.at > onDisk.at THEN mem ELSE onDisk

\* _merged_with_disk(), one key: a pruned key survives only as a disk copy
\* that is fresh enough; otherwise the more recent copy wins, and a tie goes
\* to the side that observed the record later.
MergedRecord(mem, onDisk, pruned, tiesGoToDisk, now) ==
    IF pruned THEN IF onDisk # None /\ onDisk.at >= Cutoff(now)
                   THEN onDisk ELSE None
    ELSE IF mem = None THEN onDisk
    ELSE IF onDisk = None THEN mem
    ELSE IF \/ mem.at > onDisk.at
            \/ mem.at = onDisk.at /\ ~tiesGoToDisk
         THEN mem
    ELSE onDisk

MergedSection(mem, onDisk, pruned, tiesGoToDisk, now) ==
    [k \in DOMAIN mem |->
        MergedRecord(mem[k], onDisk[k], k \in pruned, tiesGoToDisk, now)]
============================================================================
