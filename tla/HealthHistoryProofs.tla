------------------------ MODULE HealthHistoryProofs ------------------------
(***************************************************************************)
(* Proofs about HealthHistory, for any number of runs, configs and sources *)
(* and any settings.                                                       *)
(***************************************************************************)
EXTENDS HealthHistory, FiniteSetTheorems, TLAPS

\* recent[-n:] is a window of at most n verdicts.
LEMMA LastOfWindow ==
    ASSUME NEW s \in Seq(BOOLEAN), NEW n \in Nat \ {0}
    PROVE  LastOf(s, n) \in {w \in Seq(BOOLEAN) : Len(w) <= n}
<1>1. CASE Len(s) > n
  <2>1. Len(s) \in Nat /\ Len(s) - n + 1 \in 1 .. Len(s)
    BY <1>1
  <2>2. SubSeq(s, Len(s) - n + 1, Len(s)) \in Seq(BOOLEAN)
    BY <2>1
  <2>3. Len(SubSeq(s, Len(s) - n + 1, Len(s))) = n
    BY <2>1
  <2>. QED BY <1>1, <2>2, <2>3 DEF LastOf
<1>2. CASE ~(Len(s) > n)
  BY <1>2 DEF LastOf
<1>. QED BY <1>1, <1>2

\* A judged config record is a config record.
LEMMA JudgedType ==
    ASSUME NEW rec \in ConfigRecord \cup {None}, NEW alive \in BOOLEAN,
           NEW now \in Nat
    PROVE  Judged(rec, alive, now) \in ConfigRecord
<1> DEFINE old == OrNew(rec, NewConfigRecord)
<1>1. old \in ConfigRecord
  <2>1. NewConfigRecord \in ConfigRecord
    BY SettingsAssumption DEF NewConfigRecord, ConfigRecord
  <2>. QED BY <2>1 DEF OrNew
<1>2. LastOf(Append(old.recent, alive), RecentWindow)
        \in {s \in Seq(BOOLEAN) : Len(s) <= RecentWindow}
  <2>1. Append(old.recent, alive) \in Seq(BOOLEAN)
    BY <1>1 DEF ConfigRecord
  <2>. QED BY <2>1, LastOfWindow, SettingsAssumption
<1>. QED
  BY <1>1, <1>2, SettingsAssumption DEF Judged, BanAfter, ConfigRecord

\* A sampled source record is a source record.
LEMMA SampledType ==
    ASSUME NEW rec \in SourceRecord \cup {None}, NEW checked \in Nat,
           NEW alive \in Nat, NEW now \in Nat
    PROVE  Sampled(rec, checked, alive, now) \in SourceRecord
<1> DEFINE old == OrNew(rec, NewSourceRecord)
<1>1. old \in SourceRecord
  <2>1. NewSourceRecord \in SourceRecord
    BY SettingsAssumption DEF NewSourceRecord, SourceRecord
  <2>. QED BY <2>1 DEF OrNew
<1>2. SourceBan(old.bad_runs + 1, old.banned_until, now) \in Nat
  BY <1>1, SettingsAssumption DEF SourceBan, SourceRecord
<1>3. CASE old.sample_checked + checked < MinChecked
  <2>1. Sampled(rec, checked, alive, now) =
          [old EXCEPT !.at = now,
                      !.sample_checked = old.sample_checked + checked,
                      !.sample_alive = old.sample_alive + alive]
    BY <1>3 DEF Sampled
  <2>. HIDE DEF old
  <2>2. /\ old.sample_checked + checked \in 0 .. MinChecked - 1
        /\ old.sample_alive + alive \in Nat
    BY <1>1, <1>3, SettingsAssumption DEF SourceRecord
  <2>. QED
    BY <1>1, <2>1, <2>2 DEF SourceRecord
<1>4. CASE ~(old.sample_checked + checked < MinChecked)
  <2> DEFINE bad == BadSample(old.sample_alive + alive,
                              old.sample_checked + checked)
  <2>1. Sampled(rec, checked, alive, now) =
          [at             |-> now,
           bad_runs       |-> IF bad THEN old.bad_runs + 1 ELSE 0,
           banned_until   |-> IF bad
                              THEN SourceBan(old.bad_runs + 1,
                                             old.banned_until, now)
                              ELSE 0,
           sample_checked |-> 0,
           sample_alive   |-> 0]
    BY <1>4 DEF Sampled
  <2>. HIDE DEF bad
  <2>. QED
    BY <1>1, <1>2, <2>1, SettingsAssumption DEF SourceRecord
<1>. QED BY <1>3, <1>4

-----------------------------------------------------------------------------
(***************************************************************************)
(* Type correctness.                                                       *)
(***************************************************************************)
LEMMA EmptyHistoryType == EmptyHistory \in History
BY DEF EmptyHistory, History

LEMMA WithoutConfigs ==
    ASSUME NEW section \in [Configs -> ConfigRecord \cup {None}], NEW keys
    PROVE  Without(section, keys) \in [Configs -> ConfigRecord \cup {None}]
BY DEF Without

LEMMA WithoutSources ==
    ASSUME NEW section \in [Sources -> SourceRecord \cup {None}], NEW keys
    PROVE  Without(section, keys) \in [Sources -> SourceRecord \cup {None}]
BY DEF Without

\* The verdicts of one list leave a well-typed cache, and a source sample is a
\* number of configs.
LEMMA UpdateType ==
    ASSUME TypeOK, NEW r \in Runs, NEW judged \in SUBSET Configs,
           NEW alive \in SUBSET Configs
    PROVE  /\ UpdatedConfigs(cache[r].configs, judged, alive)
                 \in [Configs -> ConfigRecord \cup {None}]
           /\ UpdatedSources(r, judged, alive)
                 \in [Sources -> SourceRecord \cup {None}]
           /\ \A s \in Sources : Cardinality(FromSource(s, judged)) \in Nat
<1>1. cache[r] \in History /\ clock \in Nat
  BY DEF TypeOK
<1>2. ASSUME NEW c \in Configs
      PROVE  UpdatedConfigs(cache[r].configs, judged, alive)[c]
               \in ConfigRecord \cup {None}
  <2>1. cache[r].configs[c] \in ConfigRecord \cup {None}
    BY <1>1 DEF History
  <2>2. Judged(cache[r].configs[c], c \in alive, clock) \in ConfigRecord
    <3>1. (c \in alive) \in BOOLEAN
      OBVIOUS
    <3>. QED BY <1>1, <2>1, <3>1, JudgedType
  <2>. QED BY <2>1, <2>2 DEF UpdatedConfigs
<1>3. ASSUME NEW s \in Sources, NEW S \in SUBSET Configs
      PROVE  Cardinality(FromSource(s, judged) \cap S) \in Nat
  <2>1. IsFiniteSet(FromSource(s, judged) \cap S)
    BY FS_Subset, RunsAssumption DEF FromSource
  <2>. QED BY <2>1, FS_CardinalityType
<1>4. ASSUME NEW s \in Sources
      PROVE  Cardinality(FromSource(s, judged)) \in Nat
  <2>1. FromSource(s, judged) = FromSource(s, judged) \cap Configs
    BY DEF FromSource
  <2>. QED BY <1>3, <2>1
<1>5. ASSUME NEW s \in Sources
      PROVE  UpdatedSources(r, judged, alive)[s] \in SourceRecord \cup {None}
  <2>1. cache[r].sources[s] \in SourceRecord \cup {None}
    BY <1>1 DEF History
  <2>2. Sampled(cache[r].sources[s], Cardinality(FromSource(s, judged)),
                Cardinality(FromSource(s, judged) \cap alive), clock)
          \in SourceRecord
    BY <1>1, <1>3, <1>4, <2>1, SampledType
  <2>. QED BY <2>1, <2>2 DEF UpdatedSources
<1>6. /\ UpdatedConfigs(cache[r].configs, judged, alive) =
           [c \in Configs |->
             UpdatedConfigs(cache[r].configs, judged, alive)[c]]
      /\ UpdatedSources(r, judged, alive) =
           [s \in Sources |-> UpdatedSources(r, judged, alive)[s]]
  BY DEF UpdatedConfigs, UpdatedSources
<1>. QED BY <1>2, <1>4, <1>5, <1>6

LEMMA MergedConfigs ==
    ASSUME NEW mem \in [Configs -> ConfigRecord \cup {None}],
           NEW onDisk \in [Configs -> ConfigRecord \cup {None}],
           NEW gone, NEW ties \in BOOLEAN, NEW now
    PROVE  /\ MergedSection(mem, onDisk, gone, ties, now)
                 \in [Configs -> ConfigRecord \cup {None}]
           /\ \A c \in Configs :
                 MergedSection(mem, onDisk, gone, ties, now)[c] =
                   MergedRecord(mem[c], onDisk[c], c \in gone, ties, now)
<1>1. \A c \in Configs :
        MergedRecord(mem[c], onDisk[c], c \in gone, ties, now)
          \in ConfigRecord \cup {None}
  BY DEF MergedRecord
<1>. QED BY <1>1 DEF MergedSection

LEMMA MergedSources ==
    ASSUME NEW mem \in [Sources -> SourceRecord \cup {None}],
           NEW onDisk \in [Sources -> SourceRecord \cup {None}],
           NEW gone, NEW ties \in BOOLEAN, NEW now
    PROVE  /\ MergedSection(mem, onDisk, gone, ties, now)
                 \in [Sources -> SourceRecord \cup {None}]
           /\ \A s \in Sources :
                 MergedSection(mem, onDisk, gone, ties, now)[s] =
                   MergedRecord(mem[s], onDisk[s], s \in gone, ties, now)
<1>1. \A s \in Sources :
        MergedRecord(mem[s], onDisk[s], s \in gone, ties, now)
          \in SourceRecord \cup {None}
  BY DEF MergedRecord
<1>. QED BY <1>1 DEF MergedSection

LEMMA ExitType ==
    ASSUME TypeOK, NEW r \in Runs, Exit(r), disk' \in File,
           alone' \in SUBSET Runs
    PROVE  TypeOK'
BY EmptyHistoryType DEF TypeOK, Exit, LockAfter, Goto, Phases

LEMMA TypeStep == TypeOK /\ [Next]_vars => TypeOK'
<1> SUFFICES ASSUME TypeOK, [Next]_vars PROVE TypeOK'
  OBVIOUS
<1>1. CASE Tick
  BY <1>1 DEF Tick, TypeOK, probing
<1>2. ASSUME NEW r \in Runs, Load(r) PROVE TypeOK'
  <2>1. [configs |-> disk.configs, sources |-> disk.sources] \in History
    BY DEF TypeOK, File, History
  <2>. QED BY <1>2, <2>1 DEF Load, Goto, TypeOK, Phases, probing
<1>3. ASSUME NEW r \in Runs, NEW listed \in SUBSET Configs,
             NEW verdicts \in SUBSET listed, NEW alive \in SUBSET verdicts,
             RecordProbeHealth(r, listed, verdicts, alive)
      PROVE  TypeOK'
  <2> DEFINE judged == Unjudged(r, verdicts)
  <2>1. judged \in SUBSET Configs /\ alive \in SUBSET Configs
    BY DEF Unjudged
  <2>2. [configs |-> UpdatedConfigs(cache[r].configs, judged, alive),
         sources |-> UpdatedSources(r, judged, alive)] \in History
    BY <2>1, UpdateType DEF History
  <2>3. \A s \in Sources : Cardinality(FromSource(s, judged)) \in Nat
    BY <2>1, UpdateType
  <2>4. cache' \in [Runs -> History]
    BY <1>3, <2>2 DEF RecordProbeHealth, TypeOK
  <2>5. sampled' \in [Sources -> Nat]
    BY <1>3, <2>3 DEF RecordProbeHealth, TypeOK
  <2>6. seen' \in [Runs -> SUBSET Configs] /\ lists' \in [Runs -> Nat]
        /\ deadRuns' \in [Configs -> SUBSET Runs]
    BY <1>3, <2>1 DEF RecordProbeHealth, TypeOK
  <2>. QED BY <1>3, <2>4, <2>5, <2>6 DEF RecordProbeHealth, TypeOK
<1>4. ASSUME NEW r \in Runs, Prune(r) PROVE TypeOK'
  <2> DEFINE mine  == cache[r]
             stale == StaleKeys(mine.configs, clock)
             rest  == Without(mine.configs, stale)
             gone  == IF HoldsNothing(mine.configs) THEN {}
                      ELSE StaleKeys(mine.sources, clock)
  <2>1. mine \in History
    BY DEF TypeOK
  <2>2. mine.configs \in [Configs -> ConfigRecord \cup {None}]
        /\ mine.sources \in [Sources -> SourceRecord \cup {None}]
    BY <2>1 DEF History
  <2>3. stale \subseteq Configs /\ gone \subseteq Sources
    BY <2>2 DEF StaleKeys
  <2>4. rest \in [Configs -> ConfigRecord \cup {None}]
    BY <2>2, WithoutConfigs
  <2>5. PICK evicted \in Evictions(rest, clock) :
          /\ cache' = [cache EXCEPT
               ![r] = [configs |-> Without(rest, evicted),
                       sources |-> Without(mine.sources, gone)]]
          /\ pruned' = [pruned EXCEPT ![r] = stale \cup evicted \cup gone]
    BY <1>4 DEF Prune
  <2>6. evicted \subseteq Configs
    <3>1. DOMAIN rest = Configs
      BY <2>4
    <3>. HIDE DEF rest
    <3>. QED BY <2>5, <3>1 DEF Evictions
  <2>7. [configs |-> Without(rest, evicted),
         sources |-> Without(mine.sources, gone)] \in History
    BY <2>2, <2>4, WithoutConfigs, WithoutSources DEF History
  <2>8. cache' \in [Runs -> History]
        /\ pruned' \in [Runs -> SUBSET (Configs \cup Sources)]
    <3>. HIDE DEF mine, stale, rest, gone
    <3>. QED BY <2>3, <2>5, <2>6, <2>7 DEF TypeOK
  <2>9. stamp' \in [Runs -> Nat] /\ pc' \in [Runs -> Phases]
        /\ UNCHANGED <<clock, disk, lock, loadedAt, merged, probing>>
    BY <1>4 DEF Prune, Goto, TypeOK, Phases
  <2>. QED BY <2>8, <2>9 DEF TypeOK, probing
<1>5. ASSUME NEW r \in Runs, AcquireLock(r) PROVE TypeOK'
  BY <1>5 DEF AcquireLock, Goto, TypeOK, Phases, probing
<1>6. ASSUME NEW r \in Runs, ProceedUnlocked(r) PROVE TypeOK'
  BY <1>6 DEF ProceedUnlocked, Goto, TypeOK, Phases, probing
<1>7. ASSUME NEW r \in Runs, MergeWithDisk(r) PROVE TypeOK'
  <2> DEFINE ties == disk.updated > loadedAt[r]
             m == [configs |-> MergedSection(cache[r].configs, disk.configs,
                                             pruned[r], ties, clock),
                   sources |-> MergedSection(cache[r].sources, disk.sources,
                                             pruned[r], ties, clock)]
  <2>1. ties \in BOOLEAN /\ cache[r] \in History /\ disk \in File
    BY DEF TypeOK
  <2>2. m \in History
    <3>. HIDE DEF ties
    <3>. QED BY <2>1, MergedConfigs, MergedSources DEF History, File
  <2>3. merged' = [merged EXCEPT ![r] = m]
    BY <1>7 DEF MergeWithDisk
  <2>4. merged' \in [Runs -> History]
    <3>. HIDE DEF m
    <3>. QED BY <2>2, <2>3 DEF TypeOK
  <2>. QED BY <1>7, <2>4 DEF MergeWithDisk, Goto, TypeOK, Phases, probing
<1>8. ASSUME NEW r \in Runs, WriteFile(r) PROVE TypeOK'
  <2>1. disk' \in File
    BY <1>8 DEF WriteFile, TypeOK, File, History
  <2>2. alone' \in SUBSET Runs
    BY <1>8 DEF WriteFile
  <2>. QED BY <1>8, <2>1, <2>2, ExitType DEF WriteFile
<1>9. ASSUME NEW r \in Runs, Abandon(r) PROVE TypeOK'
  <2>1. disk' \in File
    BY <1>9 DEF Abandon, TypeOK
  <2>2. alone' \in SUBSET Runs
    BY <1>9 DEF Abandon, TypeOK
  <2>. QED BY <1>9, <2>1, <2>2, ExitType DEF Abandon
<1>10. CASE UNCHANGED vars
  BY <1>10 DEF vars, TypeOK
<1>. QED
  BY <1>1, <1>2, <1>3, <1>4, <1>5, <1>6, <1>7, <1>8, <1>9, <1>10
  DEF Next, RunStep, ValidateList

LEMMA TypeInit == Init => TypeOK
BY EmptyHistoryType, NoneAssumption
DEF Init, TypeOK, File, EmptyHistory, History, Phases

\* Every reachable state is well typed: in particular a record's window never
\* outgrows health_recent_window and a source's open sample never reaches
\* source_min_checked, through any sequence of updates, prunes and merges.
THEOREM TypeCorrect == Spec => []TypeOK
BY TypeInit, TypeStep, PTL DEF Spec
-----------------------------------------------------------------------------
(***************************************************************************)
(* Bans are earned.  Inductive invariant: no copy of a record counts more  *)
(* failures than runs recorded one, a ban stands on enough of them and     *)
(* ends within the cooldown, and a run recorded a failure only of configs  *)
(* it has marked as judged.                                                *)
(***************************************************************************)
SoundRecord(rec, n) ==
    rec # None =>
        /\ rec.failures <= n
        /\ rec.banned_until > 0 => rec.failures >= FailThreshold
        /\ rec.banned_until <= rec.at + Cooldown

CopiesSound ==
    \A c \in Configs :
        /\ SoundRecord(disk.configs[c], Cardinality(deadRuns[c]))
        /\ \A r \in Runs :
             /\ SoundRecord(cache[r].configs[c], Cardinality(deadRuns[c]))
             /\ SoundRecord(merged[r].configs[c], Cardinality(deadRuns[c]))

JudgedOnce ==
    \A c \in Configs, r \in Runs :
        r \in deadRuns[c] => pc[r] = "done" \/ c \in seen[r]

BanInv == TypeOK /\ CopiesSound /\ JudgedOnce

\* A pass clears what is held against a config, a failure adds one.
LEMMA JudgedSound ==
    ASSUME NEW rec \in ConfigRecord \cup {None}, NEW alive \in BOOLEAN,
           NEW now \in Nat, NEW n \in Nat, SoundRecord(rec, n)
    PROVE  SoundRecord(Judged(rec, alive, now), IF alive THEN n ELSE n + 1)
<1> DEFINE old == OrNew(rec, NewConfigRecord)
<1>1. /\ old.failures \in Nat /\ old.banned_until \in Nat /\ old.at \in Nat
      /\ old.failures <= n
      /\ old.banned_until > 0 => old.failures >= FailThreshold
  BY SettingsAssumption
  DEF OrNew, NewConfigRecord, ConfigRecord, SoundRecord
<1>2. /\ Judged(rec, alive, now).at = now
      /\ Judged(rec, alive, now).failures =
           IF alive THEN 0 ELSE old.failures + 1
      /\ Judged(rec, alive, now).banned_until =
           IF alive THEN 0
           ELSE IF old.failures + 1 >= FailThreshold THEN now + Cooldown
           ELSE old.banned_until
  BY DEF Judged, BanAfter
<1>. HIDE DEF old
<1>. QED BY <1>1, <1>2, SettingsAssumption DEF SoundRecord

LEMMA SoundMonotone ==
    ASSUME NEW rec \in ConfigRecord \cup {None}, NEW m \in Nat, NEW n \in Nat,
           m <= n, SoundRecord(rec, m)
    PROVE  SoundRecord(rec, n)
BY DEF SoundRecord, ConfigRecord

LEMMA SoundNone == \A n : SoundRecord(None, n)
BY DEF SoundRecord

LEMMA DeadRunsFinite ==
    ASSUME TypeOK, NEW c \in Configs
    PROVE  IsFiniteSet(deadRuns[c]) /\ Cardinality(deadRuns[c]) \in Nat
<1>1. IsFiniteSet(deadRuns[c])
  BY FS_Subset, RunsAssumption DEF TypeOK
<1>. QED BY <1>1, FS_CardinalityType

LEMMA BanInit == Init => BanInv
BY TypeInit, SoundNone
DEF Init, BanInv, CopiesSound, JudgedOnce, EmptyHistory

\* Recording a list keeps the invariant: a failure enters deadRuns together
\* with the record, and the run was not in it before.
LEMMA BanRecord ==
    ASSUME BanInv, TypeOK', NEW r \in Runs, NEW listed \in SUBSET Configs,
           NEW verdicts \in SUBSET listed, NEW alive \in SUBSET verdicts,
           RecordProbeHealth(r, listed, verdicts, alive)
    PROVE  CopiesSound' /\ JudgedOnce'
<1> DEFINE judged == Unjudged(r, verdicts)
           dead(c) == Cardinality(deadRuns[c])
<1>0. judged \in SUBSET Configs
  BY DEF Unjudged
<1>1. \A c \in Configs :
        deadRuns'[c] = IF c \in judged \ alive THEN deadRuns[c] \cup {r}
                       ELSE deadRuns[c]
  BY DEF RecordProbeHealth
<1>2. seen' = [seen EXCEPT ![r] = @ \cup judged] /\ pc' = pc /\ pc[r] = "probing"
  BY DEF RecordProbeHealth
<1>3. JudgedOnce'
  BY <1>0, <1>1, <1>2 DEF BanInv, JudgedOnce, TypeOK
<1>4. ASSUME NEW c \in Configs
      PROVE  /\ dead(c) \in Nat /\ dead(c)' \in Nat /\ dead(c) <= dead(c)'
             /\ c \in judged \ alive => dead(c)' = dead(c) + 1
  <2>1. IsFiniteSet(deadRuns[c]) /\ dead(c) \in Nat
    BY DeadRunsFinite DEF BanInv
  <2>2. CASE c \in judged \ alive
    <3>1. r \notin deadRuns[c]
      BY <1>0, <1>2, <2>2 DEF BanInv, JudgedOnce, Unjudged
    <3>2. dead(c)' = dead(c) + 1
      BY <1>1, <2>1, <2>2, <3>1, FS_AddElement
    <3>. QED BY <2>1, <3>2
  <2>3. CASE c \notin judged \ alive
    <3>1. deadRuns'[c] = deadRuns[c]
      BY <1>1, <2>3
    <3>2. dead(c)' = dead(c)
      BY <3>1
    <3>. HIDE DEF judged, dead
    <3>. QED BY <2>1, <2>3, <3>2
  <2>. QED BY <2>2, <2>3
<1>5. /\ cache'[r].configs = UpdatedConfigs(cache[r].configs, judged, alive)
      /\ \A q \in Runs \ {r} : cache'[q] = cache[q]
      /\ disk' = disk /\ merged' = merged
  BY DEF RecordProbeHealth, BanInv, TypeOK
<1>6. ASSUME NEW c \in Configs
      PROVE  /\ disk.configs[c] \in ConfigRecord \cup {None}
             /\ \A q \in Runs :
                  /\ cache[q].configs[c] \in ConfigRecord \cup {None}
                  /\ merged[q].configs[c] \in ConfigRecord \cup {None}
  BY DEF BanInv, TypeOK, File, History
<1>7. ASSUME NEW c \in Configs
      PROVE  SoundRecord(cache'[r].configs[c], dead(c)')
  <2>1. SoundRecord(cache[r].configs[c], dead(c))
    BY DEF BanInv, CopiesSound
  <2>2. CASE c \in judged
    <3>1. cache'[r].configs[c] = Judged(cache[r].configs[c], c \in alive, clock)
      BY <1>5, <2>2 DEF UpdatedConfigs
    <3>2. clock \in Nat
      BY DEF BanInv, TypeOK
    <3>3. CASE c \in alive
      <4>1. SoundRecord(Judged(cache[r].configs[c], TRUE, clock), dead(c))
        <5>. HIDE DEF dead
        <5>. QED BY <1>4, <1>6, <2>1, <3>2, JudgedSound
      <4>2. cache'[r].configs[c] = Judged(cache[r].configs[c], TRUE, clock)
        BY <3>1, <3>3
      <4>3. cache'[r].configs[c] \in ConfigRecord \cup {None}
        BY DEF TypeOK, History
      <4>. HIDE DEF dead
      <4>. QED BY <1>4, <4>1, <4>2, <4>3, SoundMonotone
    <3>4. CASE c \notin alive
      <4>1. SoundRecord(Judged(cache[r].configs[c], FALSE, clock), dead(c) + 1)
        <5>. HIDE DEF dead
        <5>. QED BY <1>4, <1>6, <2>1, <3>2, JudgedSound
      <4>2. cache'[r].configs[c] = Judged(cache[r].configs[c], FALSE, clock)
        <5>1. (c \in alive) = FALSE
          BY <3>4
        <5>. QED BY <3>1, <5>1, Zenon
      <4>3. dead(c)' = dead(c) + 1
        <5>1. c \in judged \ alive
          BY <2>2, <3>4
        <5>. HIDE DEF judged, dead
        <5>. QED BY <1>4, <5>1
      <4>. QED BY <4>1, <4>2, <4>3
    <3>. QED BY <3>3, <3>4
  <2>3. CASE c \notin judged
    <3>1. cache'[r].configs[c] = cache[r].configs[c]
      BY <1>5, <2>3 DEF UpdatedConfigs
    <3>. HIDE DEF dead
    <3>. QED BY <1>4, <1>6, <2>1, <3>1, SoundMonotone
  <2>. QED BY <2>2, <2>3
<1>8. ASSUME NEW c \in Configs
      PROVE  /\ SoundRecord(disk.configs[c], dead(c)')
             /\ \A q \in Runs : /\ SoundRecord(cache[q].configs[c], dead(c)')
                               /\ SoundRecord(merged[q].configs[c], dead(c)')
  <2>1. /\ SoundRecord(disk.configs[c], dead(c))
        /\ \A q \in Runs : /\ SoundRecord(cache[q].configs[c], dead(c))
                          /\ SoundRecord(merged[q].configs[c], dead(c))
    BY DEF BanInv, CopiesSound
  <2>. HIDE DEF dead
  <2>. QED BY <1>4, <1>6, <2>1, SoundMonotone
<1>9. ASSUME NEW c \in Configs
      PROVE  /\ SoundRecord(disk'.configs[c], dead(c)')
             /\ \A q \in Runs : /\ SoundRecord(cache'[q].configs[c], dead(c)')
                               /\ SoundRecord(merged'[q].configs[c], dead(c)')
  <2>. HIDE DEF dead
  <2>. QED BY <1>5, <1>7, <1>8
<1>. QED BY <1>3, <1>9 DEF CopiesSound

LEMMA BanStep == BanInv /\ [Next]_vars => BanInv'
<1> SUFFICES ASSUME BanInv, [Next]_vars PROVE BanInv'
  OBVIOUS
<1>0. TypeOK /\ TypeOK'
  BY TypeStep DEF BanInv
<1> SUFFICES CopiesSound' /\ JudgedOnce'
  BY <1>0 DEF BanInv
<1> USE SoundNone
<1>1. CASE Tick
  BY <1>1 DEF Tick, probing, BanInv, CopiesSound, JudgedOnce
<1>2. ASSUME NEW r \in Runs, Load(r) PROVE CopiesSound' /\ JudgedOnce'
  <2>1. /\ cache'[r].configs = disk.configs
        /\ \A q \in Runs \ {r} : cache'[q] = cache[q]
        /\ \A q \in Runs : pc'[q] = "done" <=> pc[q] = "done"
        /\ UNCHANGED <<disk, merged, seen, deadRuns>>
    BY <1>0, <1>2 DEF Load, Goto, TypeOK
  <2>. QED BY <2>1 DEF BanInv, CopiesSound, JudgedOnce, probing
<1>3. ASSUME NEW r \in Runs, NEW listed \in SUBSET Configs,
             NEW verdicts \in SUBSET listed, NEW alive \in SUBSET verdicts,
             RecordProbeHealth(r, listed, verdicts, alive)
      PROVE  CopiesSound' /\ JudgedOnce'
  BY <1>0, <1>3, BanRecord
<1>4. ASSUME NEW r \in Runs, Prune(r) PROVE CopiesSound' /\ JudgedOnce'
  <2>1. \A c \in Configs : cache'[r].configs[c] \in {cache[r].configs[c], None}
    <3>1. PICK E, S, X :
            cache' = [cache EXCEPT
              ![r] = [configs |-> Without(Without(cache[r].configs, S), E),
                      sources |-> X]]
      BY <1>4 DEF Prune
    <3>2. cache'[r].configs = Without(Without(cache[r].configs, S), E)
      BY <1>0, <3>1 DEF TypeOK
    <3>3. DOMAIN cache[r].configs = Configs
      BY <1>0 DEF TypeOK, History
    <3>. QED BY <3>2, <3>3 DEF Without
  <2>2. /\ \A q \in Runs \ {r} : cache'[q] = cache[q]
        /\ \A q \in Runs : pc'[q] = "done" <=> pc[q] = "done"
        /\ UNCHANGED <<disk, merged, probing>>
    BY <1>0, <1>4 DEF Prune, Goto, TypeOK
  <2>. QED BY <2>1, <2>2 DEF BanInv, CopiesSound, JudgedOnce, probing
<1>5. ASSUME NEW r \in Runs, AcquireLock(r) \/ ProceedUnlocked(r)
      PROVE  CopiesSound' /\ JudgedOnce'
  <2>1. /\ \A q \in Runs : pc'[q] = "done" <=> pc[q] = "done"
        /\ UNCHANGED <<disk, cache, merged, probing>>
    BY <1>0, <1>5 DEF AcquireLock, ProceedUnlocked, Goto, TypeOK
  <2>. QED BY <2>1 DEF BanInv, CopiesSound, JudgedOnce, probing
<1>6. ASSUME NEW r \in Runs, MergeWithDisk(r)
      PROVE  CopiesSound' /\ JudgedOnce'
  <2>1. \A c \in Configs : merged'[r].configs[c] \in
                             {cache[r].configs[c], disk.configs[c], None}
    <3> DEFINE ties == disk.updated > loadedAt[r]
    <3>1. merged'[r].configs = MergedSection(cache[r].configs, disk.configs,
                                             pruned[r], ties, clock)
      BY <1>0, <1>6 DEF MergeWithDisk, TypeOK
    <3>2. DOMAIN cache[r].configs = Configs
      BY <1>0 DEF TypeOK, History
    <3>. HIDE DEF ties
    <3>. QED BY <3>1, <3>2 DEF MergedSection, MergedRecord
  <2>2. /\ \A q \in Runs \ {r} : merged'[q] = merged[q]
        /\ \A q \in Runs : pc'[q] = "done" <=> pc[q] = "done"
        /\ UNCHANGED <<disk, cache, probing>>
    BY <1>0, <1>6 DEF MergeWithDisk, Goto, TypeOK
  <2>. QED BY <2>1, <2>2 DEF BanInv, CopiesSound, JudgedOnce, probing
<1>7. ASSUME NEW r \in Runs, Exit(r),
             disk' = disk \/ disk'.configs = merged[r].configs
      PROVE  CopiesSound' /\ JudgedOnce'
  <2>1. /\ cache'[r].configs = [c \in Configs |-> None]
        /\ merged'[r].configs = [c \in Configs |-> None]
        /\ \A q \in Runs \ {r} : /\ cache'[q] = cache[q]
                                 /\ merged'[q] = merged[q]
                                 /\ pc'[q] = pc[q] /\ seen'[q] = seen[q]
        /\ pc'[r] = "done" /\ deadRuns' = deadRuns
    BY <1>0, <1>7 DEF Exit, Goto, EmptyHistory, TypeOK
  <2>. QED BY <1>7, <2>1 DEF BanInv, CopiesSound, JudgedOnce
<1>8. CASE UNCHANGED vars
  BY <1>8 DEF vars, BanInv, CopiesSound, JudgedOnce
<1>. QED
  BY <1>1, <1>2, <1>3, <1>4, <1>5, <1>6, <1>7, <1>8
  DEF Next, RunStep, ValidateList, WriteFile, Abandon

\* However runs overlap, crash, lose the lock or merge each other's records, a
\* ban anywhere rests on failures recorded by FailThreshold different runs.
THEOREM BansAreEarned == Spec => []BanIsEarned
<1>1. BanInv => BanIsEarned
  <2> SUFFICES ASSUME BanInv, NEW c \in Configs, NEW rec \in ConfigCopies(c),
                      rec # None, rec.banned_until > 0
               PROVE  Cardinality(deadRuns[c]) >= FailThreshold
    BY DEF BanIsEarned
  <2>1. rec \in ConfigRecord
    BY DEF ConfigCopies, BanInv, TypeOK, File, History
  <2>2. SoundRecord(rec, Cardinality(deadRuns[c]))
    BY DEF ConfigCopies, BanInv, CopiesSound
  <2>3. Cardinality(deadRuns[c]) \in Nat
    BY DeadRunsFinite DEF BanInv
  <2>. QED BY <2>1, <2>2, <2>3, SettingsAssumption DEF SoundRecord, ConfigRecord
<1>. QED BY <1>1, BanInit, BanStep, PTL DEF Spec
-----------------------------------------------------------------------------
(***************************************************************************)
(* What a save under a working lock does to the file.  Only the lock's     *)
(* holder is between reading the file and replacing it, so the merge it    *)
(* holds still describes the file it is about to replace.                  *)
(***************************************************************************)
LockInv ==
    \A r \in Runs : pc[r] \in {"locked", "merged"} => lock = r

MergeDescribesDisk(r) ==
    \A c \in Configs :
        /\ c \notin pruned[r] =>
             SameAge(merged[r].configs[c],
                     Newest(cache[r].configs[c], disk.configs[c]))
        /\ disk.configs[c] # None =>
             merged[r].configs[c] # None \/ disk.configs[c].at < Cutoff(clock)

MergeInv == \A r \in Runs : pc[r] = "merged" => MergeDescribesDisk(r)

SaveInv == BanInv /\ LockInv /\ MergeInv

LEMMA SaveInit == Init => SaveInv
BY BanInit DEF Init, SaveInv, LockInv, MergeInv

\* The merge of one key, seen from the two copies.
LEMMA MergedRecordKeeps ==
    ASSUME NEW mem \in ConfigRecord \cup {None},
           NEW onDisk \in ConfigRecord \cup {None},
           NEW gone \in BOOLEAN, NEW ties \in BOOLEAN, NEW now \in Nat
    PROVE  LET m == MergedRecord(mem, onDisk, gone, ties, now)
           IN  /\ ~gone => SameAge(m, Newest(mem, onDisk))
               /\ onDisk # None => m # None \/ onDisk.at < Cutoff(now)
<1>1. Cutoff(now) \in Int
  BY SettingsAssumption DEF Cutoff
<1>2. /\ mem # None => mem.at \in Nat
      /\ onDisk # None => onDisk.at \in Nat
  BY DEF ConfigRecord
<1>. QED BY <1>1, <1>2 DEF MergedRecord, SameAge, Newest

LEMMA SaveStep ==
    ASSUME SaveInv, [Next]_vars, ~LockMayFail PROVE SaveInv'
<1>0. TypeOK /\ TypeOK' /\ BanInv'
  BY BanStep DEF SaveInv, BanInv
<1> SUFFICES LockInv' /\ MergeInv'
  BY <1>0 DEF SaveInv
<1>1. CASE Tick
  <2>1. clock' = clock + 1 /\ clock \in Nat
        /\ UNCHANGED <<disk, lock, pc, cache, pruned, merged>>
    BY <1>0, <1>1 DEF Tick, TypeOK
  <2>2. LockInv'
    BY <2>1 DEF SaveInv, LockInv
  <2>3. ASSUME NEW r \in Runs, pc[r] = "merged", NEW c \in Configs,
               disk.configs[c] # None
        PROVE  disk.configs[c].at < Cutoff(clock) =>
                 disk.configs[c].at < Cutoff(clock')
    <3>1. disk.configs[c].at \in Nat
      BY <1>0, <2>3 DEF TypeOK, File, ConfigRecord
    <3>. QED BY <2>1, <3>1, SettingsAssumption DEF Cutoff
  <2>4. ASSUME NEW r \in Runs, pc'[r] = "merged" PROVE MergeDescribesDisk(r)'
    <3>1. MergeDescribesDisk(r)
      BY <2>1, <2>4 DEF SaveInv, MergeInv
    <3>2. pc[r] = "merged"
      BY <2>1, <2>4
    <3>. QED BY <2>1, <2>3, <3>1, <3>2 DEF MergeDescribesDisk
  <2>. QED BY <2>2, <2>4 DEF MergeInv
<1>2. ASSUME NEW r \in Runs,
             \/ Load(r) \/ ValidateList(r) \/ Prune(r) \/ AcquireLock(r)
      PROVE  LockInv' /\ MergeInv'
  <2>1. /\ disk' = disk /\ clock' = clock /\ merged' = merged
        /\ pc[r] \notin {"locked", "merged"} /\ pc'[r] # "merged"
        /\ \A q \in Runs \ {r} : /\ pc'[q] = pc[q] /\ cache'[q] = cache[q]
                                 /\ pruned'[q] = pruned[q]
        /\ \/ lock' = lock /\ pc'[r] # "locked"
           \/ lock = None /\ lock' = r
    BY <1>0, <1>2
    DEF Load, ValidateList, RecordProbeHealth, Prune, AcquireLock, Goto,
        TypeOK, probing
  <2>2. LockInv'
    BY <2>1, RunsAssumption DEF SaveInv, LockInv
  <2>3. ASSUME NEW q \in Runs, pc'[q] = "merged" PROVE MergeDescribesDisk(q)'
    <3>1. q # r /\ MergeDescribesDisk(q)
      BY <2>1, <2>3 DEF SaveInv, MergeInv
    <3>. QED BY <2>1, <3>1 DEF MergeDescribesDisk
  <2>. QED BY <2>2, <2>3 DEF MergeInv
<1>3. ASSUME NEW r \in Runs, MergeWithDisk(r) PROVE LockInv' /\ MergeInv'
  <2> DEFINE ties == disk.updated > loadedAt[r]
  <2>1. /\ UNCHANGED <<clock, disk, lock, cache, pruned>>
        /\ pc[r] = "locked" /\ pc'[r] = "merged"
        /\ \A q \in Runs \ {r} : pc'[q] = pc[q] /\ merged'[q] = merged[q]
        /\ merged'[r].configs = MergedSection(cache[r].configs, disk.configs,
                                              pruned[r], ties, clock)
    BY <1>0, <1>3 DEF MergeWithDisk, Goto, TypeOK, probing
  <2>2. LockInv'
    BY <2>1 DEF SaveInv, LockInv
  <2>3. MergeDescribesDisk(r)'
    <3>. HIDE DEF ties
    <3> SUFFICES ASSUME NEW c \in Configs
                 PROVE  /\ c \notin pruned[r] =>
                             SameAge(merged'[r].configs[c],
                               Newest(cache[r].configs[c], disk.configs[c]))
                        /\ disk.configs[c] # None =>
                             \/ merged'[r].configs[c] # None
                             \/ disk.configs[c].at < Cutoff(clock)
      BY <2>1 DEF MergeDescribesDisk
    <3> DEFINE mem  == cache[r].configs[c]
               gone == c \in pruned[r]
    <3>1. mem \in ConfigRecord \cup {None}
          /\ disk.configs[c] \in ConfigRecord \cup {None}
          /\ DOMAIN cache[r].configs = Configs /\ clock \in Nat
      BY <1>0 DEF TypeOK, History, File
    <3>2. merged'[r].configs[c] =
            MergedRecord(mem, disk.configs[c], gone, ties, clock)
      BY <2>1, <3>1 DEF MergedSection
    <3>3. gone \in BOOLEAN /\ ties \in BOOLEAN
      BY DEF ties
    <3>4. /\ ~gone => SameAge(MergedRecord(mem, disk.configs[c], gone, ties,
                                           clock),
                              Newest(mem, disk.configs[c]))
          /\ disk.configs[c] # None =>
               \/ MergedRecord(mem, disk.configs[c], gone, ties, clock) # None
               \/ disk.configs[c].at < Cutoff(clock)
      <4>. HIDE DEF mem, gone
      <4>. QED BY <3>1, <3>3, MergedRecordKeeps
    <3>. QED BY <3>2, <3>4
  <2>4. ASSUME NEW q \in Runs \ {r}, pc'[q] = "merged"
        PROVE  MergeDescribesDisk(q)'
    <3>1. MergeDescribesDisk(q)
      BY <2>1, <2>4 DEF SaveInv, MergeInv
    <3>. QED BY <2>1, <3>1 DEF MergeDescribesDisk
  <2>. QED BY <2>2, <2>3, <2>4 DEF MergeInv
<1>4. ASSUME NEW r \in Runs, WriteFile(r) \/ Abandon(r)
      PROVE  LockInv' /\ MergeInv'
  <2>1. /\ clock' = clock /\ pc'[r] = "done"
        /\ \A q \in Runs \ {r} : /\ pc'[q] = pc[q] /\ cache'[q] = cache[q]
                                 /\ pruned'[q] = pruned[q]
                                 /\ merged'[q] = merged[q]
        /\ lock' = IF lock = r THEN None ELSE lock
        /\ disk' = disk \/ pc[r] = "merged"
    BY <1>0, <1>4 DEF WriteFile, Abandon, Exit, LockAfter, Goto, TypeOK
  <2>2. LockInv'
    BY <2>1 DEF SaveInv, LockInv
  <2>3. ASSUME NEW q \in Runs, pc'[q] = "merged" PROVE MergeDescribesDisk(q)'
    <3>1. q # r /\ lock = q /\ MergeDescribesDisk(q)
      BY <2>1, <2>3 DEF SaveInv, MergeInv, LockInv
    <3>2. disk' = disk
      BY <2>1, <3>1 DEF SaveInv, LockInv
    <3>. QED BY <2>1, <3>1, <3>2 DEF MergeDescribesDisk
  <2>. QED BY <2>2, <2>3 DEF MergeInv
<1>5. CASE UNCHANGED vars
  BY <1>5 DEF vars, SaveInv, LockInv, MergeInv, MergeDescribesDisk
<1>. QED
  BY <1>1, <1>2, <1>3, <1>4, <1>5 DEF Next, RunStep, ProceedUnlocked

\* With a working lock, every save leaves the newer of the run's copy and the
\* file's for each key it did not prune, however many runs overlap.
THEOREM SavesKeepNewest == Spec => NewestCopyWins
<1>1. CASE LockMayFail
  <2>1. [\A r \in Runs : WriteFile(r) /\ ~LockMayFail =>
             \A c \in Configs \ pruned[r] :
                 SameAge(disk'.configs[c],
                         Newest(cache[r].configs[c], disk.configs[c]))]_vars
    BY <1>1
  <2>. QED BY <2>1, PTL DEF NewestCopyWins
<1>2. CASE ~LockMayFail
  <2>1. SaveInv /\ [Next]_vars =>
          [\A r \in Runs : WriteFile(r) /\ ~LockMayFail =>
             \A c \in Configs \ pruned[r] :
                 SameAge(disk'.configs[c],
                         Newest(cache[r].configs[c], disk.configs[c]))]_vars
    <3> SUFFICES ASSUME SaveInv, NEW r \in Runs, WriteFile(r),
                        NEW c \in Configs \ pruned[r]
                 PROVE  SameAge(disk'.configs[c],
                                Newest(cache[r].configs[c], disk.configs[c]))
      OBVIOUS
    <3>1. MergeDescribesDisk(r)
      BY DEF WriteFile, SaveInv, MergeInv
    <3>2. disk'.configs[c] = merged[r].configs[c]
      BY DEF WriteFile
    <3>. QED BY <3>1, <3>2 DEF MergeDescribesDisk
  <2>2. SaveInv /\ [Next]_vars => SaveInv'
    BY <1>2, SaveStep
  <2>. QED BY <2>1, <2>2, SaveInit, PTL DEF Spec, NewestCopyWins
<1>. QED BY <1>1, <1>2

\* With a working lock, no save removes a record whose ban is running unless the
\* record is older than the retention window.  Bans no longer than the window
\* keep every banned record within it: a sound record's ban ends within the
\* cooldown of the verdict that set it.
THEOREM LiveBansSurvive == Spec => LiveBanKept
<1> DEFINE Kept ==
             ~LockMayFail =>
               \A c \in Configs :
                 /\ BannedAt(disk.configs[c], clock)
                 /\ Cooldown <= Retention \/ disk.configs[c].at >= Cutoff(clock)
                 => disk'.configs[c] # None
<1>1. CASE LockMayFail
  <2>1. [Kept]_vars
    BY <1>1
  <2>. QED BY <2>1, PTL DEF LiveBanKept
<1>2. CASE ~LockMayFail
  <2>1. SaveInv /\ [Next]_vars => [Kept]_vars
    <3> SUFFICES ASSUME SaveInv, Next, NEW c \in Configs,
                        BannedAt(disk.configs[c], clock),
                        \/ Cooldown <= Retention
                        \/ disk.configs[c].at >= Cutoff(clock)
                 PROVE  disk'.configs[c] # None
      BY DEF Kept
    <3>1. disk' = disk \/ \E r \in Runs : WriteFile(r)
      BY DEF Next, Tick, RunStep, Load, ValidateList, RecordProbeHealth, Prune,
             AcquireLock, ProceedUnlocked, MergeWithDisk, Abandon, probing
    <3>2. CASE disk' = disk
      BY <3>2 DEF BannedAt
    <3>3. ASSUME NEW r \in Runs, WriteFile(r) PROVE disk'.configs[c] # None
      <4>1. MergeDescribesDisk(r) /\ disk'.configs[c] = merged[r].configs[c]
        BY <3>3 DEF WriteFile, SaveInv, MergeInv
      <4>2. disk.configs[c] # None /\ disk.configs[c].banned_until > clock
        BY DEF BannedAt
      <4>3. /\ disk.configs[c].banned_until \in Nat
            /\ disk.configs[c].at \in Nat /\ clock \in Nat
        BY <4>2 DEF SaveInv, BanInv, TypeOK, File, ConfigRecord
      <4>4. disk.configs[c].banned_until <= disk.configs[c].at + Cooldown
        BY <4>2 DEF SaveInv, BanInv, CopiesSound, SoundRecord
      <4>5. ~(disk.configs[c].at < Cutoff(clock))
        BY <4>2, <4>3, <4>4, SettingsAssumption DEF Cutoff
      <4>. QED BY <4>1, <4>2, <4>5 DEF MergeDescribesDisk
    <3>. QED BY <3>1, <3>2, <3>3
  <2>2. SaveInv /\ [Next]_vars => SaveInv'
    BY <1>2, SaveStep
  <2>. QED BY <2>1, <2>2, SaveInit, PTL DEF Spec, LiveBanKept
<1>. QED BY <1>1, <1>2
-----------------------------------------------------------------------------
(***************************************************************************)
(* Source bans are earned.  Inductive invariant: the verdicts a copy of a  *)
(* source record stands for, MinChecked for each bad window and those of   *)
(* the open sample, have all been counted for the source, and a ban stands *)
(* on enough bad windows.                                                  *)
(***************************************************************************)
EarnedRecord(rec, n) ==
    rec # None =>
        /\ rec.bad_runs * MinChecked + rec.sample_checked <= n
        /\ rec.banned_until > 0 =>
             \/ rec.bad_runs >= BadRunsToBan
             \/ BadRunsToDisable > 0 /\ rec.bad_runs >= BadRunsToDisable

SourcesEarned ==
    \A s \in Sources :
        /\ EarnedRecord(disk.sources[s], sampled[s])
        /\ \A r \in Runs : /\ EarnedRecord(cache[r].sources[s], sampled[s])
                           /\ EarnedRecord(merged[r].sources[s], sampled[s])

SourceBanInv == TypeOK /\ SourcesEarned

LEMMA EarnedNone == \A n : EarnedRecord(None, n)
BY DEF EarnedRecord

LEMMA EarnedMonotone ==
    ASSUME NEW rec \in SourceRecord \cup {None}, NEW m \in Nat, NEW n \in Nat,
           m <= n, EarnedRecord(rec, m)
    PROVE  EarnedRecord(rec, n)
<1> SUFFICES ASSUME rec # None PROVE EarnedRecord(rec, n)
  BY DEF EarnedRecord
<1>1. rec.bad_runs \in Nat /\ rec.sample_checked \in Nat
  BY SettingsAssumption DEF SourceRecord
<1>2. rec.bad_runs * MinChecked \in Nat
  BY <1>1, SettingsAssumption
<1>. QED BY <1>1, <1>2 DEF EarnedRecord

\* A sample of some verdicts stands for no more than those and what the record
\* stood for: a window is closed by at least MinChecked of them, and what is
\* left over is dropped.
LEMMA SampledEarned ==
    ASSUME NEW rec \in SourceRecord \cup {None}, NEW checked \in Nat,
           NEW alive \in Nat, NEW now \in Nat, NEW n \in Nat,
           EarnedRecord(rec, n)
    PROVE  EarnedRecord(Sampled(rec, checked, alive, now), n + checked)
<1> DEFINE old == OrNew(rec, NewSourceRecord)
           new == Sampled(rec, checked, alive, now)
           bad == BadSample(old.sample_alive + alive,
                            old.sample_checked + checked)
           windows == old.bad_runs * MinChecked
<1>1. old \in SourceRecord
  <2>1. NewSourceRecord \in SourceRecord
    BY SettingsAssumption DEF NewSourceRecord, SourceRecord
  <2>. QED BY <2>1 DEF OrNew
<1>2. /\ old.bad_runs \in Nat /\ old.sample_checked \in Nat
      /\ old.banned_until \in Nat /\ MinChecked \in Nat
  BY <1>1, SettingsAssumption DEF SourceRecord
<1>3. windows \in Nat /\ (old.bad_runs + 1) * MinChecked = windows + MinChecked
  <2>. HIDE DEF old
  <2>. QED BY <1>2
<1>4. /\ windows + old.sample_checked <= n
      /\ old.banned_until > 0 =>
           \/ old.bad_runs >= BadRunsToBan
           \/ BadRunsToDisable > 0 /\ old.bad_runs >= BadRunsToDisable
  <2>1. CASE rec = None
    <3>1. old.bad_runs = 0 /\ old.sample_checked = 0 /\ old.banned_until = 0
      BY <2>1 DEF OrNew, NewSourceRecord
    <3>2. windows = 0
      <4>. HIDE DEF old
      <4>. QED BY <3>1, SettingsAssumption
    <3>. HIDE DEF old, windows
    <3>. QED BY <3>1, <3>2
  <2>2. CASE rec # None
    BY <2>2 DEF OrNew, EarnedRecord
  <2>. QED BY <2>1, <2>2
<1>5. CASE old.sample_checked + checked < MinChecked
  <2>1. new = [old EXCEPT !.at = now,
                          !.sample_checked = old.sample_checked + checked,
                          !.sample_alive = old.sample_alive + alive]
    BY <1>5 DEF Sampled
  <2>. HIDE DEF old, new
  <2>2. /\ new.bad_runs = old.bad_runs /\ new.banned_until = old.banned_until
        /\ new.sample_checked = old.sample_checked + checked
    BY <1>1, <2>1 DEF SourceRecord
  <2>3. new.bad_runs * MinChecked = windows
    BY <2>2
  <2>. HIDE DEF windows
  <2>4. windows + new.sample_checked <= n + checked
    BY <1>2, <1>3, <1>4, <2>2
  <2>. QED BY <1>4, <2>2, <2>3, <2>4 DEF EarnedRecord, new
<1>6. CASE ~(old.sample_checked + checked < MinChecked)
  <2>1. /\ new.bad_runs = IF bad THEN old.bad_runs + 1 ELSE 0
        /\ new.banned_until = IF bad THEN SourceBan(old.bad_runs + 1,
                                                    old.banned_until, now)
                              ELSE 0
        /\ new.sample_checked = 0
    BY <1>6 DEF Sampled
  <2>. HIDE DEF old, new, bad
  <2>2. CASE bad
    <3>1. new.bad_runs = old.bad_runs + 1 /\ new.sample_checked = 0
      BY <2>1, <2>2
    <3>2. new.bad_runs * MinChecked = windows + MinChecked
      BY <1>3, <3>1
    <3>. HIDE DEF windows
    <3>3. new.bad_runs * MinChecked + new.sample_checked <= n + checked
      <4>1. windows + MinChecked + 0 <= n + checked
        BY <1>2, <1>3, <1>4, <1>6
      <4>. QED BY <3>1, <3>2, <4>1
    <3>4. new.banned_until > 0 =>
            \/ new.bad_runs >= BadRunsToBan
            \/ BadRunsToDisable > 0 /\ new.bad_runs >= BadRunsToDisable
      BY <1>2, <1>4, <2>1, <2>2, SettingsAssumption DEF SourceBan
    <3>. QED BY <3>3, <3>4 DEF EarnedRecord, new
  <2>3. CASE ~bad
    <3>1. new.bad_runs = 0 /\ new.sample_checked = 0 /\ new.banned_until = 0
      BY <2>1, <2>3
    <3>2. new.bad_runs * MinChecked = 0
      BY <1>2, <3>1
    <3>. QED BY <3>1, <3>2 DEF EarnedRecord, new
  <2>. QED BY <2>2, <2>3
<1>. QED BY <1>5, <1>6

LEMMA SourceBanInit == Init => SourceBanInv
BY TypeInit, EarnedNone
DEF Init, SourceBanInv, SourcesEarned, EmptyHistory

\* A list's verdicts enter the records and the count together; the synthetic
\* sources of a fast-track run enter neither.
LEMMA SourceBanRecord ==
    ASSUME SourceBanInv, NEW r \in Runs, NEW listed \in SUBSET Configs,
           NEW verdicts \in SUBSET listed, NEW alive \in SUBSET verdicts,
           RecordProbeHealth(r, listed, verdicts, alive)
    PROVE  SourcesEarned'
<1> DEFINE judged == Unjudged(r, verdicts)
           mine(s) == FromSource(s, judged)
<1>1. judged \in SUBSET Configs
  BY DEF Unjudged
<1>2. ASSUME NEW s \in Sources
      PROVE  /\ sampled[s] \in Nat /\ sampled'[s] \in Nat
             /\ sampled[s] <= sampled'[s]
             /\ r \notin FastTrack =>
                  sampled'[s] = sampled[s] + Cardinality(mine(s))
             /\ Cardinality(mine(s)) \in Nat
             /\ Cardinality(mine(s) \cap alive) \in Nat
  <2>1. IsFiniteSet(mine(s)) /\ IsFiniteSet(mine(s) \cap alive)
    BY <1>1, FS_Subset, RunsAssumption DEF FromSource
  <2>2. Cardinality(mine(s)) \in Nat /\ Cardinality(mine(s) \cap alive) \in Nat
    BY <2>1, FS_CardinalityType
  <2>3. sampled[s] \in Nat
    BY DEF SourceBanInv, TypeOK
  <2>4. sampled'[s] = IF r \in FastTrack THEN sampled[s]
                      ELSE sampled[s] + Cardinality(mine(s))
    BY DEF RecordProbeHealth
  <2>. HIDE DEF mine
  <2>. QED BY <2>2, <2>3, <2>4
<1>3. /\ cache'[r].sources = UpdatedSources(r, judged, alive)
      /\ \A q \in Runs \ {r} : cache'[q] = cache[q]
      /\ disk' = disk /\ merged' = merged
  BY DEF RecordProbeHealth, SourceBanInv, TypeOK
<1>4. ASSUME NEW s \in Sources
      PROVE  /\ disk.sources[s] \in SourceRecord \cup {None}
             /\ \A q \in Runs :
                  /\ cache[q].sources[s] \in SourceRecord \cup {None}
                  /\ merged[q].sources[s] \in SourceRecord \cup {None}
  BY DEF SourceBanInv, TypeOK, File, History
<1>5. ASSUME NEW s \in Sources
      PROVE  /\ EarnedRecord(disk.sources[s], sampled'[s])
             /\ \A q \in Runs :
                  /\ EarnedRecord(cache[q].sources[s], sampled'[s])
                  /\ EarnedRecord(merged[q].sources[s], sampled'[s])
  BY <1>2, <1>4, EarnedMonotone DEF SourceBanInv, SourcesEarned
<1>6. ASSUME NEW s \in Sources
      PROVE  EarnedRecord(cache'[r].sources[s], sampled'[s])
  <2>1. cache'[r].sources[s] =
          IF r \in FastTrack \/ mine(s) = {} THEN cache[r].sources[s]
          ELSE Sampled(cache[r].sources[s], Cardinality(mine(s)),
                       Cardinality(mine(s) \cap alive), clock)
    BY <1>3 DEF UpdatedSources
  <2>2. CASE r \in FastTrack \/ mine(s) = {}
    BY <1>5, <2>1, <2>2
  <2>3. CASE ~(r \in FastTrack \/ mine(s) = {})
    <3>1. EarnedRecord(cache[r].sources[s], sampled[s]) /\ clock \in Nat
      BY DEF SourceBanInv, SourcesEarned, TypeOK
    <3>. HIDE DEF mine
    <3>2. EarnedRecord(Sampled(cache[r].sources[s], Cardinality(mine(s)),
                               Cardinality(mine(s) \cap alive), clock),
                       sampled[s] + Cardinality(mine(s)))
      BY <1>2, <1>4, <3>1, SampledEarned
    <3>. QED BY <1>2, <2>1, <2>3, <3>2
  <2>. QED BY <2>2, <2>3
<1>. HIDE DEF judged
<1>. QED BY <1>3, <1>5, <1>6 DEF SourcesEarned

LEMMA SourceBanStep == SourceBanInv /\ [Next]_vars => SourceBanInv'
<1> SUFFICES ASSUME SourceBanInv, [Next]_vars PROVE SourceBanInv'
  OBVIOUS
<1>0. TypeOK /\ TypeOK'
  BY TypeStep DEF SourceBanInv
<1> SUFFICES SourcesEarned'
  BY <1>0 DEF SourceBanInv
<1> USE EarnedNone
<1>1. CASE Tick
  BY <1>1 DEF Tick, probing, SourceBanInv, SourcesEarned
<1>2. ASSUME NEW r \in Runs, Load(r) PROVE SourcesEarned'
  <2>1. /\ cache'[r].sources = disk.sources
        /\ \A q \in Runs \ {r} : cache'[q] = cache[q]
        /\ UNCHANGED <<disk, merged, sampled>>
    BY <1>0, <1>2 DEF Load, TypeOK
  <2>. QED BY <2>1 DEF SourceBanInv, SourcesEarned
<1>3. ASSUME NEW r \in Runs, NEW listed \in SUBSET Configs,
             NEW verdicts \in SUBSET listed, NEW alive \in SUBSET verdicts,
             RecordProbeHealth(r, listed, verdicts, alive)
      PROVE  SourcesEarned'
  BY <1>3, SourceBanRecord
<1>4. ASSUME NEW r \in Runs, Prune(r) PROVE SourcesEarned'
  <2>1. \A s \in Sources : cache'[r].sources[s] \in {cache[r].sources[s], None}
    <3>1. PICK X, S :
            cache' = [cache EXCEPT
              ![r] = [configs |-> X, sources |-> Without(cache[r].sources, S)]]
      BY <1>4 DEF Prune
    <3>2. cache'[r].sources = Without(cache[r].sources, S)
      BY <1>0, <3>1 DEF TypeOK
    <3>3. DOMAIN cache[r].sources = Sources
      BY <1>0 DEF TypeOK, History
    <3>. QED BY <3>2, <3>3 DEF Without
  <2>2. /\ \A q \in Runs \ {r} : cache'[q] = cache[q]
        /\ UNCHANGED <<disk, merged, sampled>>
    BY <1>0, <1>4 DEF Prune, TypeOK, probing
  <2>. QED BY <2>1, <2>2 DEF SourceBanInv, SourcesEarned
<1>5. ASSUME NEW r \in Runs, AcquireLock(r) \/ ProceedUnlocked(r)
      PROVE  SourcesEarned'
  <2>1. UNCHANGED <<disk, cache, merged, sampled>>
    BY <1>5 DEF AcquireLock, ProceedUnlocked, probing
  <2>. QED BY <2>1 DEF SourceBanInv, SourcesEarned
<1>6. ASSUME NEW r \in Runs, MergeWithDisk(r) PROVE SourcesEarned'
  <2>1. \A s \in Sources : merged'[r].sources[s] \in
                             {cache[r].sources[s], disk.sources[s], None}
    <3> DEFINE ties == disk.updated > loadedAt[r]
    <3>1. merged'[r].sources = MergedSection(cache[r].sources, disk.sources,
                                             pruned[r], ties, clock)
      BY <1>0, <1>6 DEF MergeWithDisk, TypeOK
    <3>2. DOMAIN cache[r].sources = Sources
      BY <1>0 DEF TypeOK, History
    <3>. HIDE DEF ties
    <3>. QED BY <3>1, <3>2 DEF MergedSection, MergedRecord
  <2>2. /\ \A q \in Runs \ {r} : merged'[q] = merged[q]
        /\ UNCHANGED <<disk, cache, sampled>>
    BY <1>0, <1>6 DEF MergeWithDisk, TypeOK, probing
  <2>. QED BY <2>1, <2>2 DEF SourceBanInv, SourcesEarned
<1>7. ASSUME NEW r \in Runs, Exit(r),
             disk' = disk \/ disk'.sources = merged[r].sources
      PROVE  SourcesEarned'
  <2>1. /\ cache'[r].sources = [s \in Sources |-> None]
        /\ merged'[r].sources = [s \in Sources |-> None]
        /\ \A q \in Runs \ {r} : /\ cache'[q] = cache[q]
                                 /\ merged'[q] = merged[q]
        /\ sampled' = sampled
    BY <1>0, <1>7 DEF Exit, EmptyHistory, TypeOK
  <2>. QED BY <1>7, <2>1 DEF SourceBanInv, SourcesEarned
<1>8. CASE UNCHANGED vars
  BY <1>8 DEF vars, SourceBanInv, SourcesEarned
<1>. QED
  BY <1>1, <1>2, <1>3, <1>4, <1>5, <1>6, <1>7, <1>8
  DEF Next, RunStep, ValidateList, WriteFile, Abandon

\* A source is banned on full windows of verdicts, MinChecked for each, that
\* full runs gave it: whatever runs overlap, which copy a merge keeps, and
\* however often the fast track re-probes the source's configs.
THEOREM SourceBansAreEarned == Spec => []SourceBanIsEarned
<1>1. SourceBanInv => SourceBanIsEarned
  <2> SUFFICES ASSUME SourceBanInv, NEW s \in Sources, NEW rec \in SourceCopies(s)
               PROVE  EarnedRecord(rec, sampled[s])
    BY DEF SourceBanIsEarned, EarnedRecord
  <2>. QED BY DEF SourceCopies, SourceBanInv, SourcesEarned
<1>. QED BY <1>1, SourceBanInit, SourceBanStep, PTL DEF Spec
-----------------------------------------------------------------------------
(***************************************************************************)
(* A lone run ends a ban by a pass only.  Inductive invariant: while no    *)
(* save has overtaken a run, what it has not judged is what the file       *)
(* holds, and its copies of the rest, and the merge it will write, either  *)
(* carry a pass or a ban no shorter than the file's.                       *)
(***************************************************************************)
HonoursBan(old, new) ==
    old # None /\ new # None =>
        (old.banned_until > 0 /\ new.at > old.at =>
            new.last_alive = new.at \/ new.banned_until >= old.banned_until)

LoneInv ==
    \A r \in alone : \A c \in Configs :
        /\ pc[r] = "probing" /\ c \notin seen[r] =>
             cache[r].configs[c] = disk.configs[c]
        /\ HonoursBan(disk.configs[c], cache[r].configs[c])
        /\ pc[r] = "merged" => HonoursBan(disk.configs[c], merged[r].configs[c])

LEMMA HonoursSelf ==
    /\ \A rec \in ConfigRecord \cup {None} : HonoursBan(rec, rec)
    /\ \A rec : HonoursBan(rec, None)
BY DEF HonoursBan, ConfigRecord

\* One verdict on the very record that is banned: a pass says so, a failure
\* renews a ban that rested on enough failures.
LEMMA JudgedHonours ==
    ASSUME NEW rec \in ConfigRecord \cup {None}, NEW alive \in BOOLEAN,
           NEW now \in Nat, NEW n \in Nat, SoundRecord(rec, n)
    PROVE  HonoursBan(rec, Judged(rec, alive, now))
<1> SUFFICES ASSUME rec # None, rec.banned_until > 0,
                    Judged(rec, alive, now).at > rec.at
             PROVE  LET new == Judged(rec, alive, now)
                    IN  \/ new.last_alive = new.at
                        \/ new.banned_until >= rec.banned_until
  BY DEF HonoursBan
<1>1. /\ rec.failures \in Nat /\ rec.banned_until \in Nat /\ rec.at \in Nat
      /\ rec.failures >= FailThreshold
      /\ rec.banned_until <= rec.at + Cooldown
  BY DEF ConfigRecord, SoundRecord
<1>2. /\ Judged(rec, alive, now).at = now
      /\ Judged(rec, alive, now).last_alive =
           IF alive THEN now ELSE rec.last_alive
      /\ Judged(rec, alive, now).banned_until =
           IF alive THEN 0
           ELSE IF rec.failures + 1 >= FailThreshold THEN now + Cooldown
           ELSE rec.banned_until
  BY DEF Judged, BanAfter, OrNew
<1>. QED BY <1>1, <1>2, SettingsAssumption

LEMMA LoneStep == BanInv /\ LoneInv /\ [Next]_vars => LoneInv'
<1> SUFFICES ASSUME BanInv, LoneInv, [Next]_vars PROVE LoneInv'
  OBVIOUS
<1>0. TypeOK
  BY DEF BanInv
<1>1. \A c \in Configs : \A r \in Runs :
        /\ disk.configs[c] \in ConfigRecord \cup {None}
        /\ cache[r].configs[c] \in ConfigRecord \cup {None}
  BY <1>0 DEF TypeOK, File, History
<1> USE HonoursSelf
<1>2. CASE Tick
  BY <1>2 DEF Tick, probing, LoneInv
<1>3. ASSUME NEW r \in Runs, Load(r) PROVE LoneInv'
  <2>1. /\ cache'[r].configs = disk.configs /\ pc'[r] = "probing"
        /\ \A q \in Runs \ {r} : cache'[q] = cache[q] /\ pc'[q] = pc[q]
        /\ UNCHANGED <<disk, merged, seen>> /\ alone' = alone \cup {r}
    BY <1>0, <1>3 DEF Load, Goto, TypeOK
  <2>2. alone \subseteq Runs
    BY <1>0 DEF TypeOK
  <2>. QED BY <1>1, <2>1, <2>2 DEF LoneInv
<1>4. ASSUME NEW r \in Runs, NEW listed \in SUBSET Configs,
             NEW verdicts \in SUBSET listed, NEW alive \in SUBSET verdicts,
             RecordProbeHealth(r, listed, verdicts, alive)
      PROVE  LoneInv'
  <2> DEFINE judged == Unjudged(r, verdicts)
  <2>1. /\ cache'[r].configs = UpdatedConfigs(cache[r].configs, judged, alive)
        /\ seen'[r] = seen[r] \cup judged
        /\ \A q \in Runs \ {r} : cache'[q] = cache[q] /\ seen'[q] = seen[q]
        /\ pc[r] = "probing" /\ UNCHANGED <<disk, merged, pc, alone>>
    BY <1>0, <1>4 DEF RecordProbeHealth, TypeOK
  <2>2. ASSUME r \in alone, NEW c \in Configs
        PROVE  /\ c \notin seen'[r] => cache'[r].configs[c] = disk.configs[c]
               /\ HonoursBan(disk.configs[c], cache'[r].configs[c])
    <3>1. cache'[r].configs[c] =
            IF c \in judged THEN Judged(cache[r].configs[c], c \in alive, clock)
            ELSE cache[r].configs[c]
      BY <2>1 DEF UpdatedConfigs
    <3>2. CASE c \in judged
      <4>1. cache[r].configs[c] = disk.configs[c]
        BY <2>1, <2>2, <3>2 DEF LoneInv, Unjudged
      <4>2. SoundRecord(disk.configs[c], Cardinality(deadRuns[c]))
            /\ clock \in Nat /\ Cardinality(deadRuns[c]) \in Nat
        BY <1>0, DeadRunsFinite DEF BanInv, CopiesSound, TypeOK
      <4>3. (c \in alive) \in BOOLEAN
        OBVIOUS
      <4>4. HonoursBan(disk.configs[c],
                       Judged(disk.configs[c], c \in alive, clock))
        BY <1>1, <4>2, <4>3, JudgedHonours
      <4>. QED BY <2>1, <3>1, <3>2, <4>1, <4>4
    <3>3. CASE c \notin judged
      BY <2>1, <2>2, <3>1, <3>3 DEF LoneInv
    <3>. QED BY <3>2, <3>3
  <2>3. alone \subseteq Runs
    BY <1>0 DEF TypeOK
  <2>. HIDE DEF judged
  <2>. QED BY <2>1, <2>2, <2>3 DEF LoneInv
<1>5. ASSUME NEW r \in Runs, Prune(r) PROVE LoneInv'
  <2>1. \A c \in Configs : cache'[r].configs[c] \in {cache[r].configs[c], None}
    <3>1. PICK E, S, X :
            cache' = [cache EXCEPT
              ![r] = [configs |-> Without(Without(cache[r].configs, S), E),
                      sources |-> X]]
      BY <1>5 DEF Prune
    <3>2. cache'[r].configs = Without(Without(cache[r].configs, S), E)
      BY <1>0, <3>1 DEF TypeOK
    <3>3. DOMAIN cache[r].configs = Configs
      BY <1>0 DEF TypeOK, History
    <3>. QED BY <3>2, <3>3 DEF Without
  <2>2. /\ \A q \in Runs \ {r} : cache'[q] = cache[q] /\ pc'[q] = pc[q]
        /\ pc'[r] = "pruned" /\ alone \subseteq Runs
        /\ UNCHANGED <<disk, merged, seen, alone>>
    BY <1>0, <1>5 DEF Prune, Goto, TypeOK, probing
  <2>. QED BY <2>1, <2>2 DEF LoneInv
<1>6. ASSUME NEW r \in Runs, AcquireLock(r) \/ ProceedUnlocked(r) PROVE LoneInv'
  <2>1. /\ \A q \in Runs \ {r} : pc'[q] = pc[q]
        /\ pc'[r] = "locked" /\ alone \subseteq Runs
        /\ UNCHANGED <<disk, cache, merged, seen, alone>>
    BY <1>0, <1>6 DEF AcquireLock, ProceedUnlocked, Goto, TypeOK, probing
  <2>. QED BY <2>1 DEF LoneInv
<1>7. ASSUME NEW r \in Runs, MergeWithDisk(r) PROVE LoneInv'
  <2>1. \A c \in Configs : merged'[r].configs[c] \in
                             {cache[r].configs[c], disk.configs[c], None}
    <3> DEFINE ties == disk.updated > loadedAt[r]
    <3>1. merged'[r].configs = MergedSection(cache[r].configs, disk.configs,
                                             pruned[r], ties, clock)
      BY <1>0, <1>7 DEF MergeWithDisk, TypeOK
    <3>2. DOMAIN cache[r].configs = Configs
      BY <1>0 DEF TypeOK, History
    <3>. HIDE DEF ties
    <3>. QED BY <3>1, <3>2 DEF MergedSection, MergedRecord
  <2>2. /\ \A q \in Runs \ {r} : merged'[q] = merged[q] /\ pc'[q] = pc[q]
        /\ pc'[r] = "merged" /\ alone \subseteq Runs
        /\ UNCHANGED <<disk, cache, seen, alone>>
    BY <1>0, <1>7 DEF MergeWithDisk, Goto, TypeOK, probing
  <2>. QED BY <1>1, <2>1, <2>2 DEF LoneInv
<1>8. ASSUME NEW r \in Runs, WriteFile(r) PROVE LoneInv'
  BY <1>8 DEF WriteFile, LoneInv
<1>9. ASSUME NEW r \in Runs, Abandon(r) PROVE LoneInv'
  <2>1. /\ \A q \in Runs \ {r} : /\ cache'[q] = cache[q] /\ pc'[q] = pc[q]
                                 /\ merged'[q] = merged[q]
                                 /\ seen'[q] = seen[q]
        /\ disk' = disk /\ alone' = alone \ {r} /\ alone \subseteq Runs
    BY <1>0, <1>9 DEF Abandon, Exit, Goto, TypeOK
  <2>. QED BY <2>1 DEF LoneInv
<1>10. CASE UNCHANGED vars
  BY <1>10 DEF vars, LoneInv
<1>. QED
  BY <1>2, <1>3, <1>4, <1>5, <1>6, <1>7, <1>8, <1>9, <1>10
  DEF Next, RunStep, ValidateList

\* A run that no save overtook ends a running ban by a pass only, with or
\* without a working lock, for any number of runs that load, crash or save
\* around it.
THEOREM LoneRunsKeepBans == Spec => LoneRunKeepsBans
<1>1. Init => LoneInv
  BY DEF Init, LoneInv
<1>2. BanInv /\ LoneInv /\ [Next]_vars =>
        [\A r \in alone : WriteFile(r) => \A c \in Configs : EndsBanByPass(c)]_vars
  <2> SUFFICES ASSUME BanInv, LoneInv, NEW r \in alone, WriteFile(r),
                      NEW c \in Configs
               PROVE  EndsBanByPass(c)
    OBVIOUS
  <2> DEFINE old == disk.configs[c]
             new == merged[r].configs[c]
  <2>1. disk'.configs[c] = new /\ HonoursBan(old, new)
    BY DEF WriteFile, LoneInv
  <2>2. /\ clock \in Nat /\ old \in ConfigRecord \cup {None}
        /\ new \in ConfigRecord \cup {None}
    BY DEF BanInv, TypeOK, File, History
  <2>3. BannedAt(old, clock) /\ new # None /\ new.at > old.at =>
           BannedAt(new, clock) \/ new.last_alive = new.at
    <3>. HIDE DEF old, new
    <3>. QED BY <2>1, <2>2 DEF BannedAt, HonoursBan, ConfigRecord
  <2>. QED BY <2>1, <2>3 DEF EndsBanByPass
<1>. QED BY <1>1, <1>2, BanInit, BanStep, LoneStep, PTL DEF Spec, LoneRunKeepsBans
============================================================================
