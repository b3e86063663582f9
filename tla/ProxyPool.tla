----------------------------- MODULE ProxyPool -----------------------------
(***************************************************************************)
(* The free SOCKS5 pool the validation may go through: the search for it   *)
(* (liveness_pool.py over validators/proxy_pool.py), the cache a run keeps *)
(* it in, the recheck and refill before the Xray stage of a list, the      *)
(* watchdog after a list that came back poor, and the health history of    *)
(* the proxies (validators/proxy_health.py).                               *)
(*                                                                         *)
(* Pools are sets: the order inside one is a score, and a slice of it is   *)
(* any subset of that size.  The pool is enabled, validated and refreshed  *)
(* (proxy_pool.enabled, validate and health.refresh_if_below_min), and     *)
(* lists that are probed directly never touch it.                          *)
(***************************************************************************)
EXTENDS Integers, Sequences, FiniteSets, FiniteSetsExt, SequencesExt

CONSTANTS
    Explicit,      \* proxies a user may have configured
    NoPool,        \* the cache before the first list asks for the pool
    Offers,        \* the proxies each free list names, in its order
    TooSlow,       \* those whose successful check is above max_latency_ms
    MinPool, MaxPool, Rounds, PerSource,
    ProbeCount,    \* xray_proxy_probe_count
    Slots,         \* validation_concurrency
    Limit,         \* _POOL_REFETCH_LIMIT
    BanAfter,      \* ban_after_consecutive_failures
    Lists,         \* lists validated in a run
    MaxChanges     \* bound: times a proxy comes up or goes down

Free == UNION {ToSet(Offers[i]) : i \in DOMAIN Offers}
Proxies == Explicit \cup Free

ASSUME PoolAssumption ==
    /\ Offers \in Seq(Seq(Free)) /\ IsFiniteSet(Free)
    /\ Explicit \cap Free = {}
    /\ TooSlow \subseteq Free
    /\ {MinPool, MaxPool, Rounds, PerSource, Slots, Limit, BanAfter} \subseteq Nat \ {0}
    /\ {Lists, MaxChanges} \subseteq Nat
    /\ MinPool <= MaxPool
    /\ \A S \in SUBSET Proxies : NoPool # S

VARIABLES
    configured,               \* the explicit proxy of the settings, or {}
    up, changes,              \* proxies that answer now
    fails, banned, measured,  \* the history: failures in a row, bans, latency known
    cache, refetches,         \* _validator_proxy_urls_cache, _pool_refetch_count
    pc, why, list,            \* the step, what a search or a check is for, lists done
    round, pool,              \* the search: its round, what it found so far
    todo, flying, alive,      \* the self-check in progress
    stale, rechecked,         \* what a refill falls back on
    probed,                   \* proxies the Xray stage goes through
    proved,                   \* proxies that passed a check made for this list
    installed                 \* pools put in the cache during the run

world == <<configured, up, changes>>
history == <<fails, banned, measured>>
search == <<round, pool>>
check == <<todo, flying, alive>>
record == <<proved, installed>>
fallback == <<stale, rechecked>>
vars == <<world, history, cache, refetches, pc, why, list, search, check, fallback,
          probed, record>>

Init ==
    /\ configured \in {{}} \cup {{p} : p \in Explicit}
    /\ up \in SUBSET (configured \cup Free) /\ changes = 0
    /\ fails = [p \in Proxies |-> 0] /\ banned = {} /\ measured = {}
    /\ cache = NoPool /\ refetches = 0
    /\ pc = "between" /\ why = "fill" /\ list = 0
    /\ round = 0 /\ pool = {}
    /\ todo = {} /\ flying = {} /\ alive = {}
    /\ stale = {} /\ rechecked = {} /\ probed = {}
    /\ proved = {} /\ installed = 0

Least(a, b) == IF a < b THEN a ELSE b

\* The slices of S that [:n] of some order of it can be.
Slices(S, n) == kSubset(Least(n, Cardinality(S)), S)
-----------------------------------------------------------------------------
(* The history.                                                            *)

\* record for each proxy of a set that was checked.
Judged(checked, passed) ==
    /\ fails' = [p \in Proxies |->
                   IF p \in passed THEN 0
                   ELSE IF p \in checked THEN Least(fails[p] + 1, BanAfter)
                   ELSE fails[p]]
    /\ banned' = (banned \ passed) \cup {p \in checked : fails'[p] = BanAfter}

\* rank, as the set it leaves.
Ranked(S) == {p \in S : ~ (p \in banned /\ fails[p] = BanAfter)
                        /\ ~ (p \in measured /\ p \in TooSlow)}
-----------------------------------------------------------------------------
(* The search.                                                             *)

\* The proxies that the first so many names of a list add to those seen.
NewIn(names, seen, k) == {names[j] : j \in 1 .. k} \ seen

\* The first n proxies of a list that were not seen before.
FirstNew(names, seen, n) ==
    UNION {NewIn(names, seen, k) :
             k \in {j \in DOMAIN names : Cardinality(NewIn(names, seen, j)) <= n}}

\* fetch_proxy_candidates: the lists that could be fetched, in order, each
\* for at most n proxies not seen before; what was found in the first i lists.
Found(fetched, n) ==
    LET found[i \in 0 .. Len(Offers)] ==
          IF i = 0 THEN {}
          ELSE IF i \notin fetched THEN found[i - 1]
          ELSE found[i - 1] \cup FirstNew(Offers[i], found[i - 1], n)
    IN found

Candidates(fetched, r) == Found(fetched, PerSource * 2 ^ (r - 1))[Len(Offers)]

\* One round of load_proxy_pool: a history that rejects everybody is ignored.
BeginRound ==
    /\ pc = "search" /\ round < Rounds
    /\ \E fetched \in SUBSET DOMAIN Offers :
          LET found == Candidates(fetched, round + 1)
              healthy == Ranked(found)
          IN todo' = IF healthy # {} THEN healthy ELSE found
    /\ round' = round + 1 /\ flying' = {} /\ alive' = {}
    /\ pc' = "check"
    /\ UNCHANGED <<world, history, cache, refetches, why, list, pool, fallback,
                   probed, record>>

\* A mutant: a rebuild is not counted.
Uncounted == refetches

Refetched == refetches + 1

\* What a search that has `fresh` ends with: a refill that found nothing puts
\* the old pool back and leaves the stage with what it rechecked.
Install(fresh) ==
    IF why = "fill"
    THEN /\ cache' = fresh /\ pc' = "list" /\ installed' = installed + 1
         /\ UNCHANGED <<refetches, probed>>
    ELSE /\ pc' = "probe"
         /\ IF fresh = {}
            THEN /\ cache' = stale /\ probed' \in Slices(rechecked, ProbeCount)
                 /\ UNCHANGED <<refetches, installed>>
            ELSE /\ cache' = fresh /\ probed' \in Slices(fresh, ProbeCount)
                 /\ refetches' = Refetched /\ installed' = installed + 1

\* The pool is searched in rounds until it is large enough.
EndSearch ==
    /\ pc = "search" /\ (round = Rounds \/ Cardinality(pool) >= MinPool)
    /\ Install(configured \cup pool)
    /\ UNCHANGED <<world, history, why, list, search, check, fallback, proved>>

\* _validator_proxy_urls catches whatever the search raises.
SearchFails ==
    /\ pc = "search" /\ round > 0
    /\ Install(configured)
    /\ UNCHANGED <<world, history, why, list, search, check, fallback, proved>>
-----------------------------------------------------------------------------
(* validate_proxy_candidates.                                              *)

Wanted == IF why = "recheck" THEN Cardinality(cache) ELSE MaxPool
Enough == Cardinality(alive) >= Wanted

StartCheck(p) ==
    /\ pc = "check" /\ p \in todo /\ ~ Enough /\ Cardinality(flying) < Slots
    /\ todo' = todo \ {p} /\ flying' = flying \cup {p}
    /\ UNCHANGED <<world, history, cache, refetches, pc, why, list, search, alive,
                   fallback, probed, record>>

\* A proxy in flight when enough others answered may still answer before the
\* tasks are cancelled.
EndCheck(p) ==
    /\ pc = "check" /\ p \in flying
    /\ flying' = flying \ {p}
    /\ LET passed == {p} \cap up IN
          /\ Judged({p}, passed)
          /\ alive' = alive \cup passed
          /\ proved' = proved \cup passed
          /\ measured' = measured \cup passed
    /\ UNCHANGED <<world, cache, refetches, pc, why, list, search, todo, fallback,
                   probed, installed>>

\* Those cancelled get no record.
CheckEnds ==
    /\ pc = "check" /\ (Enough \/ (todo = {} /\ flying = {}))
    /\ todo' = {} /\ flying' = {}

\* Later rounds add to what earlier ones found.
Merged(found) == {pool \cup new : new \in Slices(found \ pool, MaxPool - Cardinality(pool))}

EndRound ==
    /\ CheckEnds /\ why # "recheck"
    /\ \E passed \in Slices(alive, Wanted) : pool' \in Merged(Ranked(passed))
    /\ alive' = {} /\ pc' = "search"
    /\ UNCHANGED <<world, history, cache, refetches, why, list, round, fallback,
                   probed, record>>
-----------------------------------------------------------------------------
(* A list.                                                                 *)

ToSearch(reason) ==
    /\ pc' = "search" /\ why' = reason /\ round' = 0 /\ pool' = {}

\* _validate_configs asks for the pool, which is searched for once.
StartList ==
    /\ pc = "between" /\ list < Lists
    /\ list' = list + 1 /\ proved' = {}
    /\ IF cache = NoPool THEN ToSearch("fill")
       ELSE pc' = "list" /\ UNCHANGED <<why, search>>
    /\ UNCHANGED <<world, history, cache, refetches, check, fallback, probed, installed>>

\* Before the Xray stage the whole pool is checked again.
StartRecheck ==
    /\ pc = "list" /\ cache # {}
    /\ pc' = "check" /\ why' = "recheck"
    /\ todo' = cache /\ flying' = {} /\ alive' = {} /\ proved' = {}
    /\ UNCHANGED <<world, history, cache, refetches, list, search, fallback, probed,
                   installed>>

\* An empty pool: the stage probes directly.
ProbeDirectly ==
    /\ pc = "list" /\ cache = {}
    /\ probed' = {} /\ pc' = "probe"
    /\ UNCHANGED <<world, history, cache, refetches, why, list, search, check, fallback,
                   record>>

Exhausted == refetches >= Limit
Thinned == Cardinality(alive) < Cardinality(cache) \div 2

\* A mutant: nobody answered the recheck, so the pool is used as it was.
AsPreselected == IF alive = {} THEN cache ELSE alive

\* What the stage goes through when the pool is not rebuilt.
Survivors == alive

EndRecheck ==
    /\ CheckEnds /\ why = "recheck"
    /\ rechecked' = alive
    /\ IF Thinned /\ ~ Exhausted
       THEN stale' = cache /\ cache' = NoPool /\ ToSearch("refill") /\ UNCHANGED probed
       ELSE /\ probed' \in Slices(Survivors, ProbeCount) /\ pc' = "probe"
            /\ UNCHANGED <<stale, cache, why, search>>
    /\ alive' = {}
    /\ UNCHANGED <<world, history, refetches, list, record>>

\* The list is validated.  It is poor when _pool_degraded or nothing is alive.
ListEnds ==
    /\ pc = "probe"
    /\ pc' \in {"between", "watchdog"}
    /\ probed' = {} /\ stale' = {} /\ rechecked' = {}
    /\ UNCHANGED <<world, history, cache, refetches, why, list, search, check, record>>

\* A mutant: the watchdog keeps only what answered.
KeptWithoutConfigured(responding) == responding

\* The watchdog keeps the explicit proxy, which it does not check.
Kept(responding) == responding \cup (cache \cap configured)

\* _pool_died_after_empty_list.
Watchdog ==
    /\ pc = "watchdog"
    /\ LET checked == cache \ configured
           responding == checked \cap up
       IN /\ Judged(checked, responding)
          /\ IF responding = checked
             THEN UNCHANGED <<cache, refetches>>
             ELSE IF responding # {}
             THEN cache' = Kept(responding) /\ UNCHANGED refetches
             ELSE IF Exhausted
             THEN UNCHANGED <<cache, refetches>>
             ELSE cache' = NoPool /\ refetches' = Refetched
    /\ pc' = "between"
    /\ UNCHANGED <<world, measured, why, list, search, check, fallback, probed, record>>

\* The next run: the runner drops the cache, validate_by_list the count; the
\* history is saved and loaded.
NextRun ==
    /\ pc = "between" /\ list = Lists
    /\ cache' = NoPool /\ refetches' = 0 /\ list' = 0 /\ installed' = 0
    /\ UNCHANGED <<world, history, pc, why, search, check, fallback, probed, proved>>
-----------------------------------------------------------------------------
(* The world.                                                              *)

Change(p) ==
    /\ changes < MaxChanges /\ changes' = changes + 1
    /\ p \in configured \cup Free /\ UNCHANGED configured
    /\ up' = IF p \in up THEN up \ {p} ELSE up \cup {p}
    /\ UNCHANGED <<history, cache, refetches, pc, why, list, search, check, fallback,
                   probed, record>>

\* ban_seconds go by.
BanExpires(p) ==
    /\ p \in banned /\ banned' = banned \ {p}
    /\ UNCHANGED <<world, fails, measured, cache, refetches, pc, why, list, search,
                   check, fallback, probed, record>>

Next ==
    \/ StartList \/ BeginRound \/ EndSearch \/ SearchFails \/ EndRound
    \/ StartRecheck \/ ProbeDirectly \/ EndRecheck \/ ListEnds \/ Watchdog \/ NextRun
    \/ \E p \in Proxies : StartCheck(p) \/ EndCheck(p) \/ Change(p) \/ BanExpires(p)

Spec == Init /\ [][Next]_vars
-----------------------------------------------------------------------------
\* Types; in particular the explicit proxy is in every pool the run keeps,
\* whatever was rebuilt, restored or thinned out, and a pool has its size.
TypeOK ==
    /\ configured \subseteq Explicit /\ up \subseteq Proxies /\ changes \in 0 .. MaxChanges
    /\ fails \in [Proxies -> 0 .. BanAfter]
    /\ banned \subseteq {p \in Proxies : fails[p] = BanAfter} /\ measured \subseteq Proxies
    /\ \/ cache = NoPool
       \/ /\ cache \subseteq Proxies /\ configured \subseteq cache
          /\ Cardinality(cache \ configured) <= MaxPool
    /\ refetches \in 0 .. Limit
    /\ pc \in {"between", "list", "search", "check", "probe", "watchdog"}
    /\ why \in {"fill", "refill", "recheck"} /\ list \in 0 .. Lists
    /\ round \in 0 .. Rounds
    /\ {pool, todo, flying, alive, stale, rechecked, probed} \subseteq SUBSET Proxies

\* However often lists come back poor and rechecks thin the pool out, a run
\* rebuilds its pool at most _POOL_REFETCH_LIMIT times: refill and watchdog
\* share the budget.
RebuildsWithinLimit == installed <= 1 + Limit

\* The Xray stage goes through a free proxy only if it passed a check made for
\* this very list: a proxy that died since the pool was filled would mark
\* living configs dead.
ProbesThroughProved == pc = "probe" => probed \subseteq proved \cup configured
=============================================================================
