-------------------------- MODULE ProxyPoolProofs --------------------------
(***************************************************************************)
(* Proofs about ProxyPool, for any lists of proxies, any limits and any    *)
(* number of lists and changes.                                            *)
(***************************************************************************)
EXTENDS ProxyPool, FiniteSetTheorems, WellFoundedInduction, TLAPS

\* A slice of an order of S is a part of S.
LEMMA SliceIsPart ==
    ASSUME NEW S, NEW n, NEW T \in Slices(S, n)
    PROVE  T \subseteq S
BY DEF Slices, kSubset

\* What a round adds to the pool was found in it.
LEMMA MergedIsPart ==
    ASSUME NEW found, NEW P \in Merged(found)
    PROVE  P \subseteq pool \cup found
BY SliceIsPart DEF Merged

Searching == pc \in {"search", "check"} /\ why \in {"fill", "refill"}
Refilling == pc \in {"search", "check"} /\ why = "refill"

\* Every pool the run holds is one of proxies, and while a list is at work there
\* is one, in the cache or set aside for the refill.
PoolsInv ==
    /\ configured \subseteq Proxies /\ pool \subseteq Proxies /\ alive \subseteq Proxies
    /\ pc \in {"between", "list", "search", "check", "probe", "watchdog"}
    /\ why \in {"fill", "refill", "recheck"}
    /\ pc = "search" => why # "recheck"
    /\ pc \in {"list", "probe", "watchdog"} => cache \in SUBSET Proxies
    /\ pc = "check" /\ why = "recheck" => cache \in SUBSET Proxies
    /\ pc = "between" => cache \in (SUBSET Proxies) \cup {NoPool}
    /\ Refilling => stale \in SUBSET Proxies

\* The first pool is free; each further one was paid for: by the watchdog when it
\* dropped the cache, by a refill when it installed what it found.
RebuildInv ==
    /\ refetches \in 0 .. Limit /\ installed \in Nat
    /\ installed <= refetches + 1
    /\ Searching /\ why = "fill" => installed <= refetches
    /\ pc = "between" /\ cache = NoPool => installed <= refetches
    /\ Refilling => refetches < Limit

\* Whatever the stage may yet go through has passed a check for this list.
ProvedInv ==
    /\ pc = "check" => alive \subseteq proved
    /\ Searching => pool \subseteq proved
    /\ Refilling => rechecked \subseteq proved
    /\ ProbesThroughProved

PoolInv == PoolsInv /\ RebuildInv /\ ProvedInv
-----------------------------------------------------------------------------
\* Whatever ends a search leaves a pool of proxies, the stage with a part of it
\* or of what it rechecked, and a count that covers it.
LEMMA InstallKeeps ==
    ASSUME PoolInv, pc = "search",
           NEW fresh \in SUBSET Proxies, fresh \subseteq pool \cup configured,
           Install(fresh),
           UNCHANGED <<world, history, why, list, search, check, fallback, proved>>
    PROVE  PoolInv'
<1>. USE DEF PoolInv, Searching, Refilling, world, search, check, fallback
<1>1. fresh \subseteq proved \cup configured
  BY DEF PoolsInv, ProvedInv
<1>2. CASE why = "fill"
  <2>1. cache' = fresh /\ pc' = "list" /\ installed' = installed + 1
        /\ UNCHANGED <<refetches, probed>>
    BY <1>2 DEF Install
  <2>2. PoolsInv' BY <1>2, <2>1 DEF PoolsInv
  <2>3. RebuildInv' BY <1>2, <2>1 DEF RebuildInv
  <2>4. ProvedInv' BY <1>2, <2>1 DEF ProvedInv, ProbesThroughProved
  <2>. QED BY <2>2, <2>3, <2>4
<1>3. CASE why = "refill" /\ fresh = {}
  <2>1. /\ pc' = "probe" /\ cache' = stale
        /\ probed' \in Slices(rechecked, ProbeCount)
        /\ UNCHANGED <<refetches, installed>>
    BY <1>3 DEF Install
  <2>2. probed' \subseteq rechecked BY <2>1, SliceIsPart
  <2>3. PoolsInv' BY <1>3, <2>1 DEF PoolsInv
  <2>4. RebuildInv' BY <1>3, <2>1 DEF RebuildInv
  <2>5. ProvedInv' BY <1>3, <2>1, <2>2 DEF ProvedInv, ProbesThroughProved
  <2>. QED BY <2>3, <2>4, <2>5
<1>4. CASE why = "refill" /\ fresh # {}
  <2>1. /\ pc' = "probe" /\ cache' = fresh
        /\ probed' \in Slices(fresh, ProbeCount)
        /\ refetches' = refetches + 1 /\ installed' = installed + 1
    BY <1>4 DEF Install, Refetched
  <2>2. probed' \subseteq fresh BY <2>1, SliceIsPart
  <2>3. PoolsInv' BY <1>4, <2>1 DEF PoolsInv
  <2>4. RebuildInv'
    BY <1>4, <2>1, PoolAssumption DEF RebuildInv
  <2>5. ProvedInv' BY <1>1, <1>4, <2>1, <2>2 DEF ProvedInv, ProbesThroughProved
  <2>. QED BY <2>3, <2>4, <2>5
<1>. QED BY <1>2, <1>3, <1>4 DEF PoolsInv

\* Initially no pool was installed and none was paid for.
LEMMA InitPools == Init => PoolInv
BY PoolAssumption DEF Init, Proxies, PoolInv, PoolsInv, RebuildInv, ProvedInv,
   ProbesThroughProved, Searching, Refilling

\* A list takes the pool of the run, or has it searched for.
LEMMA StartListKeeps == PoolInv /\ StartList => PoolInv'
BY DEF PoolInv, PoolsInv, RebuildInv, ProvedInv, ProbesThroughProved, Searching,
   Refilling, StartList, ToSearch, world, history, search, check, fallback

LEMMA BeginRoundKeeps == PoolInv /\ BeginRound => PoolInv'
<1>. SUFFICES ASSUME PoolInv, BeginRound PROVE PoolInv'
  OBVIOUS
<1>1. /\ pc = "search" /\ pc' = "check" /\ alive' = {}
      /\ UNCHANGED <<configured, cache, refetches, why, pool, stale, rechecked, probed,
                     proved, installed>>
  BY DEF BeginRound, world, fallback, record
<1>. QED
  BY <1>1 DEF PoolInv, PoolsInv, RebuildInv, ProvedInv, ProbesThroughProved,
              Searching, Refilling

LEMMA EndSearchKeeps == PoolInv /\ EndSearch => PoolInv'
<1>. SUFFICES ASSUME PoolInv, EndSearch PROVE PoolInv'
  OBVIOUS
<1>1. configured \cup pool \in SUBSET Proxies
  BY DEF PoolInv, PoolsInv
<1>. QED BY <1>1, InstallKeeps DEF EndSearch

LEMMA SearchFailsKeeps == PoolInv /\ SearchFails => PoolInv'
<1>. SUFFICES ASSUME PoolInv, SearchFails PROVE PoolInv'
  OBVIOUS
<1>1. configured \in SUBSET Proxies
  BY DEF PoolInv, PoolsInv
<1>. QED BY <1>1, InstallKeeps DEF SearchFails

LEMMA StartCheckKeeps ==
    ASSUME NEW p \in Proxies, PoolInv, StartCheck(p)
    PROVE  PoolInv'
BY DEF PoolInv, PoolsInv, RebuildInv, ProvedInv, ProbesThroughProved, Searching,
   Refilling, StartCheck, world, history, search, fallback, record

LEMMA EndCheckKeeps ==
    ASSUME NEW p \in Proxies, PoolInv, EndCheck(p)
    PROVE  PoolInv'
<1>1. PICK passed \in SUBSET Proxies :
         alive' = alive \cup passed /\ proved' = proved \cup passed
  BY DEF EndCheck
<1>2. /\ pc = "check"
      /\ UNCHANGED <<configured, cache, refetches, pc, why, pool, stale, rechecked,
                     probed, installed>>
  BY DEF EndCheck, world, search, fallback
<1>. QED
  BY <1>1, <1>2 DEF PoolInv, PoolsInv, RebuildInv, ProvedInv, ProbesThroughProved,
                    Searching, Refilling

\* What the round found and the history lets through is added to the pool.
LEMMA EndRoundKeeps == PoolInv /\ EndRound => PoolInv'
<1>. SUFFICES ASSUME PoolInv, EndRound PROVE PoolInv'
  OBVIOUS
<1>1. PICK passed \in Slices(alive, Wanted) : pool' \in Merged(Ranked(passed))
  BY DEF EndRound
<1>2. pool' \subseteq pool \cup alive
  BY <1>1, SliceIsPart, MergedIsPart DEF Ranked
<1>3. /\ pc = "check" /\ pc' = "search" /\ why # "recheck" /\ alive' = {}
      /\ UNCHANGED <<configured, cache, refetches, why, stale, rechecked, probed,
                     proved, installed>>
  BY DEF EndRound, CheckEnds, world, fallback, record
<1>. QED
  BY <1>2, <1>3 DEF PoolInv, PoolsInv, RebuildInv, ProvedInv, ProbesThroughProved,
                    Searching, Refilling

LEMMA StartRecheckKeeps == PoolInv /\ StartRecheck => PoolInv'
BY DEF PoolInv, PoolsInv, RebuildInv, ProvedInv, ProbesThroughProved, Searching,
   Refilling, StartRecheck, world, history, search, fallback

LEMMA ProbeDirectlyKeeps == PoolInv /\ ProbeDirectly => PoolInv'
BY DEF PoolInv, PoolsInv, RebuildInv, ProvedInv, ProbesThroughProved, Searching,
   Refilling, ProbeDirectly, world, history, search, check, fallback, record

\* The stage goes on with survivors of this check, or sets the pool aside.
LEMMA EndRecheckKeeps == PoolInv /\ EndRecheck => PoolInv'
<1>. SUFFICES ASSUME PoolInv, EndRecheck PROVE PoolInv'
  OBVIOUS
<1>1. /\ pc = "check" /\ why = "recheck" /\ rechecked' = alive /\ alive' = {}
      /\ UNCHANGED <<configured, refetches, proved, installed>>
  BY DEF EndRecheck, CheckEnds, world, record
<1>2. CASE Thinned /\ ~ Exhausted
  <2>1. /\ stale' = cache /\ cache' = NoPool /\ UNCHANGED probed
        /\ pc' = "search" /\ why' = "refill" /\ pool' = {}
    BY <1>2 DEF EndRecheck, ToSearch
  <2>2. refetches < Limit
    BY <1>2, PoolAssumption DEF PoolInv, RebuildInv, Exhausted
  <2>. QED
    BY <1>1, <2>1, <2>2 DEF PoolInv, PoolsInv, RebuildInv, ProvedInv,
                        ProbesThroughProved, Searching, Refilling
<1>3. CASE ~ (Thinned /\ ~ Exhausted)
  <2>1. /\ probed' \in Slices(alive, ProbeCount) /\ pc' = "probe"
        /\ UNCHANGED <<stale, cache, why, pool>>
    BY <1>3 DEF EndRecheck, Survivors, search
  <2>2. probed' \subseteq alive
    BY <2>1, SliceIsPart
  <2>. QED
    BY <1>1, <2>1, <2>2 DEF PoolInv, PoolsInv, RebuildInv, ProvedInv,
                        ProbesThroughProved, Searching, Refilling
<1>. QED BY <1>2, <1>3

LEMMA ListEndsKeeps == PoolInv /\ ListEnds => PoolInv'
BY PoolAssumption
DEF PoolInv, PoolsInv, RebuildInv, ProvedInv, ProbesThroughProved, Searching,
    Refilling, ListEnds, world, history, search, check, record

\* The watchdog pays for the pool it drops.
LEMMA WatchdogKeeps == PoolInv /\ Watchdog => PoolInv'
<1>. SUFFICES ASSUME PoolInv, Watchdog PROVE PoolInv'
  OBVIOUS
<1>1. /\ pc = "watchdog" /\ pc' = "between"
      /\ UNCHANGED <<configured, why, pool, alive, stale, rechecked, probed, proved,
                     installed>>
  BY DEF Watchdog, world, search, check, fallback, record
<1>2. cache \in SUBSET Proxies
  BY <1>1 DEF PoolInv, PoolsInv
<1>3. \/ UNCHANGED <<cache, refetches>>
      \/ cache' \in SUBSET Proxies /\ UNCHANGED refetches
      \/ ~ Exhausted /\ cache' = NoPool /\ refetches' = refetches + 1
  BY <1>2 DEF Watchdog, Kept, Refetched
<1>4. cache' \in SUBSET Proxies \/ (cache' = NoPool /\ installed' <= refetches')
  BY <1>1, <1>2, <1>3 DEF PoolInv, RebuildInv
<1>5. PoolsInv'
  BY <1>1, <1>4 DEF PoolInv, PoolsInv, Refilling
<1>6. RebuildInv'
  BY <1>1, <1>3, <1>4, PoolAssumption
  DEF PoolInv, RebuildInv, Searching, Refilling, Exhausted
<1>7. ProvedInv'
  BY <1>1 DEF PoolInv, ProvedInv, ProbesThroughProved, Searching, Refilling
<1>. QED BY <1>5, <1>6, <1>7 DEF PoolInv

LEMMA NextRunKeeps == PoolInv /\ NextRun => PoolInv'
BY PoolAssumption
DEF PoolInv, PoolsInv, RebuildInv, ProvedInv, ProbesThroughProved, Searching,
    Refilling, NextRun, world, history, search, check, fallback

LEMMA ChangeKeeps ==
    ASSUME NEW p \in Proxies, PoolInv, Change(p) \/ BanExpires(p)
    PROVE  PoolInv'
<1>1. UNCHANGED <<configured, cache, refetches, pc, why, search, check, fallback,
                  probed, record>>
  BY DEF Change, BanExpires, world
<1>. QED
  BY <1>1 DEF PoolInv, PoolsInv, RebuildInv, ProvedInv, ProbesThroughProved,
              Searching, Refilling, search, check, fallback, record

LEMMA StutterKeeps == PoolInv /\ UNCHANGED vars => PoolInv'
BY DEF PoolInv, PoolsInv, RebuildInv, ProvedInv, ProbesThroughProved, Searching,
   Refilling, vars, world, history, search, check, fallback, record

\* PoolInv is an invariant, action by action.
LEMMA PoolStep == PoolInv /\ [Next]_vars => PoolInv'
BY StartListKeeps, BeginRoundKeeps, EndSearchKeeps, SearchFailsKeeps,
   StartCheckKeeps, EndCheckKeeps, EndRoundKeeps, StartRecheckKeeps,
   ProbeDirectlyKeeps, EndRecheckKeeps, ListEndsKeeps, WatchdogKeeps,
   NextRunKeeps, ChangeKeeps, StutterKeeps
DEF Next

LEMMA PoolInvariant == Spec => []PoolInv
BY InitPools, PoolStep, PTL DEF Spec

\* However many lists a run validates and however often its proxies die, refill
\* (liveness_stages.py:885-930) and watchdog (liveness_pool.py:440-465) install at most
\* _POOL_REFETCH_LIMIT pools after the first.
THEOREM RebuildsAreBounded == Spec => []RebuildsWithinLimit
<1>1. PoolInv => RebuildsWithinLimit
  BY PoolAssumption DEF PoolInv, RebuildInv, RebuildsWithinLimit
<1>. QED BY PoolInvariant, <1>1, PTL

\* Whatever was found, banned, rechecked or put back, the Xray stage goes through
\* the explicit proxy and proxies that passed a check made for this list.
THEOREM OnlyProvedAreUsed == Spec => []ProbesThroughProved
<1>1. PoolInv => ProbesThroughProved
  BY DEF PoolInv, ProvedInv
<1>. QED BY PoolInvariant, <1>1, PTL
-----------------------------------------------------------------------------
(***************************************************************************)
(* Types and sizes.                                                        *)
(***************************************************************************)

\* Any set of numbers has a least one.
LEMMA LeastNumber ==
    ASSUME NEW T \in SUBSET Nat, T # {}
    PROVE  \E m \in T : \A k \in T : m <= k
<1> DEFINE Less == {pair \in Nat \X Nat : pair[1] < pair[2]}
<1>1. IsWellFoundedOn(Less, Nat)
  BY NatLessThanWellFounded, Zenon DEF OpToRel
<1>2. \A k, m \in Nat : k < m => <<k, m>> \in Less
  OBVIOUS
<1>3. PICK m \in T : \A k \in T : ~ (<<k, m>> \in Less)
  <2>. HIDE DEF Less
  <2>1. T \subseteq Nat /\ T # {}
    OBVIOUS
  <2>2. \E m \in T : \A k \in T : ~ (<<k, m>> \in Less)
    BY <1>1, <2>1, WFMin, Zenon
  <2>. QED BY <2>2
<1>4. ASSUME NEW k \in T PROVE m <= k
  <2>. HIDE DEF Less
  <2>1. k \in Nat /\ m \in Nat
    OBVIOUS
  <2>2. ~ (k < m)
    BY <1>2, <1>3, <2>1, Zenon
  <2>. QED BY <2>1, <2>2
<1>. QED BY <1>4

\* The equation of Found has a solution, so Found solves it, list by list.
LEMMA FoundEquation ==
    ASSUME NEW fetched, NEW n
    PROVE  Found(fetched, n) =
             [i \in 0 .. Len(Offers) |->
                IF i = 0 THEN {}
                ELSE IF i \notin fetched THEN Found(fetched, n)[i - 1]
                ELSE Found(fetched, n)[i - 1]
                       \cup FirstNew(Offers[i], Found(fetched, n)[i - 1], n)]
<1> DEFINE next(f, i) == IF i \notin fetched THEN f[i - 1]
                         ELSE f[i - 1] \cup FirstNew(Offers[i], f[i - 1], n)
           upTo(f, k) == f = [i \in 0 .. k |-> IF i = 0 THEN {} ELSE next(f, i)]
           N == Len(Offers)
           T == {k \in 0 .. N : ~ \E f : upTo(f, k)}
<1>1. N \in Nat
  BY PoolAssumption
<1>2. T = {}
  <2> SUFFICES ASSUME T # {} PROVE FALSE
    OBVIOUS
  <2>1. PICK m \in T : \A k \in T : m <= k
    <3>. HIDE DEF upTo
    <3>1. T \in SUBSET Nat
      BY <1>1
    <3>. HIDE DEF T
    <3>. QED BY <3>1, LeastNumber
  <2>2. m # 0
    <3>1. upTo([i \in 0 .. 0 |-> {}], 0)
      OBVIOUS
    <3>. HIDE DEF upTo
    <3>. QED BY <3>1
  <2>3. PICK f : upTo(f, m - 1)
    <3>1. m - 1 \in 0 .. N /\ ~ (m <= m - 1)
      BY <1>1, <2>1, <2>2
    <3>. HIDE DEF upTo
    <3>. QED BY <2>1, <3>1
  <2> DEFINE g == [i \in 0 .. m |-> IF i = m THEN next(f, m) ELSE f[i]]
  <2>4. m \in Nat /\ m - 1 \in Nat
    BY <1>1, <2>1, <2>2
  <2>5. \A i \in 0 .. m - 1 : g[i] = f[i]
    BY <2>4
  <2>6. \A i \in 1 .. m : next(g, i) = next(f, i)
    <3> SUFFICES ASSUME NEW i \in 1 .. m PROVE next(g, i) = next(f, i)
      OBVIOUS
    <3>1. i - 1 \in 0 .. m - 1
      BY <2>4
    <3>2. g[i - 1] = f[i - 1]
      BY <2>5, <3>1
    <3>. HIDE DEF g
    <3>. QED BY <3>2
  <2>7. \A i \in 0 .. m : g[i] = IF i = 0 THEN {} ELSE next(g, i)
    <3> SUFFICES ASSUME NEW i \in 0 .. m
                 PROVE  g[i] = IF i = 0 THEN {} ELSE next(g, i)
      OBVIOUS
    <3>1. CASE i = m
      <4>1. i \in 1 .. m
        BY <2>2, <2>4, <3>1
      <4>2. g[i] = next(f, i)
        BY <3>1
      <4>. HIDE DEF next, g
      <4>. QED BY <2>6, <4>1, <4>2
    <3>2. CASE i # m
      <4>1. i \in 0 .. m - 1
        BY <2>4, <3>2
      <4>2. g[i] = f[i]
        BY <2>5, <4>1
      <4>3. f[i] = IF i = 0 THEN {} ELSE next(f, i)
        <5>. HIDE DEF next, g
        <5>. QED BY <2>3, <4>1
      <4>4. i # 0 => i \in 1 .. m
        BY <2>4
      <4>. HIDE DEF next, g
      <4>. QED BY <2>6, <4>2, <4>3, <4>4
    <3>. QED BY <3>1, <3>2
  <2>8. upTo(g, m)
    <3>1. g = [i \in 0 .. m |-> g[i]]
      OBVIOUS
    <3>. HIDE DEF next, g
    <3>. QED BY <2>7, <3>1
  <2>. HIDE DEF upTo
  <2>. QED BY <2>1, <2>8
<1>3. \E f : upTo(f, N)
  <2>1. N \in 0 .. N
    BY <1>1
  <2>. HIDE DEF upTo
  <2>. QED BY <1>2, <2>1
<1>4. Found(fetched, n) = CHOOSE f : upTo(f, N)
  BY DEF Found
<1>5. upTo(Found(fetched, n), N)
  <2>. HIDE DEF upTo
  <2>. QED BY <1>3, <1>4
<1>. QED BY <1>5

\* A search checks proxies of the free lists only.
LEMMA CandidatesAreFree ==
    ASSUME NEW fetched, NEW r \in Nat
    PROVE  Candidates(fetched, r) \subseteq Free
<1> DEFINE n == PerSource * 2 ^ (r - 1)
           found == Found(fetched, n)
           N == Len(Offers)
           T == {i \in 0 .. N : ~ (found[i] \subseteq Free)}
<1>1. N \in Nat /\ \A i \in 1 .. N : Offers[i] \in Seq(Free)
  BY PoolAssumption
<1>2. ASSUME NEW i \in 1 .. N, NEW seen
      PROVE  FirstNew(Offers[i], seen, n) \subseteq Free
  <2> SUFFICES ASSUME NEW p \in FirstNew(Offers[i], seen, n) PROVE p \in Free
    OBVIOUS
  <2>1. PICK k \in DOMAIN Offers[i] : p \in NewIn(Offers[i], seen, k)
    BY DEF FirstNew
  <2>2. PICK j \in 1 .. k : p = Offers[i][j]
    BY <2>1 DEF NewIn
  <2>. QED BY <1>1, <2>1, <2>2
<1>. HIDE DEF n
<1>3. \A i \in 0 .. N :
        found[i] = IF i = 0 THEN {}
                   ELSE IF i \notin fetched THEN found[i - 1]
                   ELSE found[i - 1] \cup FirstNew(Offers[i], found[i - 1], n)
  <2>1. found = [i \in 0 .. N |->
                   IF i = 0 THEN {}
                   ELSE IF i \notin fetched THEN found[i - 1]
                   ELSE found[i - 1] \cup FirstNew(Offers[i], found[i - 1], n)]
    <3>. HIDE DEF found
    <3>1. Found(fetched, n) =
             [i \in 0 .. Len(Offers) |->
                IF i = 0 THEN {}
                ELSE IF i \notin fetched THEN Found(fetched, n)[i - 1]
                ELSE Found(fetched, n)[i - 1]
                       \cup FirstNew(Offers[i], Found(fetched, n)[i - 1], n)]
      BY FoundEquation
    <3>. QED BY <3>1 DEF found
  <2>. HIDE DEF found
  <2>. QED BY <2>1
<1>. HIDE DEF found
<1>4. T = {}
  <2> SUFFICES ASSUME T # {} PROVE FALSE
    OBVIOUS
  <2>1. PICK m \in T : \A k \in T : m <= k
    <3>1. T \in SUBSET Nat
      BY <1>1
    <3>. HIDE DEF T
    <3>. QED BY <3>1, LeastNumber
  <2>2. m # 0 /\ m \in 0 .. N
    BY <1>3, <2>1
  <2>3. m \in 1 .. N /\ m - 1 \in 0 .. N /\ ~ (m <= m - 1)
    BY <1>1, <2>2
  <2>4. found[m - 1] \subseteq Free
    BY <2>1, <2>3
  <2>5. found[m] \subseteq Free
    BY <1>2, <1>3, <2>2, <2>3, <2>4
  <2>. QED BY <2>1, <2>5
<1>5. found[N] \subseteq Free
  BY <1>1, <1>4
<1>. QED BY <1>5 DEF Candidates, found, n

LEMMA PartOfFree ==
    ASSUME NEW S \in SUBSET Free
    PROVE  IsFiniteSet(S) /\ Cardinality(S) \in Nat
<1>1. IsFiniteSet(S)
  BY FS_Subset, PoolAssumption
<1>. QED BY <1>1, FS_CardinalityType

LEMMA EmptyFits == Cardinality({}) = 0 /\ Cardinality({}) <= MaxPool /\ Rounds \in Nat
<1>1. MaxPool \in Nat /\ Rounds \in Nat
  BY PoolAssumption
<1>. QED BY <1>1, FS_EmptySet

\* A slice of n has no more than n proxies, and merging a round's into the pool
\* does not make it larger than max_pool_size.
LEMMA MergedSize ==
    ASSUME NEW found \in SUBSET Free, pool \in SUBSET Free,
           Cardinality(pool) <= MaxPool, NEW P \in Merged(found)
    PROVE  P \in SUBSET Free /\ Cardinality(P) <= MaxPool
<1>1. PICK new \in Slices(found \ pool, MaxPool - Cardinality(pool)) :
         P = pool \cup new
  BY DEF Merged
<1>2. new \subseteq found \ pool
  BY <1>1, SliceIsPart
<1>3. MaxPool \in Nat /\ Cardinality(pool) \in Nat /\ IsFiniteSet(pool)
  BY PartOfFree, PoolAssumption
<1>4. Cardinality(found \ pool) \in Nat /\ IsFiniteSet(found \ pool)
  BY PartOfFree
<1>5. Cardinality(new) = Least(MaxPool - Cardinality(pool),
                               Cardinality(found \ pool))
  BY <1>1 DEF Slices, kSubset
<1>6. Cardinality(new) <= MaxPool - Cardinality(pool) /\ Cardinality(new) \in Int
  BY <1>3, <1>4, <1>5 DEF Least
<1>7. IsFiniteSet(new) /\ pool \cap new = {}
  BY <1>2, <1>4, FS_Subset
<1>8. Cardinality(pool \cup new) = Cardinality(pool) + Cardinality(new) - 0
  BY <1>3, <1>7, FS_Union, FS_EmptySet
<1>. QED BY <1>1, <1>2, <1>3, <1>6, <1>8

\* A pool the run keeps: it holds the explicit proxy, and its size is that of
\* its free proxies.
KeepablePool(S) ==
    /\ S \subseteq Proxies /\ configured \subseteq S
    /\ S \ configured \subseteq Free
    /\ Cardinality(S \ configured) <= MaxPool

WorldType ==
    /\ configured \subseteq Explicit /\ up \subseteq Proxies
    /\ changes \in 0 .. MaxChanges /\ list \in 0 .. Lists
    /\ fails \in [Proxies -> 0 .. BanAfter]
    /\ banned \subseteq {p \in Proxies : fails[p] = BanAfter}
    /\ measured \subseteq Proxies

\* Searches check free proxies only, so what they add to the explicit proxy is
\* new and as many as they counted.
SearchType ==
    /\ round \in 0 .. Rounds
    /\ pool \subseteq Free /\ Cardinality(pool) <= MaxPool
    /\ {todo, flying, alive, stale, rechecked, probed} \subseteq SUBSET Proxies
    /\ pc = "check" /\ why # "recheck" => todo \cup flying \cup alive \subseteq Free

CacheType ==
    /\ cache = NoPool \/ KeepablePool(cache)
    /\ Refilling => KeepablePool(stale)

TypeInv == PoolInv /\ WorldType /\ SearchType /\ CacheType

LEMMA TypeInit == Init => TypeInv
<1> SUFFICES ASSUME Init PROVE TypeInv
  OBVIOUS
<1>1. PoolInv
  BY InitPools
<1>2. WorldType
  BY PoolAssumption DEF Init, WorldType, Proxies
<1>3. SearchType
  BY PoolAssumption, FS_EmptySet DEF Init, SearchType
<1>4. CacheType
  BY DEF Init, CacheType, Refilling
<1>. QED BY <1>1, <1>2, <1>3, <1>4 DEF TypeInv

\* A judgement keeps the history of the proxies typed: a ban stands on
\* BanAfter failures in a row.
LEMMA JudgedKeepsHistory ==
    ASSUME WorldType, NEW checked \in SUBSET Proxies,
           NEW passed \in SUBSET Proxies, Judged(checked, passed)
    PROVE  /\ fails' \in [Proxies -> 0 .. BanAfter]
           /\ banned' \subseteq {p \in Proxies : fails'[p] = BanAfter}
<1>1. BanAfter \in Nat \ {0}
  BY PoolAssumption
<1>2. ASSUME NEW p \in Proxies
      PROVE  /\ fails'[p] = IF p \in passed THEN 0
                            ELSE IF p \in checked THEN Least(fails[p] + 1, BanAfter)
                            ELSE fails[p]
             /\ fails[p] \in 0 .. BanAfter
             /\ p \in banned => fails[p] = BanAfter
  BY DEF Judged, WorldType
<1>3. ASSUME NEW p \in Proxies
      PROVE  /\ fails'[p] \in 0 .. BanAfter
             /\ p \in banned \ passed => fails'[p] = BanAfter
  BY <1>1, <1>2 DEF Least
<1>4. fails' \in [Proxies -> 0 .. BanAfter]
  BY <1>3 DEF Judged
<1>5. banned' = (banned \ passed) \cup {p \in checked : fails'[p] = BanAfter}
  BY DEF Judged
<1>6. banned \subseteq Proxies
  BY DEF WorldType
<1>. QED BY <1>3, <1>4, <1>5, <1>6

LEMMA InstallKeepsType ==
    ASSUME TypeInv, PoolInv', pc = "search", NEW fresh, KeepablePool(fresh),
           Install(fresh),
           UNCHANGED <<world, history, why, list, search, check, fallback, proved>>
    PROVE  TypeInv'
<1>. USE DEF TypeInv, world, history, search, check, fallback
<1>1. WorldType'
  BY DEF WorldType
<1>2. /\ pc' # "check" /\ ~ Refilling'
      /\ cache' = fresh \/ (Refilling /\ cache' = stale)
      /\ probed' \subseteq Proxies
  <2>1. CASE why = "fill"
    BY <2>1 DEF Install, Refilling, SearchType
  <2>2. CASE why = "refill"
    <3>1. pc' = "probe" /\ (cache' = fresh \/ cache' = stale)
      BY <2>2 DEF Install
    <3>2. probed' \subseteq rechecked \/ probed' \subseteq fresh
      BY <2>2, SliceIsPart DEF Install
    <3>3. rechecked \subseteq Proxies /\ fresh \subseteq Proxies
      BY DEF SearchType, KeepablePool
    <3>. QED BY <2>2, <3>1, <3>2, <3>3 DEF Refilling
  <2>. QED BY <2>1, <2>2 DEF PoolInv, PoolsInv
<1>3. SearchType'
  BY <1>2 DEF SearchType
<1>4. CacheType'
  BY <1>2 DEF CacheType, KeepablePool
<1>. QED BY <1>1, <1>3, <1>4

LEMMA TypeStep == TypeInv /\ [Next]_vars => TypeInv'
<1> SUFFICES ASSUME TypeInv, [Next]_vars PROVE TypeInv'
  OBVIOUS
<1>0. PoolInv /\ PoolInv' /\ WorldType /\ SearchType /\ CacheType
  BY PoolStep DEF TypeInv
<1> SUFFICES WorldType' /\ SearchType' /\ CacheType'
  BY <1>0 DEF TypeInv
<1>. USE DEF world, history, search, check, fallback, record
<1>1. ASSUME UNCHANGED <<configured, why, cache, stale>>, Refilling' => Refilling
      PROVE  CacheType'
  BY <1>0, <1>1 DEF CacheType, KeepablePool
<1>2. CASE StartList
  <2>1. WorldType'
    BY <1>0, <1>2, PoolAssumption DEF StartList, ToSearch, WorldType
  <2>2. SearchType'
    <3>1. /\ pc' # "check" /\ UNCHANGED <<todo, flying, alive, stale, rechecked, probed>>
          /\ (round' = 0 /\ pool' = {}) \/ UNCHANGED <<round, pool>>
      BY <1>2 DEF StartList, ToSearch
    <3>. QED BY <1>0, <3>1, EmptyFits DEF SearchType
  <2>3. CacheType'
    BY <1>0, <1>2 DEF StartList, ToSearch, CacheType, KeepablePool, Refilling
  <2>. QED BY <2>1, <2>2, <2>3
<1>3. CASE BeginRound
  <2>1. UNCHANGED <<world, history, cache, why, list, pool, fallback, probed>>
        /\ pc = "search" /\ round < Rounds /\ round' = round + 1
        /\ flying' = {} /\ alive' = {}
    BY <1>3 DEF BeginRound
  <2>2. todo' \subseteq Free
    <3>1. PICK fetched \in SUBSET DOMAIN Offers :
            todo' \subseteq Candidates(fetched, round + 1)
      BY <1>3 DEF BeginRound, Ranked
    <3>2. round + 1 \in Nat
      BY <1>0, PoolAssumption DEF SearchType
    <3>. QED BY <3>1, <3>2, CandidatesAreFree
  <2>3. WorldType'
    BY <1>0, <2>1 DEF WorldType
  <2>4. round' \in 0 .. Rounds
    BY <1>0, <2>1, PoolAssumption DEF SearchType
  <2>5. SearchType'
    BY <1>0, <2>1, <2>2, <2>4 DEF SearchType, Proxies
  <2>6. CacheType'
    BY <1>0, <1>1, <2>1 DEF Refilling
  <2>. QED BY <2>3, <2>5, <2>6
<1>4. CASE EndSearch
  <2>1. KeepablePool(configured \cup pool)
    <3>1. pool \subseteq Free /\ configured \subseteq Explicit
          /\ Cardinality(pool) <= MaxPool
      BY <1>0 DEF SearchType, WorldType
    <3>2. (configured \cup pool) \ configured = pool
      BY <3>1, PoolAssumption
    <3>. QED BY <3>1, <3>2 DEF KeepablePool, Proxies
  <2>. QED BY <1>0, <1>4, <2>1, InstallKeepsType DEF EndSearch, TypeInv
<1>5. CASE SearchFails
  <2>1. KeepablePool(configured)
    <3>1. configured \ configured = {} /\ configured \subseteq Explicit
      BY <1>0 DEF WorldType
    <3>2. Cardinality(configured \ configured) <= MaxPool
      BY <3>1, EmptyFits
    <3>. QED BY <3>1, <3>2 DEF KeepablePool, Proxies
  <2>. QED BY <1>0, <1>5, <2>1, InstallKeepsType DEF SearchFails, TypeInv
<1>6. ASSUME NEW p \in Proxies, StartCheck(p)
      PROVE  WorldType' /\ SearchType' /\ CacheType'
  <2>1. WorldType'
    BY <1>0, <1>6 DEF StartCheck, WorldType
  <2>2. SearchType'
    BY <1>0, <1>6 DEF StartCheck, SearchType
  <2>3. CacheType'
    BY <1>1, <1>6 DEF StartCheck, Refilling
  <2>. QED BY <2>1, <2>2, <2>3
<1>7. ASSUME NEW p \in Proxies, EndCheck(p)
      PROVE  WorldType' /\ SearchType' /\ CacheType'
  <2>1. PICK passed \in SUBSET {p} :
          /\ Judged({p}, passed) /\ alive' = alive \cup passed
          /\ measured' = measured \cup passed
    BY <1>7 DEF EndCheck
  <2>2. /\ pc = "check" /\ p \in flying /\ flying' = flying \ {p}
        /\ UNCHANGED <<world, cache, refetches, pc, why, list, search, todo,
                       fallback, probed, installed>>
    BY <1>7 DEF EndCheck
  <2>3. /\ fails' \in [Proxies -> 0 .. BanAfter]
        /\ banned' \subseteq {q \in Proxies : fails'[q] = BanAfter}
    BY <1>0, <2>1, JudgedKeepsHistory
  <2>4. WorldType'
    BY <1>0, <2>1, <2>2, <2>3 DEF WorldType
  <2>5. SearchType'
    BY <1>0, <2>1, <2>2 DEF SearchType
  <2>6. CacheType'
    BY <1>1, <2>2 DEF Refilling
  <2>. QED BY <2>4, <2>5, <2>6
<1>8. CASE EndRound
  <2>1. /\ pc = "check" /\ why # "recheck" /\ pc' = "search"
        /\ todo' = {} /\ flying' = {} /\ alive' = {}
        /\ UNCHANGED <<world, history, cache, why, list, round, fallback, probed>>
    BY <1>8 DEF EndRound, CheckEnds
  <2>2. pool' \in SUBSET Free /\ Cardinality(pool') <= MaxPool
    <3>1. PICK passed \in Slices(alive, Wanted) : pool' \in Merged(Ranked(passed))
      BY <1>8 DEF EndRound
    <3>2. Ranked(passed) \in SUBSET Free
      BY <1>0, <2>1, <3>1, SliceIsPart DEF SearchType, Ranked
    <3>. QED BY <1>0, <3>1, <3>2, MergedSize DEF SearchType
  <2>3. WorldType'
    BY <1>0, <2>1 DEF WorldType
  <2>4. SearchType'
    BY <1>0, <2>1, <2>2 DEF SearchType
  <2>5. CacheType'
    BY <1>0, <1>1, <2>1 DEF Refilling
  <2>. QED BY <2>3, <2>4, <2>5
<1>9. CASE StartRecheck
  <2>1. cache \subseteq Proxies
    BY <1>0, <1>9 DEF StartRecheck, PoolInv, PoolsInv
  <2>2. WorldType'
    BY <1>0, <1>9 DEF StartRecheck, WorldType
  <2>3. SearchType'
    BY <1>0, <1>9, <2>1 DEF StartRecheck, SearchType
  <2>4. CacheType'
    BY <1>0, <1>9 DEF StartRecheck, CacheType, KeepablePool, Refilling
  <2>. QED BY <2>2, <2>3, <2>4
<1>10. CASE ProbeDirectly
  <2>1. WorldType' /\ SearchType'
    BY <1>0, <1>10 DEF ProbeDirectly, WorldType, SearchType
  <2>2. CacheType'
    BY <1>1, <1>10 DEF ProbeDirectly, Refilling
  <2>. QED BY <2>1, <2>2
<1>11. CASE EndRecheck
  <2>1. /\ pc = "check" /\ why = "recheck"
        /\ todo' = {} /\ flying' = {} /\ alive' = {} /\ rechecked' = alive
        /\ UNCHANGED <<world, history, list>>
    BY <1>11 DEF EndRecheck, CheckEnds
  <2>2. cache \in SUBSET Proxies /\ KeepablePool(cache)
    BY <1>0, <2>1, PoolAssumption DEF PoolInv, PoolsInv, CacheType
  <2>3. WorldType'
    BY <1>0, <2>1 DEF WorldType
  <2>4. CASE Thinned /\ ~ Exhausted
    <3>1. /\ stale' = cache /\ cache' = NoPool /\ probed' = probed
          /\ pc' = "search" /\ why' = "refill" /\ round' = 0 /\ pool' = {}
      BY <1>11, <2>4 DEF EndRecheck, ToSearch
    <3>2. SearchType'
      BY <1>0, <2>1, <2>2, <3>1, FS_EmptySet, PoolAssumption DEF SearchType
    <3>3. CacheType'
      BY <2>1, <2>2, <3>1 DEF CacheType, KeepablePool
    <3>. QED BY <2>3, <3>2, <3>3
  <2>5. CASE ~ (Thinned /\ ~ Exhausted)
    <3>1. /\ probed' \in Slices(alive, ProbeCount) /\ pc' = "probe"
          /\ UNCHANGED <<stale, cache, why, round, pool>>
      BY <1>11, <2>5 DEF EndRecheck, Survivors
    <3>2. probed' \subseteq alive
      BY <3>1, SliceIsPart
    <3>3. SearchType'
      BY <1>0, <2>1, <3>1, <3>2 DEF SearchType
    <3>4. CacheType'
      BY <1>1, <2>1, <3>1 DEF Refilling
    <3>. QED BY <2>3, <3>3, <3>4
  <2>. QED BY <2>4, <2>5
<1>12. CASE ListEnds
  <2>1. WorldType'
    BY <1>0, <1>12 DEF ListEnds, WorldType
  <2>2. SearchType'
    BY <1>0, <1>12 DEF ListEnds, SearchType
  <2>3. CacheType'
    BY <1>0, <1>12 DEF ListEnds, CacheType, KeepablePool, Refilling
  <2>. QED BY <2>1, <2>2, <2>3
<1>13. CASE Watchdog
  <2> DEFINE checked == cache \ configured
             responding == checked \cap up
  <2>1. /\ pc = "watchdog" /\ pc' = "between" /\ Judged(checked, responding)
        /\ UNCHANGED <<world, measured, why, list, search, check, fallback, probed>>
    BY <1>13 DEF Watchdog
  <2>2. cache \in SUBSET Proxies /\ KeepablePool(cache)
    BY <1>0, <2>1, PoolAssumption DEF PoolInv, PoolsInv, CacheType
  <2>3. /\ fails' \in [Proxies -> 0 .. BanAfter]
        /\ banned' \subseteq {q \in Proxies : fails'[q] = BanAfter}
    <3>1. checked \in SUBSET Proxies /\ responding \in SUBSET Proxies
      BY <2>2
    <3>. HIDE DEF checked, responding
    <3>. QED BY <1>0, <2>1, <3>1, JudgedKeepsHistory
  <2>4. WorldType'
    BY <1>0, <2>1, <2>3 DEF WorldType
  <2>5. SearchType'
    BY <1>0, <2>1 DEF SearchType
  <2>6. KeepablePool(Kept(responding))
    <3>1. Kept(responding) = responding \cup configured
      BY <2>2 DEF Kept, KeepablePool
    <3>2. Kept(responding) \ configured \subseteq checked
      BY <3>1
    <3>3. IsFiniteSet(checked)
      BY <2>2, PartOfFree DEF KeepablePool
    <3>4. /\ Cardinality(Kept(responding) \ configured) <= Cardinality(checked)
          /\ Cardinality(Kept(responding) \ configured) \in Nat
          /\ Cardinality(checked) \in Nat
      BY <3>2, <3>3, FS_Subset, FS_CardinalityType
    <3>5. Cardinality(checked) <= MaxPool
      BY <2>2 DEF KeepablePool
    <3>6. Cardinality(Kept(responding) \ configured) <= MaxPool
      <4>. HIDE DEF checked
      <4>. QED BY <3>4, <3>5, PoolAssumption
    <3>. QED BY <2>2, <3>1, <3>2, <3>6 DEF KeepablePool
  <2>7. cache' = cache \/ cache' = NoPool \/ cache' = Kept(responding)
    BY <1>13 DEF Watchdog
  <2>8. CacheType'
    <3>. HIDE DEF responding
    <3>. QED BY <2>1, <2>2, <2>6, <2>7 DEF CacheType, KeepablePool, Refilling
  <2>. QED BY <2>4, <2>5, <2>8
<1>14. CASE NextRun
  <2>1. WorldType'
    BY <1>0, <1>14, PoolAssumption DEF NextRun, WorldType
  <2>2. SearchType'
    BY <1>0, <1>14 DEF NextRun, SearchType
  <2>3. CacheType'
    BY <1>14, <1>0 DEF NextRun, CacheType, KeepablePool, Refilling
  <2>. QED BY <2>1, <2>2, <2>3
<1>15. ASSUME NEW p \in Proxies, Change(p) \/ BanExpires(p)
       PROVE  WorldType' /\ SearchType' /\ CacheType'
  <2>1. changes' \in 0 .. MaxChanges
    BY <1>0, <1>15, PoolAssumption DEF Change, BanExpires, WorldType
  <2>2. WorldType'
    BY <1>0, <1>15, <2>1 DEF Change, BanExpires, WorldType
  <2>3. SearchType'
    BY <1>0, <1>15 DEF Change, BanExpires, SearchType
  <2>4. CacheType'
    BY <1>1, <1>15 DEF Change, BanExpires, Refilling
  <2>. QED BY <2>2, <2>3, <2>4
<1>16. CASE UNCHANGED vars
  <2>1. WorldType' /\ SearchType'
    BY <1>0, <1>16 DEF vars, WorldType, SearchType
  <2>2. CacheType'
    BY <1>1, <1>16 DEF vars, Refilling
  <2>. QED BY <2>1, <2>2
<1>. QED
  BY <1>2, <1>3, <1>4, <1>5, <1>6, <1>7, <1>8, <1>9, <1>10, <1>11, <1>12, <1>13,
     <1>14, <1>15, <1>16, <1>0
  DEF Next, TypeInv

\* The state of the pool is well typed for any lists, sizes and limits: every
\* pool the run keeps holds the explicit proxy and at most max_pool_size free
\* ones, whatever was rebuilt, restored or thinned out.
THEOREM TypeCorrect == Spec => []TypeOK
<1>1. TypeInv => TypeOK
  BY DEF TypeInv, WorldType, SearchType, CacheType, KeepablePool, PoolInv,
         PoolsInv, RebuildInv, TypeOK, Proxies
<1>. QED BY <1>1, TypeInit, TypeStep, PTL DEF Spec
=============================================================================
