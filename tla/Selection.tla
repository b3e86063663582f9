----------------------------- MODULE Selection -----------------------------
(***************************************************************************)
(* From parsed configs to the outputs of a run: the preprocessing of each  *)
(* list (filter.py), what the validation leaves of it (ListValidation has  *)
(* the detail), the quality filter (quality.py), and the combined, mixed   *)
(* and split outputs (runner.py over aggregate.py and merger.py).          *)
(*                                                                         *)
(* A list is a set of configs; Place is a config's position in the input,  *)
(* which the stable sorts fall back on.  Slow configs are dropped and a     *)
(* streak is asked for (drop_slow_configs, min_consecutive_passes > 1).    *)
(***************************************************************************)
EXTENDS Integers, Sequences, FiniteSets, FiniteSetsExt, SequencesExt

CONSTANTS
    Parsed,       \* list -> the configs parsed for it
    Server,       \* config -> its dedup_key
    Country,      \* config -> a code, or Unknown
    Score,        \* config -> the score of its history
    Place,
    Garbage,      \* configs that are garbage or at a blocked address
    Codes,        \* the codes, sorted
    Europe,       \* whitelist_eu_countries
    Unknown,
    Allowed,      \* allowed countries; {} for all
    SampleSize,   \* max_configs_to_validate; 0 for all
    Settings,     \* settings of the quality and aggregation stages
    MaxSlow, MaxOpen  \* bounds: slow configs, and configs left in without a pass

Lists == {"blacklist", "whitelist"}
Configs == UNION {Parsed[l] : l \in Lists}

\* The shares the code takes as fractions are percents.
ASSUME SelectionAssumption ==
    /\ Parsed \in [Lists -> SUBSET Configs] /\ {SampleSize, MaxSlow, MaxOpen} \subseteq Nat
    /\ IsFiniteSet(Configs) /\ Parsed["blacklist"] \cap Parsed["whitelist"] = {}
    /\ \A c \in Configs : {Place[c], Score[c]} \subseteq Int
    /\ \A c, d \in Configs : Place[c] = Place[d] => c = d
    /\ Codes \in Seq(ToSet(Codes)) /\ IsInjective(Codes) /\ Unknown \notin ToSet(Codes)
    /\ \A c \in Configs : Country[c] \in ToSet(Codes) \cup {Unknown}
    /\ "RU" \notin Europe
    /\ Settings \subseteq
         [total : Nat, perCountry : Nat, mixBlack : Nat, mixWhite : Nat, ru : 0 .. 100,
          minFast : Nat, minStable : Nat \ {0}, share : 0 .. 100, exempt : BOOLEAN]

Standings == {"stable", "new", "shaky"}

VARIABLES
    at,           \* the stage that ran last
    settings,
    kept,         \* the configs of each list
    slow, dead, unjudged,  \* what the validation found of them
    standing,     \* the streak each has in the history
    combined, mix, split   \* the outputs

found == <<slow, dead, unjudged, standing>>
outputs == <<combined, mix, split>>
selectionVars == <<at, settings, kept, found, outputs>>

SelectionInit ==
    /\ at = "parsed" /\ settings \in Settings
    /\ kept = Parsed
    /\ slow = {} /\ dead = {} /\ unjudged = {}
    /\ standing = [c \in Configs |-> "new"]
    /\ combined = <<>> /\ mix = <<>> /\ split = [l \in Lists |-> <<>>]

Least(a, b) == IF a < b THEN a ELSE b
Most(a, b) == IF a > b THEN a ELSE b
FirstOf(s, n) == SubSeq(s, 1, Least(n, Len(s)))
Servers(S) == {Server[c] : c \in S}
-----------------------------------------------------------------------------
(* Orders.                                                                 *)

\* _latency_sort_key, ties in the order of the input.
Latency(c) == IF c \in slow THEN 1 ELSE 0
Faster(c, d) ==
    \/ Latency(c) < Latency(d)
    \/ Latency(c) = Latency(d) /\ Place[c] < Place[d]

\* The best of a country first: score, then latency.
Better(c, d) == Score[c] > Score[d] \/ (Score[c] = Score[d] /\ Faster(c, d))

\* Who goes before each of S: sort_configs, the sort of a bucket, the input.
ByLatency(S) == [c \in S |-> {d \in S : Faster(d, c)}]
ByScore(S) == [c \in S |-> {d \in S : Better(d, c)}]
ByPlace(S) == [c \in S |-> {d \in S : Place[d] < Place[c]}]

\* An order as a sequence: the k-th has k - 1 before it.
InOrder(ahead) ==
    LET S == DOMAIN ahead
    IN [k \in 1 .. Cardinality(S) |-> CHOOSE c \in S : Cardinality(ahead[c]) = k - 1]

\* _dedup_rank: a config that is not dead first.
Preferred(c, d) ==
    \/ c \notin dead /\ d \in dead
    \/ (c \in dead <=> d \in dead) /\ Faster(c, d)

\* deduplicate
Deduplicated(S) ==
    {c \in S : \A d \in S \ {c} : Server[d] = Server[c] => Preferred(c, d)}
-----------------------------------------------------------------------------
(* Stages before the outputs.                                              *)

\* preprocess: garbage, duplicates, sample, countries.
Preprocessed(sample) ==
    {c \in sample : Allowed = {} \/ Country[c] \in Allowed}

Samples(S) ==
    LET distinct == Deduplicated(S \ Garbage)
    IN IF SampleSize = 0 THEN {distinct}
       ELSE kSubset(Least(SampleSize, Cardinality(distinct)), distinct)

Preprocess ==
    /\ at = "parsed"
    /\ \E black \in Samples(Parsed["blacklist"]), white \in Samples(Parsed["whitelist"]) :
          kept' = [l \in Lists |-> Preprocessed(IF l = "blacklist" THEN black ELSE white)]
    /\ at' = "preprocessed"
    /\ UNCHANGED <<settings, found, outputs>>

\* A verdict is about one config, a streak about a server; a server seen for the
\* first time is new, even if it failed.
Judge(alive, open) ==
    /\ \E failed \in SUBSET open : dead' = failed /\ unjudged' = open \ failed
    /\ slow' \in SUBSET alive /\ Cardinality(slow') <= MaxSlow
    /\ \E known \in [Servers(alive \cup dead') -> Standings] :
          /\ \A s \in Servers(dead') \ Servers(alive) : known[s] # "stable"
          /\ standing' = [c \in Configs |-> IF c \in alive \cup dead'
                                            THEN known[Server[c]] ELSE "shaky"]

\* Lists that failed open also contain dead configs, and configs a limit left
\* out have no verdict.
Validate ==
    LET all == UNION {kept[l] : l \in Lists} IN
    /\ at = "preprocessed"
    /\ \E alive \in SUBSET all : \E open \in SUBSET (all \ alive) :
          /\ Cardinality(open) <= MaxOpen
          /\ kept' = [l \in Lists |-> kept[l] \cap (alive \cup open)]
          /\ Judge(alive, open)
    /\ at' = "validated"
    /\ UNCHANGED <<settings, outputs>>

\* drop_slow_configs
Fast(S) ==
    IF settings.minFast = 0 \/ Cardinality(S \ slow) < settings.minFast THEN S
    ELSE S \ slow

Stable(S) ==
    {c \in S \ unjudged : standing[c] = "stable" \/ (settings.exempt /\ standing[c] = "new")}

\* A mutant: only the share of the list counts.
FloorOfShare(S) == (Cardinality(S) * settings.share) \div 100

\* What the stability gate has to leave of a list to be enforced.
Floor(S) == Most(settings.minStable, (Cardinality(S) * settings.share) \div 100)

Gated(S) == IF Cardinality(Stable(S)) >= Floor(S) THEN Stable(S) ELSE S

Quality ==
    /\ at = "validated"
    /\ kept' = [l \in Lists |-> Gated(Fast(kept[l]))]
    /\ at' = "selected"
    /\ UNCHANGED <<settings, found, outputs>>
-----------------------------------------------------------------------------
(* Outputs.                                                                *)

\* The servers of a country: the quota takes the fastest, the best go first.
Bucket(S, code, quota) ==
    LET own == {c \in S : Country[c] = code}
        within == ToSet(FirstOf(InOrder(ByLatency(own)),
                                IF quota = 0 THEN Cardinality(own) ELSE quota))
    IN InOrder(ByScore(within))

Asked == Append(Codes, Unknown)

\* A mutant: one country after the other.
CountryByCountry(S) ==
    [t \in 1 .. Cardinality(S) * Len(Asked) |->
       [round |-> 1 + ((t - 1) % Cardinality(S)),
        code |-> Asked[1 + ((t - 1) \div Cardinality(S))]]]

\* Who is asked in which order: in each round every country, the unknown last.
Turns(S) ==
    [t \in 1 .. Cardinality(S) * Len(Asked) |->
       [round |-> 1 + ((t - 1) \div Len(Asked)),
        code |-> Asked[1 + ((t - 1) % Len(Asked))]]]

\* What the countries have given after each turn.
Taken(S, total, quota) ==
    LET turns == Turns(S)
        bucket == [code \in ToSet(Asked) |-> Bucket(S, code, quota)]
        taken[t \in 0 .. Len(turns)] ==
          IF t = 0 THEN <<>>
          ELSE LET before == taken[t - 1]
                   own == bucket[turns[t].code]
               IN IF Len(before) >= total \/ turns[t].round > Len(own) THEN before
                  ELSE Append(before, own[turns[t].round])
    IN taken

\* _country_balanced_limit
Balanced(S, total, quota) ==
    IF total = 0 THEN InOrder(ByPlace(S))
    ELSE Taken(S, total, quota)[Len(Turns(S))]

\* _whitelist_balance: a part short of servers is made up from the other one,
\* but never from Europe when it has no part.
WhitelistBalance(S, total) ==
    LET ruTarget == (total * settings.ru) \div 100
        euTarget == total - ruTarget
        ru == Balanced({c \in S : Country[c] = "RU"}, total, 0)
        eu == Balanced({c \in S : Country[c] \in Europe}, total, 0)
        ruPart == FirstOf(ru, ruTarget)
        euPart == FirstOf(eu, euTarget)
        missing == total - Len(ruPart) - Len(euPart)
    IN IF euTarget > 0 /\ Len(ruPart) < ruTarget /\ Len(eu) > Len(euPart)
       THEN ruPart \o FirstOf(eu, Len(euPart) + missing)
       ELSE IF Len(euPart) < euTarget /\ Len(ru) > Len(ruPart)
       THEN FirstOf(ru, Len(ruPart) + missing) \o euPart
       ELSE ruPart \o euPart

\* A mutant: servers of the first part are skipped only when they come up.
SkippedLater(S, used) == S

\* The whitelist the second part of the mix is taken from.
Unused(S, used) == {c \in S : Server[c] \notin used}

\* _take_unique_configs: what is taken of the first i of s.
UniqueTaken(s, target, used) ==
    LET taken[i \in 0 .. Len(s)] ==
          IF i = 0 THEN <<>>
          ELSE LET before == taken[i - 1]
               IN IF Len(before) >= target
                     \/ Server[s[i]] \in used \cup Servers(ToSet(before))
                  THEN before
                  ELSE Append(before, s[i])
    IN taken

TakeUnique(s, target, used) == UniqueTaken(s, target, used)[Len(s)]

\* _build_mixed_output
MixPart(l, target, used) ==
    IF l = "blacklist"
    THEN TakeUnique(Balanced(kept[l], settings.total, settings.perCountry), target, used)
    ELSE TakeUnique(WhitelistBalance(Unused(kept[l], used), target), target, used)

Mixed ==
    LET black == MixPart("blacklist", settings.mixBlack, {})
        white == MixPart("whitelist", settings.mixWhite, Servers(ToSet(black)))
    IN IF settings.total = 0 THEN <<>> ELSE black \o white

Combinable == Deduplicated(UNION {kept[l] : l \in Lists})

Output ==
    /\ at = "selected" /\ \E l \in Lists : kept[l] # {}
    /\ combined' = Balanced(Combinable, settings.total, settings.perCountry)
    /\ mix' = Mixed
    /\ split' = [l \in Lists |->
                   IF l = "whitelist" THEN WhitelistBalance(kept[l], settings.total)
                   ELSE Balanced(kept[l], settings.total, settings.perCountry)]
    /\ at' = "written"
    /\ UNCHANGED <<settings, kept, found>>

SelectionNext == Preprocess \/ Validate \/ Quality \/ Output

SelectionSpec == SelectionInit /\ [][SelectionNext]_selectionVars
-----------------------------------------------------------------------------
(* Properties.                                                             *)

\* The quality filter never takes the last config of a list, and where the gate
\* was enforced it leaves the floor: a history of failures thins a list out,
\* it does not unpublish it.
QualityKeepsAList ==
    [][at = "validated" /\ at' = "selected" =>
         \A l \in Lists : kept[l] # {} =>
            /\ kept'[l] # {}
            /\ kept[l] \ slow \subseteq kept'[l] \/ Cardinality(kept'[l]) >= settings.minStable
      ]_selectionVars

OfCountry(s, code) == {c \in ToSet(s) : Country[c] = code}

\* The combined output has no server twice, by its live copy if there is one; it is
\* full or has all that the quotas let in, and no country gets two more than another
\* that had more to give.
Quota(code) ==
    LET own == Cardinality({c \in Combinable : Country[c] = code})
    IN IF settings.perCountry = 0 THEN own ELSE Least(own, settings.perCountry)

CountriesTakeTurns ==
    at = "written" /\ settings.total > 0 =>
        /\ Cardinality(Servers(ToSet(combined))) = Len(combined)
        /\ \A c \in ToSet(combined) \cap dead : \A l \in Lists :
              \A d \in kept[l] : Server[d] = Server[c] => d \in dead
        /\ Len(combined) <= settings.total
        /\ \/ Len(combined) = settings.total
           \/ \A code \in ToSet(Codes) \cup {Unknown} :
                 Cardinality(OfCountry(combined, code)) = Quota(code)
        /\ \A a, b \in ToSet(Codes) \cup {Unknown} :
              Cardinality(OfCountry(combined, a)) >= Cardinality(OfCountry(combined, b)) + 2
                 => Cardinality(OfCountry(combined, b)) = Quota(b)

\* No server is twice in the mix.  Its first part is full or has all that the
\* blacklist's own output has.  Where both whitelist parts are wanted, the second
\* is full or has every server it may take; at a ratio of 100 it has no server from
\* Europe, however short it is.
MixIsFilled ==
    at = "written" /\ settings.total > 0 =>
        LET black == Servers(ToSet(mix) \cap kept["blacklist"])
            white == ToSet(mix) \cap kept["whitelist"]
            free == {c \in kept["whitelist"] :
                        Server[c] \notin black /\ Country[c] \in Europe \cup {"RU"}}
            ruTarget == (settings.mixWhite * settings.ru) \div 100
        IN  /\ Cardinality(Servers(ToSet(mix))) = Len(mix)
            /\ Cardinality(ToSet(mix) \cap kept["blacklist"])
                  = Least(settings.mixBlack, Len(split["blacklist"]))
            /\ ruTarget \in 1 .. settings.mixWhite - 1 =>
                  Cardinality(white) = Least(settings.mixWhite, Cardinality(free))
            /\ settings.ru = 100 => \A c \in white : Country[c] = "RU"
=============================================================================
