------------------------ MODULE ListValidationProofs ------------------------
(***************************************************************************)
(* Proofs about ListValidation, for any lists, keys, traits and settings.  *)
(***************************************************************************)
EXTENDS ListValidation, FiniteSetTheorems, TLAPS

\* Every set of configs is finite.
LEMMA ConfigsFinite ==
    ASSUME NEW S \in SUBSET Configs
    PROVE  IsFiniteSet(S) /\ Cardinality(S) \in Nat
<1>1. IsFiniteSet(S)
  BY ListAssumption, FS_Subset
<1>. QED BY <1>1, FS_CardinalityType

\* A set with as many members as images has no two with the same image.
LEMMA SameSizeIsInjective ==
    ASSUME NEW S \in SUBSET Configs,
           Cardinality({Key[c] : c \in S}) = Cardinality(S)
    PROVE  \A c, d \in S : Key[c] = Key[d] => c = d
<1> DEFINE T == {Key[c] : c \in S}
<1> DEFINE f == [c \in S |-> Key[c]]
<1>1. f \in Surjection(S, T)
  BY DEF Surjection
<1>2. f \in Injection(S, T)
  BY <1>1, ConfigsFinite, FS_Surjection
<1>3. \A c, d \in S : f[c] = f[d] => c = d
  BY <1>2 DEF Injection, IsInjective
<1>. QED BY <1>3
-----------------------------------------------------------------------------
(* One verdict for each key.                                               *)

\* The working sets are of configs.
ShapeInv ==
    /\ settings \in Settings
    /\ fresh \subseteq Configs /\ stale \subseteq Configs /\ quic \subseteq Configs
    /\ left \subseteq Configs /\ log \subseteq Configs /\ alive \subseteq Configs

\* A key with a verdict is one the run has seen.
KeyInv ==
    /\ \A c \in Configs : recorded[c] # "none" => Key[c] \in seen
    /\ OneVerdictPerKey

\* What is recorded is of new keys, one config for each.
LEMMA RecordKeeps ==
    ASSUME KeyInv, NEW cfgs \in SUBSET Configs, Record(cfgs)
    PROVE  KeyInv'
<1>1. PICK picked \in kSubset(Cardinality(NewKeys(cfgs)), cfgs) :
         /\ {Key[c] : c \in picked} = NewKeys(cfgs)
         /\ recorded' = [c \in Configs |-> IF c \in picked THEN verdict[c]
                                           ELSE recorded[c]]
  BY DEF Record
<1>2. /\ picked \in SUBSET Configs
      /\ Cardinality({Key[c] : c \in picked}) = Cardinality(picked)
  BY <1>1 DEF kSubset
<1>3. \A c, d \in picked : Key[c] = Key[d] => c = d
  BY <1>2, SameSizeIsInjective
<1>4. \A c \in picked : Key[c] \notin seen
  BY <1>1 DEF NewKeys
<1>5. seen' = seen \cup {Key[c] : c \in picked}
  BY <1>1 DEF Record
<1>. QED
  BY <1>1, <1>2, <1>3, <1>4, <1>5 DEF KeyInv, OneVerdictPerKey
-----------------------------------------------------------------------------
(* The shape of the working sets.                                          *)

\* What a validator delivers is part of what it was given, within the limit.
LEMMA DeliveredWithin ==
    ASSUME NEW cfgs \in SUBSET Configs, NEW cap \in Nat, NEW d \in Deliveries(cfgs, cap)
    PROVE  d.out \in SUBSET cfgs /\ (cap > 0 => Cardinality(d.out) <= cap)
BY DEF Deliveries

LEMMA AbleIsPart == \A stage : Able(stage) \subseteq Configs
BY DEF Able

LEMMA InitShape == Init => ShapeInv
BY DEF Init, ShapeInv

LEMMA TcpKeepsShape ==
    ASSUME ShapeInv, StartTcp \/ TcpRound \/ EndTcp
    PROVE  ShapeInv'
<1>1. CASE StartTcp
  BY <1>1, AbleIsPart DEF StartTcp, ShapeInv, xrayVars
<1>2. CASE TcpRound
  <2>1. PICK batch \in kSubset(AtMost(settings.tcpLimit, left), left) :
        \E d \in Deliveries(batch, Remaining(settings.tcpAlive)) :
           /\ log' = log \cup Judged(batch)
           /\ left' = left \ batch
           /\ alive' = alive \cup d.out
    BY <1>2 DEF TcpRound
  <2>2. batch \subseteq Configs
    BY <2>1 DEF kSubset, ShapeInv
  <2>3. log' \subseteq Configs /\ left' \subseteq Configs
    BY <2>1, <2>2 DEF Judged, ShapeInv
  <2>4. alive' \subseteq Configs
    BY <2>1, <2>2 DEF Deliveries, ShapeInv
  <2>. QED BY <1>2, <2>3, <2>4 DEF TcpRound, ShapeInv, xrayVars
<1>3. CASE EndTcp
  BY <1>3 DEF EndTcp, ShapeInv, xrayVars, probeVars
<1>. QED BY <1>1, <1>2, <1>3

LEMMA TlsKeepsShape ==
    ASSUME ShapeInv, SkipTls \/ TlsPass
    PROVE  ShapeInv'
<1>1. CASE SkipTls
  BY <1>1 DEF SkipTls, ShapeInv, xrayVars, probeVars
<1>2. CASE TlsPass
  <2>1. PICK probed \in SUBSET (current \cap Able("tls")) : log' = log \cup Judged(probed)
    BY <1>2 DEF TlsPass, kSubset
  <2>2. log' \subseteq Configs
    BY <2>1, AbleIsPart DEF Judged, ShapeInv
  <2>. QED BY <1>2, <2>2 DEF TlsPass, ShapeInv, xrayVars
<1>. QED BY <1>1, <1>2

LEMMA StartXrayKeepsShape == ShapeInv /\ StartXray => ShapeInv'
<1>. SUFFICES ASSUME ShapeInv, StartXray PROVE ShapeInv'
  OBVIOUS
<1>1. PICK chosen \in Preselected(current \cap Able("xray")) :
      \E recent \in Recent(chosen) : fresh' = recent /\ stale' = chosen \ recent
  BY DEF StartXray
<1>2. chosen \subseteq Configs
  BY <1>1, AbleIsPart DEF Preselected
<1>3. fresh' \subseteq Configs /\ stale' \subseteq Configs
  BY <1>1, <1>2 DEF Recent
<1>4. quic' \subseteq Configs
  BY AbleIsPart DEF StartXray
<1>. QED BY <1>3, <1>4 DEF StartXray, ShapeInv

\* A pass adds to the live configs some of those it was given.
LEMMA PassAdds ==
    ASSUME NEW who, NEW cfgs \in SUBSET Configs, NEW cap, Pass(who, cfgs, cap)
    PROVE  \E new \in SUBSET cfgs :
              alive' = alive \cup new /\ (cap > 0 => Cardinality(new) <= cap)
BY DEF Pass, Deliveries

LEMMA XrayKeepsShape ==
    ASSUME ShapeInv, FreshPass \/ RetryPass \/ StalePass \/ SingboxPass
    PROVE  ShapeInv'
<1>1. CASE FreshPass
  <2>1. alive' \subseteq Configs
    BY <1>1, PassAdds DEF FreshPass, ShapeInv
  <2>. QED BY <1>1, <2>1 DEF FreshPass, ShapeInv, xrayVars
<1>2. CASE RetryPass
  <2>1. fresh \ alive \in SUBSET Configs
    BY DEF ShapeInv
  <2>2. alive' \subseteq Configs
    BY <1>2, <2>1, PassAdds DEF RetryPass, LeaveOut, ShapeInv
  <2>. QED BY <1>2, <2>2 DEF RetryPass, ShapeInv, xrayVars
<1>3. CASE StalePass
  <2>1. alive' \subseteq Configs
    BY <1>3, PassAdds DEF StalePass, LeaveOut, ShapeInv
  <2>. QED BY <1>3, <2>1 DEF StalePass, ShapeInv, xrayVars
<1>4. CASE SingboxPass
  <2>1. alive' \subseteq Configs
    BY <1>4, PassAdds DEF SingboxPass, LeaveOut, ShapeInv
  <2>2. quic' \subseteq Configs
    BY <1>4 DEF SingboxPass, ShapeInv
  <2>. QED BY <1>4, <2>1, <2>2 DEF SingboxPass, ShapeInv
<1>. QED BY <1>1, <1>2, <1>3, <1>4

\* Each action keeps the working sets sets of configs.
LEMMA StepsKeepShape == ShapeInv /\ [Next]_vars => ShapeInv'
<1>. SUFFICES ASSUME ShapeInv, [Next]_vars PROVE ShapeInv'
  OBVIOUS
<1>1. CASE Disable \/ NextList
  BY <1>1 DEF Disable, NextList, ShapeInv, xrayVars
<1>2. CASE StartTcp \/ TcpRound \/ EndTcp \/ SkipTls \/ TlsPass
  BY <1>2, TcpKeepsShape, TlsKeepsShape
<1>3. CASE SkipXray
  BY <1>3 DEF SkipXray, ShapeInv, xrayVars, probeVars
<1>4. CASE StartXray
  BY <1>4, StartXrayKeepsShape
<1>5. CASE FreshPass \/ RetryPass \/ StalePass \/ SingboxPass
  BY <1>5, XrayKeepsShape
<1>6. CASE RecordXray \/ Finish
  BY <1>6 DEF RecordXray, Finish, ShapeInv, xrayVars, probeVars
<1>7. CASE UNCHANGED vars
  BY <1>7 DEF vars, flowVars, xrayVars, probeVars, ShapeInv
<1>. QED BY <1>1, <1>2, <1>3, <1>4, <1>5, <1>6, <1>7 DEF Next
-----------------------------------------------------------------------------
(* The limit on live configs.                                              *)

\* Whatever the passes share, each leaves the live configs within its part.
BudgetInv ==
    /\ at \in {"tcp", "tls", "xray", "fresh"} => alive = {}
    /\ settings.maxAlive > 0 =>
          /\ at = "retry" => Cardinality(alive) <= FreshBudget
          /\ at = "stale" => Cardinality(alive) <= RetryCap
          /\ at \in {"singbox", "record"} => Cardinality(alive) <= settings.maxAlive

LEMMA MaxOfTwo ==
    ASSUME NEW a \in Nat, NEW b \in Nat
    PROVE  Max({a, b}) = IF a >= b THEN a ELSE b
<1> DEFINE m == IF a >= b THEN a ELSE b
<1>1. m \in {a, b} /\ \A y \in {a, b} : m >= y
  OBVIOUS
<1>2. \A x \in {a, b} : (\A y \in {a, b} : x >= y) => x = m
  OBVIOUS
<1>. QED BY <1>1, <1>2 DEF Max

\* The parts: half for the fresh if there are others, but never nothing.
LEMMA Parts ==
    ASSUME settings \in Settings, settings.maxAlive > 0
    PROVE  /\ settings.maxAlive \in Nat
           /\ FreshBudget \in 1 .. settings.maxAlive
           /\ RetryCap \in FreshBudget .. settings.maxAlive
           /\ stale # {} /\ settings.maxAlive > 1 => RetryCap <= settings.maxAlive \div 2
<1>1. settings.maxAlive \in Nat
  BY ListAssumption
<1>2. settings.maxAlive \div 2 \in Nat /\ settings.maxAlive \div 2 <= settings.maxAlive
  BY <1>1
<1>3. settings.maxAlive > 1 => settings.maxAlive \div 2 >= 1
  BY <1>1
<1>4. Max({1, settings.maxAlive \div 2}) =
        IF 1 >= settings.maxAlive \div 2 THEN 1 ELSE settings.maxAlive \div 2
  BY <1>2, MaxOfTwo
<1>. QED BY <1>1, <1>2, <1>3, <1>4 DEF FreshBudget, RetryCap

\* A pass with what is left of a limit does not exceed it.
LEMMA PassWithin ==
    ASSUME ShapeInv, NEW who, NEW cfgs \in SUBSET Configs, NEW cap \in Nat,
           Cardinality(alive) < cap, Pass(who, cfgs, Remaining(cap))
    PROVE  Cardinality(alive') <= cap
<1>1. Cardinality(alive) \in Nat /\ IsFiniteSet(alive)
  BY ConfigsFinite DEF ShapeInv
<1>2. Remaining(cap) = cap - Cardinality(alive) /\ Remaining(cap) > 0
  BY <1>1 DEF Remaining
<1>3. PICK new \in SUBSET cfgs :
        alive' = alive \cup new /\ Cardinality(new) <= Remaining(cap)
  BY <1>2, PassAdds
<1>4. new \in SUBSET Configs
  BY <1>3
<1>5. IsFiniteSet(new) /\ Cardinality(new) \in Nat
  BY <1>4, ConfigsFinite
<1>6. IsFiniteSet(alive \cap new) /\ Cardinality(alive \cap new) \in Nat
  BY <1>4, ConfigsFinite
<1>7. Cardinality(alive \cup new) =
        Cardinality(alive) + Cardinality(new) - Cardinality(alive \cap new)
  BY <1>1, <1>5, FS_Union
<1>. QED BY <1>1, <1>2, <1>3, <1>5, <1>6, <1>7

LEMMA FreshPassWithin ==
    ASSUME ShapeInv, BudgetInv, FreshPass
    PROVE  BudgetInv'
<1>1. /\ at = "fresh" /\ at' = "retry" /\ alive = {}
      /\ UNCHANGED <<settings, stale>>
  BY DEF FreshPass, BudgetInv, xrayVars
<1>2. ASSUME settings.maxAlive > 0
      PROVE  Cardinality(alive') <= FreshBudget
  <2>1. FreshBudget \in Nat \ {0}
    BY <1>2, Parts DEF ShapeInv
  <2>2. CASE fresh = {}
    BY <1>1, <2>1, <2>2, FS_EmptySet DEF FreshPass
  <2>3. CASE fresh # {}
    <3>1. PICK new \in SUBSET fresh :
            alive' = alive \cup new /\ Cardinality(new) <= FreshBudget
      BY <2>1, <2>3, PassAdds DEF FreshPass, ShapeInv
    <3>. QED BY <1>1, <3>1
  <2>. QED BY <2>2, <2>3
<1>3. FreshBudget' = FreshBudget
  BY <1>1 DEF FreshBudget
<1>. QED BY <1>1, <1>2, <1>3 DEF BudgetInv

LEMMA RetryPassWithin ==
    ASSUME ShapeInv, BudgetInv, RetryPass
    PROVE  BudgetInv'
<1>1. /\ at = "retry" /\ at' = "stale" /\ UNCHANGED <<settings, stale>>
  BY DEF RetryPass, xrayVars
<1>2. ASSUME settings.maxAlive > 0
      PROVE  Cardinality(alive') <= RetryCap
  <2>1. FreshBudget \in Nat /\ RetryCap \in Nat /\ FreshBudget <= RetryCap
    BY <1>2, Parts DEF ShapeInv
  <2>2. Cardinality(alive) <= RetryCap /\ Cardinality(alive) \in Nat
    BY <1>1, <1>2, <2>1, ConfigsFinite DEF BudgetInv, ShapeInv
  <2>3. CASE UNCHANGED alive
    BY <2>2, <2>3
  <2>4. CASE alive' # alive
    <3>1. Cardinality(alive) < RetryCap
      BY <1>2, <2>1, <2>2, <2>4 DEF RetryPass, LeaveOut
    <3>2. Pass("retry", fresh \ alive, Remaining(RetryCap))
      BY <2>4 DEF RetryPass, LeaveOut
    <3>3. fresh \ alive \in SUBSET Configs
      BY DEF ShapeInv
    <3>. QED BY <2>1, <3>1, <3>2, <3>3, PassWithin
  <2>. QED BY <2>3, <2>4
<1>3. RetryCap' = RetryCap
  BY <1>1 DEF FreshBudget, RetryCap
<1>. QED BY <1>1, <1>2, <1>3 DEF BudgetInv

LEMMA LastPassesWithin ==
    ASSUME ShapeInv, BudgetInv, StalePass \/ SingboxPass
    PROVE  BudgetInv'
<1>1. /\ at \in {"stale", "singbox"} /\ at' \in {"singbox", "record"}
      /\ UNCHANGED settings
  BY DEF StalePass, SingboxPass
<1>2. ASSUME settings.maxAlive > 0
      PROVE  Cardinality(alive') <= settings.maxAlive
  <2>1. settings.maxAlive \in Nat /\ RetryCap \in Nat /\ RetryCap <= settings.maxAlive
    BY <1>2, Parts DEF ShapeInv
  <2>2. Cardinality(alive) <= settings.maxAlive /\ Cardinality(alive) \in Nat
    BY <1>1, <1>2, <2>1, ConfigsFinite DEF BudgetInv, ShapeInv
  <2>3. CASE UNCHANGED alive
    BY <2>2, <2>3
  <2>4. CASE alive' # alive
    <3>1. Cardinality(alive) < settings.maxAlive
      BY <1>2, <2>1, <2>2, <2>4 DEF StalePass, SingboxPass, LeaveOut, Full
    <3>2. \E who : \E cfgs \in SUBSET Configs :
             Pass(who, cfgs, Remaining(settings.maxAlive))
      BY <2>4 DEF StalePass, SingboxPass, LeaveOut, ShapeInv
    <3>. QED BY <2>1, <3>1, <3>2, PassWithin
  <2>. QED BY <2>3, <2>4
<1>. QED BY <1>1, <1>2 DEF BudgetInv

\* Each action leaves the live configs within the part of the next pass.
LEMMA StepsKeepBudget == ShapeInv /\ BudgetInv /\ [Next]_vars => BudgetInv'
<1>. SUFFICES ASSUME ShapeInv, BudgetInv, [Next]_vars PROVE BudgetInv'
  OBVIOUS
<1>1. CASE Disable \/ NextList \/ EndTcp
  BY <1>1 DEF Disable, NextList, EndTcp, BudgetInv
<1>2. CASE StartTcp
  BY <1>2 DEF StartTcp, BudgetInv
<1>3. CASE TcpRound
  BY <1>3 DEF TcpRound, BudgetInv
<1>4. CASE SkipTls \/ TlsPass \/ SkipXray \/ StartXray
  BY <1>4 DEF SkipTls, TlsPass, SkipXray, StartXray, BudgetInv
<1>5. CASE FreshPass \/ RetryPass \/ StalePass \/ SingboxPass
  BY <1>5, FreshPassWithin, RetryPassWithin, LastPassesWithin
<1>6. CASE RecordXray \/ Finish
  BY <1>6 DEF RecordXray, Finish, BudgetInv
<1>7. CASE UNCHANGED vars
  BY <1>7 DEF vars, flowVars, xrayVars, BudgetInv, FreshBudget, RetryCap
<1>. QED BY <1>1, <1>2, <1>3, <1>4, <1>5, <1>6, <1>7 DEF Next
-----------------------------------------------------------------------------
\* Only the two actions that record touch what was recorded.
LEMMA StepsKeepKeys == ShapeInv /\ KeyInv /\ [Next]_vars => KeyInv'
<1>. SUFFICES ASSUME ShapeInv, KeyInv, [Next]_vars PROVE KeyInv'
  OBVIOUS
<1>1. CASE UNCHANGED <<seen, recorded>>
  BY <1>1 DEF KeyInv, OneVerdictPerKey
<1>2. CASE RecordXray
  <2>1. (fresh \cup stale \cup quic) \cap checked \in SUBSET Configs
    BY DEF ShapeInv
  <2>. QED BY <1>2, <2>1, RecordKeeps DEF RecordXray
<1>3. CASE Finish
  <2>1. {c \in log : verdict[c] # "none"} \in SUBSET Configs
    BY DEF ShapeInv
  <2>. QED BY <1>3, <2>1, RecordKeeps DEF Finish
<1>4. CASE ~ (RecordXray \/ Finish)
  <2>1. UNCHANGED <<seen, recorded>>
    BY <1>4 DEF Next, Disable, NextList, StartTcp, TcpRound, EndTcp, SkipTls, TlsPass,
                SkipXray, StartXray, FreshPass, RetryPass, StalePass, SingboxPass,
                vars, healthVars
  <2>. QED BY <1>1, <2>1
<1>. QED BY <1>2, <1>3, <1>4

LEMMA StageInvariant == Spec => [](ShapeInv /\ BudgetInv /\ KeyInv)
<1>1. Init => ShapeInv /\ BudgetInv /\ KeyInv
  BY InitShape DEF Init, BudgetInv, KeyInv, OneVerdictPerKey
<1>2. ShapeInv /\ BudgetInv /\ KeyInv /\ [Next]_vars =>
        ShapeInv' /\ BudgetInv' /\ KeyInv'
  BY StepsKeepShape, StepsKeepBudget, StepsKeepKeys
<1>. QED BY <1>1, <1>2, PTL DEF Spec

\* A server in several lists, or twice in one, gets one verdict in a run, from any
\* number of lists and stages (liveness.py:337-376): bans that count runs rest on it.
THEOREM OneVerdictEach == Spec => []OneVerdictPerKey
<1>1. KeyInv => OneVerdictPerKey
  BY DEF KeyInv
<1>. QED BY StageInvariant, <1>1, PTL

\* The four passes of the Xray stage, each with what the others left, never deliver
\* more live configs than asked for, and the fresh ones no more than half of them
\* while others wait (liveness_stages.py:1058-1215).
THEOREM LimitIsKept == Spec => []AliveWithinBudget
<1>1. ShapeInv /\ BudgetInv => AliveWithinBudget
  <2>. SUFFICES ASSUME ShapeInv, BudgetInv, settings.maxAlive > 0
                PROVE  /\ at \in L3 \cup {"record"} =>
                             Cardinality(alive) <= settings.maxAlive
                       /\ at = "stale" /\ stale # {} /\ settings.maxAlive > 1 =>
                             Cardinality(alive) <= settings.maxAlive \div 2
    BY DEF AliveWithinBudget
  <2>1. /\ settings.maxAlive \in Nat
        /\ FreshBudget \in 1 .. settings.maxAlive
        /\ RetryCap \in FreshBudget .. settings.maxAlive
        /\ stale # {} /\ settings.maxAlive > 1 => RetryCap <= settings.maxAlive \div 2
    BY Parts DEF ShapeInv
  <2>2. Cardinality(alive) \in Nat /\ settings.maxAlive \div 2 \in Nat
    BY <2>1, ConfigsFinite DEF ShapeInv
  <2>3. CASE at = "fresh"
    BY <2>1, <2>3, FS_EmptySet DEF BudgetInv
  <2>4. CASE at # "fresh"
    BY <2>1, <2>2, <2>4 DEF BudgetInv, L3
  <2>. QED BY <2>3, <2>4
<1>. QED BY StageInvariant, <1>1, PTL
-----------------------------------------------------------------------------
(* Where the working sets are.                                             *)

L3Stages == L3 \cup {"record"}

\* The working sets of a list are parts of it, and empty where no step uses them.
PlaceInv ==
    /\ at \notin {"list", "done"} =>
          n \in 1 .. Len(Lists) /\ current \cup log \subseteq Lists[n]
    /\ at # "round" => left = {}
    /\ at \notin {"round", "retry", "stale", "singbox", "record"} => alive = {}
    /\ at \in L3Stages => fresh \cup stale \cup quic \subseteq current

TypeInv == TypeOK /\ PlaceInv

\* A list is a set of configs that are in no other.
LEMMA ListsApart ==
    /\ Len(Lists) \in Nat
    /\ \A i \in 1 .. Len(Lists) : Lists[i] \subseteq Configs
    /\ \A i, j \in 1 .. Len(Lists) : i # j => Lists[i] \cap Lists[j] = {}
<1>1. Lists \in Seq((SUBSET Configs) \ {{}})
  BY ListAssumption
<1>. QED BY <1>1, ListAssumption

LEMMA AbleApart ==
    /\ Able("tls") \subseteq Able("tcp")
    /\ Able("xray") \cap Able("singbox") = {}
<1>1. Able("tls") \subseteq Able("tcp")
  BY ListAssumption DEF Able
<1>2. Able("xray") \cap Able("singbox") = {}
  BY ListAssumption DEF Able
<1>. QED BY <1>1, <1>2

\* What a validator does to verdicts: those of the configs it was given, and no
\* others.
Judges(who, cfgs) ==
    /\ verdict' \in [Configs -> Verdict]
    /\ by' \in [Configs -> {"none", "tcp", "tls"} \cup L3]
    /\ checked' \subseteq Configs
    /\ \A c \in Configs \ cfgs :
          verdict'[c] = verdict[c] /\ by'[c] = by[c] /\ (c \in checked' <=> c \in checked)
    /\ \A c \in cfgs :
          /\ by'[c] \in {by[c], who}
          /\ verdict'[c] = "none" \/ by'[c] = who

\* An Xray pass over cfgs, or cfgs left out.
XrayJudges(who, cfgs) ==
    /\ Judges(who, cfgs)
    /\ \A c \in cfgs : c \in checked' => by'[c] = who
    /\ \E new \in SUBSET cfgs :
          alive' = alive \cup new /\ \A c \in new : verdict'[c] = "pass"

LEMMA DeliverJudges ==
    ASSUME TypeOK, NEW who \in {"tcp"} \cup L3, NEW cfgs \in SUBSET Configs, NEW cap,
           NEW d \in Deliveries(cfgs, cap), Deliver(who, d)
    PROVE  /\ Judges(who, cfgs)
           /\ who \in L3 => \A c \in cfgs : c \in checked' => by'[c] = who
           /\ who \notin L3 => checked' = checked
           /\ d.out \subseteq cfgs /\ \A c \in d.out : verdict'[c] = "pass"
<1>1. /\ d.verdict \in [cfgs -> Verdict] /\ d.out \subseteq cfgs
      /\ \A c \in d.out : d.verdict[c] = "pass"
  BY DEF Deliveries
<1>2. DOMAIN d.verdict = cfgs
  BY <1>1
<1>3. verdict \in [Configs -> Verdict] /\ by \in [Configs -> {"none", "tcp", "tls"} \cup L3]
      /\ checked \subseteq Configs
  BY DEF TypeOK
<1>4. verdict' = [c \in Configs |-> IF c \in cfgs THEN d.verdict[c] ELSE verdict[c]]
  BY <1>2 DEF Deliver
<1>5. by' = [c \in Configs |-> IF c \in cfgs /\ d.verdict[c] # "none" THEN who ELSE by[c]]
  BY <1>2 DEF Deliver
<1>6. checked' = IF who \in L3
                 THEN (checked \ cfgs) \cup {c \in cfgs : d.verdict[c] # "none"}
                 ELSE checked
  BY <1>2 DEF Deliver
<1>7. verdict' \in [Configs -> Verdict]
  BY <1>1, <1>3, <1>4
<1>8. by' \in [Configs -> {"none", "tcp", "tls"} \cup L3]
  BY <1>3, <1>5
<1>9. checked' \subseteq Configs
  BY <1>3, <1>6
<1>10. \A c \in Configs \ cfgs :
          verdict'[c] = verdict[c] /\ by'[c] = by[c] /\ (c \in checked' <=> c \in checked)
  BY <1>4, <1>5, <1>6
<1>11. \A c \in cfgs : by'[c] \in {by[c], who} /\ (verdict'[c] = "none" \/ by'[c] = who)
  BY <1>4, <1>5
<1>12. who \in L3 => \A c \in cfgs : c \in checked' => by'[c] = who
  BY <1>5, <1>6
<1>13. \A c \in d.out : verdict'[c] = "pass"
  BY <1>1, <1>4
<1>. QED BY <1>1, <1>6, <1>7, <1>8, <1>9, <1>10, <1>11, <1>12, <1>13 DEF Judges

LEMMA PassJudges ==
    ASSUME TypeOK, NEW who \in L3, NEW cfgs \in SUBSET Configs, NEW cap,
           \/ Pass(who, cfgs, cap)
           \/ LeaveOut(cfgs)
           \/ cfgs = {} /\ UNCHANGED <<alive, verdict, checked, by>>
    PROVE  XrayJudges(who, cfgs)
<1>1. CASE Pass(who, cfgs, cap)
  <2>1. PICK d \in Deliveries(cfgs, cap) : Deliver(who, d) /\ alive' = alive \cup d.out
    BY <1>1 DEF Pass
  <2>. QED BY <2>1, DeliverJudges DEF XrayJudges
<1>2. CASE LeaveOut(cfgs)
  <2>1. /\ verdict' = [c \in Configs |-> IF c \in cfgs THEN "none" ELSE verdict[c]]
        /\ checked' = checked \ cfgs /\ by' = by /\ alive' = alive \cup {}
    BY <1>2 DEF LeaveOut, Forget, NoVerdict
  <2>2. Judges(who, cfgs)
    BY <2>1 DEF TypeOK, Judges, Verdict
  <2>3. \A c \in cfgs : c \notin checked'
    BY <2>1
  <2>. QED BY <2>1, <2>2, <2>3 DEF XrayJudges
<1>3. CASE cfgs = {} /\ UNCHANGED <<alive, verdict, checked, by>>
  <2>1. Judges(who, cfgs)
    BY <1>3 DEF TypeOK, Judges
  <2>2. alive' = alive \cup {}
    BY <1>3
  <2>. QED BY <1>3, <2>1, <2>2 DEF XrayJudges
<1>. QED BY <1>1, <1>2, <1>3

\* The four passes and the configs each is about.
LEMMA PassesJudge ==
    ASSUME TypeOK
    PROVE  /\ FreshPass => XrayJudges("fresh", fresh)
           /\ RetryPass => XrayJudges("retry", fresh \ alive)
           /\ StalePass => XrayJudges("stale", stale)
           /\ SingboxPass => XrayJudges("singbox", quic)
<1>1. /\ fresh \in SUBSET Configs /\ fresh \ alive \in SUBSET Configs
      /\ stale \in SUBSET Configs /\ quic \in SUBSET Configs
  BY AbleIsPart DEF TypeOK
<1>2. L3 = {"fresh", "retry", "stale", "singbox"}
  BY DEF L3
<1>3. ASSUME FreshPass PROVE XrayJudges("fresh", fresh)
  BY <1>1, <1>2, <1>3, PassJudges DEF FreshPass
<1>4. ASSUME RetryPass PROVE XrayJudges("retry", fresh \ alive)
  BY <1>1, <1>2, <1>4, PassJudges DEF RetryPass
<1>5. ASSUME StalePass PROVE XrayJudges("stale", stale)
  BY <1>1, <1>2, <1>5, PassJudges DEF StalePass
<1>6. ASSUME SingboxPass PROVE XrayJudges("singbox", quic)
  BY <1>1, <1>2, <1>6, PassJudges DEF SingboxPass
<1>. QED BY <1>3, <1>4, <1>5, <1>6
-----------------------------------------------------------------------------
(* Types.                                                                  *)

LEMMA InitType == Init => TypeInv
<1>. SUFFICES ASSUME Init PROVE TypeInv
  OBVIOUS
<1>1. settings \in Settings /\ settings.tcpRounds \in Nat
  BY ListAssumption DEF Init
<1>2. n \in 1 .. Len(Lists) + 1 /\ rounds \in 0 .. settings.tcpRounds
  BY <1>1, ListsApart DEF Init
<1>3. TypeOK
  BY <1>1, <1>2 DEF Init, TypeOK, Verdict
<1>4. PlaceInv
  BY DEF Init, PlaceInv, L3Stages, L3
<1>. QED BY <1>3, <1>4 DEF TypeInv

\* A step that leaves the verdicts and what was learned alone.
LEMMA QuietTypes ==
    ASSUME TypeInv, StartTcp \/ EndTcp \/ SkipTls \/ SkipXray
    PROVE  TypeInv'
<1>. USE DEF TypeInv, TypeOK, PlaceInv, L3Stages, L3
<1>1. CASE StartTcp
  <2>1. due' \in [Configs -> {"none", "tcp", "tls", "xray"}]
    BY <1>1 DEF StartTcp, Due
  <2>2. left' \subseteq current \cap Able("tcp")
    BY <1>1 DEF StartTcp
  <2>3. at' \in {"round", "tls"} /\ (at' # "round" => left' = {})
    BY <1>1 DEF StartTcp
  <2>. QED BY <1>1, <2>1, <2>2, <2>3 DEF StartTcp, xrayVars, healthVars
<1>2. CASE EndTcp
  <2>1. at' \in {"tls", "finally"} /\ open' \in BOOLEAN
    BY <1>2, ListAssumption DEF EndTcp
  <2>2. current' \subseteq Lists[n]
    BY <1>2 DEF EndTcp
  <2>3. current' \subseteq Configs
    BY <1>2, <2>2, ListsApart DEF EndTcp
  <2>. QED BY <1>2, <2>1, <2>2, <2>3 DEF EndTcp, xrayVars, probeVars, healthVars
<1>3. CASE SkipTls
  <2>1. current' \subseteq current
    BY <1>3 DEF SkipTls
  <2>. QED BY <1>3, <2>1 DEF SkipTls, xrayVars, probeVars, healthVars
<1>4. CASE SkipXray
  <2>1. current' \subseteq current
    BY <1>4 DEF SkipXray
  <2>. QED BY <1>4, <2>1 DEF SkipXray, xrayVars, probeVars, healthVars
<1>. QED BY <1>1, <1>2, <1>3, <1>4

LEMMA BeginTypes ==
    ASSUME TypeInv, Disable \/ NextList
    PROVE  TypeInv'
<1>. USE DEF TypeInv, TypeOK, PlaceInv, L3Stages, L3
<1>1. CASE Disable
  <2>1. verdict' \in [Configs -> Verdict]
    BY <1>1 DEF Disable, Verdict
  <2>2. out' \in [1 .. Len(Lists) -> SUBSET Configs]
    BY <1>1, ListAssumption DEF Disable
  <2>. QED BY <1>1, <2>1, <2>2 DEF Disable, xrayVars
<1>2. CASE NextList
  <2>1. n \in 1 .. Len(Lists)
    BY <1>2, ListsApart DEF NextList
  <2>2. current' \subseteq Lists[n] /\ at' \in {"tcp", "finally"}
    BY <1>2 DEF NextList
  <2>3. current' \subseteq Configs
    BY <2>1, <2>2, ListsApart
  <2>4. settings.tcpRounds \in Nat
    BY ListAssumption
  <2>5. /\ open' = FALSE /\ left' = {} /\ rounds' = 0 /\ alive' = {}
        /\ log' = {} /\ consumed' = FALSE
        /\ fresh' = {} /\ stale' = {} /\ quic' = {} /\ kept' = {}
        /\ UNCHANGED <<settings, n, verdict, checked, by, due, seen, recorded, out>>
    BY <1>2 DEF NextList
  <2>6. rounds' \in 0 .. settings'.tcpRounds
    BY <2>4, <2>5
  <2>7. open' \in BOOLEAN /\ consumed' \in BOOLEAN
    BY <2>5
  <2>8. left' = {} /\ fresh' = {} /\ stale' = {} /\ quic' = {} /\ kept' = {}
        /\ alive' = {} /\ log' = {} /\ settings' = settings /\ n' = n
        /\ verdict' = verdict /\ checked' = checked /\ by' = by /\ due' = due
        /\ seen' = seen /\ recorded' = recorded /\ out' = out
    BY <2>5
  <2>9. TypeOK'
    BY <2>2, <2>3, <2>6, <2>7, <2>8
  <2>10. PlaceInv'
    BY <2>1, <2>2, <2>8
  <2>. QED BY <2>9, <2>10
<1>. QED BY <1>1, <1>2

LEMMA RoundTypes ==
    ASSUME TypeInv, TcpRound
    PROVE  TypeInv'
<1>. USE DEF TypeInv
<1>1. PICK batch \in kSubset(AtMost(settings.tcpLimit, left), left) :
      \E d \in Deliveries(batch, Remaining(settings.tcpAlive)) :
         /\ Deliver("tcp", d)
         /\ log' = log \cup Judged(batch)
         /\ left' = left \ batch
         /\ alive' = alive \cup d.out
  BY DEF TcpRound
<1>2. batch \subseteq left
  BY <1>1 DEF kSubset
<1>3. batch \in SUBSET Configs
  BY <1>2, AbleIsPart DEF TypeOK
<1>4. PICK d \in Deliveries(batch, Remaining(settings.tcpAlive)) :
         /\ Deliver("tcp", d)
         /\ log' = log \cup Judged(batch)
         /\ left' = left \ batch
         /\ alive' = alive \cup d.out
  BY <1>1
<1>5. Judges("tcp", batch) /\ d.out \subseteq batch
  BY <1>3, <1>4, DeliverJudges
<1>6. rounds' \in 0 .. settings.tcpRounds
  BY ListAssumption DEF TcpRound, SearchOn, TypeOK
<1>7. alive' \subseteq current /\ left' \subseteq current \cap Able("tcp")
  BY <1>2, <1>4, <1>5 DEF TypeOK
<1>8. log' \subseteq Able("tcp") /\ (log' \subseteq Lists[n])
  BY <1>2, <1>4 DEF TypeOK, PlaceInv, Judged, TcpRound
<1>9. TypeOK'
  BY <1>5, <1>6, <1>7, <1>8 DEF TcpRound, TypeOK, Judges, xrayVars, healthVars
<1>. QED BY <1>8, <1>9 DEF TcpRound, PlaceInv, L3Stages, L3

\* What TlsPass does to the verdicts: those of the candidates.
LEMMA TlsJudges ==
    ASSUME TypeOK, TlsPass
    PROVE  /\ Judges("tls", current \cap Able("tls"))
           /\ checked' \subseteq checked
           /\ current' = current \/ current' \subseteq current
           /\ log' \subseteq log \cup (current \cap Able("tls"))
           /\ \A c \in current' \cap Able("tls") :
                 verdict'[c] = "fail" => settings.failOpen
           /\ at' \in {"finally", "xray"}
<1> DEFINE cands == current \cap Able("tls")
<1>1. PICK probed \in kSubset(AtMost(settings.tlsLimit, cands), cands) :
      \E d \in Deliveries(probed, 0) :
         LET tail  == cands \ probed
             rest  == IF settings.dropUnchecked THEN {} ELSE current \ cands
             opens == settings.failOpen /\ Cardinality(d.out) < Floor(cands)
         IN  /\ verdict' = [c \in Configs |-> IF c \in probed THEN d.verdict[c]
                                              ELSE NoVerdict(tail)[c]]
             /\ by' = [c \in Configs |->
                         IF c \in probed /\ d.verdict[c] # "none"
                         THEN "tls" ELSE by[c]]
             /\ checked' = checked \ tail
             /\ log' = log \cup Judged(probed)
             /\ current' = IF opens THEN current ELSE d.out \cup rest \cup tail
             /\ at' = IF opens /\ ~ settings.xray THEN "finally" ELSE "xray"
  BY DEF TlsPass
<1>2. PICK d \in Deliveries(probed, 0) :
         LET tail  == cands \ probed
             rest  == IF settings.dropUnchecked THEN {} ELSE current \ cands
             opens == settings.failOpen /\ Cardinality(d.out) < Floor(cands)
         IN  /\ verdict' = [c \in Configs |-> IF c \in probed THEN d.verdict[c]
                                              ELSE NoVerdict(tail)[c]]
             /\ by' = [c \in Configs |->
                         IF c \in probed /\ d.verdict[c] # "none"
                         THEN "tls" ELSE by[c]]
             /\ checked' = checked \ tail
             /\ log' = log \cup Judged(probed)
             /\ current' = IF opens THEN current ELSE d.out \cup rest \cup tail
             /\ at' = IF opens /\ ~ settings.xray THEN "finally" ELSE "xray"
  BY <1>1
<1>3. probed \subseteq cands /\ cands \subseteq Configs /\ cands \subseteq current
  BY AbleIsPart DEF kSubset
<1>4. /\ d.verdict \in [probed -> Verdict] /\ d.out \subseteq probed
      /\ \A c \in d.out : d.verdict[c] = "pass"
  BY DEF Deliveries
<1>5. verdict' = [c \in Configs |-> IF c \in probed THEN d.verdict[c]
                                    ELSE IF c \in cands THEN "none" ELSE verdict[c]]
  BY <1>2, <1>3 DEF NoVerdict
<1>6. by' = [c \in Configs |-> IF c \in probed /\ d.verdict[c] # "none"
                               THEN "tls" ELSE by[c]]
  BY <1>2
<1>7. checked' = checked \ (cands \ probed)
  BY <1>2
<1>8. verdict' \in [Configs -> Verdict]
  BY <1>3, <1>4, <1>5 DEF TypeOK, Verdict
<1>9. by' \in [Configs -> {"none", "tcp", "tls"} \cup L3]
  BY <1>6 DEF TypeOK
<1>10. Judges("tls", cands)
  BY <1>3, <1>5, <1>6, <1>7, <1>8, <1>9 DEF Judges, TypeOK
<1>11. current' \subseteq current
  BY <1>2, <1>3, <1>4
<1>12. log' \subseteq log \cup cands
  BY <1>2, <1>3 DEF Judged
<1>13. ASSUME NEW c \in current' \cap Able("tls"), verdict'[c] = "fail"
       PROVE  settings.failOpen
  <2>1. CASE settings.failOpen
    BY <2>1
  <2>2. CASE ~ settings.failOpen
    <3>1. c \in d.out \cup (cands \ probed)
      BY <1>2, <1>3, <1>4, <1>13, <2>2
    <3>. QED BY <1>3, <1>4, <1>5, <1>13, <3>1
  <2>. QED BY <2>1, <2>2
<1>14. at' \in {"finally", "xray"}
  BY <1>2
<1>. QED BY <1>7, <1>10, <1>11, <1>12, <1>13, <1>14

LEMMA TlsTypes ==
    ASSUME TypeInv, TlsPass
    PROVE  TypeInv'
<1>. USE DEF TypeInv
<1>1. due' \in [Configs -> {"none", "tcp", "tls", "xray"}]
  BY DEF TlsPass, Due, TypeOK
<1>2. /\ Judges("tls", current \cap Able("tls")) /\ current' \subseteq current
      /\ log' \subseteq log \cup (current \cap Able("tls")) /\ at' \in {"finally", "xray"}
  BY TlsJudges
<1>3. log' \subseteq Able("tcp")
  BY <1>2, AbleApart DEF TypeOK
<1>4. /\ at = "tls"
      /\ UNCHANGED <<settings, n, open, left, rounds, alive, xrayVars, healthVars>>
  BY DEF TlsPass
<1>5. left = {} /\ alive = {}
  BY <1>4 DEF PlaceInv
<1>6. TypeOK'
  BY <1>1, <1>2, <1>3, <1>4, <1>5 DEF TypeOK, Judges, xrayVars, healthVars
<1>7. PlaceInv'
  BY <1>2, <1>4, <1>5 DEF PlaceInv, L3Stages, L3
<1>. QED BY <1>6, <1>7

LEMMA StartXrayTypes ==
    ASSUME TypeInv, StartXray
    PROVE  TypeInv'
<1>. USE DEF TypeInv
<1> DEFINE supported == current \cap Able("xray")
<1> DEFINE sing == IF settings.singboxThere THEN current \cap Able("singbox") ELSE {}
<1>1. PICK chosen \in Preselected(supported) : \E recent \in Recent(chosen) :
         /\ Forget(supported \ chosen)
         /\ fresh' = recent /\ stale' = chosen \ recent
         /\ kept' = IF settings.dropUnsupported THEN {}
                    ELSE Unsupported(supported \cup sing, chosen \cup sing)
  BY DEF StartXray
<1>2. chosen \subseteq supported
  BY <1>1 DEF Preselected
<1>3. /\ fresh' \cup stale' \subseteq supported /\ fresh' \cap stale' = {}
  BY <1>1, <1>2 DEF Recent
<1>4. kept' \subseteq Configs
  BY <1>1 DEF Unsupported, TypeOK
<1>5. verdict' \in [Configs -> Verdict] /\ checked' \subseteq Configs /\ by' = by
  BY <1>1 DEF Forget, NoVerdict, TypeOK, Verdict
<1>6. due' \in [Configs -> {"none", "tcp", "tls", "xray"}]
  BY DEF StartXray, Due, TypeOK
<1>7. quic' = sing
  BY DEF StartXray
<1>8. at' = "fresh" /\ at = "xray"
  BY DEF StartXray
<1>9. TypeOK'
  BY <1>3, <1>4, <1>5, <1>6, <1>7, <1>8 DEF StartXray, TypeOK, healthVars
<1>10. PlaceInv'
  BY <1>3, <1>7, <1>8 DEF StartXray, PlaceInv, L3Stages, L3
<1>. QED BY <1>9, <1>10

\* The four passes.
LEMMA PassTypes ==
    ASSUME TypeInv, FreshPass \/ RetryPass \/ StalePass \/ SingboxPass
    PROVE  TypeInv'
<1>. USE DEF TypeInv
<1>1. /\ at \in L3 /\ at' \in {"retry", "stale", "singbox", "record"}
      /\ quic' \subseteq quic
      /\ UNCHANGED <<settings, n, current, open, left, rounds, fresh, stale, kept, log, due,
                     consumed, seen, recorded, out>>
  BY DEF FreshPass, RetryPass, StalePass, SingboxPass, L3, xrayVars, healthVars
<1>2. \E who \in L3 : \E cfgs \in SUBSET current : XrayJudges(who, cfgs)
  <2>1. fresh \cup stale \cup quic \subseteq current
    BY <1>1 DEF PlaceInv, L3Stages
  <2>. QED BY <2>1, PassesJudge DEF L3
<1>3. alive' \subseteq current
  BY <1>2 DEF XrayJudges, TypeOK
<1>4. /\ verdict' \in [Configs -> Verdict]
      /\ by' \in [Configs -> {"none", "tcp", "tls"} \cup L3]
      /\ checked' \subseteq Configs
  BY <1>2 DEF XrayJudges, Judges
<1>5. TypeOK'
  BY <1>1, <1>3, <1>4 DEF TypeOK
<1>6. PlaceInv'
  BY <1>1 DEF PlaceInv, L3Stages, L3
<1>. QED BY <1>5, <1>6

\* What is recorded is what the configs have as verdict.
LEMMA RecordTypes ==
    ASSUME TypeOK, NEW cfgs \in SUBSET Configs, Record(cfgs)
    PROVE  /\ recorded' \in [Configs -> Verdict]
           /\ seen' \subseteq {Key[c] : c \in Configs}
           /\ \A c \in Configs :
                 \/ recorded'[c] = recorded[c]
                 \/ c \in cfgs /\ recorded'[c] = verdict[c]
<1>1. PICK picked \in kSubset(Cardinality(NewKeys(cfgs)), cfgs) :
         recorded' = [c \in Configs |-> IF c \in picked THEN verdict[c] ELSE recorded[c]]
  BY DEF Record
<1>2. picked \subseteq cfgs
  BY <1>1 DEF kSubset
<1>3. recorded' \in [Configs -> Verdict]
  BY <1>1, <1>2 DEF TypeOK
<1>4. seen' \subseteq {Key[c] : c \in Configs}
  BY DEF Record, NewKeys, TypeOK
<1>. QED BY <1>1, <1>2, <1>3, <1>4

LEMMA EndTypes ==
    ASSUME TypeInv, RecordXray \/ Finish
    PROVE  TypeInv'
<1>. USE DEF TypeInv
<1>1. CASE RecordXray
  <2>1. (fresh \cup stale \cup quic) \cap checked \in SUBSET Configs
    BY DEF TypeOK
  <2>2. recorded' \in [Configs -> Verdict] /\ seen' \subseteq {Key[c] : c \in Configs}
    BY <1>1, <2>1, RecordTypes DEF RecordXray
  <2>3. current' \subseteq current
    BY <1>1 DEF RecordXray, WithoutBanned, Merged
  <2>4. TypeOK'
    BY <1>1, <2>2, <2>3, ListAssumption DEF RecordXray, TypeOK, PlaceInv, xrayVars, probeVars
  <2>5. PlaceInv'
    BY <1>1, <2>3 DEF RecordXray, PlaceInv, probeVars, L3Stages, L3
  <2>. QED BY <2>4, <2>5
<1>2. CASE Finish
  <2>1. {c \in log : verdict[c] # "none"} \in SUBSET Configs
    BY AbleIsPart DEF TypeOK
  <2>2. recorded' \in [Configs -> Verdict] /\ seen' \subseteq {Key[c] : c \in Configs}
    BY <1>2, <2>1, RecordTypes DEF Finish
  <2>3. PICK result \in SUBSET current : out' = [out EXCEPT ![n] = result]
    BY <1>2 DEF Finish, WithoutBanned
  <2>4. out' \in [1 .. Len(Lists) -> SUBSET Configs]
    BY <2>3 DEF TypeOK
  <2>5. at = "finally" /\ at' \in {"done", "list"} /\ left = {} /\ alive = {}
    BY <1>2 DEF Finish, PlaceInv
  <2>6. n \in 1 .. Len(Lists) /\ n' = n + 1
    BY <1>2, <2>5 DEF Finish, PlaceInv
  <2>7. n' \in 1 .. Len(Lists) + 1
    BY <2>6, ListsApart
  <2>8. TypeOK'
    BY <1>2, <2>2, <2>4, <2>5, <2>7 DEF Finish, TypeOK, xrayVars, probeVars
  <2>9. PlaceInv'
    BY <1>2, <2>5 DEF Finish, PlaceInv, L3Stages, L3
  <2>. QED BY <2>8, <2>9
<1>. QED BY <1>1, <1>2

LEMMA StepsKeepTypes == TypeInv /\ [Next]_vars => TypeInv'
<1>. SUFFICES ASSUME TypeInv, [Next]_vars PROVE TypeInv'
  OBVIOUS
<1>1. CASE UNCHANGED vars
  BY <1>1 DEF TypeInv, TypeOK, PlaceInv, vars, flowVars, xrayVars, probeVars, healthVars
<1>. QED
  BY <1>1, BeginTypes, QuietTypes, RoundTypes, TlsTypes, StartXrayTypes, PassTypes,
     EndTypes DEF Next

LEMMA TypeInvariant == Spec => []TypeInv
<1>. QED BY InitType, StepsKeepTypes, PTL DEF Spec
-----------------------------------------------------------------------------
(* What the history learns.                                                *)

\* The configs of the lists validated before.
Past == UNION {Lists[i] : i \in 1 .. n - 1}
Now == IF at = "list" THEN {} ELSE Lists[n]

\* The candidates of Xray no pass has judged yet.
Pending ==
    CASE at = "fresh" -> fresh \cup stale \cup quic
      [] at \in {"retry", "stale"} -> stale \cup quic
      [] at = "singbox" -> quic
      [] OTHER -> {}

\* A config whose list is yet to come has not been touched.
AheadInv ==
    at # "done" => \A c \in Configs \ (Past \cup Now) :
        /\ verdict[c] = "none" /\ recorded[c] = "none" /\ c \notin checked
        /\ by[c] = "none" /\ due[c] = "none"

\* Where the verdict of a config of this list came from.
OriginInv(c) ==
    /\ at \notin {"finally", "done"} => recorded[c] = "none"
    /\ due[c] = "tls" /\ verdict[c] # "none" => by[c] = "tls"
    /\ due[c] = "xray" /\ verdict[c] # "none" => by[c] \in L3 \/ c \in Pending
    /\ due[c] = "xray" /\ c \in checked => by[c] \in L3
    /\ verdict[c] = "fail" /\ by[c] = "fresh" => at = "retry" /\ c \in fresh \ alive
    /\ at \in {"tcp", "round", "tls", "xray"} =>
          due[c] # "xray" /\ by[c] \notin L3 /\ c \notin checked
    /\ at \in {"tcp", "round"} => due[c] # "tls"

EarnInv ==
    /\ AheadInv
    /\ at \notin {"list", "done"} => \A c \in Lists[n] : OriginInv(c)
    /\ at \in L3Stages => \A c \in fresh \cup stale \cup quic : due[c] = "xray"
    /\ VerdictsAreEarned

LEMMA InitEarn == Init => EarnInv
<1>. SUFFICES ASSUME Init PROVE EarnInv
  OBVIOUS
<1>1. AheadInv
  BY DEF Init, AheadInv
<1>. QED BY <1>1 DEF Init, EarnInv, VerdictsAreEarned, L3Stages, L3

\* This list and the earlier ones have no config in common.
LEMMA PastApart ==
    ASSUME NEW m \in 1 .. Len(Lists), n = m
    PROVE  Lists[m] \cap Past = {} /\ Lists[m] \subseteq Configs
<1>1. \A i \in 1 .. n - 1 : i \in 1 .. Len(Lists) /\ i # m
  BY ListsApart
<1>. QED BY <1>1, ListsApart DEF Past

\* Steps within a list that touch its configs only, and record nothing.
LEMMA LocalEarn ==
    ASSUME TypeInv, EarnInv,
           at \notin {"list", "finally", "done"}, at' \notin {"list", "done"},
           n' = n, recorded' = recorded,
           \A c \in Configs \ Lists[n] :
              /\ verdict'[c] = verdict[c] /\ by'[c] = by[c] /\ due'[c] = due[c]
              /\ c \in checked' <=> c \in checked,
           \A c \in Lists[n] : OriginInv(c)',
           (at \in L3Stages => \A c \in fresh \cup stale \cup quic : due[c] = "xray")'
    PROVE  EarnInv'
<1>1. n \in 1 .. Len(Lists)
  BY DEF TypeInv, PlaceInv
<1>2. Lists[n] \cap Past = {} /\ Lists[n] \subseteq Configs
  BY <1>1, PastApart
<1>3. Past' = Past /\ Now' = Lists[n] /\ Now = Lists[n]
  BY DEF Past, Now
<1>4. AheadInv'
  BY <1>3 DEF EarnInv, AheadInv
<1>5. \A c \in Lists[n] : recorded[c] = "none"
  BY DEF EarnInv, OriginInv
<1>6. VerdictsAreEarned'
  <2>. SUFFICES ASSUME NEW c \in Configs
                PROVE  /\ recorded'[c] # "none" /\ due'[c] = "xray" => by'[c] \in L3
                       /\ recorded'[c] = "pass" /\ due'[c] = "tls" => by'[c] = "tls"
                       /\ recorded'[c] = "fail" => by'[c] # "fresh"
    BY DEF VerdictsAreEarned
  <2>1. CASE c \in Lists[n]
    BY <2>1, <1>5
  <2>2. CASE c \notin Lists[n]
    BY <2>2 DEF EarnInv, VerdictsAreEarned
  <2>. QED BY <2>1, <2>2
<1>. QED BY <1>4, <1>6 DEF EarnInv

\* A call of a validator, or configs left out, touches this list only.
LEMMA JudgesLocally ==
    ASSUME TypeInv, at \notin {"list", "done"}, NEW who, NEW cfgs \in SUBSET current,
           Judges(who, cfgs)
    PROVE  /\ cfgs \subseteq Lists[n] /\ Lists[n] \subseteq Configs
           /\ \A c \in Configs \ Lists[n] :
                 /\ verdict'[c] = verdict[c] /\ by'[c] = by[c]
                 /\ c \in checked' <=> c \in checked
<1>1. n \in 1 .. Len(Lists) /\ current \subseteq Lists[n]
  BY DEF TypeInv, PlaceInv
<1>2. Lists[n] \subseteq Configs
  BY <1>1, ListsApart
<1>. QED BY <1>1, <1>2 DEF Judges

\* What a stage makes its candidates due for, in this list only.
LEMMA DueLocally ==
    ASSUME TypeInv, at \notin {"list", "done"}, NEW stage, NEW cfgs \in SUBSET current,
           Due(stage, cfgs)
    PROVE  /\ cfgs \subseteq Lists[n] /\ Lists[n] \subseteq Configs
           /\ \A c \in Configs : due'[c] = IF c \in cfgs THEN stage ELSE due[c]
<1>1. n \in 1 .. Len(Lists) /\ current \subseteq Lists[n]
  BY DEF TypeInv, PlaceInv
<1>2. Lists[n] \subseteq Configs
  BY <1>1, ListsApart
<1>. QED BY <1>1, <1>2 DEF Due

LEMMA BeginEarn ==
    ASSUME TypeInv, EarnInv, Disable \/ NextList
    PROVE  EarnInv'
<1>1. CASE Disable
  <2>1. at = "list" /\ n = 1 /\ at' = "done"
        /\ UNCHANGED <<n, fresh, stale, quic, due, recorded, by>>
    BY <1>1 DEF Disable, xrayVars
  <2>2. Past = {} /\ Now = {}
    BY <2>1 DEF Past, Now
  <2>3. \A c \in Configs : recorded'[c] = "none"
    BY <2>1, <2>2 DEF EarnInv, AheadInv
  <2>4. VerdictsAreEarned'
    BY <2>3 DEF VerdictsAreEarned
  <2>. QED BY <2>1, <2>4 DEF EarnInv, AheadInv, L3Stages, L3
<1>2. CASE NextList
  <2>1. /\ at = "list" /\ n \in 1 .. Len(Lists) /\ at' \in {"tcp", "finally"} /\ n' = n
        /\ UNCHANGED <<verdict, checked, by, due, recorded>>
    BY <1>2, ListsApart DEF NextList, TypeInv, TypeOK
  <2>2. Lists[n] \cap Past = {} /\ Lists[n] \subseteq Configs
    BY <2>1, PastApart
  <2>3. Past' = Past /\ Now' = Lists[n] /\ Now = {}
    BY <2>1 DEF Past, Now
  <2>4. AheadInv'
    BY <2>1, <2>3 DEF EarnInv, AheadInv
  <2>5. \A c \in Lists[n] :
           /\ verdict[c] = "none" /\ recorded[c] = "none" /\ c \notin checked
           /\ by[c] = "none" /\ due[c] = "none"
    BY <2>1, <2>2, <2>3 DEF EarnInv, AheadInv
  <2>6. \A c \in Lists[n] : OriginInv(c)'
    BY <2>1, <2>5 DEF OriginInv, L3
  <2>7. VerdictsAreEarned'
    BY <2>1 DEF EarnInv, VerdictsAreEarned
  <2>. QED BY <2>1, <2>4, <2>6, <2>7 DEF EarnInv, L3Stages, L3
<1>. QED BY <1>1, <1>2

\* Steps that go on without a validator.
LEMMA QuietEarn ==
    ASSUME TypeInv, EarnInv, StartTcp \/ EndTcp \/ SkipTls \/ SkipXray
    PROVE  EarnInv'
<1>1. CASE StartTcp
  <2>1. /\ at = "tcp" /\ at' \in {"round", "tls"} /\ n' = n
        /\ UNCHANGED <<verdict, checked, by, recorded>>
    BY <1>1 DEF StartTcp, healthVars
  <2>2. \E cfgs \in SUBSET current : Due("tcp", cfgs)
    <3>1. CASE UNCHANGED due
      <4>1. due' = [c \in Configs |-> IF c \in {} THEN "tcp" ELSE due[c]]
        BY <3>1 DEF TypeInv, TypeOK
      <4>2. Due("tcp", {})
        BY <4>1 DEF Due
      <4>. QED BY <4>2
    <3>2. CASE Due("tcp", current \cap Able("tcp"))
      BY <3>2
    <3>. QED BY <1>1, <3>1, <3>2 DEF StartTcp
  <2>3. /\ \A c \in Configs : due'[c] \in {due[c], "tcp"}
        /\ \A c \in Configs \ Lists[n] : due'[c] = due[c]
        /\ Lists[n] \subseteq Configs
    BY <2>1, <2>2, DueLocally
  <2>4. \A c \in Lists[n] : OriginInv(c)
    BY <2>1 DEF EarnInv
  <2>5. \A c \in Lists[n] : OriginInv(c)'
    BY <2>1, <2>3, <2>4 DEF OriginInv
  <2>. QED BY <2>1, <2>3, <2>5, LocalEarn DEF L3Stages, L3
<1>2. CASE EndTcp \/ SkipTls \/ SkipXray
  <2>1. /\ at \in {"round", "tls", "xray"} /\ at' \in {"tls", "xray", "finally"} /\ n' = n
        /\ UNCHANGED <<verdict, checked, by, due, recorded>>
    BY <1>2, ListAssumption DEF EndTcp, SkipTls, SkipXray, probeVars, healthVars
  <2>2. \A c \in Lists[n] : OriginInv(c)
    BY <2>1 DEF EarnInv
  <2>3. at' \in {"tls", "xray", "finally"} /\ (at' # "round" /\ at' # "tcp")
    BY <2>1
  <2>4. \A c \in Lists[n] : OriginInv(c)'
    BY <2>1, <2>2, <2>3 DEF OriginInv, L3
  <2>. QED BY <2>1, <2>4, LocalEarn DEF L3Stages, L3
<1>. QED BY <1>1, <1>2

LEMMA RoundEarn ==
    ASSUME TypeInv, EarnInv, TcpRound
    PROVE  EarnInv'
<1>1. PICK batch \in SUBSET left :
      \E d \in Deliveries(batch, Remaining(settings.tcpAlive)) : Deliver("tcp", d)
  BY DEF TcpRound, kSubset
<1>2. batch \in SUBSET Configs /\ batch \in SUBSET current
  BY <1>1 DEF TypeInv, TypeOK
<1>3. Judges("tcp", batch) /\ checked' = checked
  BY <1>1, <1>2, DeliverJudges DEF TypeInv, L3
<1>4. at = "round" /\ at' = "round" /\ n' = n /\ UNCHANGED <<due, recorded>>
  BY DEF TcpRound, healthVars
<1>5. /\ Lists[n] \subseteq Configs
      /\ \A c \in Configs \ Lists[n] : verdict'[c] = verdict[c] /\ by'[c] = by[c]
  BY <1>2, <1>3, <1>4, JudgesLocally
<1>6. \A c \in Lists[n] : OriginInv(c)
  BY <1>4 DEF EarnInv
<1>7. \A c \in Lists[n] : by'[c] \in {by[c], "tcp"}
  BY <1>3, <1>5 DEF Judges
<1>8. \A c \in Lists[n] : OriginInv(c)'
  BY <1>3, <1>4, <1>6, <1>7 DEF OriginInv, L3
<1>. QED BY <1>3, <1>4, <1>5, <1>8, LocalEarn DEF L3Stages, L3

LEMMA TlsEarn ==
    ASSUME TypeInv, EarnInv, TlsPass
    PROVE  EarnInv'
<1> DEFINE cands == current \cap Able("tls")
<1>1. Judges("tls", cands) /\ checked' \subseteq checked /\ at' \in {"finally", "xray"}
  BY TlsJudges DEF TypeInv
<1>2. at = "tls" /\ n' = n /\ recorded' = recorded /\ Due("tls", cands)
  BY DEF TlsPass, healthVars
<1>3. /\ Lists[n] \subseteq Configs
      /\ \A c \in Configs \ Lists[n] :
            /\ verdict'[c] = verdict[c] /\ by'[c] = by[c]
            /\ c \in checked' <=> c \in checked
  BY <1>1, <1>2, JudgesLocally
<1>4. /\ \A c \in Configs : due'[c] = IF c \in cands THEN "tls" ELSE due[c]
      /\ cands \subseteq Lists[n]
  BY <1>2, DueLocally
<1>5. \A c \in Lists[n] : OriginInv(c)
  BY <1>2 DEF EarnInv
<1>6. ASSUME NEW c \in Lists[n] PROVE OriginInv(c)'
  <2>1. /\ c \in cands => due'[c] = "tls" /\ (verdict'[c] = "none" \/ by'[c] = "tls")
        /\ c \notin cands => due'[c] = due[c] /\ verdict'[c] = verdict[c] /\ by'[c] = by[c]
        /\ by'[c] \in {by[c], "tls"}
    BY <1>1, <1>3, <1>4 DEF Judges
  <2>2. OriginInv(c)
    BY <1>5
  <2>. QED BY <1>1, <1>2, <2>1, <2>2 DEF OriginInv, L3
<1>. QED BY <1>1, <1>2, <1>3, <1>4, <1>6, LocalEarn DEF L3Stages, L3

\* The candidates of the Xray stage are due for it, and the configs the
\* preselection leaves out have no verdict.
LEMMA StartXrayEarn ==
    ASSUME TypeInv, EarnInv, StartXray
    PROVE  EarnInv'
<1> DEFINE supported == current \cap Able("xray")
<1> DEFINE sing == IF settings.singboxThere THEN current \cap Able("singbox") ELSE {}
<1>1. PICK chosen \in Preselected(supported) : \E recent \in Recent(chosen) :
         Forget(supported \ chosen) /\ fresh' = recent /\ stale' = chosen \ recent
  BY DEF StartXray
<1>2. chosen \subseteq supported /\ fresh' \cup stale' = chosen
  BY <1>1 DEF Preselected, Recent
<1>3. /\ at = "xray" /\ at' = "fresh" /\ n' = n /\ recorded' = recorded /\ quic' = sing
      /\ Due("xray", supported \cup sing)
  BY DEF StartXray, healthVars
<1>4. /\ \A c \in Configs : due'[c] = IF c \in supported \cup sing THEN "xray" ELSE due[c]
      /\ supported \cup sing \subseteq Lists[n] /\ Lists[n] \subseteq Configs
  BY <1>3, DueLocally
<1>5. /\ by' = by /\ checked' \subseteq checked
      /\ \A c \in Configs \ (supported \ chosen) :
            verdict'[c] = verdict[c] /\ (c \in checked' <=> c \in checked)
      /\ \A c \in supported \ chosen : verdict'[c] = "none"
  <2>1. /\ verdict' = [c \in Configs |-> IF c \in supported \ chosen THEN "none"
                                        ELSE verdict[c]]
        /\ checked' = checked \ (supported \ chosen) /\ by' = by
    BY <1>1 DEF Forget, NoVerdict
  <2>. QED BY <2>1, <1>4
<1>6. \A c \in Lists[n] : OriginInv(c)
  BY <1>3 DEF EarnInv
<1>7. Pending' = chosen \cup sing
  BY <1>2, <1>3 DEF Pending
<1>8. ASSUME NEW c \in Lists[n] PROVE OriginInv(c)'
  <2>1. OriginInv(c) /\ c \in Configs
    BY <1>4, <1>6
  <2>2. /\ c \notin checked' /\ by'[c] \notin L3 /\ by'[c] = by[c]
        /\ recorded'[c] = "none"
    BY <1>3, <1>5, <2>1 DEF OriginInv
  <2>3. due'[c] = "tls" /\ verdict'[c] # "none" => by'[c] = "tls"
    BY <1>4, <1>5, <2>1 DEF OriginInv
  <2>4. due'[c] = "xray" /\ verdict'[c] # "none" => c \in Pending'
    BY <1>3, <1>4, <1>5, <1>7, <2>1 DEF OriginInv
  <2>. QED BY <1>3, <2>2, <2>3, <2>4 DEF OriginInv, L3
<1>9. \A c \in fresh' \cup stale' \cup quic' : due'[c] = "xray"
  BY <1>2, <1>3, <1>4
<1>10. \A c \in Configs \ Lists[n] :
          /\ verdict'[c] = verdict[c] /\ by'[c] = by[c] /\ due'[c] = due[c]
          /\ c \in checked' <=> c \in checked
  BY <1>4, <1>5
<1>. QED BY <1>3, <1>8, <1>9, <1>10, LocalEarn

\* Who is judged by which pass.
Cohort ==
    CASE at = "fresh" -> fresh
      [] at = "retry" -> fresh \ alive
      [] at = "stale" -> stale
      [] at = "singbox" -> quic

LEMMA PassesOfCohorts ==
    ASSUME TypeInv, FreshPass \/ RetryPass \/ StalePass \/ SingboxPass
    PROVE  /\ at \in L3 /\ XrayJudges(at, Cohort)
           /\ at' = CASE at = "fresh" -> "retry" [] at = "retry" -> "stale"
                      [] at = "stale" -> "singbox" [] at = "singbox" -> "record"
           /\ quic' \subseteq quic /\ (at # "singbox" => quic' = quic)
           /\ UNCHANGED <<settings, n, current, fresh, stale, kept, due, recorded, out>>
           /\ Cohort \subseteq fresh \cup stale \cup quic /\ Cohort \subseteq current
           /\ Pending' \subseteq Pending /\ Pending \ Cohort \subseteq Pending'
<1>1. CASE FreshPass
  <2>1. /\ at = "fresh" /\ at' = "retry" /\ quic' = quic
        /\ UNCHANGED <<settings, n, current, fresh, stale, kept, due, recorded, out>>
    BY <1>1 DEF FreshPass, xrayVars, healthVars
  <2>2. XrayJudges("fresh", fresh)
    BY <1>1, PassesJudge DEF TypeInv
  <2>. QED BY <2>1, <2>2 DEF Cohort, Pending, L3, TypeInv, PlaceInv, L3Stages
<1>2. CASE RetryPass
  <2>1. /\ at = "retry" /\ at' = "stale" /\ quic' = quic
        /\ UNCHANGED <<settings, n, current, fresh, stale, kept, due, recorded, out>>
    BY <1>2 DEF RetryPass, xrayVars, healthVars
  <2>2. XrayJudges("retry", fresh \ alive)
    BY <1>2, PassesJudge DEF TypeInv
  <2>. QED BY <2>1, <2>2 DEF Cohort, Pending, L3, TypeInv, PlaceInv, L3Stages
<1>3. CASE StalePass
  <2>1. /\ at = "stale" /\ at' = "singbox" /\ quic' = quic
        /\ UNCHANGED <<settings, n, current, fresh, stale, kept, due, recorded, out>>
    BY <1>3 DEF StalePass, xrayVars, healthVars
  <2>2. XrayJudges("stale", stale)
    BY <1>3, PassesJudge DEF TypeInv
  <2>. QED BY <2>1, <2>2 DEF Cohort, Pending, L3, TypeInv, PlaceInv, L3Stages
<1>4. CASE SingboxPass
  <2>1. /\ at = "singbox" /\ at' = "record" /\ quic' \subseteq quic
        /\ UNCHANGED <<settings, n, current, fresh, stale, kept, due, recorded, out>>
    BY <1>4 DEF SingboxPass, healthVars
  <2>2. XrayJudges("singbox", quic)
    BY <1>4, PassesJudge DEF TypeInv
  <2>. QED BY <2>1, <2>2 DEF Cohort, Pending, L3, TypeInv, PlaceInv, L3Stages
<1>. QED BY <1>1, <1>2, <1>3, <1>4

LEMMA PassEarn ==
    ASSUME TypeInv, EarnInv, FreshPass \/ RetryPass \/ StalePass \/ SingboxPass
    PROVE  EarnInv'
<1>1. /\ at \in L3 /\ XrayJudges(at, Cohort) /\ quic' \subseteq quic
      /\ UNCHANGED <<n, fresh, stale, due, recorded>>
      /\ Cohort \subseteq fresh \cup stale \cup quic /\ Cohort \subseteq current
      /\ Pending \ Cohort \subseteq Pending'
  BY PassesOfCohorts
<1>2. at' = CASE at = "fresh" -> "retry" [] at = "retry" -> "stale"
              [] at = "stale" -> "singbox" [] at = "singbox" -> "record"
  BY PassesOfCohorts
<1>3. at \notin {"list", "finally", "done"} /\ at \in L3Stages
  BY <1>1 DEF L3, L3Stages
<1>4. at' \in {"retry", "stale", "singbox", "record"} /\ (at' = "retry" => at = "fresh")
  BY <1>1, <1>2 DEF L3
<1>5. /\ Lists[n] \subseteq Configs
      /\ \A c \in Configs \ Lists[n] :
            /\ verdict'[c] = verdict[c] /\ by'[c] = by[c]
            /\ c \in checked' <=> c \in checked
  BY <1>1, <1>3, JudgesLocally DEF XrayJudges
<1>6. \A c \in Lists[n] : OriginInv(c)
  BY <1>3 DEF EarnInv
<1>7. \A c \in fresh \cup stale \cup quic : due[c] = "xray"
  BY <1>3 DEF EarnInv
<1>8. ASSUME NEW c \in Lists[n] PROVE OriginInv(c)'
  <2>1. OriginInv(c) /\ c \in Configs
    BY <1>5, <1>6
  <2>2. /\ c \in Cohort => /\ due[c] = "xray"
                           /\ by'[c] \in {by[c], at}
                           /\ verdict'[c] = "none" \/ by'[c] = at
                           /\ c \in checked' => by'[c] = at
        /\ c \notin Cohort => /\ verdict'[c] = verdict[c] /\ by'[c] = by[c]
                              /\ c \in checked' <=> c \in checked
    BY <1>1, <1>7, <2>1 DEF XrayJudges, Judges
  <2>3. due'[c] = due[c] /\ recorded'[c] = "none"
    BY <1>1, <1>3, <2>1 DEF OriginInv
  <2>4. due'[c] = "tls" /\ verdict'[c] # "none" => by'[c] = "tls"
    BY <2>1, <2>2, <2>3 DEF OriginInv
  <2>5. due'[c] = "xray" /\ verdict'[c] # "none" => by'[c] \in L3 \/ c \in Pending'
    BY <1>1, <2>1, <2>2, <2>3 DEF OriginInv
  <2>6. due'[c] = "xray" /\ c \in checked' => by'[c] \in L3
    BY <1>1, <2>1, <2>2, <2>3 DEF OriginInv
  <2>7. ASSUME verdict'[c] = "fail", by'[c] = "fresh"
        PROVE  at' = "retry" /\ c \in fresh' \ alive'
    <3>1. CASE at = "fresh"
      <4>1. c \in fresh
        BY <2>1, <2>2, <2>7, <3>1 DEF OriginInv, Cohort
      <4>2. alive = {}
        BY <3>1 DEF TypeInv, PlaceInv
      <4>3. c \notin alive'
        BY <1>1, <2>7, <4>2 DEF XrayJudges
      <4>. QED BY <1>1, <1>2, <3>1, <4>1, <4>3
    <3>2. CASE at # "fresh"
      <4>1. c \notin Cohort
        BY <2>2, <2>7, <3>2
      <4>2. at = "retry" /\ c \in fresh \ alive
        BY <2>1, <2>2, <2>7, <4>1 DEF OriginInv
      <4>. QED BY <4>1, <4>2 DEF Cohort
    <3>. QED BY <3>1, <3>2
  <2>. QED BY <1>4, <2>3, <2>4, <2>5, <2>6, <2>7 DEF OriginInv
<1>9. \A c \in fresh' \cup stale' \cup quic' : due'[c] = "xray"
  BY <1>1, <1>7
<1>. QED BY <1>1, <1>3, <1>4, <1>5, <1>8, <1>9, LocalEarn

\* Recording keeps what is true of the configs that have a verdict to record.
LEMMA RecordEarn ==
    ASSUME TypeInv, EarnInv, RecordXray
    PROVE  EarnInv'
<1>1. /\ at = "record" /\ at' = "finally" /\ n' = n
      /\ UNCHANGED <<verdict, checked, by, due, fresh, stale, quic>>
  BY DEF RecordXray, xrayVars, probeVars
<1> DEFINE judged == (fresh \cup stale \cup quic) \cap checked
<1>2. judged \in SUBSET Configs /\ judged \subseteq Lists[n]
  BY <1>1 DEF TypeInv, TypeOK, PlaceInv, L3Stages
<1>3. \A c \in Configs :
         recorded'[c] = recorded[c] \/ (c \in judged /\ recorded'[c] = verdict[c])
  BY <1>2, RecordTypes DEF RecordXray, TypeInv
<1>4. \A c \in Lists[n] : OriginInv(c)
  BY <1>1 DEF EarnInv
<1>5. \A c \in judged : due[c] = "xray"
  BY <1>1 DEF EarnInv, L3Stages
<1>6. n \in 1 .. Len(Lists) /\ Past' = Past /\ Now' = Lists[n] /\ Now = Lists[n]
  BY <1>1 DEF TypeInv, PlaceInv, Past, Now
<1>7. AheadInv'
  BY <1>1, <1>2, <1>3, <1>6 DEF EarnInv, AheadInv
<1>8. \A c \in Lists[n] : OriginInv(c)'
  BY <1>1, <1>4 DEF OriginInv, Pending
<1>9. VerdictsAreEarned'
  <2>. SUFFICES ASSUME NEW c \in Configs
                PROVE  /\ recorded'[c] # "none" /\ due'[c] = "xray" => by'[c] \in L3
                       /\ recorded'[c] = "pass" /\ due'[c] = "tls" => by'[c] = "tls"
                       /\ recorded'[c] = "fail" => by'[c] # "fresh"
    BY DEF VerdictsAreEarned
  <2>1. CASE recorded'[c] = recorded[c]
    BY <1>1, <2>1 DEF EarnInv, VerdictsAreEarned
  <2>2. CASE c \in judged /\ recorded'[c] = verdict[c]
    <3>1. OriginInv(c) /\ due[c] = "xray" /\ c \in checked
      BY <1>2, <1>4, <1>5, <2>2
    <3>. QED BY <1>1, <2>2, <3>1 DEF OriginInv
  <2>. QED BY <1>3, <2>1, <2>2
<1>. QED BY <1>1, <1>7, <1>8, <1>9 DEF EarnInv, L3Stages, L3

LEMMA FinishEarn ==
    ASSUME TypeInv, EarnInv, Finish
    PROVE  EarnInv'
<1>1. /\ at = "finally" /\ at' \in {"list", "done"} /\ n' = n + 1
      /\ UNCHANGED <<verdict, checked, by, due>>
  BY DEF Finish, probeVars
<1> DEFINE judged == {c \in log : verdict[c] # "none"}
<1>2. judged \in SUBSET Configs /\ judged \subseteq Lists[n]
  BY <1>1, AbleIsPart DEF TypeInv, TypeOK, PlaceInv
<1>3. \A c \in Configs :
         recorded'[c] = recorded[c] \/ (c \in judged /\ recorded'[c] = verdict[c])
  BY <1>2, RecordTypes DEF Finish, TypeInv
<1>4. \A c \in Lists[n] : OriginInv(c)
  BY <1>1 DEF EarnInv
<1>5. n \in 1 .. Len(Lists)
  BY <1>1 DEF TypeInv, PlaceInv
<1>6. Past' = Past \cup Lists[n] /\ Now = Lists[n]
  <2>1. \A i : i \in 1 .. n' - 1 <=> i \in 1 .. n - 1 \/ i = n
    BY <1>1, <1>5, ListsApart
  <2>. QED BY <1>1, <2>1 DEF Past, Now
<1>7. AheadInv'
  BY <1>1, <1>2, <1>3, <1>6 DEF EarnInv, AheadInv
<1>8. VerdictsAreEarned'
  <2>. SUFFICES ASSUME NEW c \in Configs
                PROVE  /\ recorded'[c] # "none" /\ due'[c] = "xray" => by'[c] \in L3
                       /\ recorded'[c] = "pass" /\ due'[c] = "tls" => by'[c] = "tls"
                       /\ recorded'[c] = "fail" => by'[c] # "fresh"
    BY DEF VerdictsAreEarned
  <2>1. CASE recorded'[c] = recorded[c]
    BY <1>1, <2>1 DEF EarnInv, VerdictsAreEarned
  <2>2. CASE c \in judged /\ recorded'[c] = verdict[c]
    <3>1. OriginInv(c) /\ verdict[c] # "none" /\ Pending = {}
      BY <1>1, <1>2, <1>4, <2>2 DEF Pending
    <3>. QED BY <1>1, <2>2, <3>1 DEF OriginInv
  <2>. QED BY <1>3, <2>1, <2>2
<1>. QED BY <1>1, <1>7, <1>8 DEF EarnInv, L3Stages, L3

LEMMA StepsKeepEarn == TypeInv /\ EarnInv /\ [Next]_vars => EarnInv'
<1>. SUFFICES ASSUME TypeInv, EarnInv, [Next]_vars PROVE EarnInv'
  OBVIOUS
<1>1. CASE UNCHANGED vars
  BY <1>1 DEF EarnInv, AheadInv, OriginInv, Pending, Past, Now, VerdictsAreEarned,
              vars, flowVars, xrayVars, probeVars, healthVars
<1>. QED
  BY <1>1, BeginEarn, QuietEarn, RoundEarn, TlsEarn, StartXrayEarn, PassEarn,
     RecordEarn, FinishEarn DEF Next
-----------------------------------------------------------------------------
(* What the lists come to.                                                 *)

\* What is known of a config in the working list.
StandInv(c) ==
    /\ at = "tcp" => verdict[c] = "none"
    /\ at = "round" /\ (c \notin Able("tcp") \/ c \in left) => verdict[c] = "none"
    /\ at \in L3Stages \cup {"round"} /\ c \in alive => verdict[c] = "pass"
    /\ at \in L3Stages /\ c \in alive => by[c] \in L3 /\ c \notin Pending
    /\ at \in L3Stages /\ c \in kept => due[c] # "xray"
    /\ at \in L3Stages \cup {"tls", "xray"} /\ due[c] # "xray" /\ verdict[c] = "fail" =>
          settings.failOpen
    /\ at = "finally" => /\ verdict[c] = "fail" => settings.failOpen
                         /\ due[c] = "xray" => verdict[c] = "pass" /\ by[c] \in L3

VouchInv ==
    /\ OutputIsVouchedFor
    /\ \A i \in 1 .. Len(Lists) : out[i] \subseteq Lists[i]
    /\ at # "done" => \A i \in 1 .. Len(Lists) : i >= n => out[i] = {}
    /\ at \notin {"list", "done"} => \A c \in current : StandInv(c)

LEMMA InitVouch == Init => VouchInv
BY ListsApart DEF Init, VouchInv, OutputIsVouchedFor

\* Steps within a list that touch its configs only.
LEMMA LocalVouch ==
    ASSUME TypeInv, VouchInv,
           at \notin {"list", "done"}, at' \notin {"list", "done"},
           n' = n, out' = out, settings' = settings,
           \A c \in Configs \ Lists[n] :
              verdict'[c] = verdict[c] /\ by'[c] = by[c] /\ due'[c] = due[c],
           \A c \in current' : StandInv(c)'
    PROVE  VouchInv'
<1>1. n \in 1 .. Len(Lists)
  BY DEF TypeInv, PlaceInv
<1>2. ASSUME NEW i \in 1 .. Len(Lists), NEW c \in out[i]
      PROVE  verdict'[c] = verdict[c] /\ by'[c] = by[c] /\ due'[c] = due[c]
  <2>1. i # n /\ c \in Lists[i]
    BY <1>1, <1>2 DEF VouchInv
  <2>2. c \in Configs \ Lists[n]
    BY <1>1, <2>1, ListsApart
  <2>. QED BY <2>2
<1>3. OutputIsVouchedFor'
  BY <1>2 DEF VouchInv, OutputIsVouchedFor, Enabled
<1>. QED BY <1>3 DEF VouchInv

LEMMA BeginVouch ==
    ASSUME TypeInv, EarnInv, VouchInv, Disable \/ NextList
    PROVE  VouchInv'
<1>1. CASE Disable
  <2>1. /\ at' = "done" /\ ~ Enabled /\ settings' = settings
        /\ \A i \in 1 .. Len(Lists) : out'[i] = Lists[i]
    BY <1>1 DEF Disable
  <2>2. OutputIsVouchedFor'
    BY <2>1 DEF OutputIsVouchedFor, Enabled
  <2>. QED BY <2>1, <2>2 DEF VouchInv
<1>2. CASE NextList
  <2>1. /\ at = "list" /\ n \in 1 .. Len(Lists) /\ at' \in {"tcp", "finally"}
        /\ current' \subseteq Lists[n] /\ alive' = {} /\ n' = n
        /\ UNCHANGED <<settings, verdict, by, due, out>>
    BY <1>2, ListsApart DEF NextList, TypeInv, TypeOK
  <2>2. Lists[n] \cap Past = {} /\ Lists[n] \subseteq Configs /\ Now = {}
    BY <2>1, PastApart DEF Now
  <2>3. \A c \in Lists[n] : verdict[c] = "none" /\ due[c] = "none"
    BY <2>1, <2>2 DEF EarnInv, AheadInv
  <2>4. \A c \in current' : StandInv(c)'
    BY <2>1, <2>3 DEF StandInv, L3Stages, L3
  <2>5. OutputIsVouchedFor'
    BY <2>1 DEF VouchInv, OutputIsVouchedFor, Enabled
  <2>. QED BY <2>1, <2>4, <2>5 DEF VouchInv
<1>. QED BY <1>1, <1>2

LEMMA TcpVouch ==
    ASSUME TypeInv, EarnInv, VouchInv, StartTcp \/ TcpRound \/ EndTcp
    PROVE  VouchInv'
<1>0. at \notin {"list", "done"} => \A c \in current : StandInv(c)
  BY DEF VouchInv
<1>1. CASE StartTcp
  <2>1. /\ at = "tcp" /\ at' \in {"round", "tls"} /\ alive' = {} /\ current' = current
        /\ UNCHANGED <<settings, n, verdict, by, out>>
    BY <1>1 DEF StartTcp, healthVars, TypeInv, PlaceInv
  <2>2. \A c \in Configs \ current : due'[c] = due[c]
    BY <1>1 DEF StartTcp, Due, TypeInv, TypeOK
  <2>3. current \subseteq Lists[n]
    BY <2>1 DEF TypeInv, PlaceInv
  <2>4. \A c \in current' : StandInv(c)'
    BY <1>0, <2>1 DEF StandInv, L3Stages, L3
  <2>. QED BY <2>1, <2>2, <2>3, <2>4, LocalVouch
<1>2. CASE TcpRound
  <2>1. PICK batch \in SUBSET left :
        \E d \in Deliveries(batch, Remaining(settings.tcpAlive)) :
           Deliver("tcp", d) /\ left' = left \ batch /\ alive' = alive \cup d.out
    BY <1>2 DEF TcpRound, kSubset
  <2>2. batch \in SUBSET Configs /\ batch \in SUBSET current /\ left \subseteq Able("tcp")
    BY <2>1 DEF TypeInv, TypeOK
  <2>3. PICK d \in Deliveries(batch, Remaining(settings.tcpAlive)) :
           Deliver("tcp", d) /\ left' = left \ batch /\ alive' = alive \cup d.out
    BY <2>1
  <2>4. /\ Judges("tcp", batch)
        /\ d.out \subseteq batch /\ \A c \in d.out : verdict'[c] = "pass"
    BY <2>2, <2>3, DeliverJudges DEF TypeInv
  <2>5. /\ at = "round" /\ at' = "round"
        /\ UNCHANGED <<settings, n, current, due, out>>
    BY <1>2 DEF TcpRound, healthVars
  <2>6. \A c \in Configs \ Lists[n] : verdict'[c] = verdict[c] /\ by'[c] = by[c]
    BY <2>2, <2>4, <2>5, JudgesLocally
  <2>7. ASSUME NEW c \in current' PROVE StandInv(c)'
    <3>1. StandInv(c) /\ c \in Configs
      BY <1>0, <2>5, <2>7 DEF TypeInv, TypeOK
    <3>2. c \notin Able("tcp") \/ c \in left' => verdict'[c] = "none"
      BY <2>1, <2>2, <2>3, <2>4, <2>5, <3>1 DEF StandInv, Judges
    <3>3. c \in alive' => verdict'[c] = "pass"
      <4>1. CASE c \in d.out
        BY <2>4, <4>1
      <4>2. CASE c \in alive /\ c \in batch
        BY <2>1, <2>5, <3>1, <4>2 DEF StandInv
      <4>3. CASE c \in alive /\ c \notin batch
        BY <2>4, <2>5, <3>1, <4>3 DEF StandInv, Judges
      <4>. QED BY <2>3, <4>1, <4>2, <4>3
    <3>. QED BY <2>5, <3>2, <3>3 DEF StandInv, L3Stages, L3
  <2>. QED BY <2>5, <2>6, <2>7, LocalVouch
<1>3. CASE EndTcp
  <2>1. /\ at = "round" /\ at' \in {"tls", "finally"} /\ alive' = {}
        /\ UNCHANGED <<settings, n, verdict, by, due, out>>
        /\ \/ settings.failOpen /\ current' \subseteq Lists[n]
           \/ current' \subseteq alive \cup (current \ Able("tcp"))
    BY <1>3, ListAssumption DEF EndTcp, probeVars, healthVars, TypeInv, TypeOK, PlaceInv
  <2>2. alive \subseteq current /\ current \subseteq Lists[n]
    BY <2>1 DEF TypeInv, TypeOK, PlaceInv
  <2>3. ASSUME NEW c \in current' PROVE StandInv(c)'
    <3>1. due[c] # "xray" /\ c \in Lists[n]
      BY <2>1, <2>2, <2>3 DEF EarnInv, OriginInv
    <3>2. verdict[c] = "fail" => settings.failOpen
      BY <1>0, <2>1, <2>2, <2>3 DEF StandInv
    <3>. QED BY <2>1, <3>1, <3>2 DEF StandInv, L3Stages, L3
  <2>. QED BY <2>1, <2>3, LocalVouch
<1>. QED BY <1>1, <1>2, <1>3

LEMMA TlsVouch ==
    ASSUME TypeInv, EarnInv, VouchInv, SkipTls \/ TlsPass \/ SkipXray
    PROVE  VouchInv'
<1>0. at \notin {"list", "done"} => \A c \in current : StandInv(c) /\ OriginInv(c)
  BY DEF VouchInv, EarnInv, TypeInv, PlaceInv
<1>1. CASE SkipTls \/ SkipXray
  <2>1. /\ at \in {"tls", "xray"} /\ at' \in {"xray", "finally"} /\ current' \subseteq current
        /\ UNCHANGED <<settings, n, alive, verdict, by, due, out>>
    BY <1>1 DEF SkipTls, SkipXray, probeVars, healthVars
  <2>2. \A c \in current' : StandInv(c)'
    BY <1>0, <2>1 DEF StandInv, OriginInv, L3Stages, L3
  <2>. QED BY <2>1, <2>2, LocalVouch
<1>2. CASE TlsPass
  <2> DEFINE cands == current \cap Able("tls")
  <2>1. /\ Judges("tls", cands) /\ current' \subseteq current /\ at' \in {"finally", "xray"}
        /\ \A c \in current' \cap Able("tls") : verdict'[c] = "fail" => settings.failOpen
    BY <1>2, TlsJudges DEF TypeInv
  <2>2. /\ at = "tls" /\ Due("tls", cands)
        /\ UNCHANGED <<settings, n, alive, out>>
    BY <1>2 DEF TlsPass, healthVars
  <2>3. \A c \in Configs \ Lists[n] : verdict'[c] = verdict[c] /\ by'[c] = by[c]
    BY <2>1, <2>2, JudgesLocally
  <2>4. /\ \A c \in Configs : due'[c] = IF c \in cands THEN "tls" ELSE due[c]
        /\ cands \subseteq Lists[n]
    BY <2>2, DueLocally
  <2>5. ASSUME NEW c \in current' PROVE StandInv(c)'
    <3>1. StandInv(c) /\ OriginInv(c) /\ c \in Configs
      BY <1>0, <2>1, <2>2 DEF TypeInv, TypeOK
    <3>2. due'[c] # "xray"
      BY <2>2, <2>4, <3>1 DEF OriginInv
    <3>3. verdict'[c] = "fail" => settings.failOpen
      <4>1. CASE c \in cands
        BY <2>1, <4>1
      <4>2. CASE c \notin cands
        BY <2>1, <2>2, <3>1, <4>2 DEF StandInv, OriginInv, Judges
      <4>. QED BY <4>1, <4>2
    <3>. QED BY <2>1, <2>2, <3>2, <3>3 DEF StandInv, L3Stages, L3
  <2>. QED BY <2>1, <2>2, <2>3, <2>4, <2>5, LocalVouch
<1>. QED BY <1>1, <1>2

LEMMA StartXrayVouch ==
    ASSUME TypeInv, EarnInv, VouchInv, StartXray
    PROVE  VouchInv'
<1> DEFINE supported == current \cap Able("xray")
<1> DEFINE sing == IF settings.singboxThere THEN current \cap Able("singbox") ELSE {}
<1>1. PICK chosen \in Preselected(supported) :
         /\ Forget(supported \ chosen)
         /\ kept' = IF settings.dropUnsupported THEN {}
                    ELSE Unsupported(supported \cup sing, chosen \cup sing)
  BY DEF StartXray
<1>2. /\ at = "xray" /\ at' = "fresh" /\ alive = {} /\ Due("xray", supported \cup sing)
      /\ UNCHANGED <<settings, n, current, alive, out>>
  BY DEF StartXray, healthVars, TypeInv, PlaceInv
<1>3. /\ \A c \in Configs : due'[c] = IF c \in supported \cup sing THEN "xray" ELSE due[c]
      /\ supported \cup sing \subseteq Lists[n] /\ Lists[n] \subseteq Configs
  BY <1>2, DueLocally
<1>4. /\ by' = by
      /\ \A c \in Configs \ supported : verdict'[c] = verdict[c]
  BY <1>1 DEF Forget, NoVerdict
<1>5. kept' \cap (supported \cup sing) = {}
  BY <1>1 DEF Unsupported
<1>6. ASSUME NEW c \in current' PROVE StandInv(c)'
  <2>1. StandInv(c) /\ OriginInv(c) /\ c \in Configs
    BY <1>2, <1>6 DEF VouchInv, EarnInv, TypeInv, TypeOK, PlaceInv
  <2>2. c \in kept' => due'[c] # "xray"
    BY <1>2, <1>3, <1>5, <2>1 DEF OriginInv
  <2>3. due'[c] # "xray" /\ verdict'[c] = "fail" => settings.failOpen
    BY <1>2, <1>3, <1>4, <2>1 DEF StandInv, OriginInv
  <2>. QED BY <1>2, <2>2, <2>3 DEF StandInv
<1>7. \A c \in Configs \ Lists[n] :
         verdict'[c] = verdict[c] /\ by'[c] = by[c] /\ due'[c] = due[c]
  BY <1>3, <1>4
<1>. QED BY <1>2, <1>6, <1>7, LocalVouch

\* Nobody is judged twice, save by a second chance.
LEMMA CohortsApart ==
    ASSUME TypeInv, FreshPass \/ RetryPass \/ StalePass \/ SingboxPass
    PROVE  Cohort \cap Pending' = {} /\ (Cohort \cap alive = {} \/ Cohort \subseteq Pending)
<1>1. /\ fresh \cap stale = {} /\ fresh \cap quic = {} /\ stale \cap quic = {}
  BY AbleApart DEF TypeInv, TypeOK
<1>2. CASE FreshPass
  BY <1>1, <1>2 DEF FreshPass, Cohort, Pending, xrayVars
<1>3. CASE RetryPass
  BY <1>1, <1>3 DEF RetryPass, Cohort, Pending, xrayVars
<1>4. CASE StalePass
  BY <1>1, <1>4 DEF StalePass, Cohort, Pending, xrayVars
<1>5. CASE SingboxPass
  BY <1>1, <1>5 DEF SingboxPass, Cohort, Pending
<1>. QED BY <1>2, <1>3, <1>4, <1>5

LEMMA PassVouch ==
    ASSUME TypeInv, EarnInv, VouchInv, FreshPass \/ RetryPass \/ StalePass \/ SingboxPass
    PROVE  VouchInv'
<1>1. /\ at \in L3 /\ XrayJudges(at, Cohort)
      /\ UNCHANGED <<settings, n, current, kept, due, out>>
      /\ Cohort \subseteq fresh \cup stale \cup quic /\ Cohort \subseteq current
      /\ Pending' \subseteq Pending
  BY PassesOfCohorts
<1>2. at' \in {"retry", "stale", "singbox", "record"}
  BY DEF FreshPass, RetryPass, StalePass, SingboxPass
<1>3. at \in L3Stages /\ at \notin {"list", "done"}
  BY <1>1 DEF L3, L3Stages
<1>4. \A c \in Configs \ Lists[n] : verdict'[c] = verdict[c] /\ by'[c] = by[c]
  BY <1>1, <1>3, JudgesLocally DEF XrayJudges
<1>5. \A c \in fresh \cup stale \cup quic : due[c] = "xray"
  BY <1>3 DEF EarnInv
<1>6. Cohort \cap Pending' = {} /\ (Cohort \cap alive = {} \/ Cohort \subseteq Pending)
  BY CohortsApart
<1>7. PICK new \in SUBSET Cohort :
         alive' = alive \cup new /\ \A c \in new : verdict'[c] = "pass"
  BY <1>1 DEF XrayJudges
<1>8. ASSUME NEW c \in current' PROVE StandInv(c)'
  <2>1. StandInv(c) /\ c \in Configs
    BY <1>1, <1>3, <1>8 DEF VouchInv, TypeInv, TypeOK
  <2>2. c \notin Cohort => verdict'[c] = verdict[c] /\ by'[c] = by[c]
    BY <1>1, <2>1 DEF XrayJudges, Judges
  <2>3. c \in alive => c \notin Cohort
    BY <1>3, <1>6, <2>1 DEF StandInv
  <2>4. c \in alive' => verdict'[c] = "pass" /\ by'[c] \in L3 /\ c \notin Pending'
    <3>1. CASE c \in new
      BY <1>1, <1>6, <1>7, <3>1 DEF XrayJudges, Judges
    <3>2. CASE c \in alive
      BY <1>1, <1>3, <2>1, <2>2, <2>3, <3>2 DEF StandInv
    <3>. QED BY <1>7, <3>1, <3>2
  <2>5. c \in kept' => due'[c] # "xray"
    BY <1>1, <1>3, <2>1 DEF StandInv
  <2>6. due'[c] # "xray" /\ verdict'[c] = "fail" => settings'.failOpen
    BY <1>1, <1>3, <1>5, <2>1, <2>2 DEF StandInv
  <2>. QED BY <1>2, <2>4, <2>5, <2>6 DEF StandInv
<1>. QED BY <1>1, <1>2, <1>3, <1>4, <1>8, LocalVouch

LEMMA EndVouch ==
    ASSUME TypeInv, EarnInv, VouchInv, RecordXray \/ Finish
    PROVE  VouchInv'
<1>0. at \notin {"list", "done"} => \A c \in current : StandInv(c)
  BY DEF VouchInv
<1>1. CASE RecordXray
  <2>1. /\ at = "record" /\ at' = "finally"
        /\ UNCHANGED <<settings, n, verdict, by, due, out>>
    BY <1>1 DEF RecordXray, probeVars
  <2>2. current' \subseteq current \cap (alive \cup kept)
    BY <1>1 DEF RecordXray, WithoutBanned, Merged
  <2>3. \A c \in current' : StandInv(c)'
    BY <1>0, <2>1, <2>2 DEF StandInv, L3Stages, L3
  <2>. QED BY <2>1, <2>3, LocalVouch
<1>2. CASE Finish
  <2>1. /\ at = "finally" /\ at' \in {"list", "done"} /\ n' = n + 1
        /\ UNCHANGED <<settings, verdict, by, due>>
    BY <1>2 DEF Finish, probeVars
  <2>2. PICK result \in SUBSET current : out' = [out EXCEPT ![n] = result]
    BY <1>2 DEF Finish, WithoutBanned
  <2>3. n \in 1 .. Len(Lists) /\ current \subseteq Lists[n]
    BY <2>1 DEF TypeInv, PlaceInv
  <2>4. \A i \in 1 .. Len(Lists) : out'[i] = IF i = n THEN result ELSE out[i]
    BY <2>2, <2>3 DEF TypeInv, TypeOK
  <2>5. \A c \in result : /\ verdict[c] = "fail" => settings.failOpen
                          /\ due[c] = "xray" => verdict[c] = "pass" /\ by[c] \in L3
    BY <1>0, <2>1 DEF StandInv
  <2>6. OutputIsVouchedFor'
    BY <2>1, <2>4, <2>5 DEF VouchInv, OutputIsVouchedFor, Enabled
  <2>7. \A i \in 1 .. Len(Lists) : out'[i] \subseteq Lists[i]
    BY <2>3, <2>4 DEF VouchInv
  <2>8. \A i \in 1 .. Len(Lists) : i >= n' => out'[i] = {}
    BY <2>1, <2>3, <2>4, ListsApart DEF VouchInv
  <2>. QED BY <2>1, <2>6, <2>7, <2>8 DEF VouchInv
<1>. QED BY <1>1, <1>2

LEMMA StepsKeepVouch == TypeInv /\ EarnInv /\ VouchInv /\ [Next]_vars => VouchInv'
<1>. SUFFICES ASSUME TypeInv, EarnInv, VouchInv, [Next]_vars PROVE VouchInv'
  OBVIOUS
<1>1. CASE UNCHANGED vars
  BY <1>1 DEF VouchInv, StandInv, Pending, OutputIsVouchedFor, Enabled,
              vars, flowVars, xrayVars, probeVars, healthVars
<1>. QED
  BY <1>1, BeginVouch, TcpVouch, TlsVouch, StartXrayVouch, PassVouch, EndVouch DEF Next

LEMMA VouchInvariant == Spec => [](EarnInv /\ VouchInv)
<1>. QED
  BY InitEarn, InitVouch, StepsKeepEarn, StepsKeepVouch, TypeInvariant, PTL DEF Spec
-----------------------------------------------------------------------------
\* The state of the liveness stage keeps its type; in particular the candidates of
\* a pass are configs it can judge, and no config is fresh and stale at once.
THEOREM TypeCorrect == Spec => []TypeOK
<1>1. TypeInv => TypeOK
  BY DEF TypeInv
<1>. QED BY TypeInvariant, <1>1, PTL

\* What the history learns was judged at the last stage the config was a candidate of,
\* and no failure is of the quick probe alone (liveness.py:337-376,
\* liveness_stages.py:1058-1230).
THEOREM VerdictsEarned == Spec => []VerdictsAreEarned
<1>1. EarnInv => VerdictsAreEarned
  BY DEF EarnInv
<1>. QED BY VouchInvariant, <1>1, PTL

\* No list hands on a config whose last verdict is a failure, unless it fails open, nor
\* one the Xray stage should have judged and did not.
THEOREM OutputVouchedFor == Spec => []OutputIsVouchedFor
<1>1. VouchInv => OutputIsVouchedFor
  BY DEF VouchInv
<1>. QED BY VouchInvariant, <1>1, PTL
=============================================================================
