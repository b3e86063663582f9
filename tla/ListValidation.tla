--------------------------- MODULE ListValidation ---------------------------
(***************************************************************************)
(* The liveness stage of one run (src/src/scheduler/stages/liveness.py and *)
(* liveness_stages.py): each list of configs goes through the health bans, *)
(* a TCP, a TLS and an Xray stage, and what they judged is recorded in the *)
(* health history.  Every call of a validator delivers what ProbeOutcome   *)
(* promises.  Bans are an arbitrary set at each look: HealthHistory.tla    *)
(* models them.                                                            *)
(***************************************************************************)
EXTENDS Naturals, Sequences, FiniteSets, FiniteSetsExt, ProbeOutcome

CONSTANTS
    Configs,
    Lists,      \* a sequence of sets of configs
    Key,        \* the history's key of each config
    Traits,     \* the stages that can judge it
    Settings    \* the configurations considered

\* tcp, tls, xray: the stages enabled; noPool: the proxy pool is required and
\* empty; xrayThere, singboxThere: the executables are available; tcpLimit,
\* tcpRounds, tlsLimit, xrayLimit: candidate limits; tcpAlive, maxAlive: limits on
\* live configs, 0 for none; minAlive: min_alive_to_filter; banMin:
\* health_ban_min_alive; ttl: verification_ttl_minutes is set.
ASSUME ListAssumption ==
    /\ IsFiniteSet(Configs)
    /\ Lists \in Seq((SUBSET Configs) \ {{}})
    /\ \A i, j \in 1 .. Len(Lists) : i # j => Lists[i] \cap Lists[j] = {}
    /\ DOMAIN Key = Configs
    /\ Traits \in [Configs -> SUBSET {"tcp", "tls", "xray", "singbox"}]
    /\ \A c \in Configs : /\ "tls" \in Traits[c] => "tcp" \in Traits[c]
                          /\ ~ {"xray", "singbox"} \subseteq Traits[c]
    /\ \A s \in Settings :
          /\ {s.tcp, s.tls, s.xray, s.noPool, s.xrayThere, s.xrayRequired,
              s.singboxThere, s.failOpen, s.dropUnchecked, s.dropUnsupported,
              s.ttl} \subseteq BOOLEAN
          /\ {s.tcpLimit, s.tlsLimit, s.xrayLimit, s.tcpAlive, s.maxAlive,
              s.banMin} \subseteq Nat
          /\ {s.tcpRounds, s.minAlive} \subseteq Nat \ {0}

VARIABLES
    settings,
    n,         \* the list being validated
    at,        \* the next step of its validation
    current,   \* the working list
    open,      \* fail_open_active
    left,      \* candidates no TCP round has tried
    rounds,
    fresh,     \* the candidates of Xray that passed within the TTL
    stale,     \* the others
    quic,      \* singbox_configs
    kept,      \* unsupported configs that survive the Xray stage
    alive,     \* alive_tcp, alive_xray
    verdict,   \* Config.is_alive
    checked,   \* configs with xray_was_checked
    log,       \* the probe log
    consumed,  \* _xray_stage_consumed_probe_log
    seen,      \* _health_update_seen
    recorded,  \* the verdicts the health history got
    out,       \* what each list came to
    by,        \* history: the pass that gave a config its last verdict
    due        \* history: the last stage a config was a candidate of

flowVars == <<n, at, current, open, left, rounds, alive>>
xrayVars == <<fresh, stale, quic, kept>>
probeVars == <<verdict, checked, log, by, due>>
healthVars == <<consumed, seen, recorded, out>>
vars == <<settings, flowVars, xrayVars, probeVars, healthVars>>

L3 == {"fresh", "retry", "stale", "singbox"}
Able(stage) == {c \in Configs : stage \in Traits[c]}
AtMost(limit, S) == IF limit > 0 THEN Min({limit, Cardinality(S)})
                                 ELSE Cardinality(S)

TypeOK ==
    /\ settings \in Settings
    /\ n \in 1 .. Len(Lists) + 1
    /\ at \in {"list", "tcp", "round", "tls", "xray", "fresh", "retry", "stale",
               "singbox", "record", "finally", "done"}
    /\ current \subseteq Configs /\ open \in BOOLEAN
    /\ left \subseteq current \cap Able("tcp")
    /\ rounds \in 0 .. settings.tcpRounds
    /\ fresh \cup stale \subseteq Able("xray") /\ fresh \cap stale = {}
    /\ quic \subseteq Able("singbox") /\ kept \subseteq Configs
    /\ alive \subseteq current
    /\ verdict \in [Configs -> Verdict]
    /\ checked \subseteq Configs /\ log \subseteq Able("tcp")
    /\ consumed \in BOOLEAN
    /\ seen \subseteq {Key[c] : c \in Configs}
    /\ recorded \in [Configs -> Verdict]
    /\ out \in [1 .. Len(Lists) -> SUBSET Configs]
    /\ by \in [Configs -> {"none", "tcp", "tls"} \cup L3]
    /\ due \in [Configs -> {"none", "tcp", "tls", "xray"}]

Init ==
    /\ settings \in Settings
    /\ n = 1 /\ at = "list" /\ current = {} /\ open = FALSE
    /\ left = {} /\ rounds = 0 /\ alive = {}
    /\ fresh = {} /\ stale = {} /\ quic = {} /\ kept = {}
    /\ verdict = [c \in Configs |-> "none"]
    /\ checked = {} /\ log = {}
    /\ consumed = FALSE /\ seen = {}
    /\ recorded = [c \in Configs |-> "none"]
    /\ out = [i \in 1 .. Len(Lists) |-> {}]
    /\ by = [c \in Configs |-> "none"]
    /\ due = [c \in Configs |-> "none"]
-----------------------------------------------------------------------------
(* The beginning of a list.                                                *)

Enabled == settings.tcp \/ settings.tls \/ settings.xray

\* No stage is enabled: every config is marked dead and handed on.
Disable ==
    /\ at = "list" /\ n = 1 /\ ~ Enabled
    /\ at' = "done"
    /\ verdict' = [c \in Configs |-> IF \E i \in DOMAIN Lists : c \in Lists[i]
                                     THEN "fail" ELSE verdict[c]]
    /\ out' = Lists
    /\ UNCHANGED <<settings, n, current, open, left, rounds, alive, xrayVars,
                   checked, log, by, due, consumed, seen, recorded>>

\* Configs under a ban are not probed, unless the list is short.  A pool that is
\* required but empty leaves nothing when Xray cannot judge directly.
NextList ==
    /\ at = "list" /\ n <= Len(Lists) /\ Enabled
    /\ \E banned \in SUBSET Lists[n] :
          /\ Cardinality(Lists[n]) <= settings.banMin => banned = {}
          /\ IF settings.noPool /\ ~ settings.xray
             THEN current' = {} /\ banned = {} /\ at' = "finally"
             ELSE current' = Lists[n] \ banned /\ at' = "tcp"
    /\ open' = FALSE /\ left' = {} /\ rounds' = 0 /\ alive' = {}
    /\ log' = {} /\ consumed' = FALSE
    /\ fresh' = {} /\ stale' = {} /\ quic' = {} /\ kept' = {}
    /\ UNCHANGED <<settings, n, verdict, checked, by, due, seen, recorded, out>>
-----------------------------------------------------------------------------
(* What every stage does with a call of a validator and what it skips.     *)

\* The verdicts `d` of pass `who`.
Deliver(who, d) ==
    /\ verdict' = [c \in Configs |-> IF c \in DOMAIN d.verdict
                                      THEN d.verdict[c] ELSE verdict[c]]
    /\ by' = [c \in Configs |-> IF c \in DOMAIN d.verdict /\ d.verdict[c] # "none"
                                THEN who ELSE by[c]]
    /\ checked' = IF who \in L3
                  THEN (checked \ DOMAIN d.verdict)
                         \cup {c \in DOMAIN d.verdict : d.verdict[c] # "none"}
                  ELSE checked

\* A mutant: configs left out keep the verdict of an earlier stage.
KeepVerdict(cfgs) == verdict

\* Configs a stage leaves out have no verdict.
NoVerdict(cfgs) == [c \in Configs |-> IF c \in cfgs THEN "none" ELSE verdict[c]]

Forget(cfgs) ==
    /\ verdict' = NoVerdict(cfgs)
    /\ checked' = checked \ cfgs
    /\ UNCHANGED by

Due(stage, cfgs) == due' = [c \in Configs |-> IF c \in cfgs THEN stage ELSE due[c]]

Judged(cfgs) == {c \in cfgs : verdict'[c] # "none"}

\* _liveness_min_alive
Floor(cfgs) == Min({settings.minAlive, Cardinality(cfgs)})
-----------------------------------------------------------------------------
(* The TCP stage: rounds over the candidates until enough are alive.       *)

StartTcp ==
    LET cands == current \cap Able("tcp")
    IN  /\ at = "tcp"
        /\ IF settings.tcp /\ cands # {}
           THEN /\ at' = "round" /\ left' = cands
                /\ Due("tcp", cands)
           ELSE at' = "tls" /\ UNCHANGED <<left, due>>
    /\ UNCHANGED <<settings, n, current, open, rounds, alive, xrayVars, verdict,
                   checked, log, by, healthVars>>

\* A mutant: the search goes on until nobody is left.
SearchAll ==
    left # {} /\ (settings.tcpAlive > 0 => Cardinality(alive) < settings.tcpAlive)

\* There is another round.
SearchOn ==
    /\ left # {}
    /\ rounds < settings.tcpRounds
    /\ settings.tcpAlive > 0 => Cardinality(alive) < settings.tcpAlive

\* A mutant: every pass has the whole limit.
FullCap(cap) == cap

\* What is left of a limit; never 0, which means no limit, when there is one.
Remaining(cap) == IF cap > 0 THEN cap - Cardinality(alive) ELSE 0

TcpRound ==
    /\ at = "round" /\ SearchOn
    /\ \E batch \in kSubset(AtMost(settings.tcpLimit, left), left) :
       \E d \in Deliveries(batch, Remaining(settings.tcpAlive)) :
          /\ Deliver("tcp", d)
          /\ log' = log \cup Judged(batch)
          /\ left' = left \ batch
          /\ alive' = alive \cup d.out
    /\ rounds' = rounds + 1
    /\ UNCHANGED <<settings, n, at, current, open, xrayVars, due, healthVars>>

\* Too few alive: fail-open keeps the list as it was, and without an Xray stage
\* returns the whole input, banned configs included.
EndTcp ==
    LET cands == current \cap Able("tcp")
        few   == Cardinality(alive) < Floor(cands \ left)
    IN  /\ at = "round" /\ ~ SearchOn
        /\ IF few /\ settings.failOpen
           THEN /\ current' = IF settings.xray THEN current ELSE Lists[n]
                /\ at' = IF settings.xray THEN "tls" ELSE "finally"
                /\ open' = settings.xray
           ELSE /\ current' = alive \cup (current \ cands)
                /\ at' = "tls" /\ UNCHANGED open
    /\ alive' = {} /\ left' = {}
    /\ UNCHANGED <<settings, n, rounds, xrayVars, probeVars, healthVars>>
-----------------------------------------------------------------------------
(* The TLS stage.                                                          *)

SkipTls ==
    /\ at = "tls"
    /\ ~ settings.tls \/ open \/ current \cap Able("tls") = {}
    /\ at' = "xray"
    /\ current' = IF settings.tls /\ ~ open /\ settings.dropUnchecked
                  THEN {} ELSE current
    /\ UNCHANGED <<settings, n, open, left, rounds, alive, xrayVars, probeVars,
                   healthVars>>

\* The candidates beyond the limit lose their verdict, are not probed and stay.
TlsPass ==
    LET cands == current \cap Able("tls")
    IN  /\ at = "tls" /\ settings.tls /\ ~ open /\ cands # {}
        /\ Due("tls", cands)
        /\ \E probed \in kSubset(AtMost(settings.tlsLimit, cands), cands) :
           \E d \in Deliveries(probed, 0) :
              LET tail  == cands \ probed
                  rest  == IF settings.dropUnchecked THEN {} ELSE current \ cands
                  opens == settings.failOpen /\ Cardinality(d.out) < Floor(cands)
              IN  /\ verdict' = [c \in Configs |-> IF c \in probed THEN d.verdict[c]
                                                   ELSE NoVerdict(tail)[c]]
                  /\ by' = [c \in Configs |->
                              IF c \in probed /\ d.verdict[c] # "none"
                              THEN "tls" ELSE by[c]]
                  /\ checked' = checked \ tail
                  /\ log' = log \cup Judged(probed)
                  /\ current' = IF opens THEN current ELSE d.out \cup rest \cup tail
                  /\ at' = IF opens /\ ~ settings.xray THEN "finally" ELSE "xray"
    /\ UNCHANGED <<settings, n, open, left, rounds, alive, xrayVars, healthVars>>
-----------------------------------------------------------------------------
(* The Xray stage: candidates that passed lately get one quick probe first, *)
(* with half of the limit if there are others; those that fail it get a     *)
(* second chance, then the others and the QUIC configs share what is left.  *)

\* Nothing to judge, or nothing to judge with.
SkipXray ==
    LET sing == IF settings.singboxThere THEN Able("singbox") ELSE {}
    IN  /\ at = "xray"
        /\ \/ (~ settings.xray \/ current = {}) /\ UNCHANGED current
           \/ /\ settings.xray /\ ~ settings.xrayThere
              /\ current' = IF settings.xrayRequired THEN {} ELSE current
           \/ /\ settings.xray /\ settings.xrayThere
              /\ current \cap (Able("xray") \cup sing) = {}
              /\ current' = IF settings.dropUnsupported THEN {} ELSE current
        /\ at' = "finally"
        /\ UNCHANGED <<settings, n, open, left, rounds, alive, xrayVars, probeVars,
                       healthVars>>

\* A mutant: what the preselection left out counts as unsupported.
Unchosen(judged, chosen) == current \ chosen

\* unsupported_configs
Unsupported(judged, chosen) == current \ judged

\* The configs the preselection keeps; balancing may keep fewer than the limit.
Preselected(cfgs) ==
    IF settings.xrayLimit = 0 THEN {cfgs}
    ELSE {S \in SUBSET cfgs : Cardinality(S) <= settings.xrayLimit}

\* Those that passed within the TTL.
Recent(cfgs) == IF settings.ttl THEN SUBSET cfgs ELSE {{}}

StartXray ==
    LET supported == current \cap Able("xray")
        sing == IF settings.singboxThere THEN current \cap Able("singbox") ELSE {}
    IN  /\ at = "xray" /\ settings.xray /\ settings.xrayThere
        /\ supported \cup sing # {}
        /\ Due("xray", supported \cup sing)
        /\ \E chosen \in Preselected(supported) : \E recent \in Recent(chosen) :
              /\ Forget(supported \ chosen)
              /\ fresh' = recent /\ stale' = chosen \ recent
              /\ kept' = IF settings.dropUnsupported THEN {}
                         ELSE Unsupported(supported \cup sing, chosen \cup sing)
        /\ quic' = sing
        /\ at' = "fresh"
        /\ UNCHANGED <<settings, n, current, open, left, rounds, alive, log,
                       healthVars>>

\* A pass over `cfgs` with at most `cap` live ones, 0 for all.
Pass(who, cfgs, cap) ==
    \E d \in Deliveries(cfgs, cap) : Deliver(who, d) /\ alive' = alive \cup d.out

LeaveOut(cfgs) == Forget(cfgs) /\ UNCHANGED alive

Full == settings.maxAlive > 0 /\ Cardinality(alive) >= settings.maxAlive

FreshBudget ==
    IF stale # {} /\ settings.maxAlive > 0 THEN Max({1, settings.maxAlive \div 2})
                                           ELSE settings.maxAlive

FreshPass ==
    /\ at = "fresh"
    /\ IF fresh = {} THEN UNCHANGED <<alive, verdict, checked, by>>
                     ELSE Pass("fresh", fresh, FreshBudget)
    /\ at' = "retry"
    /\ UNCHANGED <<settings, n, current, open, left, rounds, xrayVars, log, due,
                   healthVars>>

\* retry_cap: the half reserved for the others stays reserved.
RetryCap == IF stale # {} THEN FreshBudget ELSE settings.maxAlive

RetryPass ==
    LET failed == fresh \ alive
    IN  /\ at = "retry"
        /\ IF failed = {} THEN UNCHANGED <<alive, verdict, checked, by>>
           ELSE IF settings.maxAlive > 0 /\ Cardinality(alive) >= RetryCap
           THEN LeaveOut(failed)
           ELSE Pass("retry", failed, Remaining(RetryCap))
        /\ at' = "stale"
        /\ UNCHANGED <<settings, n, current, open, left, rounds, xrayVars, log, due,
                       healthVars>>

StalePass ==
    /\ at = "stale"
    /\ IF stale = {} THEN UNCHANGED <<alive, verdict, checked, by>>
       ELSE IF Full THEN LeaveOut(stale)
       ELSE Pass("stale", stale, Remaining(settings.maxAlive))
    /\ at' = "singbox"
    /\ UNCHANGED <<settings, n, current, open, left, rounds, xrayVars, log, due,
                   healthVars>>

SingboxPass ==
    /\ at = "singbox"
    /\ IF quic = {} THEN UNCHANGED <<alive, verdict, checked, by, quic>>
       ELSE IF Full THEN LeaveOut(quic) /\ quic' = {}
       ELSE Pass("singbox", quic, Remaining(settings.maxAlive)) /\ UNCHANGED quic
    /\ at' = "record"
    /\ UNCHANGED <<settings, n, current, open, left, rounds, fresh, stale, kept, log,
                   due, healthVars>>
-----------------------------------------------------------------------------
(* What the history learns.                                                *)

\* A mutant: every list has its own keys.
EveryKey(cfgs) == {Key[c] : c \in cfgs}

\* The keys that have no verdict in this run yet.
NewKeys(cfgs) == {Key[c] : c \in cfgs} \ seen

\* One config of each new key is recorded.
Record(cfgs) ==
    /\ \E picked \in kSubset(Cardinality(NewKeys(cfgs)), cfgs) :
          /\ {Key[c] : c \in picked} = NewKeys(cfgs)
          /\ recorded' = [c \in Configs |-> IF c \in picked THEN verdict[c]
                                            ELSE recorded[c]]
    /\ seen' = seen \cup NewKeys(cfgs)

\* Configs under a ban are left out unless few are left.
WithoutBanned(cfgs, exempt) ==
    IF Cardinality(cfgs) <= settings.banMin THEN {cfgs}
    ELSE {cfgs \ banned : banned \in SUBSET (cfgs \ exempt)}

\* _merge_unsupported
Merged(passed, unsupported) == current \cap (passed \cup unsupported)

\* The verdicts of the Xray stage and its result.
RecordXray ==
    /\ at = "record"
    /\ Record((fresh \cup stale \cup quic) \cap checked)
    /\ consumed' = TRUE
    /\ current' \in WithoutBanned(Merged(alive, kept), alive)
    /\ alive' = {}
    /\ at' = "finally"
    /\ UNCHANGED <<settings, n, open, left, rounds, xrayVars, probeVars, out>>

\* The verdicts of the other stages, and the bans if Xray did not apply them.
Finish ==
    LET judged == {c \in log : verdict[c] # "none"}
    IN  /\ at = "finally"
        /\ Record(judged)
        /\ \E result \in IF consumed \/ log = {} THEN {current}
                         ELSE WithoutBanned(current,
                                {c \in log : verdict[c] = "pass"}) :
              out' = [out EXCEPT ![n] = result]
        /\ n' = n + 1
        /\ at' = IF n = Len(Lists) THEN "done" ELSE "list"
        /\ UNCHANGED <<settings, current, open, left, rounds, alive, xrayVars,
                       probeVars, consumed>>

Next ==
    \/ Disable \/ NextList
    \/ StartTcp \/ TcpRound \/ EndTcp \/ SkipTls \/ TlsPass
    \/ SkipXray \/ StartXray \/ FreshPass \/ RetryPass \/ StalePass \/ SingboxPass
    \/ RecordXray \/ Finish

Spec == Init /\ [][Next]_vars
-----------------------------------------------------------------------------
(* Properties.                                                             *)

\* What the history learns was earned where it counts.  A recorded pass is of the
\* last stage the config was a candidate of: one a limit left out, or a stage did
\* not judge, never carries the pass of an earlier stage, which would end a ban.
\* A recorded failure is never that of the quick probe alone, nor one of a stage
\* before a pass that was to judge the config again: it would bring the ban of
\* a server that lately passed.
VerdictsAreEarned ==
    \A c \in Configs :
        /\ recorded[c] # "none" /\ due[c] = "xray" => by[c] \in L3
        /\ recorded[c] = "pass" /\ due[c] = "tls" => by[c] = "tls"
        /\ recorded[c] = "fail" => by[c] # "fresh"

\* The Xray stage never delivers more live configs than asked for, whatever the
\* passes that share the limit deliver; servers that passed lately leave half of
\* the limit to those that did not, at least when it is two or more.
AliveWithinBudget ==
    settings.maxAlive > 0 =>
        /\ at \in L3 \cup {"record"} => Cardinality(alive) <= settings.maxAlive
        /\ at = "stale" /\ stale # {} /\ settings.maxAlive > 1 =>
              Cardinality(alive) <= settings.maxAlive \div 2

\* Unless fail-open is set, no list contains a config whose last verdict is a
\* failure; once the Xray stage ran, fail-open or not, every config it can judge
\* that is in the list passed there.
OutputIsVouchedFor ==
    Enabled => \A i \in 1 .. Len(Lists) : \A c \in out[i] :
        /\ verdict[c] = "fail" => settings.failOpen
        /\ due[c] = "xray" => verdict[c] = "pass" /\ by[c] \in L3

\* A server that rides in several lists, or twice in one, gets one verdict.
OneVerdictPerKey ==
    \A c, d \in Configs :
        recorded[c] # "none" /\ recorded[d] # "none" /\ Key[c] = Key[d] => c = d
=============================================================================
