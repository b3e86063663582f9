----------------------------- MODULE ProbeStage -----------------------------
(***************************************************************************)
(* One call of a validator (validate_configs_tcp, _tls, _xray or _singbox  *)
(* under src/src/validators): one task per config behind a semaphore, each *)
(* making attempts until its verdict is decided; enough live configs end   *)
(* the call early by cancelling the tasks, a deadline keeps new ones from  *)
(* starting, and the caller may cancel it all.  An attempt of the xray and *)
(* singbox validators runs a process on a reserved port.                   *)
(***************************************************************************)
EXTENDS Naturals, FiniteSets, ProbeOutcome

CONSTANTS
    Configs,
    Settings    \* the calls considered

Kinds == {"tcp", "tls", "xray", "singbox"}

\* attempts: attempts_per_config, or the proxies tried; required: how many of
\* them must pass; proxies, viaProxies: the pool probed after the attempts and
\* how many of it must pass; cap: max_alive; slots: concurrency; timed: there is
\* a deadline.
ASSUME SettingsAssumption ==
    /\ IsFiniteSet(Configs)
    /\ \A s \in Settings :
          /\ s.kind \in Kinds
          /\ {s.attempts, s.required, s.slots} \subseteq Nat \ {0}
          /\ s.required <= s.attempts
          /\ {s.proxies, s.viaProxies, s.cap} \subseteq Nat
          /\ s.viaProxies <= s.proxies
          /\ s.timed \in BOOLEAN
          /\ s.kind \in {"tcp", "tls"} => s.required = 1 /\ ~ s.timed
          /\ s.kind = "tls" => s.cap = 0
          /\ s.kind # "xray" => s.viaProxies = 0

VARIABLES
    settings,  \* the arguments of the call
    stage,     \* where the call is
    pc,        \* where the task of each config is
    answer,    \* what the attempt under way came to, while its process is reaped
    passes,    \* attempt_successes
    fails,     \* attempt_failures
    proxied,   \* proxy_successes
    dialled,   \* proxies tried so far
    verdict,   \* Config.is_alive
    checked,   \* Config.xray_was_checked
    found,     \* the configs appended to `alive`
    late,      \* the deadline has passed
    out,       \* what the call returned
    procs,     \* configs whose process runs and holds its port
    mute       \* history: configs refused, or probed without a verdict

callVars == <<settings, stage, late, out>>
countVars == <<passes, fails, proxied, dialled>>
taskVars == <<verdict, checked, found, procs, mute>>
vars == <<callVars, countVars, taskVars, pc, answer>>

\* The validators that run a process for an attempt.
Launches == settings.kind \in {"xray", "singbox"}

Ended == {"returned", "raised"}
Over == {"finished", "cancelled"}
Running == {"starting", "serving", "closing"}

TypeOK ==
    /\ settings \in Settings
    /\ stage \in {"called", "probing", "stopping", "interrupted"} \cup Ended
    /\ pc \in [Configs -> {"waiting"} \cup Running \cup Over]
    /\ answer \in [Configs -> Verdict \cup {"cancelled"}]
    /\ passes \in [Configs -> 0 .. settings.required]
    /\ fails \in [Configs -> 0 .. settings.attempts - settings.required + 1]
    /\ proxied \in [Configs -> 0 .. settings.viaProxies]
    /\ dialled \in [Configs -> 0 .. settings.proxies]
    /\ verdict \in [Configs -> Verdict]
    /\ checked \in [Configs -> BOOLEAN]
    /\ found \subseteq Configs
    /\ late \in BOOLEAN
    /\ out \subseteq Configs
    /\ {procs, mute} \subseteq SUBSET Configs

\* What an earlier stage may have left in Config.is_alive.
Before(kind) ==
    CASE kind = "tcp" -> {"none"}
      [] kind = "tls" -> {"none", "pass"}
      [] OTHER        -> Verdict

Init ==
    /\ settings \in Settings
    /\ verdict \in [Configs -> Before(settings.kind)]
    /\ stage = "called"
    /\ pc = [c \in Configs |-> "waiting"]
    /\ answer = [c \in Configs |-> "none"]
    /\ passes = [c \in Configs |-> 0]
    /\ fails = [c \in Configs |-> 0]
    /\ proxied = [c \in Configs |-> 0]
    /\ dialled = [c \in Configs |-> 0]
    /\ checked = [c \in Configs |-> FALSE]
    /\ found = {} /\ late = FALSE /\ out = {} /\ procs = {} /\ mute = {}
-----------------------------------------------------------------------------
(* The beginning of the call.                                              *)

\* A mutant: refused configs keep the verdict of the stage before.
RefusedKept(refused) ==
    [c \in Configs |-> IF Launches /\ c \notin refused THEN "none" ELSE verdict[c]]

\* The verdicts before the first probe: a config the address guard refuses has
\* none, nor has any config that xray or sing-box is about to judge.
Cleared(refused) ==
    [c \in Configs |-> IF Launches \/ c \in refused THEN "none" ELSE verdict[c]]

\* filter_public_configs, the resets that follow, and one task per config; with
\* no config left, or no public address to compare with, the call is over.
Call ==
    /\ stage = "called"
    /\ \E refused \in SUBSET Configs :
          /\ verdict' = Cleared(refused)
          /\ pc' = [c \in Configs |->
                      IF c \in refused THEN "finished" ELSE "waiting"]
          /\ \/ /\ stage' = IF refused = Configs THEN "returned" ELSE "probing"
                /\ mute' = refused
             \/ /\ settings.kind = "xray"
                /\ stage' = "returned"
                /\ mute' = Configs
    /\ UNCHANGED <<settings, late, out, countVars, answer, checked, found, procs>>
-----------------------------------------------------------------------------
(* A task.                                                                 *)

\* A mutant: every verdict counts towards the limit.
EnoughJudged ==
    settings.cap > 0
      /\ Cardinality({c \in Configs : verdict[c] # "none"}) >= settings.cap

\* done_event: as many live configs as asked for.
Enough == settings.cap > 0 /\ Cardinality(found) >= settings.cap

Goto(c, where) == pc' = [pc EXCEPT ![c] = where]

\* The task ends without a verdict.
GiveUp(c) ==
    /\ Goto(c, "finished")
    /\ verdict' = [verdict EXCEPT ![c] = "none"]
    /\ checked' = [checked EXCEPT ![c] = FALSE]
    /\ UNCHANGED found

\* The task ends with one; a live config joins the list.
Judge(c, ok) ==
    /\ Goto(c, "finished")
    /\ verdict' = [verdict EXCEPT ![c] = IF ok THEN "pass" ELSE "fail"]
    /\ found' = IF ok THEN found \cup {c} ELSE found
    /\ UNCHANGED checked

\* The next attempt starts; TCP and TLS connect at once.
Attempt(c) ==
    /\ Goto(c, IF Launches THEN "starting" ELSE "serving")
    /\ UNCHANGED <<verdict, found>>

\* A mutant: a task keeps its place for ever.
Kept == {d \in Configs : pc[d] # "waiting"}

\* The tasks the semaphore let in.
Holders == {d \in Configs : pc[d] \in Running}

\* The semaphore lets the task in: it ends at once, or makes its first attempt.
Enter(c) ==
    /\ stage = "probing" /\ pc[c] = "waiting"
    /\ Cardinality(Holders) < settings.slots
    /\ \/ /\ Enough
          /\ Goto(c, "finished") /\ UNCHANGED <<verdict, checked, found>>
       \/ ~ Enough /\ late /\ GiveUp(c)
       \/ /\ ~ Enough /\ ~ late
          /\ Attempt(c)
          /\ checked' = [checked EXCEPT ![c] = Launches]
    /\ UNCHANGED <<callVars, countVars, answer, procs, mute>>

\* A process starts on a reserved port.
Launch(c) ==
    /\ pc[c] = "starting"
    /\ Goto(c, "serving")
    /\ procs' = procs \cup {c}
    /\ UNCHANGED <<callVars, countVars, answer, verdict, checked, found, mute>>

\* No pinned address, no free port, no config or no process: no verdict.
NoLaunch(c) ==
    /\ pc[c] = "starting"
    /\ GiveUp(c)
    /\ mute' = mute \cup {c}
    /\ UNCHANGED <<callVars, countVars, answer, procs>>

\* The attempt came to `a` and its process is terminated.  A process that does
\* not listen in time, and the ceiling on one config, give no verdict.
Answer(c, a) ==
    /\ pc[c] = "serving" /\ c \in procs
    /\ answer' = [answer EXCEPT ![c] = a]
    /\ Goto(c, "closing")
    /\ UNCHANGED <<callVars, countVars, taskVars>>

\* The attempts passed: the proxies have their say, if any must pass.
Decide(c) ==
    IF settings.viaProxies > 0 THEN Attempt(c) /\ UNCHANGED checked
                               ELSE Judge(c, TRUE)

\* A mutant: one failure more than the attempts allow.
OneMoreFailure(c) == settings.attempts - settings.required + 1

\* failures_allowed
FailuresAllowed(c) == settings.attempts - settings.required

\* The end of an attempt that passed or failed, and the choice of what follows.
\* Only xray and sing-box look at done_event before the next one.
CountAttempt(c, a) ==
    /\ passes[c] < settings.required
    /\ passes' = [passes EXCEPT ![c] = IF a = "pass" THEN @ + 1 ELSE @]
    /\ fails' = [fails EXCEPT ![c] = IF a = "fail" THEN @ + 1 ELSE @]
    /\ UNCHANGED <<proxied, dialled>>
    /\ IF passes'[c] = settings.required THEN Decide(c)
       ELSE IF fails'[c] > FailuresAllowed(c) THEN Judge(c, FALSE)
       ELSE IF Launches /\ Enough THEN GiveUp(c)
       ELSE Attempt(c) /\ UNCHANGED checked

\* The same for one through a proxy of the pool.
CountProxy(c, a) ==
    /\ passes[c] = settings.required
    /\ dialled' = [dialled EXCEPT ![c] = @ + 1]
    /\ proxied' = [proxied EXCEPT ![c] = IF a = "pass" THEN @ + 1 ELSE @]
    /\ UNCHANGED <<passes, fails>>
    /\ IF proxied'[c] = settings.viaProxies THEN Judge(c, TRUE)
       ELSE IF dialled'[c] = settings.proxies THEN Judge(c, FALSE)
       ELSE Attempt(c) /\ UNCHANGED checked

Count(c, a) ==
    \/ a \in {"pass", "fail"} /\ UNCHANGED mute
         /\ (CountAttempt(c, a) \/ CountProxy(c, a))
    \/ a = "none" /\ GiveUp(c) /\ mute' = mute \cup {c} /\ UNCHANGED countVars

\* The process is gone and its port is free.
Close(c) ==
    /\ pc[c] = "closing"
    /\ answer' = [answer EXCEPT ![c] = "none"]
    /\ procs' = procs \ {c}
    /\ \/ Count(c, answer[c])
       \/ /\ answer[c] = "cancelled"
          /\ Goto(c, "cancelled")
          /\ UNCHANGED <<countVars, verdict, checked, found, mute>>
    /\ UNCHANGED callVars

\* An attempt of TCP or TLS ends; an unexpected error is a failure.
Connect(c, a) ==
    /\ ~ Launches /\ pc[c] = "serving"
    /\ Count(c, a)
    /\ UNCHANGED <<callVars, answer, procs>>
-----------------------------------------------------------------------------
(* Cancellation.                                                           *)

\* A mutant: the process of a cancelled probe is left to itself.
Orphaned(c) == FALSE

\* A cancelled task still reaps its process.
MustReap(c) == c \in procs

\* Every task that is not done is cancelled.  TCP and TLS forget the verdict of
\* the stage before at once.
CancelAll ==
    LET open == {c \in Configs : pc[c] \notin Over}
    IN  /\ pc' = [c \in Configs |-> IF c \notin open THEN pc[c]
                                    ELSE IF MustReap(c) THEN "closing"
                                    ELSE "cancelled"]
        /\ answer' = [c \in Configs |->
                        IF c \in open /\ MustReap(c) THEN "cancelled"
                        ELSE answer[c]]
        /\ verdict' = [c \in Configs |->
                         IF ~ Launches /\ pc[c] = "serving" THEN "none"
                         ELSE verdict[c]]

\* An attempt of xray or sing-box raises what nobody expected: no verdict.
Raise(c) ==
    /\ pc[c] = "starting"
    /\ Goto(c, "cancelled")
    /\ mute' = mute \cup {c}
    /\ UNCHANGED <<callVars, countVars, answer, verdict, checked, found, procs>>

\* The call notices done_event.
Stop ==
    /\ stage = "probing" /\ Enough
    /\ stage' = "stopping"
    /\ CancelAll
    /\ UNCHANGED <<settings, late, out, countVars, checked, found, procs, mute>>

\* The caller is cancelled, once or again.
Interrupt ==
    /\ stage \in {"called", "probing", "stopping"}
    /\ stage' = "interrupted"
    /\ CancelAll
    /\ UNCHANGED <<settings, late, out, countVars, checked, found, procs, mute>>

DeadlinePasses ==
    /\ settings.timed /\ ~ late /\ stage \notin Ended
    /\ late' = TRUE
    /\ UNCHANGED <<settings, stage, out, countVars, pc, answer, taskVars>>

AllOver == \A c \in Configs : pc[c] \in Over

\* A mutant: all that was found is returned.
Everything == {found}

\* The surplus is left out.
Trimmed ==
    IF settings.cap > 0 /\ Cardinality(found) > settings.cap
    THEN {kept \in SUBSET found : Cardinality(kept) = settings.cap}
    ELSE {found}

Return ==
    /\ stage \in {"probing", "stopping"} /\ AllOver
    /\ stage' = "returned"
    /\ verdict' = [c \in Configs |->
                     IF pc[c] = "cancelled" THEN "none" ELSE verdict[c]]
    /\ checked' = [c \in Configs |-> pc[c] # "cancelled" /\ checked[c]]
    /\ out' \in Trimmed
    /\ UNCHANGED <<settings, late, countVars, pc, answer, found, procs, mute>>

\* CancelledError leaves the call once every task is done.
Propagate ==
    /\ stage = "interrupted" /\ AllOver
    /\ stage' = "raised"
    /\ UNCHANGED <<settings, late, out, countVars, pc, answer, taskVars>>

Task(c) ==
    \/ Enter(c) \/ Launch(c) \/ NoLaunch(c) \/ Close(c) \/ Raise(c)
    \/ \E a \in Verdict : Answer(c, a) \/ Connect(c, a)

Proceed == Call \/ Stop \/ Return \/ Propagate \/ \E c \in Configs : Task(c)

Next == Proceed \/ Interrupt \/ DeadlinePasses

Spec == Init /\ [][Next]_vars

\* The event loop runs what can run, and every wait in a probe has a timeout;
\* a process that ignores SIGTERM is killed.
FairSpec == Spec /\ WF_vars(Proceed)
-----------------------------------------------------------------------------
(* Properties.                                                             *)

\* The verdicts and the list a call returns are what its caller counts on, and
\* a config that failed or passed had the attempts to show for it: an early
\* stop, a deadline, a refusal or a fault of the machine is never a verdict.
Delivers ==
    stage = "returned" =>
       /\ [verdict |-> verdict, out |-> out] \in Deliveries(Configs, settings.cap)
       /\ Launches => \A c \in Configs : checked[c] <=> verdict[c] # "none"
       /\ \A c \in Configs :
             /\ verdict[c] = "pass" => /\ passes[c] = settings.required
                                       /\ proxied[c] = settings.viaProxies
             /\ verdict[c] = "fail" => \/ fails[c] > FailuresAllowed(c)
                                       \/ proxied[c] < settings.viaProxies

\* Whatever ends a call, none of its processes survives it; while it runs there
\* is never more than one for each slot.
NothingLeftBehind ==
    /\ Cardinality(procs) <= settings.slots
    /\ stage \in Ended => procs = {}

Full == settings.cap > 0 /\ Cardinality(out) = settings.cap

\* A call that returns in time and with room left has probed every config the
\* address guard let through.
NobodyForgotten ==
    stage = "returned" /\ ~ late /\ ~ Full =>
       \A c \in Configs : verdict[c] # "none" \/ c \in mute

\* Every call ends.
CallEnds == <>(stage \in Ended)
=============================================================================
