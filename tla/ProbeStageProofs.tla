-------------------------- MODULE ProbeStageProofs --------------------------
(***************************************************************************)
(* What ProbeStage.tla states about one call of a validator, proved for    *)
(* any configs and any arguments: the promise of ProbeOutcome.tla, which   *)
(* ListValidation.tla relies on, no process left behind and nobody         *)
(* forgotten.                                                              *)
(***************************************************************************)
EXTENDS ProbeStage, FiniteSetTheorems, TLAPS

-----------------------------------------------------------------------------
(* The invariant.                                                          *)

\* The counters of a task decide nothing before its last attempt: one that
\* still runs may fail, and may yet pass through a proxy that was not tried.
CountInv ==
    \A c \in Configs :
        /\ pc[c] = "waiting" =>
              passes[c] = 0 /\ fails[c] = 0 /\ proxied[c] = 0 /\ dialled[c] = 0
        /\ pc[c] \in Running =>
              /\ fails[c] <= FailuresAllowed(c)
              /\ passes[c] = settings.required => settings.viaProxies > 0
              /\ settings.viaProxies > 0 =>
                    /\ proxied[c] < settings.viaProxies
                    /\ dialled[c] < settings.proxies

\* A process belongs to a task that serves or closes, which a cancelled task
\* does too; a task on its way holds a slot.
ProcInv ==
    /\ \A c \in Configs :
          /\ pc[c] = "starting" => Launches
          /\ pc[c] = "closing" => c \in procs
          /\ c \in procs => Launches /\ pc[c] \in {"serving", "closing"}
          /\ answer[c] # "none" => pc[c] = "closing"
          /\ answer[c] = "cancelled" => stage \in {"stopping", "interrupted"}
          /\ stage = "called" => pc[c] = "waiting"
          /\ stage \in Ended => pc[c] \notin Running
    /\ Cardinality(Holders) <= settings.slots

\* The stages of a call that will return, or has.
Returning == {"probing", "stopping", "returned"}

\* What the verdict of a task that is done rests on.
OutcomeInv ==
    /\ stage = "called" =>
          /\ found = {} /\ out = {}
          /\ \A c \in Configs : ~ checked[c]
          /\ settings.kind = "tcp" => \A c \in Configs : verdict[c] = "none"
    /\ stage = "stopping" => Enough
    /\ stage \in Returning => \A c \in Configs :
          /\ c \in found => pc[c] = "finished"
          /\ pc[c] = "finished" => (c \in found <=> verdict[c] = "pass")
          /\ pc[c] # "finished" /\ settings.kind # "tls" => verdict[c] = "none"
          /\ Launches =>
                /\ pc[c] = "waiting" => ~ checked[c]
                /\ pc[c] \in Running => checked[c]
                /\ pc[c] = "finished" => (checked[c] <=> verdict[c] # "none")
          /\ pc[c] = "finished" /\ verdict[c] = "pass" =>
                passes[c] = settings.required /\ proxied[c] = settings.viaProxies
          /\ pc[c] = "finished" /\ verdict[c] = "fail" =>
                fails[c] > FailuresAllowed(c) \/ proxied[c] < settings.viaProxies
          /\ pc[c] = "finished" /\ verdict[c] = "none" => c \in mute \/ late \/ Enough
          /\ pc[c] = "cancelled" => c \in mute \/ Enough

\* What a call that returned leaves: all that was found, or as many as asked for.
ReturnInv ==
    stage = "returned" =>
        /\ out \subseteq found
        /\ settings.cap > 0 => Cardinality(out) <= settings.cap
        /\ out # found => settings.cap > 0 /\ Cardinality(out) = settings.cap
        /\ Enough => Cardinality(out) = settings.cap
        /\ \A c \in Configs : pc[c] # "finished" => verdict[c] = "none" /\ ~ checked[c]
        /\ \A c \in Configs : pc[c] = "waiting" => c \in mute

CallInv == TypeOK /\ CountInv /\ ProcInv /\ OutcomeInv /\ ReturnInv

\* What the proofs use of the arguments of a call.
ArgumentsOK ==
    /\ settings \in Settings
    /\ settings.kind \in Kinds
    /\ settings.attempts \in Nat \ {0}
    /\ settings.required \in Nat \ {0}
    /\ settings.slots \in Nat \ {0}
    /\ settings.required <= settings.attempts
    /\ settings.proxies \in Nat
    /\ settings.viaProxies \in Nat
    /\ settings.cap \in Nat
    /\ settings.viaProxies <= settings.proxies
    /\ settings.kind = "tls" => settings.cap = 0

LEMMA Arguments == TypeOK => ArgumentsOK
BY SettingsAssumption DEF TypeOK, ArgumentsOK
-----------------------------------------------------------------------------
(* Sets of tasks.                                                          *)

LEMMA SubsetsAreFinite ==
    ASSUME NEW S \in SUBSET Configs
    PROVE  IsFiniteSet(S) /\ Cardinality(S) \in Nat
BY SettingsAssumption, FS_Subset, FS_CardinalityType

\* Enough stays enough: what was found is never taken back.
LEMMA EnoughIsForGood ==
    ASSUME TypeOK, found' \in SUBSET Configs, found \subseteq found',
           settings' = settings, Enough
    PROVE  Enough'
<1>1. Cardinality(found) <= Cardinality(found')
  BY SubsetsAreFinite, FS_Subset
<1>2. Cardinality(found) \in Nat /\ Cardinality(found') \in Nat
  BY SubsetsAreFinite DEF TypeOK
<1>3. settings.cap \in Nat
  BY Arguments DEF ArgumentsOK
<1>. QED BY <1>1, <1>2, <1>3 DEF Enough

\* No more slots are held when no task joins those that hold one.
LEMMA SlotsAreGivenBack ==
    ASSUME TypeOK, ProcInv, settings' = settings, Holders' \subseteq Holders
    PROVE  Cardinality(Holders') <= settings'.slots
<1>. Holders \in SUBSET Configs /\ Holders' \in SUBSET Configs
  BY DEF Holders
<1>1. Cardinality(Holders') <= Cardinality(Holders)
  BY SubsetsAreFinite, FS_Subset
<1>2. Cardinality(Holders) \in Nat /\ Cardinality(Holders') \in Nat
  BY SubsetsAreFinite
<1>3. settings.slots \in Nat
  BY Arguments DEF ArgumentsOK
<1>. QED BY <1>1, <1>2, <1>3 DEF ProcInv
-----------------------------------------------------------------------------
(* The end of an attempt.                                                  *)

\* The counters after the attempts of c, which alone may have changed.
CountsMoved(c) ==
    /\ passes' \in [Configs -> 0 .. settings.required]
    /\ fails' \in [Configs -> 0 .. settings.attempts - settings.required + 1]
    /\ proxied' \in [Configs -> 0 .. settings.viaProxies]
    /\ dialled' \in [Configs -> 0 .. settings.proxies]
    /\ \A d \in Configs \ {c} :
          /\ passes'[d] = passes[d] /\ fails'[d] = fails[d]
          /\ proxied'[d] = proxied[d] /\ dialled'[d] = dialled[d]

\* Another attempt can still go either way.
GoesOn(c) ==
    /\ Attempt(c) /\ UNCHANGED checked
    /\ fails'[c] <= FailuresAllowed(c)
    /\ passes'[c] = settings.required => settings.viaProxies > 0
    /\ settings.viaProxies > 0 =>
          /\ proxied'[c] < settings.viaProxies
          /\ dialled'[c] < settings.proxies

\* A verdict has the attempts to show for it.
Settles(c) ==
    \/ Judge(c, TRUE) /\ passes'[c] = settings.required
          /\ proxied'[c] = settings.viaProxies
    \/ Judge(c, FALSE)
          /\ (fails'[c] > FailuresAllowed(c) \/ proxied'[c] < settings.viaProxies)

\* The end of an attempt leads to another one, to a verdict or to none.
LEMMA AnAttemptEnds ==
    ASSUME CallInv, NEW c \in Configs, NEW a \in Verdict \cup {"cancelled"},
           pc[c] \in Running, Count(c, a)
    PROVE  /\ CountsMoved(c)
           /\ GoesOn(c) \/ Settles(c) \/ (GiveUp(c) /\ (c \in mute' \/ Enough))
           /\ mute' \in SUBSET Configs /\ mute \subseteq mute'
<1>1. TypeOK /\ ArgumentsOK
  BY Arguments DEF CallInv
<1>2. /\ fails[c] <= FailuresAllowed(c)
      /\ passes[c] = settings.required => settings.viaProxies > 0
      /\ settings.viaProxies > 0 =>
            /\ proxied[c] < settings.viaProxies
            /\ dialled[c] < settings.proxies
  BY DEF CallInv, CountInv
<1>3. CASE a = "none" /\ GiveUp(c) /\ mute' = mute \cup {c} /\ UNCHANGED countVars
  BY <1>1, <1>3 DEF TypeOK, CountsMoved, countVars
<1>4. CASE UNCHANGED mute /\ CountAttempt(c, a)
  <2>1. /\ passes' = [passes EXCEPT ![c] = IF a = "pass" THEN passes[c] + 1 ELSE passes[c]]
        /\ fails' = [fails EXCEPT ![c] = IF a = "fail" THEN fails[c] + 1 ELSE fails[c]]
        /\ passes[c] < settings.required
        /\ proxied' = proxied /\ dialled' = dialled
    BY <1>4 DEF CountAttempt
  <2>2. CountsMoved(c)
    BY <1>1, <1>2, <2>1 DEF TypeOK, ArgumentsOK, CountsMoved, FailuresAllowed
  <2>3. CASE passes'[c] = settings.required
    <3>1. Decide(c)
      BY <1>4, <2>3 DEF CountAttempt
    <3>2. CASE settings.viaProxies > 0
      <4>1. Attempt(c) /\ UNCHANGED checked
        BY <3>1, <3>2 DEF Decide
      <4>2. fails'[c] <= FailuresAllowed(c)
        BY <1>1, <1>2, <2>1, <2>3 DEF TypeOK, ArgumentsOK
      <4>. QED BY <1>2, <2>1, <2>2, <3>2, <4>1, <4>2, <1>1, <1>4 DEF GoesOn, TypeOK
    <3>3. CASE ~ settings.viaProxies > 0
      <4>1. Judge(c, TRUE)
        BY <3>1, <3>3 DEF Decide
      <4>2. proxied'[c] = settings.viaProxies
        BY <1>1, <2>1, <3>3 DEF TypeOK, ArgumentsOK
      <4>. QED BY <2>2, <2>3, <4>1, <4>2, <1>1, <1>4 DEF Settles, TypeOK
    <3>. QED BY <3>2, <3>3
  <2>4. CASE passes'[c] # settings.required /\ fails'[c] > FailuresAllowed(c)
    <3>1. Judge(c, FALSE)
      BY <1>4, <2>4 DEF CountAttempt
    <3>. QED BY <2>2, <2>4, <3>1, <1>1, <1>4 DEF Settles, TypeOK
  <2>5. CASE /\ passes'[c] # settings.required /\ ~ fails'[c] > FailuresAllowed(c)
             /\ Launches /\ Enough
    <3>1. GiveUp(c)
      BY <1>4, <2>5 DEF CountAttempt
    <3>. QED BY <2>2, <2>5, <3>1, <1>1, <1>4 DEF TypeOK
  <2>6. CASE /\ passes'[c] # settings.required /\ ~ fails'[c] > FailuresAllowed(c)
             /\ ~ (Launches /\ Enough)
    <3>1. Attempt(c) /\ UNCHANGED checked
      BY <1>4, <2>6 DEF CountAttempt
    <3>2. fails'[c] <= FailuresAllowed(c)
      BY <1>1, <2>2, <2>6 DEF ArgumentsOK, CountsMoved, FailuresAllowed
    <3>. QED BY <1>2, <2>1, <2>2, <2>6, <3>1, <3>2, <1>1, <1>4 DEF GoesOn, TypeOK
  <2>. QED BY <2>3, <2>4, <2>5, <2>6
<1>5. CASE UNCHANGED mute /\ CountProxy(c, a)
  <2>1. /\ passes[c] = settings.required
        /\ dialled' = [dialled EXCEPT ![c] = dialled[c] + 1]
        /\ proxied' = [proxied EXCEPT ![c] = IF a = "pass" THEN proxied[c] + 1 ELSE proxied[c]]
        /\ passes' = passes /\ fails' = fails
    BY <1>5 DEF CountProxy
  <2>2. CountsMoved(c)
    BY <1>1, <1>2, <2>1 DEF TypeOK, ArgumentsOK, CountsMoved
  <2>3. CASE proxied'[c] = settings.viaProxies
    <3>1. Judge(c, TRUE)
      BY <1>5, <2>3 DEF CountProxy
    <3>. QED BY <2>1, <2>2, <2>3, <3>1, <1>1, <1>5 DEF Settles, TypeOK
  <2>4. CASE proxied'[c] # settings.viaProxies /\ dialled'[c] = settings.proxies
    <3>1. Judge(c, FALSE)
      BY <1>5, <2>4 DEF CountProxy
    <3>2. proxied'[c] < settings.viaProxies
      BY <1>1, <2>2, <2>4 DEF ArgumentsOK, CountsMoved
    <3>. QED BY <2>2, <3>1, <3>2, <1>1, <1>5 DEF Settles, TypeOK
  <2>5. CASE proxied'[c] # settings.viaProxies /\ dialled'[c] # settings.proxies
    <3>1. Attempt(c) /\ UNCHANGED checked
      BY <1>5, <2>5 DEF CountProxy
    <3>2. proxied'[c] < settings.viaProxies /\ dialled'[c] < settings.proxies
      BY <1>1, <2>2, <2>5 DEF ArgumentsOK, CountsMoved
    <3>3. fails'[c] <= FailuresAllowed(c) /\ settings.viaProxies > 0
      BY <1>2, <2>1
    <3>. QED BY <2>2, <3>1, <3>2, <3>3, <1>1, <1>5 DEF GoesOn, TypeOK
  <2>. QED BY <2>3, <2>4, <2>5
<1>. QED BY <1>3, <1>4, <1>5 DEF Count
-----------------------------------------------------------------------------
(* A task that moves.                                                      *)

\* A task that runs does so in a call that neither begins nor is over.
LEMMA RunsInACall ==
    ASSUME CallInv, NEW c \in Configs, pc[c] \in Running
    PROVE  stage \in {"probing", "stopping", "interrupted"}
BY DEF CallInv, TypeOK, ProcInv, Running, Ended

\* What follows an attempt keeps the counters and the outcomes consistent.
LEMMA WhatFollows ==
    ASSUME CallInv, NEW c \in Configs, pc[c] \in Running, UNCHANGED callVars,
           CountsMoved(c), mute' \in SUBSET Configs, mute \subseteq mute',
           GoesOn(c) \/ Settles(c) \/ (GiveUp(c) /\ (c \in mute' \/ Enough))
    PROVE  /\ pc' \in [Configs -> {"waiting"} \cup Running \cup Over]
           /\ pc' = [pc EXCEPT ![c] = pc'[c]]
           /\ pc'[c] \in {"starting", "serving", "finished"}
           /\ pc'[c] = "starting" => Launches
           /\ pc'[c] = "serving" => ~ Launches
           /\ verdict' \in [Configs -> Verdict]
           /\ checked' \in [Configs -> BOOLEAN]
           /\ found' \subseteq Configs
           /\ CountInv' /\ OutcomeInv'
<1>1. /\ TypeOK /\ ArgumentsOK
      /\ settings' = settings /\ stage' = stage /\ late' = late /\ out' = out
      /\ stage \in {"probing", "stopping", "interrupted"}
  BY Arguments, RunsInACall DEF CallInv, callVars
<1>2. /\ pc' = [pc EXCEPT ![c] = pc'[c]]
      /\ pc'[c] \in {"starting", "serving", "finished"}
      /\ pc'[c] = "starting" => Launches
      /\ pc'[c] = "serving" => ~ Launches
      /\ found \subseteq found' /\ found' \subseteq found \cup {c}
      /\ pc'[c] # "finished" =>
            verdict' = verdict /\ checked' = checked /\ found' = found
  BY <1>1 DEF GoesOn, Settles, GiveUp, Judge, Attempt, Goto, TypeOK
<1>3. pc' \in [Configs -> {"waiting"} \cup Running \cup Over]
  BY <1>1, <1>2 DEF TypeOK, Running, Over
<1>4. /\ verdict' \in [Configs -> Verdict] /\ checked' \in [Configs -> BOOLEAN]
      /\ found' \subseteq Configs
      /\ \A d \in Configs \ {c} : /\ verdict'[d] = verdict[d]
                                  /\ checked'[d] = checked[d]
                                  /\ d \in found' <=> d \in found
  BY <1>1 DEF GoesOn, Settles, GiveUp, Judge, Attempt, TypeOK, Verdict
<1>5. CountInv'
  <2>1. CASE GoesOn(c)
    BY <1>1, <1>2, <1>3, <2>1
       DEF CallInv, CountInv, CountsMoved, GoesOn, FailuresAllowed, Running
  <2>2. CASE pc'[c] = "finished"
    BY <1>1, <1>2, <1>3, <2>2 DEF CallInv, CountInv, CountsMoved, FailuresAllowed, Running
  <2>3. Settles(c) \/ GiveUp(c) => pc'[c] = "finished"
    BY <1>1 DEF Settles, Judge, GiveUp, Goto, TypeOK
  <2>. QED BY <2>1, <2>2, <2>3
<1>6. Enough => Enough'
  BY <1>1, <1>2, <1>4, EnoughIsForGood
<1>7. OutcomeInv'
  <2>1. stage' # "called" /\ (stage' = "stopping" => Enough')
    BY <1>1, <1>6 DEF CallInv, OutcomeInv
  <2>2. CASE stage \notin Returning
    BY <1>1, <2>1, <2>2 DEF OutcomeInv
  <2>3. CASE stage \in Returning
    <3>. SUFFICES ASSUME NEW d \in Configs
         PROVE  /\ d \in found' => pc'[d] = "finished"
                /\ pc'[d] = "finished" => (d \in found' <=> verdict'[d] = "pass")
                /\ pc'[d] # "finished" /\ settings.kind # "tls" => verdict'[d] = "none"
                /\ Launches =>
                      /\ pc'[d] = "waiting" => ~ checked'[d]
                      /\ pc'[d] \in Running => checked'[d]
                      /\ pc'[d] = "finished" => (checked'[d] <=> verdict'[d] # "none")
                /\ pc'[d] = "finished" /\ verdict'[d] = "pass" =>
                      passes'[d] = settings.required /\ proxied'[d] = settings.viaProxies
                /\ pc'[d] = "finished" /\ verdict'[d] = "fail" =>
                      fails'[d] > FailuresAllowed(d) \/ proxied'[d] < settings.viaProxies
                /\ pc'[d] = "finished" /\ verdict'[d] = "none" =>
                      d \in mute' \/ late' \/ Enough'
                /\ pc'[d] = "cancelled" => d \in mute' \/ Enough'
      BY <1>1, <2>1 DEF OutcomeInv, Launches, FailuresAllowed
    <3>1. CASE d # c
      BY <1>1, <1>2, <1>4, <1>6, <2>3, <3>1
         DEF CallInv, OutcomeInv, CountsMoved, TypeOK, FailuresAllowed
    <3>2. /\ c \notin found
          /\ settings.kind # "tls" => verdict[c] = "none"
          /\ Launches => checked[c]
      BY <2>3 DEF CallInv, OutcomeInv, Running
    <3>3. CASE d = c /\ GoesOn(c)
      BY <1>1, <1>2, <1>6, <2>3, <3>2, <3>3 DEF GoesOn, Attempt, Goto, TypeOK, Running
    <3>4. CASE d = c /\ Settles(c)
      <4>1. \E ok \in BOOLEAN :
              /\ pc'[c] = "finished" /\ (c \in found' <=> ok)
              /\ verdict'[c] = (IF ok THEN "pass" ELSE "fail") /\ checked'[c] = checked[c]
              /\ ok => passes'[c] = settings.required /\ proxied'[c] = settings.viaProxies
              /\ ~ ok => fails'[c] > FailuresAllowed(c) \/ proxied'[c] < settings.viaProxies
        BY <1>1, <3>2, <3>4 DEF Settles, Judge, Goto, TypeOK
      <4>. QED BY <1>1, <3>2, <3>4, <4>1
    <3>5. CASE d = c /\ GiveUp(c) /\ (c \in mute' \/ Enough)
      <4>1. /\ pc'[c] = "finished" /\ c \notin found'
            /\ verdict'[c] = "none" /\ checked'[c] = FALSE
        BY <1>1, <3>2, <3>5 DEF GiveUp, Goto, TypeOK
      <4>. QED BY <1>1, <1>6, <3>5, <4>1 DEF Running
    <3>. QED BY <3>1, <3>3, <3>4, <3>5
  <2>. QED BY <2>2, <2>3
<1>. QED BY <1>2, <1>3, <1>4, <1>5, <1>7
-----------------------------------------------------------------------------
(* The steps of a task.                                                    *)

LEMMA EnterKeeps ==
    ASSUME CallInv, NEW c \in Configs, Enter(c)
    PROVE  CallInv'
<1>1. /\ TypeOK /\ ArgumentsOK /\ stage = "probing" /\ pc[c] = "waiting"
      /\ settings' = settings /\ stage' = stage /\ late' = late /\ out' = out
      /\ passes' = passes /\ fails' = fails /\ proxied' = proxied /\ dialled' = dialled
      /\ answer' = answer /\ procs' = procs /\ mute' = mute
  BY Arguments DEF CallInv, Enter, callVars, countVars
<1>2. /\ pc' = [pc EXCEPT ![c] = pc'[c]] /\ found' = found
      /\ \/ pc'[c] = "finished" /\ Enough /\ verdict' = verdict /\ checked' = checked
         \/ /\ pc'[c] = "finished" /\ late
            /\ verdict' = [verdict EXCEPT ![c] = "none"]
            /\ checked' = [checked EXCEPT ![c] = FALSE]
         \/ /\ pc'[c] = IF Launches THEN "starting" ELSE "serving"
            /\ verdict' = verdict
            /\ checked' = [checked EXCEPT ![c] = Launches]
  <2>1. CASE Enough /\ Goto(c, "finished") /\ UNCHANGED <<verdict, checked, found>>
    BY <1>1, <2>1 DEF Goto, TypeOK
  <2>2. CASE late /\ GiveUp(c)
    BY <1>1, <2>2 DEF GiveUp, Goto, TypeOK
  <2>3. CASE Attempt(c) /\ checked' = [checked EXCEPT ![c] = Launches]
    BY <1>1, <2>3 DEF Attempt, Goto, TypeOK
  <2>. QED BY <2>1, <2>2, <2>3 DEF Enter
<1>3. pc'[c] \in {"starting", "serving", "finished"} /\ Launches' = Launches
  BY <1>1, <1>2 DEF Launches
<1>4. Enough' = Enough
  BY <1>1, <1>2 DEF Enough
<1>5. TypeOK'
  <2>1. pc' \in [Configs -> {"waiting"} \cup Running \cup Over]
    BY <1>1, <1>2, <1>3 DEF TypeOK, Running, Over
  <2>2. verdict' \in [Configs -> Verdict]
    BY <1>1, <1>2 DEF TypeOK, Verdict
  <2>3. Launches \in BOOLEAN
    BY DEF Launches
  <2>4. checked' \in [Configs -> BOOLEAN]
    BY <1>1, <1>2, <2>3 DEF TypeOK
  <2>. QED BY <1>1, <1>2, <2>1, <2>2, <2>4 DEF TypeOK
<1>6. CountInv'
  BY <1>1, <1>2, <1>3 DEF CallInv, CountInv, TypeOK, ArgumentsOK, FailuresAllowed, Running
<1>7. ProcInv'
  <2>1. Cardinality(Holders') <= settings.slots
    <3>1. Holders \in SUBSET Configs /\ Holders' \in SUBSET Configs
      BY DEF Holders
    <3>2. Holders' \subseteq Holders \cup {c}
      BY <1>1, <1>2 DEF Holders, TypeOK
    <3>3. c \notin Holders /\ Cardinality(Holders) < settings.slots
      BY <1>1 DEF Enter, Holders, Running
    <3>4. Cardinality(Holders \cup {c}) = Cardinality(Holders) + 1
      BY <3>1, <3>3, SubsetsAreFinite, FS_AddElement
    <3>5. Cardinality(Holders') <= Cardinality(Holders \cup {c})
      BY <3>1, <3>2, SubsetsAreFinite, FS_Subset
    <3>6. Cardinality(Holders) \in Nat /\ Cardinality(Holders') \in Nat
      BY <3>1, SubsetsAreFinite
    <3>. QED BY <1>1, <3>3, <3>4, <3>5, <3>6 DEF ArgumentsOK
  <2>. QED BY <2>1, <1>1, <1>2, <1>3 DEF CallInv, ProcInv, TypeOK, Ended, Running
<1>8. OutcomeInv'
  <2>1. settings.kind = "tls" => ~ Enough
    BY <1>1 DEF ArgumentsOK, Enough
  <2>2. /\ c \notin found /\ (settings.kind # "tls" => verdict[c] = "none")
        /\ Launches => ~ checked[c]
    BY <1>1 DEF CallInv, OutcomeInv, Returning
  <2>. QED BY <1>1, <1>2, <1>3, <1>4, <2>1, <2>2
           DEF CallInv, OutcomeInv, TypeOK, FailuresAllowed, Running, Returning
<1>9. ReturnInv'
  BY <1>1 DEF ReturnInv
<1>. QED BY <1>5, <1>6, <1>7, <1>8, <1>9 DEF CallInv

\* Between two decisions: the process starts, or an answer came.
LEMMA LaunchKeeps ==
    ASSUME CallInv, NEW c \in Configs, Launch(c)
    PROVE  CallInv'
<1>1. /\ TypeOK /\ stage # "returned" /\ pc[c] = "starting" /\ Launches
      /\ settings' = settings /\ stage' = stage /\ late' = late /\ out' = out
      /\ passes' = passes /\ fails' = fails /\ proxied' = proxied /\ dialled' = dialled
      /\ pc' = [pc EXCEPT ![c] = "serving"] /\ procs' = procs \cup {c}
      /\ answer' = answer /\ verdict' = verdict /\ checked' = checked
      /\ found' = found /\ mute' = mute
  BY RunsInACall DEF CallInv, ProcInv, Launch, Goto, callVars, countVars, Running
<1>2. TypeOK'
  BY <1>1 DEF TypeOK, Running, Over
<1>3. Enough' = Enough /\ Launches' = Launches
  BY <1>1 DEF Enough, Launches
<1>4. Holders' \subseteq Holders
  BY <1>1 DEF TypeOK, Holders, Running
<1>5. CountInv'
  BY <1>1 DEF CallInv, CountInv, TypeOK, FailuresAllowed, Running
<1>6. ProcInv'
  BY <1>1, <1>3, <1>4, SlotsAreGivenBack DEF CallInv, ProcInv, TypeOK, Running
<1>7. OutcomeInv'
  BY <1>1, <1>3 DEF CallInv, OutcomeInv, TypeOK, FailuresAllowed, Running
<1>. QED BY <1>1, <1>2, <1>5, <1>6, <1>7 DEF CallInv, ReturnInv

LEMMA AnswerKeeps ==
    ASSUME CallInv, NEW c \in Configs, NEW a \in Verdict, Answer(c, a)
    PROVE  CallInv'
<1>1. /\ TypeOK /\ stage # "returned" /\ pc[c] = "serving" /\ c \in procs
      /\ settings' = settings /\ stage' = stage /\ late' = late /\ out' = out
      /\ passes' = passes /\ fails' = fails /\ proxied' = proxied /\ dialled' = dialled
      /\ pc' = [pc EXCEPT ![c] = "closing"] /\ procs' = procs
      /\ answer' = [answer EXCEPT ![c] = a] /\ verdict' = verdict /\ checked' = checked
      /\ found' = found /\ mute' = mute
  BY RunsInACall DEF CallInv, Answer, Goto, callVars, countVars, taskVars, Running
<1>2. TypeOK'
  BY <1>1 DEF TypeOK, Running, Over
<1>3. Enough' = Enough /\ Launches' = Launches
  BY <1>1 DEF Enough, Launches
<1>4. Holders' \subseteq Holders
  BY <1>1 DEF TypeOK, Holders, Running
<1>5. CountInv'
  BY <1>1 DEF CallInv, CountInv, TypeOK, FailuresAllowed, Running
<1>6. ProcInv'
  BY <1>1, <1>3, <1>4, SlotsAreGivenBack DEF CallInv, ProcInv, TypeOK, Running, Verdict
<1>7. OutcomeInv'
  BY <1>1, <1>3 DEF CallInv, OutcomeInv, TypeOK, FailuresAllowed, Running
<1>. QED BY <1>1, <1>2, <1>5, <1>6, <1>7 DEF CallInv, ReturnInv

\* An error nobody expected ends the task without a verdict.
LEMMA RaiseKeeps ==
    ASSUME CallInv, NEW c \in Configs, Raise(c)
    PROVE  CallInv'
<1>1. /\ TypeOK /\ stage # "returned" /\ pc[c] = "starting" /\ Launches
      /\ settings' = settings /\ stage' = stage /\ late' = late /\ out' = out
      /\ passes' = passes /\ fails' = fails /\ proxied' = proxied /\ dialled' = dialled
      /\ pc' = [pc EXCEPT ![c] = "cancelled"] /\ procs' = procs
      /\ answer' = answer /\ verdict' = verdict /\ checked' = checked
      /\ found' = found /\ mute' = mute \cup {c}
  BY RunsInACall DEF CallInv, ProcInv, Raise, Goto, callVars, countVars, Running
<1>2. TypeOK'
  BY <1>1 DEF TypeOK, Running, Over
<1>3. Enough' = Enough /\ Launches' = Launches
  BY <1>1 DEF Enough, Launches
<1>4. Holders' \subseteq Holders
  BY <1>1 DEF TypeOK, Holders, Running
<1>5. CountInv'
  BY <1>1 DEF CallInv, CountInv, TypeOK, FailuresAllowed, Running
<1>6. ProcInv'
  BY <1>1, <1>3, <1>4, SlotsAreGivenBack DEF CallInv, ProcInv, TypeOK, Running, Ended
<1>7. OutcomeInv'
  BY <1>1, <1>3 DEF CallInv, OutcomeInv, TypeOK, FailuresAllowed, Running
<1>. QED BY <1>1, <1>2, <1>5, <1>6, <1>7 DEF CallInv, ReturnInv

\* The three ways an attempt ends: no start, an answer with its process reaped,
\* and a connection.
LEMMA DecisionKeeps ==
    ASSUME CallInv, NEW c \in Configs, NEW a \in Verdict,
           NoLaunch(c) \/ Close(c) \/ Connect(c, a)
    PROVE  CallInv'
<1>1. /\ TypeOK /\ pc[c] \in Running
      /\ stage \in {"probing", "stopping", "interrupted"}
      /\ settings' = settings /\ stage' = stage /\ late' = late /\ out' = out
      /\ UNCHANGED callVars
  BY RunsInACall DEF CallInv, NoLaunch, Close, Connect, callVars, Running
<1>2. CASE ~ (Close(c) /\ answer[c] = "cancelled" /\ pc'[c] = "cancelled")
  <2>1. /\ CountsMoved(c) /\ mute' \in SUBSET Configs /\ mute \subseteq mute'
        /\ GoesOn(c) \/ Settles(c) \/ (GiveUp(c) /\ (c \in mute' \/ Enough))
    <3>1. CASE NoLaunch(c)
      BY <1>1, <3>1 DEF NoLaunch, CountsMoved, countVars, TypeOK
    <3>2. CASE Close(c) /\ Count(c, answer[c])
      BY <1>1, <3>2, AnAttemptEnds DEF TypeOK
    <3>3. CASE Connect(c, a)
      BY <1>1, <3>3, AnAttemptEnds DEF Connect
    <3>4. Close(c) => Count(c, answer[c])
      <4>1. Goto(c, "cancelled") => pc'[c] = "cancelled"
        BY <1>1 DEF Goto, TypeOK
      <4>. QED BY <1>2, <4>1 DEF Close
    <3>. QED BY <3>1, <3>2, <3>3, <3>4
  <2>2. /\ pc' \in [Configs -> {"waiting"} \cup Running \cup Over]
        /\ pc' = [pc EXCEPT ![c] = pc'[c]]
        /\ pc'[c] \in {"starting", "serving", "finished"}
        /\ pc'[c] = "starting" => Launches
        /\ pc'[c] = "serving" => ~ Launches
        /\ verdict' \in [Configs -> Verdict]
        /\ checked' \in [Configs -> BOOLEAN]
        /\ found' \subseteq Configs
        /\ CountInv' /\ OutcomeInv'
    BY <1>1, <2>1, WhatFollows
  <2>3. /\ procs' = procs \ {c}
        /\ answer' = [answer EXCEPT ![c] = "none"]
    BY <1>1 DEF CallInv, ProcInv, TypeOK, NoLaunch, Close, Connect, Running
  <2>4. TypeOK'
    BY <1>1, <2>1, <2>2, <2>3 DEF TypeOK, CountsMoved, Verdict
  <2>5. ProcInv'
    <3>1. Holders' \subseteq Holders
      BY <1>1, <2>2 DEF TypeOK, Holders
    <3>. QED BY <1>1, <2>2, <2>3, <3>1, SlotsAreGivenBack
             DEF CallInv, ProcInv, TypeOK, Launches, Ended
  <2>. QED BY <1>1, <2>2, <2>4, <2>5 DEF CallInv, ReturnInv
<1>3. CASE Close(c) /\ answer[c] = "cancelled" /\ pc'[c] = "cancelled"
  <2>1. ~ Count(c, answer[c])
    BY <1>3 DEF Count
  <2>2. /\ pc[c] = "closing" /\ stage \in {"stopping", "interrupted"}
        /\ passes' = passes /\ fails' = fails /\ proxied' = proxied /\ dialled' = dialled
        /\ pc' = [pc EXCEPT ![c] = "cancelled"] /\ procs' = procs \ {c}
        /\ answer' = [answer EXCEPT ![c] = "none"]
        /\ verdict' = verdict /\ checked' = checked /\ found' = found /\ mute' = mute
    BY <1>3, <2>1 DEF CallInv, ProcInv, Close, Goto, countVars
  <2>3. Enough' = Enough /\ Launches' = Launches
    BY <1>1, <2>2 DEF Enough, Launches
  <2>4. TypeOK'
    BY <1>1, <2>2 DEF TypeOK, Running, Over, Verdict
  <2>5. CountInv'
    BY <1>1, <2>2 DEF CallInv, CountInv, TypeOK, FailuresAllowed, Running
  <2>6. ProcInv'
    <3>1. Holders' \subseteq Holders
      BY <1>1, <2>2 DEF TypeOK, Holders, Running
    <3>. QED BY <1>1, <2>2, <2>3, <3>1, SlotsAreGivenBack
             DEF CallInv, ProcInv, TypeOK, Running, Ended
  <2>7. OutcomeInv'
    BY <1>1, <2>2, <2>3 DEF CallInv, OutcomeInv, TypeOK, FailuresAllowed, Running, Returning
  <2>. QED BY <1>1, <2>4, <2>5, <2>6, <2>7 DEF CallInv, ReturnInv
<1>. QED BY <1>2, <1>3
-----------------------------------------------------------------------------
(* The steps of the call.                                                  *)

LEMMA BeginningHolds == Init => CallInv
<1>. SUFFICES ASSUME Init PROVE CallInv
  OBVIOUS
<1>1. settings \in Settings /\ verdict \in [Configs -> Verdict]
  BY DEF Init, Before, Verdict
<1>2. TypeOK
  <2>1. settings.required \in Nat \ {0} /\ settings.attempts \in Nat
        /\ settings.required <= settings.attempts
        /\ settings.viaProxies \in Nat /\ settings.proxies \in Nat
    BY <1>1, SettingsAssumption
  <2>2. /\ passes \in [Configs -> 0 .. settings.required]
        /\ fails \in [Configs -> 0 .. settings.attempts - settings.required + 1]
        /\ proxied \in [Configs -> 0 .. settings.viaProxies]
        /\ dialled \in [Configs -> 0 .. settings.proxies]
    BY <2>1 DEF Init
  <2>. QED BY <1>1, <2>2 DEF Init, TypeOK, Verdict
<1>3. CountInv
  BY DEF Init, CountInv, Running
<1>4. ProcInv
  <2>1. Holders = {}
    BY DEF Init, Holders, Running
  <2>. QED BY <1>2, <2>1, Arguments, FS_EmptySet DEF Init, ProcInv, ArgumentsOK, Ended
<1>5. OutcomeInv /\ ReturnInv
  BY DEF Init, OutcomeInv, ReturnInv, Returning, Before
<1>. QED BY <1>2, <1>3, <1>4, <1>5 DEF CallInv

LEMMA CallKeeps ==
    ASSUME CallInv, Call
    PROVE  CallInv'
<1>1. /\ TypeOK /\ ArgumentsOK /\ stage = "called"
      /\ settings' = settings /\ late' = late /\ out' = out
      /\ passes' = passes /\ fails' = fails /\ proxied' = proxied /\ dialled' = dialled
      /\ answer' = answer /\ checked' = checked /\ found' = found /\ procs' = procs
  BY Arguments DEF CallInv, Call, countVars
<1>2. PICK refused \in SUBSET Configs :
         /\ verdict' = Cleared(refused)
         /\ pc' = [c \in Configs |-> IF c \in refused THEN "finished" ELSE "waiting"]
         /\ \/ /\ stage' = IF refused = Configs THEN "returned" ELSE "probing"
               /\ mute' = refused
            \/ /\ settings.kind = "xray"
               /\ stage' = "returned"
               /\ mute' = Configs
  BY DEF Call
<1>3. /\ found = {} /\ \A c \in Configs : ~ checked[c] /\ pc[c] = "waiting"
      /\ settings.kind = "tcp" => \A c \in Configs : verdict[c] = "none"
  BY <1>1 DEF CallInv, OutcomeInv, ProcInv
<1>4. /\ stage' \in {"probing", "returned"} /\ mute' \in SUBSET Configs
      /\ refused \subseteq mute' /\ Launches' = Launches
      /\ stage' = "returned" => mute' = Configs /\ (Launches \/ refused = Configs)
  BY <1>1, <1>2 DEF Launches
<1>5. /\ verdict' \in [Configs -> Verdict]
      /\ \A c \in Configs :
            verdict'[c] = IF Launches \/ c \in refused THEN "none" ELSE verdict[c]
  BY <1>1, <1>2 DEF Cleared, TypeOK, Verdict
<1>6. TypeOK'
  BY <1>1, <1>2, <1>4, <1>5 DEF TypeOK, Running, Over, Ended
<1>7. CountInv'
  BY <1>1, <1>2, <1>3 DEF CallInv, CountInv, Running
<1>8. ProcInv'
  <2>1. Holders' \subseteq Holders
    BY <1>2 DEF Holders, Running
  <2>2. \A c \in Configs : c \notin procs /\ answer[c] = "none"
    BY <1>3 DEF CallInv, ProcInv
  <2>. QED BY <1>1, <1>2, <1>4, <2>1, <2>2, SlotsAreGivenBack
           DEF CallInv, ProcInv, Running
<1>9. OutcomeInv'
  BY <1>1, <1>2, <1>3, <1>4, <1>5
     DEF CallInv, OutcomeInv, ArgumentsOK, Kinds, Launches, Running
<1>10. ReturnInv'
  <2>1. out = {} /\ found = {}
    BY <1>1 DEF CallInv, OutcomeInv
  <2>2. Cardinality(out) = 0 /\ Cardinality(found) = 0
    BY <2>1, FS_EmptySet
  <2>3. ~ Enough'
    BY <1>1, <2>2 DEF Enough, ArgumentsOK
  <2>. QED BY <1>1, <1>2, <1>3, <1>4, <1>5, <2>1, <2>2, <2>3 DEF ReturnInv, ArgumentsOK
<1>. QED BY <1>6, <1>7, <1>8, <1>9, <1>10 DEF CallInv

\* Every open task is cancelled, and none joins those that hold a slot.
LEMMA CancelKeeps ==
    ASSUME CallInv, CancelAll,
           stage \in {"called", "probing", "stopping"},
           \/ stage' = "interrupted"
           \/ stage' = "stopping" /\ stage = "probing" /\ Enough,
           UNCHANGED <<settings, late, out, countVars, checked, found, procs, mute>>
    PROVE  CallInv'
<1>1. /\ TypeOK /\ settings' = settings /\ late' = late /\ out' = out
      /\ passes' = passes /\ fails' = fails /\ proxied' = proxied /\ dialled' = dialled
      /\ checked' = checked /\ found' = found /\ procs' = procs /\ mute' = mute
  BY DEF CallInv, countVars
<1>2. /\ pc' \in [Configs -> {"waiting"} \cup Running \cup Over]
      /\ answer' \in [Configs -> Verdict \cup {"cancelled"}]
      /\ verdict' \in [Configs -> Verdict]
  BY <1>1 DEF CancelAll, TypeOK, Running, Over, Verdict
<1>3. \A c \in Configs :
         /\ pc[c] \in Over => pc'[c] = pc[c] /\ answer'[c] = answer[c]
         /\ pc[c] \notin Over /\ c \in procs =>
               pc'[c] = "closing" /\ answer'[c] = "cancelled"
         /\ pc[c] \notin Over /\ c \notin procs =>
               pc'[c] = "cancelled" /\ answer'[c] = answer[c]
         /\ verdict'[c] = IF ~ Launches /\ pc[c] = "serving" THEN "none" ELSE verdict[c]
  BY <1>1 DEF CancelAll, MustReap, TypeOK
<1>4. Enough' = Enough /\ Launches' = Launches
  BY <1>1 DEF Enough, Launches
<1>5. TypeOK'
  BY <1>1, <1>2 DEF TypeOK
<1>6. CountInv'
  BY <1>1, <1>3 DEF CallInv, CountInv, ProcInv, FailuresAllowed, Running, Over
<1>7. ProcInv'
  <2>1. Holders' \subseteq Holders
    BY <1>3 DEF CallInv, ProcInv, Holders, Running, Over
  <2>. QED BY <1>1, <1>3, <1>4, <2>1, SlotsAreGivenBack
           DEF CallInv, ProcInv, Running, Over, Ended
<1>8. OutcomeInv'
  <2>1. CASE stage' = "interrupted"
    BY <2>1 DEF OutcomeInv, Returning
  <2>2. CASE stage' = "stopping" /\ stage = "probing" /\ Enough
    BY <1>1, <1>3, <1>4, <2>2
       DEF CallInv, OutcomeInv, ProcInv, FailuresAllowed, Returning, Running, Over
  <2>. QED BY <2>1, <2>2
<1>9. ReturnInv'
  BY DEF ReturnInv
<1>. QED BY <1>5, <1>6, <1>7, <1>8, <1>9 DEF CallInv

LEMMA ReturnKeeps ==
    ASSUME CallInv, Return
    PROVE  CallInv'
<1>1. /\ TypeOK /\ ArgumentsOK /\ stage \in {"probing", "stopping"} /\ stage' = "returned"
      /\ settings' = settings /\ late' = late
      /\ passes' = passes /\ fails' = fails /\ proxied' = proxied /\ dialled' = dialled
      /\ pc' = pc /\ answer' = answer /\ found' = found /\ procs' = procs /\ mute' = mute
      /\ \A c \in Configs : pc[c] \in Over
      /\ out' \in Trimmed
  BY Arguments DEF CallInv, Return, AllOver, countVars
<1>2. /\ verdict' \in [Configs -> Verdict] /\ checked' \in [Configs -> BOOLEAN]
      /\ \A c \in Configs :
            /\ verdict'[c] = IF pc[c] = "cancelled" THEN "none" ELSE verdict[c]
            /\ checked'[c] = (pc[c] # "cancelled" /\ checked[c])
  BY <1>1 DEF Return, TypeOK, Verdict
<1>3. Enough' = Enough /\ Launches' = Launches
  BY <1>1 DEF Enough, Launches
<1>4. /\ out' \subseteq found
      /\ settings.cap > 0 => Cardinality(out') <= settings.cap
      /\ out' # found => settings.cap > 0 /\ Cardinality(out') = settings.cap
      /\ Enough => Cardinality(out') = settings.cap
  <2>1. Cardinality(found) \in Nat /\ settings.cap \in Nat
    BY <1>1, SubsetsAreFinite DEF TypeOK, ArgumentsOK
  <2>. QED BY <1>1, <2>1 DEF Trimmed, Enough
<1>5. TypeOK'
  BY <1>1, <1>2, <1>4 DEF TypeOK, Ended
<1>6. CountInv'
  BY <1>1 DEF CallInv, CountInv, FailuresAllowed
<1>7. ProcInv'
  <2>1. Holders' \subseteq Holders
    BY <1>1 DEF Holders
  <2>. QED BY <1>1, <1>3, <2>1, SlotsAreGivenBack
           DEF CallInv, ProcInv, Running, Over
<1>8. OutcomeInv'
  BY <1>1, <1>2, <1>3
     DEF CallInv, OutcomeInv, FailuresAllowed, Returning, Running, Over
<1>9. ReturnInv'
  BY <1>1, <1>2, <1>3, <1>4 DEF ReturnInv, Over
<1>. QED BY <1>5, <1>6, <1>7, <1>8, <1>9 DEF CallInv

\* The deadline, and the cancellation that leaves the call once all is over.
LEMMA ClockKeeps ==
    ASSUME CallInv, DeadlinePasses \/ Propagate
    PROVE  CallInv'
<1>1. /\ TypeOK /\ settings' = settings /\ out' = out /\ late' \in BOOLEAN /\ (late => late')
      /\ passes' = passes /\ fails' = fails /\ proxied' = proxied /\ dialled' = dialled
      /\ pc' = pc /\ answer' = answer /\ verdict' = verdict /\ checked' = checked
      /\ found' = found /\ procs' = procs /\ mute' = mute
      /\ \/ stage' = stage /\ stage \notin Ended
         \/ /\ stage' = "raised" /\ stage = "interrupted"
            /\ \A c \in Configs : pc[c] \in Over
  BY DEF CallInv, DeadlinePasses, Propagate, AllOver, taskVars, countVars, TypeOK
<1>2. Enough' = Enough /\ Launches' = Launches
  BY <1>1 DEF Enough, Launches
<1>3. TypeOK'
  BY <1>1 DEF TypeOK, Ended
<1>4. CountInv'
  BY <1>1 DEF CallInv, CountInv, FailuresAllowed
<1>5. ProcInv'
  <2>1. Holders' \subseteq Holders
    BY <1>1 DEF Holders
  <2>. QED BY <1>1, <1>2, <2>1, SlotsAreGivenBack
           DEF CallInv, ProcInv, Running, Over, Ended
<1>6. OutcomeInv'
  BY <1>1, <1>2 DEF CallInv, OutcomeInv, FailuresAllowed, Returning
<1>7. ReturnInv'
  BY <1>1 DEF ReturnInv, Ended
<1>. QED BY <1>3, <1>4, <1>5, <1>6, <1>7 DEF CallInv
-----------------------------------------------------------------------------
(* The theorems.                                                           *)

LEMMA NextKeeps == CallInv /\ [Next]_vars => CallInv'
<1>. SUFFICES ASSUME CallInv, [Next]_vars PROVE CallInv'
  OBVIOUS
<1>1. CASE Call
  BY <1>1, CallKeeps
<1>2. CASE Stop
  BY <1>2, CancelKeeps DEF Stop
<1>3. CASE Return
  BY <1>3, ReturnKeeps
<1>4. CASE Propagate \/ DeadlinePasses
  BY <1>4, ClockKeeps
<1>5. CASE Interrupt
  BY <1>5, CancelKeeps DEF Interrupt
<1>6. ASSUME NEW c \in Configs, Task(c)
      PROVE  CallInv'
  BY <1>6, EnterKeeps, LaunchKeeps, AnswerKeeps, RaiseKeeps, DecisionKeeps
     DEF Task, Verdict
<1>7. CASE UNCHANGED vars
  BY <1>7 DEF vars, callVars, countVars, taskVars, CallInv, TypeOK, CountInv, ProcInv,
              OutcomeInv, ReturnInv, Enough, Launches, FailuresAllowed, Holders
<1>. QED BY <1>1, <1>2, <1>3, <1>4, <1>5, <1>6, <1>7 DEF Next, Proceed

LEMMA CallInvariant == Spec => []CallInv
BY BeginningHolds, NextKeeps, PTL DEF Spec

\* However attempts, faults, the deadline and cancellations are interleaved, the
\* state of a call keeps its type: no counter passes the attempts or the proxies
\* it counts (xray_probe.py:1466-1597).
THEOREM TypeCorrect == Spec => []TypeOK
<1>1. CallInv => TypeOK
  BY DEF CallInv
<1>. QED BY CallInvariant, <1>1, PTL

\* A call that returns delivers what ProbeOutcome allows, each verdict with the
\* attempts it needs, whatever was refused, stopped, late or in error
\* (xray_probe.py:1449-1749; the three other validators likewise).
THEOREM PromiseKept == Spec => []Delivers
<1>1. CallInv => Delivers
  <2>. SUFFICES ASSUME CallInv, stage = "returned" PROVE Delivers
    BY DEF Delivers
  <2>1. TypeOK
    BY DEF CallInv
  <2>2. \A c \in Configs : pc[c] # "finished" => verdict[c] = "none" /\ ~ checked[c]
    BY DEF CallInv, ReturnInv
  <2>3. found = {c \in Configs : verdict[c] = "pass"}
    BY <2>1, <2>2 DEF CallInv, OutcomeInv, Returning, TypeOK
  <2>4. [verdict |-> verdict, out |-> out] \in Deliveries(Configs, settings.cap)
    BY <2>1, <2>3 DEF CallInv, ReturnInv, TypeOK, Deliveries
  <2>5. Launches => \A c \in Configs : checked[c] <=> verdict[c] # "none"
    BY <2>1, <2>2 DEF CallInv, OutcomeInv, Returning, TypeOK
  <2>6. \A c \in Configs :
           /\ verdict[c] = "pass" => /\ passes[c] = settings.required
                                     /\ proxied[c] = settings.viaProxies
           /\ verdict[c] = "fail" => \/ fails[c] > FailuresAllowed(c)
                                     \/ proxied[c] < settings.viaProxies
    BY <2>2 DEF CallInv, OutcomeInv, Returning
  <2>. QED BY <2>4, <2>5, <2>6 DEF Delivers
<1>. QED BY CallInvariant, <1>1, PTL

\* No process outlives its call, cancelled or not, and those that run never take
\* more than their slots (xray_probe.py:1253-1282, singbox_probe.py:406-432).
THEOREM ProcessesEnd == Spec => []NothingLeftBehind
<1>1. CallInv => NothingLeftBehind
  <2>. SUFFICES ASSUME CallInv PROVE NothingLeftBehind
    OBVIOUS
  <2>1. procs \subseteq Holders /\ Holders \in SUBSET Configs /\ procs \in SUBSET Configs
    BY DEF CallInv, TypeOK, ProcInv, Holders, Running
  <2>2. Cardinality(procs) <= Cardinality(Holders)
    BY <2>1, SubsetsAreFinite, FS_Subset
  <2>3. Cardinality(procs) \in Nat /\ Cardinality(Holders) \in Nat /\ settings.slots \in Nat
    BY <2>1, SubsetsAreFinite, Arguments DEF CallInv, ArgumentsOK
  <2>4. Cardinality(procs) <= settings.slots
    BY <2>2, <2>3 DEF CallInv, ProcInv
  <2>5. stage \in Ended => procs = {}
    BY <2>1 DEF CallInv, ProcInv, Running
  <2>. QED BY <2>4, <2>5 DEF NothingLeftBehind
<1>. QED BY CallInvariant, <1>1, PTL

\* A call that was not late and has room left judged every config it could,
\* whatever the order in which the semaphore let them in (xray_probe.py:1449-1465).
THEOREM EveryConfigJudged == Spec => []NobodyForgotten
<1>1. CallInv => NobodyForgotten
  <2>. SUFFICES ASSUME CallInv, stage = "returned", ~ late, ~ Full, NEW c \in Configs,
                       verdict[c] = "none"
                PROVE  c \in mute
    BY DEF NobodyForgotten
  <2>1. ~ Enough
    BY DEF CallInv, ReturnInv, Full, Enough
  <2>2. pc[c] \in {"waiting", "finished", "cancelled"}
    BY DEF CallInv, TypeOK, ProcInv, Ended, Over
  <2>. QED BY <2>1, <2>2 DEF CallInv, OutcomeInv, ReturnInv, Returning
<1>. QED BY CallInvariant, <1>1, PTL
=============================================================================
