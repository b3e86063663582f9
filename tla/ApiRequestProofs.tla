-------------------------- MODULE ApiRequestProofs --------------------------
(***************************************************************************)
(* Proofs about ApiRequest, for any jobs, sources and limits.              *)
(***************************************************************************)
EXTENDS ApiRequest, TLAPS

\* The loops a job can be in.
LoopsOf(kind) ==
    CASE kind = "listing" -> {"api"}
      [] kind = "file" -> {"api", "raw"}
      [] OTHER -> {kind}

\* A loop asks again after a transient answer, within its attempts; the API loop
\* waits out one limit first, and one 502 to 504.
LoopInv ==
    /\ job \in Jobs
    /\ loop \in LoopsOf(job.kind)
    /\ log \in Seq(Transient)
    /\ loop = "api" => Len(log) <= 2 /\ (Len(log) = 2 => log[2] = "down")
    /\ loop # "api" => Len(log) <= job.attempts - 1
    /\ job.kind = "file" /\ result = "limited" => loop = "raw"

\* A message that may have been taken ends the job.
MessageInv ==
    /\ accepted \in {0, 1}
    /\ accepted = 1 => job.kind = "message" /\ phase = "done"
    /\ noted \in BOOLEAN /\ (noted => accepted = 1)

ApiInv == LoopInv /\ MessageInv
-----------------------------------------------------------------------------
\* The first loop of a job is one of its loops.
LEMMA FirstLoopType == \A kind \in Kinds : FirstLoop(kind) \in LoopsOf(kind)
BY DEF Kinds, FirstLoop, LoopsOf

\* An answer that is asked again leaves a log the loop may have.
LEMMA AgainKeeps ==
    ASSUME LoopInv, NEW a \in Answers, Again(a), log' = Append(log, a),
           UNCHANGED <<job, loop, result>>
    PROVE  LoopInv'
<1>0. job.attempts \in Nat \ {0} /\ Len(log) \in Nat
  BY JobsAssumption DEF LoopInv
<1>1. CASE loop = "api"
  <2>1. ApiAgain(a)
    BY <1>1 DEF Again
  <2>2. CASE a = "flood" /\ log = <<>>
    <3>1. log' \in Seq(Transient) /\ Len(log') = 1
      BY <2>2 DEF Transient
    <3>. QED BY <1>1, <3>1 DEF LoopInv
  <2>3. CASE a = "down" /\ "down" \notin ToSet(log)
    <3>1. Len(log) # 2
      <4>1. ASSUME Len(log) = 2 PROVE FALSE
        <5>1. 2 \in DOMAIN log /\ log[2] = "down"
          BY <1>1, <4>1 DEF LoopInv
        <5>. QED BY <5>1, <2>3 DEF ToSet
      <4>. QED BY <4>1
    <3>2. /\ log' \in Seq(Transient) /\ Len(log') = Len(log) + 1
          /\ log'[Len(log) + 1] = "down"
      BY <2>3 DEF LoopInv, Transient
    <3>3. Len(log) <= 2
      BY <1>1 DEF LoopInv
    <3>4. Len(log') <= 2 /\ (Len(log') = 2 => log'[2] = "down")
      <4>1. PICK k \in Nat : Len(log) = k
        BY <1>0
      <4>2. k = 0 \/ k = 1
        BY <4>1, <3>1, <3>3
      <4>. QED BY <4>1, <4>2, <3>2
    <3>. QED BY <1>1, <3>2, <3>4 DEF LoopInv
  <2>. QED BY <2>1, <2>2, <2>3 DEF ApiAgain
<1>2. CASE loop # "api"
  <2>1. a \in Retried[loop] /\ Len(log) + 1 < job.attempts
    BY <1>2 DEF Again
  <2>2. loop \in {"raw", "direct", "llm", "message"}
    BY <1>2, JobsAssumption DEF LoopInv, LoopsOf, Kinds
  <2>3. a \in Transient
    BY <2>1, <2>2 DEF Retried
  <2>4. log' \in Seq(Transient) /\ Len(log') = Len(log) + 1
    BY <2>3 DEF LoopInv
  <2>. QED BY <1>0, <1>2, <2>1, <2>4 DEF LoopInv
<1>. QED BY <1>1, <1>2

\* The end of a loop ends the job, or sends a file to the raw host.
LEMMA EndLoopKeeps ==
    ASSUME LoopInv, NEW r, EndLoop(r), UNCHANGED job
    PROVE  LoopInv'
<1>1. job.attempts \in Nat \ {0}
  BY JobsAssumption DEF LoopInv
<1>2. CASE job.kind = "file" /\ loop = "api" /\ r \in {"limited", "bare"}
  <2>1. loop' = "raw" /\ log' = <<>> /\ UNCHANGED result
    BY <1>2 DEF EndLoop
  <2>. QED BY <1>1, <1>2, <2>1 DEF LoopInv, LoopsOf
<1>3. CASE ~ (job.kind = "file" /\ loop = "api" /\ r \in {"limited", "bare"})
  <2>1. /\ result' = IF fallback /\ r = "raised" THEN "empty" ELSE r
        /\ UNCHANGED <<loop, log>>
    BY <1>3 DEF EndLoop
  <2>2. job.kind = "file" /\ result' = "limited" => loop = "raw"
    BY <1>3, <2>1 DEF LoopInv, LoopsOf
  <2>. QED BY <2>1, <2>2 DEF LoopInv
<1>. QED BY <1>2, <1>3

LEMMA AnsweredKeeps ==
    ASSUME LoopInv, NEW a \in Answers, Answered(a), UNCHANGED job
    PROVE  LoopInv'
<1>1. CASE Again(a)
  BY <1>1, AgainKeeps DEF Answered
<1>2. CASE ~ Again(a)
  BY <1>2, EndLoopKeeps DEF Answered
<1>. QED BY <1>1, <1>2

\* A message that may have been taken, and any answer that ends its loop, ends the
\* job; only a slow one may have been taken unseen.
LEMMA SendKeepsMessage ==
    ASSUME ApiInv, NEW a \in Answers, Send(a)
    PROVE  MessageInv'
<1>1. /\ phase = "send" /\ accepted = 0 /\ noted = FALSE /\ UNCHANGED job
      /\ Answered(a)
  BY DEF Send, ApiInv, MessageInv
<1>2. CASE loop # "message"
  <2>1. PICK took \in {0, 1} :
          accepted' = accepted + (IF loop = "message" THEN took ELSE 0)
    BY <1>2 DEF Send
  <2>2. accepted' = 0
    BY <1>1, <1>2, <2>1
  <2>3. noted' \in BOOLEAN /\ ~ noted'
    BY <1>1, <1>2 DEF Send
  <2>. QED BY <2>2, <2>3 DEF MessageInv
<1>3. CASE loop = "message" /\ a \in {"ok", "slow"}
  <2>1. job.kind = "message"
    BY <1>3, JobsAssumption DEF ApiInv, LoopInv, LoopsOf, Kinds
  <2>2. ~ Again(a)
    BY <1>3 DEF Again, Retried, Transient
  <2>3. phase' = "done"
    BY <1>1, <2>1, <2>2 DEF Answered, EndLoop
  <2>4. accepted' \in {0, 1} /\ (a = "ok" => accepted' = 1)
        /\ noted' = (a = "ok")
    BY <1>1, <1>3 DEF Send
  <2>. QED BY <1>1, <2>1, <2>3, <2>4 DEF MessageInv
<1>4. CASE loop = "message" /\ a \notin {"ok", "slow"}
  <2>1. PICK took \in {0, 1} :
          accepted' = accepted + (IF loop = "message" THEN took ELSE 0)
          /\ took = 0
    BY <1>4 DEF Send
  <2>2. accepted' = 0
    BY <1>1, <1>4, <2>1
  <2>3. noted' \in BOOLEAN /\ ~ noted'
    BY <1>1, <1>4 DEF Send
  <2>. QED BY <2>2, <2>3 DEF MessageInv
<1>. QED BY <1>2, <1>3, <1>4

LEMMA SendKeeps ==
    ASSUME ApiInv, NEW a \in Answers, Send(a)
    PROVE  ApiInv'
<1>1. LoopInv'
  BY AnsweredKeeps DEF Send, ApiInv
<1>. QED BY <1>1, SendKeepsMessage DEF ApiInv

\* A step that asks nothing leaves the log alone, and ends no job as limited.
LEMMA QuietSteps ==
    ASSUME ApiInv, UNCHANGED <<job, loop, log, accepted, noted>>,
           result' \in {result, "raised", "empty", "none"},
           job.kind = "message" => phase # "done" \/ phase' = "done"
    PROVE  ApiInv'
BY DEF ApiInv, LoopInv, MessageInv

LEMMA ConnectKeeps ==
    ASSUME ApiInv, NEW a \in Answers, Connect(a)
    PROVE  ApiInv'
<1>1. /\ loop = "direct" /\ accepted = 0
      /\ UNCHANGED <<job, accepted, noted>>
  BY DEF Connect, ApiInv, MessageInv, tgVars
<1>2. CASE a = "network" /\ addresses > 1
  BY <1>1, <1>2 DEF Connect, ApiInv, LoopInv, MessageInv
<1>3. CASE ~ (a = "network" /\ addresses > 1)
  <2>1. LoopInv'
    BY <1>1, <1>3, AnsweredKeeps DEF Connect, ApiInv
  <2>. QED BY <1>1, <2>1 DEF ApiInv, MessageInv
<1>. QED BY <1>2, <1>3

LEMMA ResolveKeeps == ApiInv /\ Resolve => ApiInv'
<1>. SUFFICES ASSUME ApiInv, Resolve PROVE ApiInv'
  OBVIOUS
<1>1. accepted = 0 /\ UNCHANGED <<job, loop, accepted, noted>>
  BY DEF Resolve, ApiInv, MessageInv, tgVars
<1>2. CASE Answered("slow")
  <2>1. LoopInv'
    BY <1>1, <1>2, AnsweredKeeps DEF ApiInv, Answers
  <2>. QED BY <1>1, <2>1 DEF ApiInv, MessageInv
<1>3. CASE ~ Answered("slow")
  <2>1. UNCHANGED log /\ result' \in {result, "raised"} /\ phase = "resolve"
    BY <1>3 DEF Resolve
  <2>. QED BY <1>1, <2>1, QuietSteps
<1>. QED BY <1>2, <1>3

\* A file the LLM reads starts a log of its own.
LEMMA NextFileKeeps ==
    ASSUME ApiInv, NEW s \in Sources, NextFile(s)
    PROVE  ApiInv'
<1>1. /\ job.kind = "llm" /\ log' = <<>>
      /\ UNCHANGED <<job, loop, result, accepted, noted>>
  BY DEF NextFile, tgVars
<1>2. job.attempts \in Nat \ {0}
  BY JobsAssumption DEF ApiInv, LoopInv
<1>. QED BY <1>1, <1>2 DEF ApiInv, LoopInv, MessageInv
-----------------------------------------------------------------------------
LEMMA InitApi == Init => ApiInv
<1>. SUFFICES ASSUME Init PROVE ApiInv
  OBVIOUS
<1>1. job \in Jobs /\ job.kind \in Kinds /\ job.attempts \in Nat \ {0}
  BY JobsAssumption DEF Init
<1>2. loop \in LoopsOf(job.kind) /\ log = <<>> /\ result = "none"
  BY <1>1, FirstLoopType DEF Init
<1>3. LoopInv
  BY <1>1, <1>2 DEF LoopInv
<1>4. accepted = 0
  BY DEF Init
<1>5. noted \in BOOLEAN /\ ~ noted
  BY DEF Init
<1>6. MessageInv
  BY <1>4, <1>5 DEF MessageInv
<1>. QED BY <1>3, <1>6 DEF ApiInv

\* ApiInv is an invariant, action by action.
LEMMA ApiStep == ApiInv /\ [Next]_vars => ApiInv'
<1>. SUFFICES ASSUME ApiInv, [Next]_vars PROVE ApiInv'
  OBVIOUS
<1>1. CASE Start \/ Pause
  BY <1>1, QuietSteps DEF Start, Pause, Begin, tgVars
<1>2. CASE Resolve
  BY <1>2, ResolveKeeps
<1>3. CASE Redirect \/ Withheld
  BY <1>3, QuietSteps DEF Redirect, Withheld, tgVars
<1>4. CASE Charge
  BY <1>4, QuietSteps DEF Charge, tgVars
<1>5. ASSUME NEW a \in Answers, Send(a) \/ Connect(a)
      PROVE  ApiInv'
  BY <1>5, SendKeeps, ConnectKeeps
<1>6. ASSUME NEW s \in Sources, NextFile(s)
      PROVE  ApiInv'
  BY <1>6, NextFileKeeps
<1>7. CASE UNCHANGED vars
  BY <1>7 DEF vars, loopVars, tgVars, ApiInv, LoopInv, MessageInv
<1>. QED BY <1>1, <1>2, <1>3, <1>4, <1>5, <1>6, <1>7 DEF Next

LEMMA ApiInvariant == Spec => []ApiInv
BY InitApi, ApiStep, PTL DEF Spec

\* Whatever is retried (telegram.py:567-642), the message is taken once at most and
\* its fact recorded only when it was.
THEOREM MessageTakenOnce == Spec => []MessageOnce
<1>1. ApiInv => MessageOnce
  BY DEF ApiInv, MessageInv, MessageOnce
<1>. QED BY ApiInvariant, <1>1, PTL

\* No loop asks again after an answer that is final, or beyond its attempts, and
\* fetch_file gives a limited file up only after the raw host was asked.
THEOREM LoopsAreBounded == Spec => []AskedAsOftenAsNeeded
<1>1. ApiInv => AskedAsOftenAsNeeded
  <2>. SUFFICES ASSUME ApiInv PROVE AskedAsOftenAsNeeded
    OBVIOUS
  <2>1. ToSet(log) \subseteq Transient
    BY DEF ApiInv, LoopInv, ToSet
  <2>2. loop = "api" => Len(log) <= 2
    BY DEF ApiInv, LoopInv
  <2>. QED BY <2>1, <2>2 DEF ApiInv, LoopInv, AskedAsOftenAsNeeded
<1>. QED BY ApiInvariant, <1>1, PTL
-----------------------------------------------------------------------------
(* The budgets of the files the LLM reads.                                  *)

Ceilings ==
    /\ sent < MaxCalls + job.attempts
    /\ MaxPerSource > 0 => \A s \in Sources : posts[s] < MaxPerSource + job.attempts

\* Between two files every POST is counted; the POSTs of the file that is read
\* are not yet, and there was budget for it when it began.
CountInv ==
    /\ before <= sent
    /\ \A s \in Sources \ {source} : posts[s] <= charged[s]
    /\ phase = "idle" => sent <= made /\ posts[source] <= charged[source]
    /\ phase # "idle" =>
          /\ before <= made /\ made < MaxCalls
          /\ posts[source] - (sent - before) <= charged[source]
          /\ MaxPerSource > 0 => charged[source] < MaxPerSource
    /\ phase \in {"send", "pause"} => sent - before = Len(log)
    /\ phase = "done" => sent - before <= job.attempts

LlmType ==
    /\ {sent, before, made} \subseteq Nat
    /\ source \in Sources
    /\ posts \in [Sources -> Nat] /\ charged \in [Sources -> Nat]
    /\ phase \in {"idle", "send", "pause", "done"}

BudgetInv == job.kind = "llm" => LlmType /\ CountInv /\ Ceilings

LEMMA InitBudget == Init => BudgetInv
<1>. SUFFICES ASSUME Init, job.kind = "llm" PROVE LlmType /\ CountInv /\ Ceilings
  BY DEF BudgetInv
<1>1. job.attempts \in Nat \ {0} /\ MaxCalls \in Nat /\ MaxPerSource \in Nat
  BY JobsAssumption DEF Init
<1>2. \A s \in Sources : posts[s] = 0 /\ charged[s] = 0
  BY DEF Init
<1>3. sent = 0 /\ before = 0 /\ made = 0 /\ phase = "idle" /\ source \in Sources
  BY DEF Init
<1>4. LlmType
  BY <1>3 DEF Init, LlmType
<1>5. CountInv
  BY <1>2, <1>3 DEF CountInv
<1>6. Ceilings
  BY <1>1, <1>2, <1>3 DEF Ceilings
<1>. QED BY <1>4, <1>5, <1>6

\* A POST of the file that is read, and the answer to it.
LEMMA PostKeepsBudget ==
    ASSUME LoopInv, LlmType, CountInv, Ceilings, job.kind = "llm",
           NEW a \in Answers, Send(a)
    PROVE  LlmType' /\ CountInv' /\ Ceilings'
<1>1. /\ loop = "llm" /\ job.attempts \in Nat \ {0}
      /\ Len(log) \in Nat /\ Len(log) <= job.attempts - 1
      /\ MaxCalls \in Nat /\ MaxPerSource \in Nat
  BY JobsAssumption DEF LoopInv, LoopsOf
<1>2. /\ phase = "send" /\ sent' = sent + 1
      /\ posts' = [posts EXCEPT ![source] = posts[source] + 1]
      /\ UNCHANGED <<job, source, charged, before, made>>
  BY <1>1 DEF Send, hopVars
<1>3. \/ phase' = "pause" /\ log' = Append(log, a)
      \/ phase' = "done"
  BY <1>1 DEF Send, Answered, EndLoop
<1>4. phase' = "pause" => Len(log') = Len(log) + 1
  BY <1>3 DEF LoopInv
<1>5. /\ \A s \in Sources \ {source} : posts'[s] = posts[s]
      /\ posts'[source] = posts[source] + 1 /\ posts' \in [Sources -> Nat]
  BY <1>2 DEF LlmType
<1>6. LlmType'
  BY <1>2, <1>3, <1>5 DEF LlmType
<1>7. /\ sent - before = Len(log) /\ before <= made /\ made < MaxCalls
      /\ posts[source] - (sent - before) <= charged[source]
      /\ MaxPerSource > 0 => charged[source] < MaxPerSource
      /\ \A s \in Sources \ {source} : posts[s] <= charged[s]
  BY <1>2 DEF CountInv
<1>8. /\ {sent, before, made, posts[source], charged[source]} \subseteq Nat
  BY DEF LlmType
<1>9. CountInv'
  <2>1. before' <= sent' /\ sent' - before' = Len(log) + 1
    BY <1>2, <1>7, <1>8
  <2>2. posts'[source] - (sent' - before') <= charged'[source]
    BY <1>1, <1>2, <1>5, <1>7, <1>8
  <2>3. sent' - before' <= job.attempts
    BY <1>1, <2>1
  <2>. QED BY <1>2, <1>3, <1>4, <1>5, <1>7, <2>1, <2>2, <2>3 DEF CountInv
<1>10. Ceilings'
  <2>1. sent' < MaxCalls + job.attempts
    BY <1>1, <1>2, <1>7, <1>8
  <2>2. MaxPerSource > 0 => posts'[source] < MaxPerSource + job.attempts
    BY <1>1, <1>5, <1>7, <1>8
  <2>. QED BY <1>2, <1>5, <2>1, <2>2 DEF Ceilings
<1>. QED BY <1>6, <1>9, <1>10

\* A file begins while every POST is counted and both ceilings are ahead.
LEMMA NextFileKeepsBudget ==
    ASSUME LlmType, CountInv, Ceilings, NEW s \in Sources, NextFile(s)
    PROVE  LlmType' /\ CountInv' /\ Ceilings'
<1>1. /\ phase = "idle" /\ source' = s /\ log' = <<>>
      /\ UNCHANGED <<job, posts, charged, sent, made>>
      /\ \/ /\ made < MaxCalls /\ phase' = "send" /\ before' = sent
            /\ MaxPerSource = 0 \/ charged[s] < MaxPerSource
         \/ UNCHANGED <<phase, before>>
  BY DEF NextFile, MayCall
<1>2. LlmType'
  BY <1>1 DEF LlmType
<1>3. sent <= made /\ \A t \in Sources : posts[t] <= charged[t]
  BY <1>1 DEF CountInv
<1>4. /\ {sent, before, made} \subseteq Nat /\ Len(<<>>) = 0
      /\ \A t \in Sources : posts[t] \in Nat /\ charged[t] \in Nat
  BY DEF LlmType
<1>5. CountInv'
  <2>1. CASE /\ made < MaxCalls /\ phase' = "send" /\ before' = sent
             /\ MaxPerSource = 0 \/ charged[s] < MaxPerSource
    BY <1>1, <1>3, <1>4, <2>1, JobsAssumption DEF CountInv
  <2>2. CASE UNCHANGED <<phase, before>>
    BY <1>1, <1>3, <1>4, <2>2 DEF CountInv
  <2>. QED BY <1>1, <2>1, <2>2
<1>6. Ceilings'
  BY <1>1 DEF Ceilings
<1>. QED BY <1>2, <1>5, <1>6

\* The POSTs of the file are counted, at least one.
LEMMA ChargeKeepsBudget ==
    ASSUME LlmType, CountInv, Ceilings, Charge
    PROVE  LlmType' /\ CountInv' /\ Ceilings'
<1>1. /\ phase = "done" /\ phase' = "idle" /\ made' = made + Spent
      /\ charged' = [charged EXCEPT ![source] = charged[source] + Spent]
      /\ UNCHANGED <<job, source, posts, sent, before>>
  BY DEF Charge
<1>2. /\ before <= sent /\ before <= made
      /\ posts[source] - (sent - before) <= charged[source]
      /\ \A s \in Sources \ {source} : posts[s] <= charged[s]
  BY <1>1 DEF CountInv
<1>3. {sent, before, made, posts[source], charged[source]} \subseteq Nat
  BY DEF LlmType
<1>4. Spent \in Nat /\ sent - before <= Spent
  BY <1>2, <1>3 DEF Spent
<1>5. /\ charged' \in [Sources -> Nat] /\ charged'[source] = charged[source] + Spent
      /\ \A s \in Sources \ {source} : charged'[s] = charged[s]
  BY <1>1, <1>4 DEF LlmType
<1>6. LlmType'
  BY <1>1, <1>4, <1>5 DEF LlmType
<1>7. sent' <= made' /\ posts'[source] <= charged'[source]
  BY <1>1, <1>2, <1>3, <1>4, <1>5
<1>8. CountInv'
  BY <1>1, <1>2, <1>5, <1>7 DEF CountInv
<1>9. Ceilings'
  BY <1>1 DEF Ceilings
<1>. QED BY <1>6, <1>8, <1>9

\* BudgetInv is an invariant, action by action.
LEMMA BudgetStep == LoopInv /\ BudgetInv /\ [Next]_vars => BudgetInv'
<1>. SUFFICES ASSUME LoopInv, BudgetInv, [Next]_vars, job'.kind = "llm"
              PROVE  LlmType' /\ CountInv' /\ Ceilings'
  BY DEF BudgetInv
<1>1. UNCHANGED job
  BY DEF Next, Start, Pause, Resolve, Redirect, Withheld, Charge, Send, Connect,
         NextFile, vars, loopVars
<1>2. LlmType /\ CountInv /\ Ceilings /\ job.kind = "llm" /\ loop = "llm"
  BY <1>1 DEF BudgetInv, LoopInv, LoopsOf
<1>3. CASE Pause
  <2>1. /\ phase = "pause" /\ phase' = "send"
        /\ UNCHANGED <<job, log, source, posts, charged, sent, before, made>>
    BY <1>2, <1>3 DEF Pause, Begin, llmVars
  <2>. QED BY <1>2, <2>1 DEF LlmType, CountInv, Ceilings
<1>4. CASE Withheld
  <2>1. /\ phase = "send" /\ phase' = "done" /\ log = <<>>
        /\ UNCHANGED <<job, log, source, posts, charged, sent, before, made>>
    BY <1>4 DEF Withheld, llmVars
  <2>2. sent - before = 0
    BY <1>2, <2>1 DEF CountInv
  <2>3. sent - before <= job.attempts
    BY <1>2, <2>2, JobsAssumption DEF LoopInv
  <2>. QED BY <1>2, <2>1, <2>3 DEF LlmType, CountInv, Ceilings
<1>5. CASE Charge
  BY <1>2, <1>5, ChargeKeepsBudget
<1>6. ASSUME NEW a \in Answers, Send(a)
      PROVE  LlmType' /\ CountInv' /\ Ceilings'
  BY <1>2, <1>6, PostKeepsBudget
<1>7. ASSUME NEW s \in Sources, NextFile(s)
      PROVE  LlmType' /\ CountInv' /\ Ceilings'
  BY <1>2, <1>7, NextFileKeepsBudget
<1>8. CASE UNCHANGED vars
  BY <1>2, <1>8 DEF vars, loopVars, llmVars, LlmType, CountInv, Ceilings
<1>9. ~ (Start \/ Resolve \/ Redirect \/ \E a \in Answers : Connect(a))
  BY <1>2 DEF Start, Resolve, Redirect, Connect, LlmType
<1>. QED BY <1>3, <1>4, <1>5, <1>6, <1>7, <1>8, <1>9 DEF Next

\* The POSTs that are paid for stay below their ceilings, for the run and for each
\* source, but for the retries of one file (parse.py:432-518): http_attempts is
\* read before and after, so no POST escapes the counts.
THEOREM PaymentIsBounded == Spec => []PaidWithinBudget
<1>1. BudgetInv => PaidWithinBudget
  BY DEF BudgetInv, Ceilings, PaidWithinBudget
<1>2. ApiInv => LoopInv
  BY DEF ApiInv
<1>. QED BY ApiInvariant, InitBudget, BudgetStep, <1>1, <1>2, PTL DEF Spec
=============================================================================
