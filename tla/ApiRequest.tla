---------------------------- MODULE ApiRequest -----------------------------
(***************************************************************************)
(* The requests of the program to services it does not control, and what   *)
(* it does with each answer: GitHubClient._request, fetch_raw_file and     *)
(* fetch_file, which composes them; SourceManager._fetch_direct_url with   *)
(* its redirects and pinned addresses; LLMFallbackParser._call_api under   *)
(* the budgets of LinkParser.llm_fallback; and _send_telegram.             *)
(***************************************************************************)
EXTENDS Integers, Sequences, SequencesExt

CONSTANTS
    Jobs,          \* what is asked for, records [kind, attempts]
    Sources,       \* whose files the LLM reads
    MaxFiles,      \* files read, a bound of the model
    MaxCalls,      \* llm.max_calls_per_run
    MaxPerSource,  \* llm.max_calls_per_source, 0 for no limit
    MaxAddresses,  \* _MAX_PINNED_ADDRESSES
    MaxHops        \* _MAX_REDIRECT_HOPS

Kinds == {"listing", "file", "raw", "direct", "llm", "message"}

ASSUME JobsAssumption ==
    /\ Jobs \subseteq [kind : Kinds, attempts : Nat \ {0}]
    /\ {MaxFiles, MaxCalls, MaxPerSource, MaxAddresses, MaxHops} \subseteq Nat

VARIABLES
    job, loop,        \* the job, and the retry loop it is in
    phase,            \* "idle", "resolve", "send", "pause" or "done"
    log,              \* answers the loop got so far
    result,           \* "none" until the loop ends
    fallback,         \* the API refused for a while, the raw host is asked
    hop, addresses,   \* redirects followed, addresses left to try
    source, read,     \* source of the file read, files read
    posts, charged,   \* POSTs sent for each source, and those counted
    sent, before,     \* http_attempts, and what it was when the call began
    made,             \* _llm_calls_made
    accepted, noted   \* copies of the message Telegram took, fact recorded

loopVars == <<job, loop, phase, log, result, fallback>>
hopVars == <<hop, addresses>>
llmVars == <<source, read, posts, charged, sent, before, made>>
tgVars == <<accepted, noted>>
vars == <<loopVars, hopVars, llmVars, tgVars>>

\* Answers: "parked" is a limit with a Retry-After above 300 s, "down" a status
\* of 502 to 504, "error" another of 5xx, "refused" another of 4xx, "bare" an entry
\* without content, "junk" a body that is not what it should be.  A request that is
\* "slow" may have been served.
Answers ==
    {"ok", "bare", "missing", "refused", "redirect", "flood", "parked", "down",
     "error", "network", "slow", "oversized", "junk"}

FirstLoop(kind) ==
    CASE kind \in {"listing", "file"} -> "api"
      [] OTHER -> kind

Init ==
    /\ job \in Jobs
    /\ loop = FirstLoop(job.kind) /\ phase = "idle" /\ log = <<>>
    /\ result = "none" /\ fallback = FALSE
    /\ hop = 0 /\ addresses = 0
    /\ source \in Sources /\ read = 0
    /\ posts = [s \in Sources |-> 0] /\ charged = [s \in Sources |-> 0]
    /\ sent = 0 /\ before = 0 /\ made = 0
    /\ accepted = 0 /\ noted = FALSE
-----------------------------------------------------------------------------
(* Which answers are asked again.                                          *)

Transient == {"flood", "parked", "down", "error", "network", "slow"}

\* A mutant: a message whose answer is late is sent again.
ResentWhenSlow ==
    [raw |-> Transient \ {"parked"}, direct |-> Transient, llm |-> Transient,
     message |-> Transient]

\* A read timeout of Telegram may follow a message it took.
Retried ==
    [raw |-> Transient \ {"parked"}, direct |-> Transient, llm |-> Transient,
     message |-> Transient \ {"slow"}]

\* A mutant: the API is asked again after every limit and every 5xx.
AlwaysAgain(a) == a \in {"flood", "down"}

\* _request waits out one limit, and asks once more after a 502 to 504.
ApiAgain(a) ==
    \/ a = "flood" /\ log = <<>>
    \/ a = "down" /\ "down" \notin ToSet(log)

Again(a) ==
    IF loop = "api" THEN ApiAgain(a)
    ELSE a \in Retried[loop] /\ Len(log) + 1 < job.attempts

\* What an answer that is not asked again means to the caller.
Meaning(a) ==
    CASE a = "ok" -> "value"
      [] a = "bare" -> IF loop = "api" THEN "bare" ELSE "value"
      [] loop = "api" ->
           IF a = "missing" THEN "empty"
           ELSE IF a \in {"flood", "parked"} THEN "limited" ELSE "raised"
      [] loop = "raw" ->
           IF a = "parked" THEN "limited"
           ELSE IF a \in {"missing", "redirect", "oversized", "network", "slow"}
           THEN "empty" ELSE "raised"
      [] loop = "direct" -> IF a \in {"missing", "oversized"} THEN "empty" ELSE "raised"
      [] OTHER -> "empty"
-----------------------------------------------------------------------------
(* The loop.                                                               *)

\* Nothing is sent before _pin_public_target has looked the host up.
Begin == phase' = IF loop = "direct" THEN "resolve" ELSE "send"

Start ==
    /\ phase = "idle" /\ job.kind # "llm"
    /\ Begin
    /\ UNCHANGED <<job, loop, log, result, fallback, hopVars, llmVars, tgVars>>

\* The end of the loop is not the end of fetch_file: a limited API sends it to the
\* raw host, whose refusals then count as an empty file, as does an entry with a
\* download_url for its content.
EndLoop(r) ==
    LET toRaw == job.kind = "file" /\ loop = "api" /\ r \in {"limited", "bare"} IN
    IF toRaw
    THEN /\ loop' = "raw" /\ log' = <<>> /\ phase' = "send"
         /\ fallback' = (r = "limited")
         /\ UNCHANGED result
    ELSE /\ result' = IF fallback /\ r = "raised" THEN "empty" ELSE r
         /\ phase' = "done"
         /\ UNCHANGED <<loop, log, fallback>>

Answered(a) ==
    IF Again(a)
    THEN /\ log' = Append(log, a) /\ phase' = "pause"
         /\ UNCHANGED <<loop, result, fallback>>
    ELSE EndLoop(Meaning(a))

\* The requests other than direct ones.
Send(a) ==
    /\ phase = "send" /\ loop # "direct"
    /\ a = "bare" => job.kind = "file" /\ loop = "api"
    /\ a = "junk" => loop # "raw"
    /\ Answered(a)
    /\ IF loop = "llm"
       THEN sent' = sent + 1 /\ posts' = [posts EXCEPT ![source] = @ + 1]
       ELSE UNCHANGED <<sent, posts>>
    /\ \E took \in (IF a = "ok" THEN {1} ELSE IF a = "slow" THEN {0, 1} ELSE {0}) :
          accepted' = accepted + IF loop = "message" THEN took ELSE 0
    /\ noted' = (noted \/ (loop = "message" /\ a = "ok"))
    /\ UNCHANGED <<job, hopVars, source, read, charged, before, made>>

Pause ==
    /\ phase = "pause"
    /\ Begin
    /\ hop' = 0
    /\ UNCHANGED <<job, loop, log, result, fallback, addresses, llmVars, tgVars>>
-----------------------------------------------------------------------------
(* Direct downloads: every hop is looked up, then its addresses are tried.  *)

\* A host that does not resolve twice, or not to public addresses only, ends it.
Resolve ==
    /\ phase = "resolve"
    /\ \/ /\ \E n \in 1 .. MaxAddresses : addresses' = n
          /\ phase' = "send" /\ UNCHANGED <<log, result>>
       \/ /\ result' = "raised" /\ phase' = "done" /\ UNCHANGED <<log, addresses>>
       \/ /\ Answered("slow") /\ UNCHANGED addresses
    /\ UNCHANGED <<job, loop, fallback, hop, llmVars, tgVars>>

Connect(a) ==
    /\ phase = "send" /\ loop = "direct" /\ a \notin {"bare", "junk", "redirect"}
    /\ IF a = "network" /\ addresses > 1
       THEN /\ addresses' = addresses - 1
            /\ UNCHANGED <<loop, phase, log, result, fallback>>
       ELSE Answered(a) /\ UNCHANGED addresses
    /\ UNCHANGED <<job, hop, llmVars, tgVars>>

\* A redirect without a target, from https to http or beyond the last hop raises.
Redirect ==
    /\ phase = "send" /\ loop = "direct"
    /\ \/ /\ hop < MaxHops
          /\ hop' = hop + 1 /\ phase' = "resolve" /\ UNCHANGED result
       \/ /\ result' = "raised" /\ phase' = "done" /\ UNCHANGED hop
    /\ UNCHANGED <<job, loop, log, fallback, addresses, llmVars, tgVars>>
-----------------------------------------------------------------------------
(* The files the LLM reads, one after the other.                           *)

MayCall(s) ==
    /\ made < MaxCalls
    /\ MaxPerSource = 0 \/ charged[s] < MaxPerSource

NextFile(s) ==
    /\ phase = "idle" /\ job.kind = "llm" /\ read < MaxFiles
    /\ read' = read + 1
    /\ source' = s
    /\ IF MayCall(s)
       THEN phase' = "send" /\ before' = sent
       ELSE UNCHANGED <<phase, before>>
    /\ log' = <<>>
    /\ UNCHANGED <<job, loop, result, fallback, hopVars, posts, charged, sent, made,
                   tgVars>>

\* The endpoint does not look public: nothing is sent.
Withheld ==
    /\ phase = "send" /\ loop = "llm" /\ log = <<>>
    /\ result' = "empty" /\ phase' = "done"
    /\ UNCHANGED <<job, loop, log, fallback, hopVars, llmVars, tgVars>>

\* A mutant: a file costs one call however often it was sent.
OnePerFile == 1

Spent == IF sent - before > 1 THEN sent - before ELSE 1

Charge ==
    /\ phase = "done" /\ job.kind = "llm"
    /\ made' = made + Spent
    /\ charged' = [charged EXCEPT ![source] = @ + Spent]
    /\ phase' = "idle" /\ result' = "none"
    /\ UNCHANGED <<job, loop, log, fallback, hopVars, source, read, posts, sent, before,
                   tgVars>>
-----------------------------------------------------------------------------
Next ==
    \/ Start \/ Pause \/ Resolve \/ Redirect \/ Withheld \/ Charge
    \/ \E a \in Answers : Send(a) \/ Connect(a)
    \/ \E s \in Sources : NextFile(s)

Spec == Init /\ [][Next]_vars
-----------------------------------------------------------------------------
(* Properties.                                                             *)

\* Whatever is retried, Telegram takes the message once at most, and the fact is
\* recorded as told only when it took it.
MessageOnce ==
    /\ accepted <= 1
    /\ noted => accepted = 1

\* The POSTs of a run, and those for one source, exceed their ceilings by no more
\* than the retries of one file.
PaidWithinBudget ==
    job.kind = "llm" =>
       /\ sent < MaxCalls + job.attempts
       /\ MaxPerSource > 0 =>
             \A s \in Sources : posts[s] < MaxPerSource + job.attempts

\* Only a transient answer is followed by another request, no loop outlives its
\* attempts, and a file the API would not serve for now fails only after the raw
\* host was asked.
AskedAsOftenAsNeeded ==
    /\ ToSet(log) \subseteq Transient
    /\ Len(log) <= IF loop = "api" THEN 2 ELSE job.attempts - 1
    /\ job.kind = "file" /\ result = "limited" => loop = "raw"
=============================================================================
