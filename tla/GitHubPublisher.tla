-------------------------- MODULE GitHubPublisher --------------------------
(***************************************************************************)
(* GitHubPublisher.publish_file (src/src/publisher/github.py): several     *)
(* calls, of overlapping runs, write one path of the publish repository    *)
(* through the GitHub Contents API while people commit to it by hand.      *)
(* A request is served at some moment after it is sent and its answer read *)
(* at some moment after that, so anything may happen to the file between   *)
(* them.  A version of the file is its git blob: equal contents have equal *)
(* shas.                                                                   *)
(***************************************************************************)
EXTENDS Naturals, FiniteSets

CONSTANTS
    Publishers,        \* the calls of publish_file
    Content,           \* the version each call wants to publish
    Blobs,             \* versions of the file
    Absent,            \* no such file
    Faults,            \* the ways the API and the network may misbehave
    ConflictRetries,   \* _CONFLICT_RETRIES
    MaxEdits           \* bound on commits made by hand

\* Answers to a request, by what the code tells apart: 2xx, 404, 409, 422,
\* 5xx, a rate limit worth waiting for, one beyond _RATELIMIT_WAIT_CAP, a 401
\* or 403 that is no rate limit, and any other error.
Status == {"ok", "missing", "conflict", "unprocessable", "outage", "limited",
           "capped", "denied", "rejected"}

ASSUME PublisherAssumption ==
    /\ Content \in [Publishers -> Blobs]
    /\ Absent \notin Blobs
    /\ Faults \subseteq (Status \ {"ok", "missing"}) \cup {"lost", "unsafe"}
    /\ ConflictRetries \in Nat
    /\ MaxEdits \in Nat

VARIABLES
    head,      \* the version at the head of the branch, or Absent
    edits,     \* commits made by hand
    pc,        \* the request each call is waiting for
    at,        \* how often that request was sent, and why
    wire,      \* where that request is
    reply,     \* the answer to it
    sha,       \* body["sha"] of the PUT, or Absent
    existed,   \* existed
    attempt,   \* attempt of the conflict loop
    result,    \* what the call returned
    seen,      \* history: versions the GETs of each call returned
    landed,    \* history: the content of each call has been the file's
    rivals,    \* history: changes by others during each call, 2 for more
    removed    \* history: the file was removed during the call

fileVars == <<head, edits>>
callVars == <<pc, at, sha, existed, attempt, result>>
history == <<seen, landed, rivals, removed>>
vars == <<fileVars, callVars, wire, reply, history>>

GetStages == {"look", "lookOn409", "lookOn422"}
PutStages == {"put", "putOn409", "putOn422"}

NoReply == [status |-> "missing", sha |-> Absent]

TypeOK ==
    /\ head \in Blobs \cup {Absent}
    /\ edits \in 0 .. MaxEdits
    /\ pc \in [Publishers -> GetStages \cup PutStages \cup {"idle", "done"}]
    /\ at \in [Publishers -> {"first", "again", "waited"}]
    /\ wire \in [Publishers -> {"none", "sent", "answered", "orphan"}]
    /\ reply \in [Publishers -> [status : Status, sha : Blobs \cup {Absent}]]
    /\ sha \in [Publishers -> Blobs \cup {Absent}]
    /\ existed \in [Publishers -> BOOLEAN]
    /\ attempt \in [Publishers -> 0 .. ConflictRetries]
    /\ result \in [Publishers -> {"open", "published", "failed", "raised"}]
    /\ seen \in [Publishers -> SUBSET Blobs]
    /\ landed \in [Publishers -> BOOLEAN]
    /\ rivals \in [Publishers -> 0 .. 2]
    /\ removed \in [Publishers -> BOOLEAN]

Init ==
    /\ head \in Blobs \cup {Absent}
    /\ edits = 0
    /\ pc = [p \in Publishers |-> "idle"]
    /\ at = [p \in Publishers |-> "first"]
    /\ wire = [p \in Publishers |-> "none"]
    /\ reply = [p \in Publishers |-> NoReply]
    /\ sha = [p \in Publishers |-> Absent]
    /\ existed = [p \in Publishers |-> FALSE]
    /\ attempt = [p \in Publishers |-> 0]
    /\ result = [p \in Publishers |-> "open"]
    /\ seen = [p \in Publishers |-> {}]
    /\ landed = [p \in Publishers |-> FALSE]
    /\ rivals = [p \in Publishers |-> 0]
    /\ removed = [p \in Publishers |-> FALSE]
----------------------------------------------------------------------------
(* The repository.                                                         *)

Calling(p) == pc[p] \notin {"idle", "done"}

\* The file changes under every call but that of `author`.
ChangeFile(new, author) ==
    LET hit(p) == Calling(p) /\ p \notin author /\ new # head
    IN  /\ head' = new
        /\ rivals' = [p \in Publishers |->
                        IF hit(p) /\ rivals[p] < 2 THEN rivals[p] + 1
                                                   ELSE rivals[p]]
        /\ removed' = [p \in Publishers |->
                         removed[p] \/ (hit(p) /\ new = Absent)]

\* A commit made by hand, or the removal of the file.
Edit ==
    /\ edits < MaxEdits
    /\ edits' = edits + 1
    /\ \E new \in (Blobs \cup {Absent}) \ {head} : ChangeFile(new, {})
    /\ UNCHANGED <<callVars, wire, reply, seen, landed>>

Answer(p, status, version) ==
    /\ reply' = [reply EXCEPT ![p] = [status |-> status, sha |-> version]]
    /\ wire' = [wire EXCEPT ![p] = "answered"]

\* GET /repos/{owner}/{repo}/contents/{path}.
ServeGet(p) ==
    /\ wire[p] = "sent" /\ pc[p] \in GetStages
    /\ \/ /\ head # Absent
          /\ Answer(p, "ok", head)
          /\ seen' = [seen EXCEPT ![p] = @ \cup {head}]
          /\ landed' = [landed EXCEPT ![p] = @ \/ head = Content[p]]
       \/ /\ head = Absent
          /\ Answer(p, "missing", Absent)
          /\ UNCHANGED <<seen, landed>>
       \/ /\ \E s \in Faults \cap Status : Answer(p, s, Absent)
          /\ UNCHANGED <<seen, landed>>
    /\ UNCHANGED <<fileVars, callVars, rivals, removed>>

\* A PUT takes effect only when the sha it carries is the file's, and one
\* without a sha only when there is no file.  A 5xx may follow the effect.
\* Nobody reads the answer to a request whose call has given up.
ServePut(p) ==
    /\ \/ wire[p] = "sent" /\ pc[p] \in PutStages
       \/ wire[p] = "orphan"
    /\ \E s \in {"ok", "conflict", "unprocessable"} \cup (Faults \cap Status) :
          /\ IF wire[p] = "orphan"
             THEN /\ wire' = [wire EXCEPT ![p] = "none"]
                  /\ UNCHANGED reply
             ELSE Answer(p, s, Absent)
          /\ \/ /\ sha[p] = head /\ s \in {"ok", "outage"}
                /\ ChangeFile(Content[p], {p})
                /\ landed' = [landed EXCEPT ![p] = TRUE]
             \/ /\ sha[p] # head /\ s \in {"conflict", "unprocessable"}
                /\ UNCHANGED <<head, landed, rivals, removed>>
             \/ /\ s \in Faults
                /\ UNCHANGED <<head, landed, rivals, removed>>
    /\ UNCHANGED <<edits, callVars, seen>>
----------------------------------------------------------------------------
(* The call.                                                               *)

Send(p, stage, how) ==
    /\ pc' = [pc EXCEPT ![p] = stage]
    /\ at' = [at EXCEPT ![p] = how]
    /\ wire' = [wire EXCEPT ![p] = "sent"]

\* The call ends; a request not yet served stays behind it if it is a PUT.
Return(p, r) ==
    /\ pc' = [pc EXCEPT ![p] = "done"]
    /\ result' = [result EXCEPT ![p] = r]
    /\ wire' = [wire EXCEPT ![p] =
                  IF @ = "sent" /\ pc[p] \in PutStages THEN "orphan" ELSE "none"]

Answered(p, S) == wire[p] = "answered" /\ Calling(p) /\ reply[p].status \in S

\* A mutant: every rate limit is waited for.
ResendsForEver(p) ==
    \/ at[p] = "first" /\ reply[p].status = "outage"
    \/ reply[p].status = "limited"

\* A 5xx is retried once by a GET and by the first PUT, a bearable rate limit
\* waited for once by every request.
Resends(p) ==
    \/ at[p] = "first" /\ reply[p].status = "outage"
    \/ at[p] # "waited" /\ reply[p].status = "limited"

Resend(p) ==
    /\ Answered(p, Status) /\ Resends(p)
    /\ Send(p, pc[p], IF reply[p].status = "outage" THEN "again" ELSE "waited")
    /\ UNCHANGED <<sha, existed, attempt, result>>

\* A rate limit to be waited for too long ends the call.
Abort(p) ==
    /\ Answered(p, {"capped"}) /\ at[p] # "waited"
    /\ Return(p, "raised")
    /\ UNCHANGED <<at, sha, existed, attempt>>

\* A GET that failed for good: an HTTPStatusError, or the network.
GetFailed(p, stage) ==
    /\ pc[p] = stage
    /\ \/ wire[p] \in {"sent", "answered"} /\ "lost" \in Faults
       \/ /\ Answered(p, {"unprocessable", "outage", "limited", "capped",
                          "rejected"})
          /\ ~ Resends(p)
          /\ at[p] = "waited" \/ reply[p].status # "capped"

\* The sha a GET returned; a 404 and a 409 are no file.
GetReturned(p, stage) ==
    pc[p] = stage /\ Answered(p, {"ok", "missing", "conflict"})

Begin(p) ==
    /\ pc[p] = "idle"
    /\ Send(p, "look", "first")
    /\ UNCHANGED <<fileVars, sha, existed, attempt, result, reply, history>>

\* An unchanged file is skipped.
Skip(p) ==
    /\ GetReturned(p, "look") /\ reply[p].sha = Content[p]
    /\ Return(p, "published")
    /\ UNCHANGED <<at, sha, existed, attempt>>

FirstPut(p) ==
    /\ GetReturned(p, "look") /\ reply[p].sha # Content[p]
    /\ sha' = [sha EXCEPT ![p] = reply[p].sha]
    /\ existed' = [existed EXCEPT ![p] = reply[p].sha # Absent]
    /\ Send(p, "put", "first")
    /\ UNCHANGED <<attempt, result>>

\* A mutant: the sha of the first look is good for the whole call.
ReusedSha(p, found) == sha[p]

\* The sha a retry carries.
FreshSha(p, found) == found

\* A mutant: a file that is gone is created again.
AlwaysRetry(p, found) == TRUE

\* A file that was there at the first look is not created again.
MayRetry(p, found) == found # Absent \/ ~ existed[p]

\* The rest of a retry once its GET has returned `found`.
RetryPut(p, found, stage) ==
    IF MayRetry(p, found)
    THEN /\ sha' = [sha EXCEPT ![p] = FreshSha(p, found)]
         /\ Send(p, stage, "again")
         /\ UNCHANGED <<existed, attempt, result>>
    ELSE Return(p, "failed") /\ UNCHANGED <<at, sha, existed, attempt>>

PutOn409(p) ==
    /\ GetReturned(p, "lookOn409")
    /\ RetryPut(p, reply[p].sha, "putOn409")

\* After a 422 a GET that failed counts as one that found no file.
PutOn422(p) ==
    \/ GetReturned(p, "lookOn422") /\ RetryPut(p, reply[p].sha, "putOn422")
    \/ GetFailed(p, "lookOn422") /\ RetryPut(p, Absent, "putOn422")

LookFails(p) ==
    /\ GetFailed(p, "look") \/ GetFailed(p, "lookOn409")
    /\ Return(p, "failed")
    /\ UNCHANGED <<at, sha, existed, attempt>>

\* A mutant: one conflict too many is retried.
RetriesConflictOnceMore(p) == attempt[p] <= ConflictRetries

RetriesConflict(p) == attempt[p] < ConflictRetries

\* 409: look again, a bounded number of times.
Conflict(p) ==
    /\ pc[p] \in {"put", "putOn409"} /\ Answered(p, {"conflict"})
    /\ IF RetriesConflict(p)
       THEN /\ attempt' = [attempt EXCEPT ![p] = @ + 1]
            /\ Send(p, "lookOn409", "first")
            /\ UNCHANGED <<sha, existed, result>>
       ELSE Return(p, "failed") /\ UNCHANGED <<at, sha, existed, attempt>>

\* 422: look again once.
Unprocessable(p) ==
    /\ pc[p] \in {"put", "putOn409"} /\ Answered(p, {"unprocessable"})
    /\ Send(p, "lookOn422", "first")
    /\ UNCHANGED <<sha, existed, attempt, result>>

\* A mutant: a retry that conflicts again has published.
ConflictIsSuccess(p) ==
    \/ reply[p].status = "ok"
    \/ reply[p].status = "conflict" /\ pc[p] = "putOn422"

\* 200 and 201.
IsSuccess(p) == reply[p].status = "ok"

Accepted(p) ==
    /\ pc[p] \in PutStages /\ Answered(p, Status) /\ IsSuccess(p)
    /\ Return(p, "published")
    /\ UNCHANGED <<at, sha, existed, attempt>>

\* 401 and 403 raise, but not from the retry that follows a 422.
Denied(p) ==
    /\ pc[p] \in (GetStages \cup PutStages) \ {"putOn422"}
    /\ Answered(p, {"denied"})
    /\ Return(p, "raised")
    /\ UNCHANGED <<at, sha, existed, attempt>>

\* Any other answer, and after a 422 any but success.
PutFails(p) ==
    /\ pc[p] \in PutStages
    /\ ~ Resends(p)
    /\ \/ Answered(p, {"outage", "limited", "rejected"})
       \/ Answered(p, {"capped"}) /\ at[p] = "waited"
       \/ /\ Answered(p, {"conflict", "unprocessable", "denied"})
          /\ pc[p] = "putOn422"
    /\ Return(p, "failed")
    /\ UNCHANGED <<at, sha, existed, attempt>>

\* httpx.RequestError on a PUT, which may yet be served.
PutLost(p) ==
    /\ "lost" \in Faults
    /\ pc[p] \in PutStages /\ wire[p] \in {"sent", "answered"}
    /\ Return(p, "failed")
    /\ UNCHANGED <<at, sha, existed, attempt>>

\* _get_client runs before each GET and before the first PUT, and raises when
\* it cannot vouch for the host: the request is not sent.
UnsafeHost(p) ==
    /\ "unsafe" \in Faults
    /\ pc[p] \in GetStages \cup {"put"} /\ at[p] = "first" /\ wire[p] = "sent"
    /\ pc' = [pc EXCEPT ![p] = "done"]
    /\ result' = [result EXCEPT ![p] = "raised"]
    /\ wire' = [wire EXCEPT ![p] = "none"]
    /\ UNCHANGED <<at, sha, existed, attempt>>

\* The steps of a call that the answers and the network drive.
Proceed(p) ==
    /\ \/ Resend(p) \/ Abort(p) \/ Skip(p) \/ FirstPut(p)
       \/ PutOn409(p) \/ PutOn422(p) \/ LookFails(p)
       \/ Conflict(p) \/ Unprocessable(p) \/ Accepted(p)
       \/ Denied(p) \/ PutFails(p) \/ PutLost(p) \/ UnsafeHost(p)
    /\ reply' = [reply EXCEPT ![p] = NoReply]
    /\ UNCHANGED <<fileVars, history>>

Next ==
    \/ Edit
    \/ \E p \in Publishers : Begin(p) \/ ServeGet(p) \/ ServePut(p) \/ Proceed(p)

Spec == Init /\ [][Next]_vars

\* GitHub answers, and the event loop runs the call when it has; a call of
\* httpx ends by its timeout at the latest.  Nobody has to commit by hand.
FairSpec ==
    /\ Spec
    /\ \A p \in Publishers :
          WF_vars(ServeGet(p)) /\ WF_vars(ServePut(p)) /\ WF_vars(Proceed(p))
----------------------------------------------------------------------------
(* Properties.                                                             *)

\* publish_file returns True only if its content was the file's at some
\* moment of the call, whatever was answered, lost or repeated on the way.
TruthfulSuccess ==
    \A p \in Publishers : result[p] = "published" => landed[p]

\* On a healthy API a call returns False only when the file was removed under
\* it or others changed it twice: one lost race is always made good.
FailsOnlyWhenBeaten ==
    \A p \in Publishers : result[p] = "failed" => removed[p] \/ rivals[p] = 2

\* Every call ends: no chain of conflicts, retries and waits goes on for ever.
EveryCallReturns ==
    \A p \in Publishers : Calling(p) ~> pc[p] = "done"

\* The calls implement PublishedFile: no blind overwrite, no file brought back
\* after the first look had found it, no write after reporting success.
Promise == INSTANCE PublishedFile

KeepsPromise == Promise!Spec
============================================================================
