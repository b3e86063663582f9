----------------------- MODULE GitHubPublisherProofs -----------------------
(***************************************************************************)
(* Proofs about GitHubPublisher, for any number of calls, any contents and *)
(* faults, any number of conflict retries and of commits made by hand.     *)
(***************************************************************************)
EXTENDS GitHubPublisher, TLAPS

CallSteps(p) ==
    \/ Resend(p) \/ Abort(p) \/ Skip(p) \/ FirstPut(p)
    \/ PutOn409(p) \/ PutOn422(p) \/ LookFails(p)
    \/ Conflict(p) \/ Unprocessable(p) \/ Accepted(p)
    \/ Denied(p) \/ PutFails(p) \/ PutLost(p) \/ UnsafeHost(p)

\* The part of TypeOK the steps of a call can disturb.
CallType ==
    /\ pc \in [Publishers -> GetStages \cup PutStages \cup {"idle", "done"}]
    /\ at \in [Publishers -> {"first", "again", "waited"}]
    /\ wire \in [Publishers -> {"none", "sent", "answered", "orphan"}]
    /\ sha \in [Publishers -> Blobs \cup {Absent}]
    /\ existed \in [Publishers -> BOOLEAN]
    /\ attempt \in [Publishers -> 0 .. ConflictRetries]
    /\ result \in [Publishers -> {"open", "published", "failed", "raised"}]

-----------------------------------------------------------------------------
(* Type correctness.                                                       *)

LEMMA CallStepsType ==
    ASSUME TypeOK, NEW p \in Publishers, CallSteps(p)
    PROVE  CallType'
<1>0. CallType /\ reply \in [Publishers -> [status : Status,
                                            sha : Blobs \cup {Absent}]]
  BY DEF TypeOK, CallType
<1>. USE PublisherAssumption
<1>1. ASSUME NEW r \in {"published", "failed", "raised"}, Return(p, r),
             UNCHANGED <<at, sha, existed, attempt>>
      PROVE  CallType'
  BY <1>0, <1>1 DEF Return, CallType
<1>2. ASSUME NEW stage \in GetStages \cup PutStages,
             NEW how \in {"first", "again", "waited"}, Send(p, stage, how)
      PROVE  /\ pc' \in [Publishers -> GetStages \cup PutStages
                                         \cup {"idle", "done"}]
             /\ at' \in [Publishers -> {"first", "again", "waited"}]
             /\ wire' \in [Publishers -> {"none", "sent", "answered", "orphan"}]
  BY <1>0, <1>2 DEF Send, CallType
<1>3. ASSUME NEW found \in Blobs \cup {Absent},
             NEW stage \in {"putOn409", "putOn422"}, RetryPut(p, found, stage)
      PROVE  CallType'
  <2>1. CASE MayRetry(p, found)
    BY <1>0, <1>2, <1>3, <2>1 DEF RetryPut, FreshSha, CallType, PutStages
  <2>2. CASE ~ MayRetry(p, found)
    BY <1>1, <1>3, <2>2 DEF RetryPut
  <2>. QED BY <2>1, <2>2
<1>4. CASE Resend(p)
  <2>1. pc[p] \in GetStages \cup PutStages
    BY <1>0, <1>4 DEF Resend, Answered, Calling, CallType
  <2>. QED BY <1>0, <1>2, <1>4, <2>1 DEF Resend, CallType
<1>5. CASE FirstPut(p)
  BY <1>0, <1>2, <1>5 DEF FirstPut, CallType, PutStages
<1>6. CASE PutOn409(p)
  BY <1>0, <1>3, <1>6 DEF PutOn409
<1>7. CASE PutOn422(p)
  BY <1>0, <1>3, <1>7 DEF PutOn422
<1>8. CASE Conflict(p)
  <2>1. CASE RetriesConflict(p)
    <3>1. attempt' \in [Publishers -> 0 .. ConflictRetries]
      BY <1>0, <1>8, <2>1 DEF Conflict, RetriesConflict, CallType
    <3>. QED
      BY <1>0, <1>2, <1>8, <2>1, <3>1 DEF Conflict, CallType, GetStages
  <2>2. CASE ~ RetriesConflict(p)
    BY <1>1, <1>8, <2>2 DEF Conflict
  <2>. QED BY <2>1, <2>2
<1>9. CASE Unprocessable(p)
  BY <1>0, <1>2, <1>9 DEF Unprocessable, CallType, GetStages
<1>10. CASE UnsafeHost(p)
  BY <1>0, <1>10 DEF UnsafeHost, CallType
<1>. QED
  BY <1>1, <1>4, <1>5, <1>6, <1>7, <1>8, <1>9, <1>10
  DEF CallSteps, Abort, Skip, LookFails, Accepted, Denied, PutFails, PutLost

LEMMA ChangeFileType ==
    ASSUME TypeOK, NEW new \in Blobs \cup {Absent}, NEW S,
           ChangeFile(new, S)
    PROVE  /\ head' \in Blobs \cup {Absent}
           /\ rivals' \in [Publishers -> 0 .. 2]
           /\ removed' \in [Publishers -> BOOLEAN]
<1> DEFINE hit(p) == Calling(p) /\ p \notin S /\ new # head
<1>1. head' = new
  BY DEF ChangeFile
<1>2. rivals' = [p \in Publishers |->
                   IF hit(p) /\ rivals[p] < 2 THEN rivals[p] + 1 ELSE rivals[p]]
  BY DEF ChangeFile
<1>3. removed' = [p \in Publishers |-> removed[p] \/ (hit(p) /\ new = Absent)]
  BY DEF ChangeFile
<1>4. \A p \in Publishers : rivals[p] \in 0 .. 2
  BY DEF TypeOK
<1>. HIDE DEF hit
<1>5. \A p \in Publishers :
         (IF hit(p) /\ rivals[p] < 2 THEN rivals[p] + 1 ELSE rivals[p]) \in 0 .. 2
  BY <1>4
<1>6. \A p \in Publishers :
         (removed[p] \/ (hit(p) /\ new = Absent)) \in BOOLEAN
  OBVIOUS
<1>. QED BY <1>1, <1>2, <1>3, <1>5, <1>6

LEMMA AnswerType ==
    ASSUME TypeOK, NEW p \in Publishers, NEW s \in Status,
           NEW v \in Blobs \cup {Absent}, Answer(p, s, v)
    PROVE  /\ reply' \in [Publishers -> [status : Status,
                                         sha : Blobs \cup {Absent}]]
           /\ wire' \in [Publishers -> {"none", "sent", "answered", "orphan"}]
<1>1. [status |-> s, sha |-> v] \in [status : Status, sha : Blobs \cup {Absent}]
  OBVIOUS
<1>. QED BY <1>1 DEF Answer, TypeOK

\* Every state of the calls is well typed.
THEOREM TypeCorrect == Spec => []TypeOK
<1>1. Init => TypeOK
  BY PublisherAssumption DEF Init, TypeOK, NoReply, Status
<1>2. TypeOK /\ [Next]_vars => TypeOK'
  <2>. SUFFICES ASSUME TypeOK, [Next]_vars PROVE TypeOK'
    OBVIOUS
  <2>. USE PublisherAssumption
  <2>1. CASE Edit
    <3>1. PICK new \in (Blobs \cup {Absent}) \ {head} : ChangeFile(new, {})
      BY <2>1 DEF Edit
    <3>2. edits' \in 0 .. MaxEdits
      BY <2>1 DEF Edit, TypeOK
    <3>. QED
      BY <2>1, <3>1, <3>2, ChangeFileType DEF Edit, TypeOK, callVars
  <2>2. ASSUME NEW p \in Publishers, Begin(p) PROVE TypeOK'
    BY <2>2 DEF Begin, Send, TypeOK, fileVars, history, GetStages
  <2>3. ASSUME NEW p \in Publishers, ServeGet(p) PROVE TypeOK'
    <3>2. /\ reply' \in [Publishers -> [status : Status,
                                        sha : Blobs \cup {Absent}]]
          /\ wire' \in [Publishers -> {"none", "sent", "answered", "orphan"}]
      <4>1. \E s \in Status, v \in Blobs \cup {Absent} : Answer(p, s, v)
        BY <2>3 DEF ServeGet, Status, TypeOK
      <4>. QED BY <4>1, AnswerType
    <3>3. seen' \in [Publishers -> SUBSET Blobs]
      BY <2>3 DEF ServeGet, TypeOK
    <3>4. landed' \in [Publishers -> BOOLEAN]
      BY <2>3 DEF ServeGet, TypeOK
    <3>. QED
      BY <2>3, <3>2, <3>3, <3>4 DEF ServeGet, TypeOK, fileVars, callVars
  <2>4. ASSUME NEW p \in Publishers, ServePut(p) PROVE TypeOK'
    <3>0. PICK s \in {"ok", "conflict", "unprocessable"}
                       \cup (Faults \cap Status) :
             /\ IF wire[p] = "orphan"
                THEN /\ wire' = [wire EXCEPT ![p] = "none"]
                     /\ UNCHANGED reply
                ELSE Answer(p, s, Absent)
             /\ \/ /\ ChangeFile(Content[p], {p})
                   /\ landed' = [landed EXCEPT ![p] = TRUE]
                \/ UNCHANGED <<head, landed, rivals, removed>>
      BY <2>4 DEF ServePut
    <3>1. s \in Status
      BY DEF Status
    <3>2. /\ reply' \in [Publishers -> [status : Status,
                                        sha : Blobs \cup {Absent}]]
          /\ wire' \in [Publishers -> {"none", "sent", "answered", "orphan"}]
      <4>1. CASE wire[p] = "orphan"
        BY <3>0, <4>1 DEF TypeOK
      <4>2. CASE wire[p] # "orphan"
        BY <3>0, <3>1, <4>2, AnswerType
      <4>. QED BY <4>1, <4>2
    <3>3. /\ head' \in Blobs \cup {Absent}
          /\ rivals' \in [Publishers -> 0 .. 2]
          /\ removed' \in [Publishers -> BOOLEAN]
      <4>1. Content[p] \in Blobs \cup {Absent}
        OBVIOUS
      <4>. QED BY <3>0, <4>1, ChangeFileType DEF TypeOK
    <3>4. landed' \in [Publishers -> BOOLEAN]
      BY <3>0 DEF TypeOK
    <3>. QED
      BY <2>4, <3>2, <3>3, <3>4 DEF ServePut, TypeOK, callVars
  <2>5. ASSUME NEW p \in Publishers, Proceed(p) PROVE TypeOK'
    <3>1. CallType'
      BY <2>5, CallStepsType DEF Proceed, CallSteps
    <3>2. NoReply \in [status : Status, sha : Blobs \cup {Absent}]
      BY DEF NoReply, Status
    <3>. QED
      BY <2>5, <3>1, <3>2 DEF Proceed, TypeOK, CallType, fileVars, history
  <2>6. CASE UNCHANGED vars
    BY <2>6 DEF vars, fileVars, callVars, history, TypeOK
  <2>. QED BY <2>1, <2>2, <2>3, <2>4, <2>5, <2>6 DEF Next
<1>. QED BY <1>1, <1>2, PTL DEF Spec

-----------------------------------------------------------------------------
(* The inductive invariant.                                                *)

\* What an answer says was seen, and a sha that was the wanted one landed.
AnswersSeen(p) ==
    /\ reply[p].sha \in seen[p] \cup {Absent}
    /\ reply[p].sha = Content[p] => landed[p]

\* A request is under way only while its call waits for it, or after the call
\* gave up on a PUT; the call ends with a result.
WireSound(p) ==
    /\ result[p] = "open" <=> pc[p] # "done"
    /\ pc[p] = "idle" => wire[p] = "none"
    /\ wire[p] = "orphan" <=> (pc[p] = "done" /\ wire[p] # "none")
    /\ wire[p] = "orphan" => result[p] = "failed"

\* A PUT carries a sha some look returned; one without a sha is sent only by a
\* call whose first look found no file.
PutSound(p) ==
    /\ sha[p] \in seen[p] \cup {Absent}
    /\ pc[p] \in {"idle", "look"} => ~ existed[p]
    /\ pc[p] \in PutStages \/ wire[p] = "orphan" =>
          (sha[p] = Absent => ~ existed[p])

\* Success is answered and reported only of content that landed.
SuccessSound(p) ==
    /\ wire[p] = "answered" /\ pc[p] \in PutStages /\ reply[p].status = "ok"
          => landed[p]
    /\ result[p] = "published" => landed[p]

CallInv(p) == AnswersSeen(p) /\ WireSound(p) /\ PutSound(p) /\ SuccessSound(p)

CallsInv == \A p \in Publishers : CallInv(p)

PublishInv == TypeOK /\ CallsInv

\* Steps of one call leave the others alone.
LEMMA OthersKept ==
    ASSUME TypeOK, NEW p \in Publishers, CallSteps(p),
           reply' = [reply EXCEPT ![p] = NoReply], UNCHANGED history,
           NEW q \in Publishers, q # p, CallInv(q)
    PROVE  CallInv(q)'
<1>1. ASSUME NEW r, Return(p, r)
      PROVE  pc'[q] = pc[q] /\ wire'[q] = wire[q] /\ result'[q] = result[q]
  BY <1>1 DEF Return, TypeOK
<1>3. ASSUME NEW stage, NEW how, Send(p, stage, how)
      PROVE  pc'[q] = pc[q] /\ wire'[q] = wire[q]
  BY <1>3 DEF Send, TypeOK
<1>4. ASSUME NEW found, NEW stage, RetryPut(p, found, stage)
      PROVE  /\ pc'[q] = pc[q] /\ wire'[q] = wire[q]
             /\ result'[q] = result[q]
             /\ sha'[q] = sha[q] /\ existed'[q] = existed[q]
  BY <1>1, <1>3, <1>4 DEF RetryPut, TypeOK
<1>5. /\ pc'[q] = pc[q] /\ wire'[q] = wire[q] /\ result'[q] = result[q]
      /\ sha'[q] = sha[q] /\ existed'[q] = existed[q]
  <2>1. CASE Abort(p) \/ Skip(p) \/ LookFails(p) \/ Accepted(p)
             \/ Denied(p) \/ PutFails(p) \/ PutLost(p)
    BY <1>1, <2>1
    DEF Abort, Skip, LookFails, Accepted, Denied, PutFails, PutLost
  <2>2. CASE Resend(p) \/ Unprocessable(p)
    BY <1>3, <2>2 DEF Resend, Unprocessable
  <2>3. CASE PutOn409(p) \/ PutOn422(p)
    BY <1>4, <2>3 DEF PutOn409, PutOn422
  <2>4. CASE Conflict(p)
    BY <1>1, <1>3, <2>4 DEF Conflict
  <2>5. CASE FirstPut(p)
    BY <1>3, <2>5 DEF FirstPut, TypeOK
  <2>6. CASE UnsafeHost(p)
    BY <2>6 DEF UnsafeHost, TypeOK
  <2>. QED BY <2>1, <2>2, <2>3, <2>4, <2>5, <2>6 DEF CallSteps
<1>2. reply'[q] = reply[q]
  BY DEF TypeOK
<1>. QED
  BY <1>2, <1>5
  DEF CallInv, AnswersSeen, WireSound, PutSound, SuccessSound, history

LEMMA SelfKept ==
    ASSUME TypeOK, NEW p \in Publishers, CallInv(p), CallSteps(p),
           reply' = [reply EXCEPT ![p] = NoReply], UNCHANGED history
    PROVE  CallInv(p)'
<1>. USE PublisherAssumption DEF PublisherAssumption
<1>0. AnswersSeen(p)'
  <2>1. reply'[p].sha = Absent
    BY DEF NoReply, TypeOK
  <2>2. Content[p] # Absent
    OBVIOUS
  <2>. QED BY <2>1, <2>2 DEF AnswersSeen
<1>1. ASSUME NEW r \in {"failed", "raised"}, Return(p, r), result[p] = "open",
             pc[p] # "done", wire[p] # "orphan",
             r = "failed" \/ ~(wire[p] = "sent" /\ pc[p] \in PutStages),
             UNCHANGED <<sha, existed>>
      PROVE  CallInv(p)'
  BY <1>0, <1>1
  DEF CallInv, WireSound, PutSound, SuccessSound, Return, TypeOK, history,
      PutStages
<1>2. ASSUME NEW stage \in GetStages \cup PutStages,
             NEW how, Send(p, stage, how), UNCHANGED result,
             result[p] = "open"
      PROVE  WireSound(p)' /\ SuccessSound(p)'
  BY <1>0, <1>2
  DEF CallInv, WireSound, SuccessSound, Send, TypeOK, history, GetStages,
      PutStages
<1>3. ASSUME wire[p] \in {"sent", "answered"} \/ Calling(p)
      PROVE  result[p] = "open" /\ pc[p] # "done" /\ wire[p] # "orphan"
  BY <1>3 DEF CallInv, WireSound, Calling, TypeOK
<1>4. ASSUME NEW found \in seen[p] \cup {Absent},
             NEW stage \in {"putOn409", "putOn422"},
             RetryPut(p, found, stage), result[p] = "open",
             pc[p] \in GetStages
      PROVE  CallInv(p)'
  <2>0. pc[p] # "done" /\ wire[p] # "orphan" /\ pc[p] \notin PutStages
    BY <1>4 DEF CallInv, WireSound, GetStages, PutStages
  <2>1. CASE MayRetry(p, found)
    <3>1. WireSound(p)' /\ SuccessSound(p)'
      BY <1>2, <1>4, <2>1 DEF RetryPut, PutStages
    <3>2. PutSound(p)'
      BY <1>4, <2>1
      DEF RetryPut, FreshSha, MayRetry, PutSound, Send, TypeOK, history,
          PutStages
    <3>. QED BY <1>0, <3>1, <3>2 DEF CallInv
  <2>2. CASE ~ MayRetry(p, found)
    BY <1>1, <1>4, <2>0, <2>2 DEF RetryPut
  <2>. QED BY <2>1, <2>2
<1>5. CASE Abort(p) \/ LookFails(p) \/ Denied(p) \/ PutFails(p) \/ PutLost(p)
  BY <1>1, <1>3, <1>5
  DEF Abort, LookFails, Denied, PutFails, PutLost, Answered, GetFailed
<1>6. CASE Skip(p)
  <2>1. landed[p]
    BY <1>6 DEF Skip, CallInv, AnswersSeen
  <2>. QED
    BY <1>0, <1>3, <1>6, <2>1
    DEF Skip, GetReturned, Answered, Return, CallInv, WireSound, PutSound,
        SuccessSound, TypeOK, history, PutStages
<1>7. CASE FirstPut(p)
  <2>1. reply[p].sha \in seen[p] \cup {Absent}
    BY DEF CallInv, AnswersSeen
  <2>2. WireSound(p)' /\ SuccessSound(p)'
    BY <1>2, <1>3, <1>7 DEF FirstPut, GetReturned, Answered, PutStages
  <2>3. PutSound(p)'
    BY <1>7, <2>1 DEF FirstPut, Send, PutSound, TypeOK, history
  <2>. QED BY <1>0, <2>2, <2>3 DEF CallInv
<1>8. CASE PutOn409(p) \/ PutOn422(p)
  <2>1. /\ reply[p].sha \in seen[p] \cup {Absent}
        /\ Absent \in seen[p] \cup {Absent}
    BY DEF CallInv, AnswersSeen
  <2>2. result[p] = "open" /\ pc[p] \in GetStages
    BY <1>3, <1>8
    DEF PutOn409, PutOn422, GetReturned, GetFailed, Answered, GetStages
  <2>. QED BY <1>4, <1>8, <2>1, <2>2 DEF PutOn409, PutOn422
<1>9. CASE Resend(p)
  <2>1. pc[p] \in GetStages \cup PutStages /\ result[p] = "open"
    BY <1>3, <1>9 DEF Resend, Answered, Calling, TypeOK
  <2>2. WireSound(p)' /\ SuccessSound(p)'
    BY <1>2, <1>9, <2>1 DEF Resend
  <2>3. PutSound(p)'
    BY <1>9, <2>1
    DEF Resend, Send, CallInv, PutSound, TypeOK, history
  <2>. QED BY <1>0, <2>2, <2>3 DEF CallInv
<1>10. ASSUME pc[p] \in {"put", "putOn409"}, result[p] = "open",
              NEW stage \in {"lookOn409", "lookOn422"}, NEW how,
              Send(p, stage, how), UNCHANGED <<sha, existed, result>>
       PROVE  CallInv(p)'
  <2>2. WireSound(p)' /\ SuccessSound(p)'
    BY <1>2, <1>10 DEF GetStages
  <2>3. PutSound(p)'
    BY <1>10
    DEF Send, CallInv, PutSound, TypeOK, history, PutStages
  <2>. QED BY <1>0, <2>2, <2>3 DEF CallInv
<1>11. CASE Unprocessable(p)
  BY <1>3, <1>10, <1>11 DEF Unprocessable, Answered
<1>12. CASE Conflict(p)
  BY <1>1, <1>3, <1>10, <1>12 DEF Conflict, Answered
<1>13. CASE Accepted(p)
  <2>1. wire[p] = "answered" /\ pc[p] \in PutStages /\ reply[p].status = "ok"
    BY <1>13 DEF Accepted, Answered, IsSuccess
  <2>2. landed[p]
    BY <2>1 DEF CallInv, SuccessSound
  <2>. QED
    BY <1>0, <1>3, <1>13, <2>1, <2>2
    DEF Accepted, Return, CallInv, WireSound, PutSound, SuccessSound, TypeOK,
        history, PutStages
<1>14. CASE UnsafeHost(p)
  BY <1>0, <1>3, <1>14
  DEF UnsafeHost, CallInv, WireSound, PutSound, SuccessSound, TypeOK, history,
      PutStages
<1>. QED
  BY <1>5, <1>6, <1>7, <1>8, <1>9, <1>11, <1>12, <1>13, <1>14 DEF CallSteps

\* What a change of the file leaves of the invariant.
LEMMA FileStepsKeep ==
    ASSUME TypeOK, NEW p \in Publishers, CallInv(p),
           UNCHANGED <<pc, wire, sha, existed, result, reply, seen>>,
           landed[p] => landed'[p]
    PROVE  CallInv(p)'
BY DEF CallInv, AnswersSeen, WireSound, PutSound, SuccessSound

LEMMA ServeGetKeeps ==
    ASSUME TypeOK, NEW p \in Publishers, ServeGet(p),
           NEW q \in Publishers, CallInv(q)
    PROVE  CallInv(q)'
<1>. USE PublisherAssumption DEF PublisherAssumption
<1>0. /\ UNCHANGED <<pc, sha, existed, result>>
      /\ wire[p] = "sent" /\ pc[p] \in GetStages
  BY DEF ServeGet, callVars
<1>1. wire' = [wire EXCEPT ![p] = "answered"]
  BY DEF ServeGet, Answer
<1>2. \E s \in Status, v \in Blobs \cup {Absent} :
         /\ reply' = [reply EXCEPT ![p] = [status |-> s, sha |-> v]]
         /\ \/ /\ v = head
               /\ seen' = [seen EXCEPT ![p] = @ \cup {head}]
               /\ landed' = [landed EXCEPT ![p] = @ \/ head = Content[p]]
            \/ /\ v = Absent
               /\ UNCHANGED <<seen, landed>>
  BY DEF ServeGet, Answer, Status, TypeOK
<1>3. PICK s \in Status, v \in Blobs \cup {Absent} :
         /\ reply' = [reply EXCEPT ![p] = [status |-> s, sha |-> v]]
         /\ \/ /\ v = head
               /\ seen' = [seen EXCEPT ![p] = @ \cup {head}]
               /\ landed' = [landed EXCEPT ![p] = @ \/ head = Content[p]]
            \/ /\ v = Absent
               /\ UNCHANGED <<seen, landed>>
  BY <1>2
<1>4. CASE q # p
  <2>1. /\ reply'[q] = reply[q] /\ wire'[q] = wire[q]
        /\ seen'[q] = seen[q] /\ landed'[q] = landed[q]
    BY <1>1, <1>3, <1>4 DEF TypeOK
  <2>. QED
    BY <1>0, <2>1 DEF CallInv, AnswersSeen, WireSound, PutSound, SuccessSound
<1>5. CASE q = p
  <2>1. reply'[p].sha = v /\ wire'[p] = "answered"
    BY <1>1, <1>3 DEF TypeOK
  <2>2. /\ seen[p] \subseteq seen'[p] /\ (landed[p] => landed'[p])
        /\ v \in seen'[p] \cup {Absent}
        /\ v = Content[p] => landed'[p]
    <3>1. Content[p] # Absent
      OBVIOUS
    <3>2. CASE /\ v = head
               /\ seen' = [seen EXCEPT ![p] = @ \cup {head}]
               /\ landed' = [landed EXCEPT ![p] = @ \/ head = Content[p]]
      <4>1. seen'[p] = seen[p] \cup {head}
        BY <3>2 DEF TypeOK
      <4>2. landed'[p] = (landed[p] \/ head = Content[p])
        BY <3>2 DEF TypeOK
      <4>. QED BY <3>2, <4>1, <4>2
    <3>3. CASE v = Absent /\ UNCHANGED <<seen, landed>>
      BY <3>1, <3>3
    <3>. QED BY <1>3, <3>2, <3>3
  <2>3. AnswersSeen(p)'
    BY <2>1, <2>2 DEF AnswersSeen
  <2>4. WireSound(p)' /\ PutSound(p)' /\ SuccessSound(p)'
    BY <1>0, <1>5, <2>1, <2>2
    DEF CallInv, WireSound, PutSound, SuccessSound, GetStages, PutStages
  <2>. QED BY <1>5, <2>3, <2>4 DEF CallInv
<1>. QED BY <1>4, <1>5

LEMMA ServePutKeeps ==
    ASSUME TypeOK, NEW p \in Publishers, ServePut(p),
           NEW q \in Publishers, CallInv(q)
    PROVE  CallInv(q)'
<1>. USE PublisherAssumption DEF PublisherAssumption
<1>0. UNCHANGED <<pc, sha, existed, result, seen>>
  BY DEF ServePut, callVars
<1>1. PICK s \in {"ok", "conflict", "unprocessable"} \cup (Faults \cap Status) :
         /\ IF wire[p] = "orphan"
            THEN wire' = [wire EXCEPT ![p] = "none"] /\ reply' = reply
            ELSE /\ reply' = [reply EXCEPT ![p] = [status |-> s,
                                                   sha |-> Absent]]
                 /\ wire' = [wire EXCEPT ![p] = "answered"]
         /\ \/ landed' = [landed EXCEPT ![p] = TRUE]
            \/ landed' = landed /\ s # "ok"
  BY DEF ServePut, Answer
<1>2. landed[q] => landed'[q]
  BY <1>1 DEF TypeOK
<1>4. CASE q # p
  <2>1. reply'[q] = reply[q] /\ wire'[q] = wire[q]
    BY <1>1, <1>4 DEF TypeOK
  <2>. QED
    BY <1>0, <1>2, <2>1
    DEF CallInv, AnswersSeen, WireSound, PutSound, SuccessSound
<1>5. CASE q = p /\ wire[p] = "orphan"
  <2>1. wire'[p] = "none" /\ reply' = reply /\ pc[p] = "done"
    BY <1>1, <1>5 DEF TypeOK, CallInv, WireSound
  <2>. QED
    BY <1>0, <1>2, <1>5, <2>1
    DEF CallInv, AnswersSeen, WireSound, PutSound, SuccessSound, PutStages
<1>6. CASE q = p /\ wire[p] # "orphan"
  <2>1. wire'[p] = "answered" /\ reply'[p] = [status |-> s, sha |-> Absent]
    BY <1>1, <1>6 DEF TypeOK
  <2>2. wire[p] = "sent" /\ pc[p] \in PutStages
    BY <1>6 DEF ServePut
  <2>3. AnswersSeen(p)'
    <3>1. Content[p] # Absent
      OBVIOUS
    <3>. QED BY <2>1, <3>1 DEF AnswersSeen
  <2>4. s = "ok" => landed'[p]
    BY <1>1 DEF TypeOK
  <2>5. WireSound(p)' /\ PutSound(p)' /\ SuccessSound(p)'
    BY <1>0, <1>2, <1>6, <2>1, <2>2, <2>4
    DEF CallInv, WireSound, PutSound, SuccessSound, PutStages
  <2>. QED BY <1>6, <2>3, <2>5 DEF CallInv
<1>. QED BY <1>4, <1>5, <1>6

LEMMA PublishInvariant == Spec => []PublishInv
<1>1. Init => CallsInv
  <2>. SUFFICES ASSUME Init, NEW p \in Publishers PROVE CallInv(p)
    BY DEF CallsInv
  <2>1. Content[p] # Absent
    BY PublisherAssumption DEF PublisherAssumption
  <2>. QED
    BY <2>1
    DEF Init, NoReply, CallInv, AnswersSeen, WireSound, PutSound,
        SuccessSound, PutStages
<1>2. TypeOK /\ CallsInv /\ [Next]_vars => CallsInv'
  <2>. SUFFICES ASSUME TypeOK, CallsInv, [Next]_vars, NEW q \in Publishers
                PROVE  CallInv(q)'
    BY DEF CallsInv
  <2>. USE DEF CallsInv
  <2>1. CASE Edit
    BY <2>1, FileStepsKeep DEF Edit, callVars
  <2>2. ASSUME NEW p \in Publishers, Begin(p) PROVE CallInv(q)'
    <3>1. CASE q # p
      BY <2>2, <3>1
      DEF Begin, Send, CallInv, AnswersSeen, WireSound, PutSound, SuccessSound,
          TypeOK, history
    <3>2. CASE q = p
      BY <2>2, <3>2
      DEF Begin, Send, CallInv, AnswersSeen, WireSound, PutSound, SuccessSound,
          TypeOK, history, PutStages
    <3>. QED BY <3>1, <3>2
  <2>3. ASSUME NEW p \in Publishers, ServeGet(p) PROVE CallInv(q)'
    BY <2>3, ServeGetKeeps
  <2>4. ASSUME NEW p \in Publishers, ServePut(p) PROVE CallInv(q)'
    BY <2>4, ServePutKeeps
  <2>5. ASSUME NEW p \in Publishers, Proceed(p) PROVE CallInv(q)'
    BY <2>5, OthersKept, SelfKept DEF Proceed, CallSteps
  <2>6. CASE UNCHANGED vars
    BY <2>6, FileStepsKeep DEF vars, fileVars, callVars, history
  <2>. QED BY <2>1, <2>2, <2>3, <2>4, <2>5, <2>6 DEF Next
<1>. QED BY <1>1, <1>2, TypeCorrect, PTL DEF Spec, PublishInv

\* publish_file never reports a success that was none: whatever its requests
\* were answered, its content was the file's at some moment of the call.
THEOREM SuccessIsTruthful == Spec => []TruthfulSuccess
<1>1. PublishInv => TruthfulSuccess
  BY DEF PublishInv, CallsInv, CallInv, SuccessSound, TruthfulSuccess
<1>. QED BY <1>1, PublishInvariant, PTL

-----------------------------------------------------------------------------
(* The calls keep the promise of PublishedFile.                            *)

LEMMA ProceedRefines ==
    ASSUME PublishInv, NEW p \in Publishers, Proceed(p)
    PROVE  \/ \E r \in {"published", "failed", "raised"} : Promise!Return(p, r)
           \/ Promise!Remember(p)
           \/ UNCHANGED Promise!absVars
<1>0. TypeOK /\ CallInv(p)
  BY DEF PublishInv, CallsInv
<1>1. UNCHANGED <<head, seen, landed>> /\ CallSteps(p)
  BY DEF Proceed, CallSteps, fileVars, history
<1>2. ASSUME wire[p] \in {"sent", "answered"} \/ Calling(p)
      PROVE  result[p] = "open"
  BY <1>0, <1>2 DEF CallInv, WireSound, Calling, TypeOK
<1>3. ASSUME NEW r \in {"failed", "raised"}, Return(p, r), UNCHANGED existed,
             result[p] = "open"
      PROVE  Promise!Return(p, r)
  BY <1>1, <1>3 DEF Return, Promise!Return
<1>4. ASSUME UNCHANGED <<existed, result>>
      PROVE  UNCHANGED Promise!absVars
  BY <1>1, <1>4 DEF Promise!absVars
<1>5. ASSUME NEW found, NEW stage, RetryPut(p, found, stage),
             result[p] = "open"
      PROVE  \/ \E r \in {"failed", "raised"} : Promise!Return(p, r)
             \/ UNCHANGED Promise!absVars
  BY <1>3, <1>4, <1>5 DEF RetryPut
<1>6. CASE Abort(p) \/ LookFails(p) \/ Denied(p) \/ PutFails(p) \/ PutLost(p)
  BY <1>2, <1>3, <1>6
  DEF Abort, LookFails, Denied, PutFails, PutLost, Answered, GetFailed
<1>7. CASE Skip(p)
  <2>1. landed[p]
    BY <1>0, <1>7 DEF Skip, CallInv, AnswersSeen
  <2>2. result[p] = "open"
    BY <1>2, <1>7 DEF Skip, GetReturned, Answered
  <2>. QED
    BY <1>1, <1>7, <2>1, <2>2 DEF Skip, Return, Promise!Return
<1>8. CASE Accepted(p)
  <2>1. landed[p]
    BY <1>0, <1>8
    DEF Accepted, Answered, IsSuccess, CallInv, SuccessSound
  <2>2. result[p] = "open"
    BY <1>2, <1>8 DEF Accepted, Answered
  <2>. QED
    BY <1>1, <1>8, <2>1, <2>2 DEF Accepted, Return, Promise!Return
<1>9. CASE FirstPut(p)
  <2>1. result[p] = "open" /\ ~ existed[p]
    BY <1>0, <1>2, <1>9
    DEF FirstPut, GetReturned, Answered, CallInv, PutSound
  <2>2. CASE reply[p].sha # Absent
    BY <1>1, <1>9, <2>1, <2>2 DEF FirstPut, Promise!Remember
  <2>3. CASE reply[p].sha = Absent
    <3>1. existed' = existed
      BY <1>0, <1>9, <2>1, <2>3 DEF FirstPut, TypeOK
    <3>. QED BY <1>4, <1>9, <3>1 DEF FirstPut
  <2>. QED BY <2>2, <2>3
<1>10. CASE PutOn409(p) \/ PutOn422(p)
  <2>1. result[p] = "open"
    BY <1>2, <1>10
    DEF PutOn409, PutOn422, GetReturned, GetFailed, Answered
  <2>. QED BY <1>5, <1>10, <2>1 DEF PutOn409, PutOn422
<1>11. CASE Resend(p) \/ Unprocessable(p)
  BY <1>4, <1>11 DEF Resend, Unprocessable
<1>12. CASE Conflict(p)
  BY <1>2, <1>3, <1>4, <1>12 DEF Conflict, Answered
<1>13. CASE UnsafeHost(p)
  <2>1. result[p] = "open"
    BY <1>2, <1>13 DEF UnsafeHost
  <2>. QED BY <1>1, <1>13, <2>1 DEF UnsafeHost, Promise!Return
<1>. QED
  BY <1>1, <1>6, <1>7, <1>8, <1>9, <1>10, <1>11, <1>12, <1>13 DEF CallSteps

LEMMA ServeGetRefines ==
    ASSUME PublishInv, NEW p \in Publishers, ServeGet(p)
    PROVE  Promise!Look(p) \/ UNCHANGED Promise!absVars
<1>1. result[p] = "open"
  BY DEF PublishInv, CallsInv, CallInv, WireSound, ServeGet, GetStages
<1>. QED
  BY <1>1
  DEF ServeGet, Promise!Look, Promise!absVars, fileVars, callVars

LEMMA ServePutRefines ==
    ASSUME PublishInv, NEW p \in Publishers, ServePut(p)
    PROVE  Promise!Land(p) \/ UNCHANGED Promise!absVars
<1>1. result[p] \in {"open", "failed"}
  BY DEF PublishInv, CallsInv, CallInv, WireSound, ServePut, PutStages
<1>2. UNCHANGED <<existed, result, seen>>
  BY DEF ServePut, callVars
<1>3. CASE UNCHANGED <<head, landed>>
  BY <1>2, <1>3 DEF Promise!absVars
<1>4. CASE /\ sha[p] = head
           /\ ChangeFile(Content[p], {p})
           /\ landed' = [landed EXCEPT ![p] = TRUE]
  <2>1. /\ sha[p] \in seen[p] \cup {Absent}
        /\ sha[p] = Absent => ~ existed[p]
    BY DEF PublishInv, CallsInv, CallInv, PutSound, ServePut
  <2>2. IF head = Absent THEN ~ existed[p] ELSE head \in seen[p]
    BY <1>4, <2>1
  <2>3. head' = Content[p]
    BY <1>4 DEF ChangeFile
  <2>. QED BY <1>1, <1>2, <1>4, <2>2, <2>3 DEF Promise!Land
<1>. QED BY <1>3, <1>4 DEF ServePut

\* Whatever the API and the network do, a call overwrites only a version it has
\* looked at, does not bring back a file that its first look found, reports no
\* false success and does not touch the file after reporting one.
THEOREM PromiseKept == Spec => KeepsPromise
<1>1. Init => Promise!Init
  BY DEF Init, Promise!Init
<1>2. PublishInv /\ [Next]_vars => [Promise!Next]_(Promise!absVars)
  <2>. SUFFICES ASSUME PublishInv, [Next]_vars
                PROVE  Promise!Next \/ UNCHANGED Promise!absVars
    OBVIOUS
  <2>1. CASE Edit
    <3>1. head' \in Blobs \cup {Absent}
      BY <2>1 DEF Edit, ChangeFile
    <3>. QED
      BY <2>1, <3>1 DEF Edit, callVars, Promise!Edit, Promise!Next
  <2>2. ASSUME NEW p \in Publishers, Begin(p)
        PROVE  UNCHANGED Promise!absVars
    BY <2>2 DEF Begin, fileVars, history, Promise!absVars
  <2>3. ASSUME NEW p \in Publishers, ServeGet(p)
        PROVE  Promise!Next \/ UNCHANGED Promise!absVars
    BY <2>3, ServeGetRefines DEF Promise!Next
  <2>4. ASSUME NEW p \in Publishers, ServePut(p)
        PROVE  Promise!Next \/ UNCHANGED Promise!absVars
    BY <2>4, ServePutRefines DEF Promise!Next
  <2>5. ASSUME NEW p \in Publishers, Proceed(p)
        PROVE  Promise!Next \/ UNCHANGED Promise!absVars
    BY <2>5, ProceedRefines DEF Promise!Next
  <2>6. CASE UNCHANGED vars
    BY <2>6 DEF vars, fileVars, callVars, history, Promise!absVars
  <2>. QED BY <2>1, <2>2, <2>3, <2>4, <2>5, <2>6 DEF Next
<1>. QED
  BY <1>1, <1>2, PublishInvariant, PTL DEF Spec, KeepsPromise, Promise!Spec
-----------------------------------------------------------------------------
(***************************************************************************)
(* On a healthy API a call fails only when it is beaten.  The inductive    *)
(* invariant counts the races a call has lost: one for a PUT that was not  *)
(* taken, and one more as soon as the version it goes by is not the        *)
(* file's.                                                                 *)
(***************************************************************************)

\* What a healthy API answers.
HealthyAnswers(p) ==
    IF pc[p] \in GetStages THEN {"ok", "missing"}
    ELSE {"ok", "conflict", "unprocessable"}

\* The races a call has lost by its stage.
Lost(p) == IF pc[p] \in {"look", "put"} THEN 0 ELSE 1

\* The version a call goes by: the one its look returned, then the sha its PUT
\* carries.
GoesBy(p) == IF pc[p] \in GetStages THEN reply[p].sha ELSE sha[p]

\* A call has that version from the answer to its look until its PUT is taken.
HasVersion(p) ==
    IF pc[p] \in GetStages THEN wire[p] = "answered"
    ELSE wire[p] = "sent" \/ reply[p].status # "ok"

\* The first look of the call found the file.
FoundFile(p) ==
    \/ existed[p]
    \/ pc[p] = "look" /\ wire[p] = "answered" /\ reply[p].sha # Absent

RaceWire(p) ==
    /\ wire[p] # "orphan"
    /\ Calling(p) =>
         /\ wire[p] \in {"sent", "answered"}
         /\ wire[p] = "answered" => reply[p].status \in HealthyAnswers(p)
    /\ pc[p] \in {"idle", "look", "put"} => attempt[p] = 0

RaceLost(p) ==
    Calling(p) =>
        /\ rivals[p] >= Lost(p)
        /\ HasVersion(p) /\ GoesBy(p) # head => rivals[p] >= Lost(p) + 1
        /\ /\ pc[p] \in PutStages /\ wire[p] = "answered"
           /\ reply[p].status # "ok"
           => rivals[p] >= Lost(p) + 1

RaceRemoved(p) ==
    Calling(p) =>
        /\ FoundFile(p) /\ head = Absent => removed[p]
        /\ /\ existed[p] /\ pc[p] \in GetStages /\ wire[p] = "answered"
           /\ reply[p].sha = Absent
           => removed[p]

Beaten(p) == result[p] = "failed" => removed[p] \/ rivals[p] = 2

RaceInv(p) == RaceWire(p) /\ RaceLost(p) /\ RaceRemoved(p) /\ Beaten(p)

RacesInv == \A p \in Publishers : RaceInv(p)

\* What others do to the file costs a call that is under way one race.
LEMMA RivalChange ==
    ASSUME PublishInv, NEW new \in Blobs \cup {Absent}, NEW S,
           ChangeFile(new, S), NEW q \in Publishers, q \notin S, RaceInv(q),
           pc'[q] = pc[q], wire'[q] = wire[q], reply'[q] = reply[q],
           sha'[q] = sha[q], existed'[q] = existed[q],
           attempt'[q] = attempt[q], result'[q] = result[q]
    PROVE  RaceInv(q)'
<1> DEFINE hit(p) == Calling(p) /\ p \notin S /\ new # head
<1>1. /\ head' = new
      /\ rivals' = [p \in Publishers |->
           IF hit(p) /\ rivals[p] < 2 THEN rivals[p] + 1 ELSE rivals[p]]
      /\ removed' = [p \in Publishers |-> removed[p] \/ (hit(p) /\ new = Absent)]
  BY DEF ChangeFile
<1>2. rivals'[q] = IF hit(q) /\ rivals[q] < 2 THEN rivals[q] + 1 ELSE rivals[q]
  BY <1>1
<1>3. removed'[q] = (removed[q] \/ (hit(q) /\ new = Absent))
  BY <1>1
<1>4. rivals[q] \in 0 .. 2 /\ removed[q] \in BOOLEAN /\ Lost(q) \in 0 .. 1
  BY DEF PublishInv, TypeOK, Lost
<1>5. /\ Calling(q)' = Calling(q) /\ Lost(q)' = Lost(q)
      /\ GoesBy(q)' = GoesBy(q) /\ HasVersion(q)' = HasVersion(q)
      /\ FoundFile(q)' = FoundFile(q)
      /\ HealthyAnswers(q)' = HealthyAnswers(q)
  BY DEF Calling, Lost, GoesBy, HasVersion, FoundFile, HealthyAnswers
<1>6. RaceWire(q)'
  BY <1>5 DEF RaceInv, RaceWire
<1>7. rivals'[q] \in 0 .. 2 /\ rivals'[q] >= rivals[q]
      /\ (Calling(q) /\ new # head => rivals'[q] > rivals[q] \/ rivals'[q] = 2)
  BY <1>2, <1>4 DEF hit
<1>8. RaceLost(q)'
  <2> SUFFICES ASSUME Calling(q) PROVE RaceLost(q)'
    BY <1>5 DEF RaceLost
  <2>1. RaceLost(q)
    BY DEF RaceInv
  <2>2. CASE new = head
    BY <1>1, <1>4, <1>5, <1>7, <2>1, <2>2 DEF RaceLost
  <2>3. CASE new # head
    BY <1>4, <1>5, <1>7, <2>1, <2>3 DEF RaceLost
  <2>. QED BY <2>2, <2>3
<1>9. RaceRemoved(q)'
  BY <1>1, <1>3, <1>4, <1>5 DEF RaceInv, RaceRemoved
<1>10. Beaten(q)'
  BY <1>2, <1>3, <1>4, <1>7 DEF RaceInv, Beaten
<1>. QED BY <1>6, <1>8, <1>9, <1>10 DEF RaceInv

\* What leaves the file and a call alone leaves its part of the invariant.
LEMMA RaceStutter ==
    ASSUME NEW q \in Publishers, RaceInv(q), head' = head,
           pc'[q] = pc[q], wire'[q] = wire[q], reply'[q] = reply[q],
           sha'[q] = sha[q], existed'[q] = existed[q],
           attempt'[q] = attempt[q], result'[q] = result[q],
           rivals'[q] = rivals[q], removed'[q] = removed[q]
    PROVE  RaceInv(q)'
<1>1. /\ Calling(q)' = Calling(q) /\ Lost(q)' = Lost(q)
      /\ GoesBy(q)' = GoesBy(q) /\ HasVersion(q)' = HasVersion(q)
      /\ FoundFile(q)' = FoundFile(q)
      /\ HealthyAnswers(q)' = HealthyAnswers(q)
  BY DEF Calling, Lost, GoesBy, HasVersion, FoundFile, HealthyAnswers
<1>. QED BY <1>1 DEF RaceInv, RaceWire, RaceLost, RaceRemoved, Beaten

LEMMA RaceGet ==
    ASSUME PublishInv, RacesInv, Faults = {}, NEW p \in Publishers, ServeGet(p)
    PROVE  RaceInv(p)'
<1>1. /\ wire[p] = "sent" /\ pc[p] \in GetStages
      /\ wire'[p] = "answered"
      /\ reply'[p] = [status |-> IF head = Absent THEN "missing" ELSE "ok",
                      sha |-> head]
      /\ UNCHANGED <<head, pc, sha, existed, attempt, result, rivals, removed>>
  BY DEF ServeGet, Answer, PublishInv, TypeOK, fileVars, callVars
<1>2. RaceInv(p) /\ CallInv(p)
  BY DEF RacesInv, PublishInv, CallsInv
<1>3. Calling(p) /\ pc[p] \notin PutStages
  BY <1>1 DEF Calling, GetStages, PutStages
<1>4. existed[p] => pc[p] # "look"
  BY <1>2 DEF CallInv, PutSound
<1>5. RaceWire(p)'
  BY <1>1, <1>2 DEF RaceInv, RaceWire, HealthyAnswers
<1>6. RaceLost(p)'
  BY <1>1, <1>2, <1>3 DEF RaceInv, RaceLost, Lost, GoesBy, HasVersion
<1>7. RaceRemoved(p)'
  BY <1>1, <1>2, <1>3, <1>4 DEF RaceInv, RaceRemoved, FoundFile
<1>8. Beaten(p)'
  BY <1>1, <1>2 DEF RaceInv, Beaten
<1>. QED BY <1>5, <1>6, <1>7, <1>8 DEF RaceInv

LEMMA RacePut ==
    ASSUME PublishInv, RacesInv, Faults = {}, NEW p \in Publishers, ServePut(p)
    PROVE  RaceInv(p)'
<1>0. RaceInv(p) /\ TypeOK
  BY DEF RacesInv, PublishInv
<1>1. /\ wire[p] = "sent" /\ pc[p] \in PutStages
      /\ UNCHANGED <<pc, sha, existed, attempt, result>>
  BY <1>0 DEF ServePut, RaceInv, RaceWire, callVars
<1>2. Calling(p) /\ pc[p] \notin GetStages
  BY <1>1 DEF Calling, GetStages, PutStages
<1>3. PICK s \in {"ok", "conflict", "unprocessable"} :
         /\ wire'[p] = "answered" /\ reply'[p] = [status |-> s, sha |-> Absent]
         /\ \/ s = "ok" /\ sha[p] = head /\ ChangeFile(Content[p], {p})
            \/ s # "ok" /\ sha[p] # head /\ UNCHANGED <<head, rivals, removed>>
  BY <1>0, <1>1 DEF ServePut, Answer, TypeOK
<1>4. RaceWire(p)'
  BY <1>0, <1>1, <1>2, <1>3 DEF RaceInv, RaceWire, HealthyAnswers
<1>5. CASE s = "ok" /\ sha[p] = head /\ ChangeFile(Content[p], {p})
  <2>1. head' = Content[p] /\ Content[p] # Absent
        /\ rivals'[p] = rivals[p] /\ removed'[p] = removed[p]
    BY <1>0, <1>5, PublisherAssumption DEF ChangeFile, TypeOK
  <2>2. RaceLost(p)'
    BY <1>0, <1>1, <1>2, <1>3, <1>5, <2>1
    DEF RaceInv, RaceLost, Lost, HasVersion
  <2>3. RaceRemoved(p)'
    BY <1>1, <1>2, <2>1 DEF RaceRemoved
  <2>. QED BY <1>0, <1>1, <1>4, <2>1, <2>2, <2>3 DEF RaceInv, Beaten
<1>6. CASE s # "ok" /\ sha[p] # head /\ UNCHANGED <<head, rivals, removed>>
  <2>1. rivals[p] >= Lost(p) + 1
    BY <1>0, <1>1, <1>2, <1>6 DEF RaceInv, RaceLost, GoesBy, HasVersion
  <2>2. RaceLost(p)'
    BY <1>0, <1>1, <1>2, <1>6, <2>1 DEF RaceInv, RaceLost, Lost
  <2>3. RaceRemoved(p)'
    BY <1>0, <1>1, <1>2, <1>6
    DEF RaceInv, RaceRemoved, FoundFile, PutStages, GetStages
  <2>. QED BY <1>0, <1>1, <1>4, <1>6, <2>2, <2>3 DEF RaceInv, Beaten
<1>. QED BY <1>3, <1>5, <1>6

\* On a healthy API a call only goes on, or fails beaten.
LEMMA RaceProceed ==
    ASSUME PublishInv, RacesInv, Faults = {}, ConflictRetries > 0,
           NEW p \in Publishers, Proceed(p)
    PROVE  RaceInv(p)'
<1>0. /\ RaceInv(p) /\ CallInv(p) /\ TypeOK /\ reply'[p] = NoReply
      /\ UNCHANGED <<head, rivals, removed>>
  BY DEF RacesInv, PublishInv, CallsInv, Proceed, TypeOK, fileVars, history
<1>1. rivals[p] \in 0 .. 2 /\ existed[p] \in BOOLEAN
  BY <1>0 DEF TypeOK
<1>2. ASSUME NEW r, Return(p, r), UNCHANGED attempt,
             r = "failed" => removed[p] \/ rivals[p] = 2,
             wire[p] = "answered"
      PROVE  RaceInv(p)'
  <2>1. pc'[p] = "done" /\ wire'[p] = "none" /\ result'[p] = r
    BY <1>0, <1>2 DEF Return, TypeOK
  <2>. QED
    BY <1>0, <1>2, <2>1
    DEF RaceInv, RaceWire, RaceLost, RaceRemoved, Beaten, Calling
<1>3. ASSUME Answered(p, Status)
      PROVE  /\ Calling(p) /\ wire[p] = "answered" /\ result[p] = "open"
             /\ reply[p].status \in HealthyAnswers(p)
  <2>1. Calling(p) /\ wire[p] = "answered" /\ pc[p] # "done"
    BY <1>3 DEF Answered, Calling
  <2>. QED BY <1>0, <2>1 DEF RaceInv, RaceWire, CallInv, WireSound
<1>4. ASSUME NEW S \in SUBSET Status, Answered(p, S)
      PROVE  Answered(p, Status) /\ reply[p].status \in S
  BY <1>4 DEF Answered
<1>5. ASSUME NEW stage, GetReturned(p, stage)
      PROVE  /\ pc[p] = stage /\ Answered(p, Status)
             /\ reply[p].status \in {"ok", "missing", "conflict"}
  BY <1>5, <1>4 DEF GetReturned, Status
<1>6. ASSUME NEW stage \in GetStages PROVE ~ GetFailed(p, stage)
  <2> SUFFICES ASSUME GetFailed(p, stage) PROVE FALSE
    OBVIOUS
  <2>1. pc[p] \in GetStages /\ Answered(p, Status)
        /\ reply[p].status \notin {"ok", "missing"}
    BY <1>6 DEF GetFailed, Answered, Status
  <2>. QED BY <1>3, <2>1 DEF HealthyAnswers
<1>7. ~ (Resend(p) \/ Abort(p) \/ Denied(p) \/ LookFails(p) \/ PutLost(p)
         \/ UnsafeHost(p))
  <2>1. ~ Resend(p) /\ ~ Abort(p) /\ ~ Denied(p)
    BY <1>3 DEF Resend, Resends, Abort, Denied, Answered, HealthyAnswers, Status
  <2>2. ~ LookFails(p)
    BY <1>6 DEF LookFails, GetStages
  <2>. QED BY <2>1, <2>2 DEF PutLost, UnsafeHost
<1>8. CASE Skip(p)
  BY <1>2, <1>5, <1>8 DEF Skip, Answered
<1>9. CASE Accepted(p)
  BY <1>2, <1>9 DEF Accepted, Answered
<1>10. CASE FirstPut(p)
  <2>1. pc[p] = "look" /\ Calling(p) /\ wire[p] = "answered" /\ result[p] = "open"
    BY <1>3, <1>5, <1>10 DEF FirstPut
  <2>2. /\ pc'[p] = "put" /\ wire'[p] = "sent" /\ sha'[p] = reply[p].sha
        /\ existed'[p] = (reply[p].sha # Absent)
        /\ UNCHANGED <<attempt, result>>
    BY <1>0, <1>10 DEF FirstPut, Send, TypeOK
  <2>3. /\ reply[p].sha # head => rivals[p] >= 1
        /\ reply[p].sha # Absent /\ head = Absent => removed[p]
    BY <1>0, <2>1
    DEF RaceInv, RaceLost, RaceRemoved, Lost, GoesBy, HasVersion, FoundFile,
        GetStages
  <2>4. RaceWire(p)'
    BY <1>0, <2>1, <2>2 DEF RaceInv, RaceWire
  <2>5. RaceLost(p)'
    BY <1>0, <1>1, <2>2, <2>3
    DEF RaceLost, Lost, GoesBy, HasVersion, GetStages, PutStages
  <2>6. RaceRemoved(p)'
    BY <1>0, <2>2, <2>3 DEF RaceRemoved, FoundFile, GetStages
  <2>. QED BY <2>1, <2>2, <2>4, <2>5, <2>6 DEF RaceInv, Beaten
<1>11. ASSUME NEW stage \in {"putOn409", "putOn422"}, pc[p] \in GetStages,
              pc[p] # "look", Answered(p, Status),
              RetryPut(p, reply[p].sha, stage)
       PROVE  RaceInv(p)'
  <2>1. Calling(p) /\ wire[p] = "answered" /\ result[p] = "open"
    BY <1>3, <1>11
  <2>2. /\ rivals[p] >= 1
        /\ reply[p].sha # head => rivals[p] >= 2
        /\ existed[p] /\ reply[p].sha = Absent => removed[p]
        /\ existed[p] /\ head = Absent => removed[p]
    BY <1>0, <1>11, <2>1
    DEF RaceInv, RaceLost, RaceRemoved, Lost, GoesBy, HasVersion, FoundFile,
        GetStages
  <2>3. CASE MayRetry(p, reply[p].sha)
    <3>1. /\ pc'[p] = stage /\ wire'[p] = "sent" /\ sha'[p] = reply[p].sha
          /\ UNCHANGED <<existed, attempt, result>>
      BY <1>0, <1>11, <2>3 DEF RetryPut, FreshSha, Send, TypeOK
    <3>2. RaceWire(p)'
      BY <3>1 DEF RaceWire
    <3>3. RaceLost(p)'
      BY <1>0, <1>1, <2>2, <3>1
      DEF RaceLost, Lost, GoesBy, HasVersion, GetStages, PutStages
    <3>4. RaceRemoved(p)'
      BY <1>0, <2>2, <3>1 DEF RaceRemoved, FoundFile, GetStages
    <3>. QED BY <2>1, <3>1, <3>2, <3>3, <3>4 DEF RaceInv, Beaten
  <2>4. CASE ~ MayRetry(p, reply[p].sha)
    BY <1>2, <1>11, <2>1, <2>2, <2>4 DEF RetryPut, MayRetry
  <2>. QED BY <2>3, <2>4
<1>12. CASE PutOn409(p)
  BY <1>5, <1>11, <1>12 DEF PutOn409, GetStages
<1>13. CASE PutOn422(p)
  BY <1>5, <1>6, <1>11, <1>13 DEF PutOn422, GetStages
<1>14. ASSUME pc[p] \in PutStages, Answered(p, Status), reply[p].status # "ok"
       PROVE  rivals[p] >= Lost(p) + 1 /\ wire[p] = "answered"
              /\ result[p] = "open" /\ Calling(p)
              /\ (existed[p] /\ head = Absent => removed[p])
  BY <1>0, <1>3, <1>14 DEF RaceInv, RaceLost, RaceRemoved, FoundFile
<1>15. ASSUME pc[p] \in {"put", "putOn409"}, Answered(p, Status),
              reply[p].status # "ok",
              NEW stage \in {"lookOn409", "lookOn422"},
              Send(p, stage, "first"), UNCHANGED <<sha, existed, result>>
       PROVE  RaceInv(p)'
  <2>1. /\ rivals[p] >= 1 /\ result[p] = "open"
        /\ existed[p] /\ head = Absent => removed[p]
    BY <1>1, <1>14, <1>15 DEF Lost, PutStages
  <2>2. /\ pc'[p] = stage /\ wire'[p] = "sent"
    BY <1>0, <1>15 DEF Send, TypeOK
  <2>3. RaceWire(p)'
    BY <2>2 DEF RaceWire
  <2>4. RaceLost(p)'
    BY <1>0, <1>1, <2>1, <2>2
    DEF RaceLost, Lost, HasVersion, GetStages, PutStages
  <2>5. RaceRemoved(p)'
    BY <1>0, <1>15, <2>1, <2>2 DEF RaceRemoved, FoundFile
  <2>. QED BY <1>15, <2>1, <2>3, <2>4, <2>5 DEF RaceInv, Beaten
<1>16. CASE Conflict(p)
  <2>1. /\ pc[p] \in {"put", "putOn409"} /\ Answered(p, Status)
        /\ reply[p].status # "ok"
    BY <1>4, <1>16 DEF Conflict, Status
  <2>2. CASE RetriesConflict(p)
    BY <1>15, <1>16, <2>1, <2>2 DEF Conflict
  <2>3. CASE ~ RetriesConflict(p)
    <3>1. pc[p] = "putOn409"
      BY <1>0, <2>1, <2>3 DEF RetriesConflict, RaceInv, RaceWire
    <3>2. rivals[p] = 2 /\ wire[p] = "answered"
      BY <1>1, <1>14, <2>1, <3>1 DEF Lost, PutStages
    <3>. QED BY <1>2, <1>16, <2>3, <3>2 DEF Conflict
  <2>. QED BY <2>2, <2>3
<1>17. CASE Unprocessable(p)
  <2>1. Answered(p, Status) /\ reply[p].status # "ok"
    BY <1>4, <1>17 DEF Unprocessable, Status
  <2>. QED BY <1>15, <1>17, <2>1 DEF Unprocessable
<1>18. CASE PutFails(p)
  <2>1. /\ pc[p] \in PutStages /\ Answered(p, Status)
        /\ reply[p].status # "ok" /\ Return(p, "failed") /\ UNCHANGED attempt
    BY <1>18 DEF PutFails, Answered, Status
  <2>2. reply[p].status \in {"conflict", "unprocessable"}
    BY <1>3, <2>1 DEF HealthyAnswers, GetStages, PutStages
  <2>3. pc[p] = "putOn422"
    BY <1>18, <2>2 DEF PutFails, Answered
  <2>4. rivals[p] = 2 /\ wire[p] = "answered"
    BY <1>1, <1>14, <2>1, <2>3 DEF Lost
  <2>. QED BY <1>2, <2>1, <2>4
<1>. QED
  BY <1>7, <1>8, <1>9, <1>10, <1>12, <1>13, <1>16, <1>17, <1>18 DEF Proceed

LEMMA RaceOthers ==
    ASSUME PublishInv, RacesInv, NEW p \in Publishers, Proceed(p),
           NEW q \in Publishers, q # p
    PROVE  RaceInv(q)'
<1>0. TypeOK /\ RaceInv(q)
  BY DEF PublishInv, RacesInv
<1>1. ASSUME NEW r, Return(p, r)
      PROVE  pc'[q] = pc[q] /\ wire'[q] = wire[q] /\ result'[q] = result[q]
  BY <1>0, <1>1 DEF Return, TypeOK
<1>2. ASSUME NEW stage, NEW how, Send(p, stage, how)
      PROVE  pc'[q] = pc[q] /\ wire'[q] = wire[q]
  BY <1>0, <1>2 DEF Send, TypeOK
<1>3. ASSUME NEW found, NEW stage, RetryPut(p, found, stage)
      PROVE  /\ pc'[q] = pc[q] /\ wire'[q] = wire[q] /\ result'[q] = result[q]
             /\ sha'[q] = sha[q] /\ existed'[q] = existed[q]
             /\ attempt'[q] = attempt[q]
  BY <1>0, <1>1, <1>2, <1>3 DEF RetryPut, TypeOK
<1>4. /\ pc'[q] = pc[q] /\ wire'[q] = wire[q] /\ result'[q] = result[q]
      /\ sha'[q] = sha[q] /\ existed'[q] = existed[q]
      /\ attempt'[q] = attempt[q]
  <2>1. CASE Abort(p) \/ Skip(p) \/ LookFails(p) \/ Accepted(p)
             \/ Denied(p) \/ PutFails(p) \/ PutLost(p)
    BY <1>1, <2>1
    DEF Abort, Skip, LookFails, Accepted, Denied, PutFails, PutLost
  <2>2. CASE Resend(p) \/ Unprocessable(p)
    BY <1>2, <2>2 DEF Resend, Unprocessable
  <2>3. CASE PutOn409(p) \/ PutOn422(p)
    BY <1>3, <2>3 DEF PutOn409, PutOn422
  <2>4. CASE Conflict(p)
    BY <1>0, <1>1, <1>2, <2>4 DEF Conflict, TypeOK
  <2>5. CASE FirstPut(p)
    BY <1>0, <1>2, <2>5 DEF FirstPut, TypeOK
  <2>6. CASE UnsafeHost(p)
    BY <1>0, <2>6 DEF UnsafeHost, TypeOK
  <2>. QED BY <2>1, <2>2, <2>3, <2>4, <2>5, <2>6 DEF Proceed
<1>5. reply'[q] = reply[q] /\ UNCHANGED <<head, rivals, removed>>
  BY <1>0 DEF Proceed, TypeOK, fileVars, history
<1>. QED BY <1>0, <1>4, <1>5, RaceStutter

LEMMA RaceStep ==
    ASSUME PublishInv, RacesInv, Faults = {}, ConflictRetries > 0, [Next]_vars
    PROVE  RacesInv'
<1> SUFFICES ASSUME NEW q \in Publishers PROVE RaceInv(q)'
  BY DEF RacesInv
<1>0. TypeOK /\ RaceInv(q)
  BY DEF PublishInv, RacesInv
<1>1. CASE Edit
  <2>1. PICK new \in (Blobs \cup {Absent}) \ {head} : ChangeFile(new, {})
    BY <1>1 DEF Edit
  <2>. QED BY <1>0, <1>1, <2>1, RivalChange DEF Edit, callVars
<1>2. ASSUME NEW p \in Publishers, Begin(p) PROVE RaceInv(q)'
  <2>1. CASE q # p
    BY <1>0, <1>2, <2>1, RaceStutter
    DEF Begin, Send, TypeOK, fileVars, history
  <2>2. CASE q = p
    <3>1. /\ pc[q] = "idle" /\ pc'[q] = "look" /\ wire'[q] = "sent"
          /\ UNCHANGED <<head, existed, attempt, result, rivals, removed>>
      BY <1>0, <1>2, <2>2 DEF Begin, Send, TypeOK, fileVars, history
    <3>2. ~ existed[q] /\ result[q] = "open" /\ rivals[q] \in 0 .. 2
          /\ attempt[q] = 0
      BY <1>0, <3>1
      DEF PublishInv, CallsInv, CallInv, PutSound, WireSound, TypeOK, RaceInv,
          RaceWire
    <3>. QED
      BY <3>1, <3>2
      DEF RaceInv, RaceWire, RaceLost, RaceRemoved, Beaten, Lost, HasVersion,
          FoundFile, GetStages, PutStages
  <2>. QED BY <2>1, <2>2
<1>3. ASSUME NEW p \in Publishers, ServeGet(p) PROVE RaceInv(q)'
  <2>1. CASE q = p
    BY <1>3, <2>1, RaceGet
  <2>2. CASE q # p
    <3>1. /\ reply'[q] = reply[q] /\ wire'[q] = wire[q]
          /\ UNCHANGED <<head, pc, sha, existed, attempt, result, rivals,
                         removed>>
      BY <1>0, <1>3, <2>2 DEF ServeGet, Answer, TypeOK, fileVars, callVars
    <3>. QED BY <1>0, <3>1, RaceStutter
  <2>. QED BY <2>1, <2>2
<1>4. ASSUME NEW p \in Publishers, ServePut(p) PROVE RaceInv(q)'
  <2>1. CASE q = p
    BY <1>4, <2>1, RacePut
  <2>2. CASE q # p
    <3>1. /\ reply'[q] = reply[q] /\ wire'[q] = wire[q]
          /\ UNCHANGED <<pc, sha, existed, attempt, result>>
          /\ \/ ChangeFile(Content[p], {p})
             \/ UNCHANGED <<head, rivals, removed>>
      BY <1>0, <1>4, <2>2 DEF ServePut, Answer, TypeOK, callVars
    <3>2. Content[p] \in Blobs \cup {Absent}
      BY PublisherAssumption
    <3>3. CASE ChangeFile(Content[p], {p})
      BY <1>0, <2>2, <3>1, <3>2, <3>3, RivalChange
    <3>4. CASE UNCHANGED <<head, rivals, removed>>
      BY <1>0, <3>1, <3>4, RaceStutter
    <3>. QED BY <3>1, <3>3, <3>4
  <2>. QED BY <2>1, <2>2
<1>5. ASSUME NEW p \in Publishers, Proceed(p) PROVE RaceInv(q)'
  BY <1>5, RaceProceed, RaceOthers
<1>6. CASE UNCHANGED vars
  BY <1>0, <1>6, RaceStutter DEF vars, fileVars, callVars, history
<1>. QED BY <1>1, <1>2, <1>3, <1>4, <1>5, <1>6 DEF Next

\* One lost race is always made good: on an API without faults a call, among
\* any number of others and of commits by hand, returns False only if the file
\* was removed under it or others changed it twice.
THEOREM LosesOnlyWhenBeaten ==
    ASSUME Faults = {}, ConflictRetries > 0
    PROVE  Spec => []FailsOnlyWhenBeaten
<1>1. Init => RacesInv
  BY PublisherAssumption
  DEF Init, NoReply, RacesInv, RaceInv, RaceWire, RaceLost, RaceRemoved, Beaten,
      Calling
<1>2. PublishInv /\ RacesInv /\ [Next]_vars => RacesInv'
  BY RaceStep
<1>3. RacesInv => FailsOnlyWhenBeaten
  BY DEF RacesInv, RaceInv, Beaten, FailsOnlyWhenBeaten
<1>. QED BY <1>1, <1>2, <1>3, PublishInvariant, PTL DEF Spec
============================================================================
