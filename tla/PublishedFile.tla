--------------------------- MODULE PublishedFile ---------------------------
(***************************************************************************)
(* What GitHubPublisher.publish_file promises about the one file it        *)
(* writes, without its requests.  The content of the file may change under *)
(* every call.  A call writes only over a version one of its own looks     *)
(* returned, never brings back a file that its first look found and that   *)
(* somebody removed, reports success only when its content has been the    *)
(* file's, and leaves the file alone once it has reported success.         *)
(***************************************************************************)
CONSTANTS Publishers, Content, Blobs, Absent

VARIABLES
    head,      \* the version at the head of the branch, or Absent
    seen,      \* versions the looks of each call returned
    existed,   \* the first look of each call found the file
    landed,    \* the content of each call has been the file's
    result     \* "open" until the call ends

absVars == <<head, seen, existed, landed, result>>

Init ==
    /\ head \in Blobs \cup {Absent}
    /\ seen = [p \in Publishers |-> {}]
    /\ existed = [p \in Publishers |-> FALSE]
    /\ landed = [p \in Publishers |-> FALSE]
    /\ result = [p \in Publishers |-> "open"]

\* Somebody else commits or removes the file.
Edit ==
    /\ head' \in Blobs \cup {Absent}
    /\ UNCHANGED <<seen, existed, landed, result>>

\* A look may find the very content the call wants to publish.
Look(p) ==
    /\ result[p] = "open"
    /\ head # Absent
    /\ seen' = [seen EXCEPT ![p] = @ \cup {head}]
    /\ landed' = [landed EXCEPT ![p] = @ \/ head = Content[p]]
    /\ UNCHANGED <<head, existed, result>>

Remember(p) ==
    /\ result[p] = "open"
    /\ existed' = [existed EXCEPT ![p] = TRUE]
    /\ UNCHANGED <<head, seen, landed, result>>

\* A call that gave up on a lost answer may still land.
Land(p) ==
    /\ result[p] \in {"open", "failed"}
    /\ IF head = Absent THEN ~ existed[p] ELSE head \in seen[p]
    /\ head' = Content[p]
    /\ landed' = [landed EXCEPT ![p] = TRUE]
    /\ UNCHANGED <<seen, existed, result>>

Return(p, r) ==
    /\ result[p] = "open"
    /\ r = "published" => landed[p]
    /\ result' = [result EXCEPT ![p] = r]
    /\ UNCHANGED <<head, seen, existed, landed>>

Next ==
    \/ Edit
    \/ \E p \in Publishers :
          \/ Look(p) \/ Remember(p) \/ Land(p)
          \/ \E r \in {"published", "failed", "raised"} : Return(p, r)

Spec == Init /\ [][Next]_absVars
============================================================================
