---------------------------- MODULE SourceFetch ----------------------------
(***************************************************************************)
(* Fetching all sources at once: SourceManager.fetch_all with the four     *)
(* source types, GitHubClient.fetch_directory with the listing of a large  *)
(* directory through the shared tree of its repository, and the summary    *)
(* stages/fetch.py makes of the reports.                                   *)
(*                                                                         *)
(* A source is a tree of nodes: a directory and its subdirectories for a   *)
(* raw source, the index for a url-list, the file itself for the others.   *)
(* One fetch stands for all the attempts of ApiRequest at it.              *)
(***************************************************************************)
EXTENDS Integers, Sequences, FiniteSets, FiniteSetsExt

CONSTANTS
    Sources,       \* enabled sources
    Nodes,         \* directories and files they are made of
    Repos,
    Plan,          \* source -> [kind, root, repo, maxFiles, maxDepth, urls, filters]
    Tree,          \* node -> [source, level, files, kids, shownFiles, shownKids]
    SourceSlots,   \* max_concurrent_fetches
    ApiSlots,      \* GitHubClient._api_semaphore
    Downloads      \* _download_gate

Kinds == {"raw", "url-list", "url", "subscription"}

\* A listing at the limit of the Contents API shows only a prefix.
ASSUME PlanAssumption ==
    /\ \A s \in Sources :
          /\ Plan[s].kind \in Kinds /\ Plan[s].root \in Nodes /\ Plan[s].repo \in Repos
          /\ Plan[s].maxFiles \in Nat \ {0} /\ Plan[s].maxDepth \in Nat \ {0}
          /\ Plan[s].urls \in Nat \ {0} /\ Plan[s].filters \in BOOLEAN
          /\ Tree[Plan[s].root].source = s
    /\ \A n \in Nodes :
          /\ Tree[n].source \in Sources /\ Tree[n].level \in Nat
          /\ Tree[n].files \in Nat /\ Tree[n].kids \in Seq(Nodes)
          /\ Tree[n].shownFiles \in 0 .. Tree[n].files
          /\ Tree[n].shownKids \in 0 .. Len(Tree[n].kids)
    /\ {SourceSlots, ApiSlots, Downloads} \subseteq Nat \ {0}

VARIABLES
    status,     \* each source: "queued", "running", "ok" or "error"
    files,      \* files reported for it
    phase,      \* what the task of each node is at
    budget,     \* files the node may still return, its subtree included
    seen,       \* [files, kids] of the listing the node works with
    left, busy, \* fetches of the node not begun, and in flight
    own, got,   \* files fetched at the node, and with its subtree
    tree,       \* each repository's entry of _tree_cache
    inUse,      \* slots taken of _api_semaphore and of the download gate
    returned, stats

sourceVars == <<status, files, returned, stats>>
fileVars == <<left, busy, own>>
vars == <<sourceVars, phase, budget, seen, fileVars, got, tree, inUse>>

Source(n) == Plan[Tree[n].source]
Kind(n) == Source(n).kind
Repo(n) == Source(n).repo
OnGitHub(n) == Kind(n) \in {"raw", "subscription"}
Large(n) == Tree[n].shownFiles < Tree[n].files \/ Tree[n].shownKids < Len(Tree[n].kids)

\* The nodes are finite trees, one below the root of each source, and only a
\* directory of GitHub may be shown in part.
ASSUME ForestAssumption ==
    /\ IsFiniteSet(Sources) /\ IsFiniteSet(Nodes) /\ IsFiniteSet(Repos)
    /\ \A s \in Sources : Tree[Plan[s].root].level = 0
    /\ \A n \in Nodes : Large(n) => Kind(n) = "raw"
    /\ \A n \in Nodes : \A i \in DOMAIN Tree[n].kids :
          LET m == Tree[n].kids[i] IN
          /\ Tree[m].source = Tree[n].source /\ Tree[m].level = Tree[n].level + 1
          /\ \A p \in Nodes : \A j \in DOMAIN Tree[p].kids :
                Tree[p].kids[j] = m => p = n /\ j = i

Whole(n) == [files |-> Tree[n].files, kids |-> Tree[n].kids]
Prefix(n) == [files |-> Tree[n].shownFiles,
              kids |-> SubSeq(Tree[n].kids, 1, Tree[n].shownKids)]
Nothing == [files |-> 0, kids |-> <<>>]

Least(a, b) == IF a < b THEN a ELSE b
Total(f, S) == MapThenSumSet(LAMBDA n : f[n], S)

TypeOK ==
    /\ status \in [Sources -> {"queued", "running", "ok", "error"}]
    /\ files \in [Sources -> Nat]
    /\ phase \in [Nodes -> {"idle", "ask", "listing", "tree", "files", "subs",
                            "done", "failed"}]
    /\ {budget, left, busy, own, got} \subseteq [Nodes -> Nat]
    /\ \A n \in Nodes : seen[n] \in {Nothing, Prefix(n), Whole(n)}
    /\ \A n \in Nodes : own[n] + left[n] + busy[n] <= budget[n]
    /\ tree \in [Repos -> {"none", "asked", "flight", "held"}]
    /\ inUse \in [api : 0 .. ApiSlots, gate : 0 .. Downloads]
    /\ returned \in BOOLEAN

Init ==
    /\ status = [s \in Sources |-> "queued"] /\ files = [s \in Sources |-> 0]
    /\ phase = [n \in Nodes |-> "idle"] /\ seen = [n \in Nodes |-> Nothing]
    /\ budget = [n \in Nodes |-> 0] /\ left = [n \in Nodes |-> 0]
    /\ busy = [n \in Nodes |-> 0] /\ own = [n \in Nodes |-> 0]
    /\ got = [n \in Nodes |-> 0] /\ tree = [r \in Repos |-> "none"]
    /\ inUse = [api |-> 0, gate |-> 0]
    /\ returned = FALSE /\ stats = [ok |-> 0, failed |-> 0]
-----------------------------------------------------------------------------
(* Slots.  A request to GitHub holds one only while it is in flight; an    *)
(* untrusted download holds one of the gate and one of its source.         *)

Pool(n) == IF OnGitHub(n) THEN "api" ELSE "gate"
Slots == [api |-> ApiSlots, gate |-> Downloads]
Full(p) == inUse[p] = Slots[p]

Acquire(p) == ~ Full(p) /\ inUse' = [inUse EXCEPT ![p] = @ + 1]
Release(p) == inUse' = [inUse EXCEPT ![p] = @ - 1]

\* A mutant: the slot is kept until the tree is there.
KeptForTree == UNCHANGED inUse

\* What a listing that needs the tree does with its slot.
BeforeTree == Release("api")
-----------------------------------------------------------------------------
(* Sources.                                                                *)

\* fetch_source: a directory and an index are listed first.
StartSource(s) ==
    LET n == Plan[s].root IN
    /\ status[s] = "queued"
    /\ Cardinality({t \in Sources : status[t] = "running"}) < SourceSlots
    /\ status' = [status EXCEPT ![s] = "running"]
    /\ budget' = [budget EXCEPT ![n] = Plan[s].maxFiles]
    /\ IF Plan[s].kind \in {"raw", "url-list"}
       THEN phase' = [phase EXCEPT ![n] = "ask"] /\ UNCHANGED left
       ELSE phase' = [phase EXCEPT ![n] = "files"] /\ left' = [left EXCEPT ![n] = 1]
    /\ UNCHANGED <<files, returned, stats, seen, busy, own, got, tree, inUse>>

\* Only the files of a directory go through include_files and exclude_files.
Kept(s) ==
    IF Plan[s].filters /\ Plan[s].kind = "raw" THEN 0 .. got[Plan[s].root]
    ELSE {got[Plan[s].root]}

\* A source without a file is a failure, as is one that raised.
FinishSource(s) ==
    /\ status[s] = "running"
    /\ phase[Plan[s].root] \in {"done", "failed"}
    /\ \E k \in Kept(s) :
          /\ files' = [files EXCEPT ![s] = k]
          /\ status' = [status EXCEPT ![s] = IF k > 0 THEN "ok" ELSE "error"]
    /\ UNCHANGED <<returned, stats, phase, budget, seen, fileVars, got, tree, inUse>>

\* _report_failures: the reports with an error.
Failures == {s \in Sources : status[s] = "error"}

FetchAllReturns ==
    /\ ~ returned
    /\ \A s \in Sources : status[s] \in {"ok", "error"}
    /\ returned' = TRUE
    /\ stats' = [ok |-> Cardinality(Sources) - Cardinality(Failures),
                 failed |-> Cardinality(Failures)]
    /\ UNCHANGED <<status, files, phase, budget, seen, fileVars, got, tree, inUse>>
-----------------------------------------------------------------------------
(* Directories and indexes.                                                *)

\* A mutant: the budget is looked at only when it is shared out.
TakeAll(n, listing) == listing.files

\* The files that come first are fetched, as many as the budget allows.
Take(n, listing) == Least(listing.files, budget[n])

\* The nodes of N go on with the listing of each.
GoOn(N, Listing(_)) ==
    /\ phase' = [n \in Nodes |-> IF n \in N THEN "files" ELSE phase[n]]
    /\ seen' = [n \in Nodes |-> IF n \in N THEN Listing(n) ELSE seen[n]]
    /\ left' = [n \in Nodes |-> IF n \in N THEN Take(n, Listing(n)) ELSE left[n]]

AskListing(n) ==
    /\ phase[n] = "ask" /\ Acquire(Pool(n))
    /\ phase' = [phase EXCEPT ![n] = "listing"]
    /\ UNCHANGED <<sourceVars, budget, seen, fileVars, got, tree>>

\* Any answer but a listing, or none: the clock of a request to GitHub runs
\* while it queues for its slot.
ListingFails(n) ==
    /\ \/ phase[n] = "listing" /\ Release(Pool(n))
       \/ phase[n] = "ask" /\ OnGitHub(n) /\ Full("api") /\ UNCHANGED inUse
    /\ phase' = [phase EXCEPT ![n] = "failed"]
    /\ UNCHANGED <<sourceVars, budget, seen, fileVars, got, tree>>

Listed(n) ==
    /\ phase[n] = "listing" /\ ~ Large(n) /\ Release(Pool(n))
    /\ GoOn({n}, Whole)
    /\ UNCHANGED <<sourceVars, budget, busy, own, got, tree>>

\* list_repo_contents needs the tree, which the first that needs it asks for.
NeedsTree(n) ==
    /\ phase[n] = "listing" /\ Large(n) /\ tree[Repo(n)] # "held" /\ BeforeTree
    /\ phase' = [phase EXCEPT ![n] = "tree"]
    /\ tree' = [tree EXCEPT ![Repo(n)] = IF @ = "none" THEN "asked" ELSE @]
    /\ UNCHANGED <<sourceVars, budget, seen, fileVars, got>>

HasTree(n) ==
    /\ phase[n] = "listing" /\ Large(n) /\ tree[Repo(n)] = "held" /\ Release("api")
    /\ GoOn({n}, Whole)
    /\ UNCHANGED <<sourceVars, budget, busy, own, got, tree>>

AskTree(r) ==
    /\ tree[r] = "asked" /\ Acquire("api")
    /\ tree' = [tree EXCEPT ![r] = "flight"]
    /\ UNCHANGED <<sourceVars, phase, budget, seen, fileVars, got>>

Waiters(r) == {n \in Nodes : phase[n] = "tree" /\ Repo(n) = r}

\* _fetch_repo_tree: the event loop resumes all who await the future in a row.
TreeAnswered(r) ==
    /\ tree[r] = "flight" /\ Release("api")
    /\ tree' = [tree EXCEPT ![r] = "held"]
    /\ GoOn(Waiters(r), Whole)
    /\ UNCHANGED <<sourceVars, budget, busy, own, got>>

\* A mutant: the failure is cached like a tree.
FailureCached == "held"

\* What stays in the cache of a tree that could not be had, or was truncated.
AfterFailure == "none"

TreeFails(r) ==
    /\ \/ tree[r] = "flight" /\ Release("api")
       \/ tree[r] = "asked" /\ Full("api") /\ UNCHANGED inUse
    /\ tree' = [tree EXCEPT ![r] = AfterFailure]
    /\ GoOn(Waiters(r), Prefix)
    /\ UNCHANGED <<sourceVars, budget, busy, own, got>>
-----------------------------------------------------------------------------
(* Files.                                                                  *)

FetchFile(n) ==
    /\ phase[n] = "files" /\ left[n] > 0 /\ Acquire(Pool(n))
    /\ ~ OnGitHub(n) => busy[n] < Source(n).urls
    /\ left' = [left EXCEPT ![n] = @ - 1]
    /\ busy' = [busy EXCEPT ![n] = @ + 1]
    /\ UNCHANGED <<sourceVars, phase, budget, seen, own, got, tree>>

FileFetched(n) ==
    /\ busy[n] > 0 /\ Release(Pool(n))
    /\ busy' = [busy EXCEPT ![n] = @ - 1]
    /\ own' = [own EXCEPT ![n] = @ + 1]
    /\ UNCHANGED <<sourceVars, phase, budget, seen, left, got, tree>>

\* An empty file counts as one that failed.
FileFails(n) ==
    /\ busy[n] > 0 /\ Release(Pool(n))
    /\ busy' = [busy EXCEPT ![n] = @ - 1]
    /\ UNCHANGED <<sourceVars, phase, budget, seen, left, own, got, tree>>

\* fetch_file, which a file listed by the tree goes through, may time out in
\* the queue like a listing; fetch_raw_file does not.
FileExpires(n) ==
    /\ phase[n] = "files" /\ left[n] > 0 /\ Full("api")
    /\ \/ Kind(n) = "subscription"
       \/ Kind(n) = "raw" /\ Large(n) /\ seen[n] = Whole(n)
    /\ left' = [left EXCEPT ![n] = @ - 1]
    /\ UNCHANGED <<sourceVars, phase, budget, seen, busy, own, got, tree, inUse>>

FilesOver(n) == phase[n] = "files" /\ left[n] = 0 /\ busy[n] = 0
Rest(n) == budget[n] - own[n]

\* The share of the i-th of k subdirectories in a budget of b files.
Share(b, k, i) == (b \div k) + (IF i <= b % k THEN 1 ELSE 0)

\* Each subdirectory is launched with its share, or skipped without one or below
\* the depth.
Recurse(n) ==
    LET kids == seen[n].kids
        k == Len(kids)
        Number(m) == CHOOSE i \in 1 .. k : kids[i] = m
        ShareOf(m) == Share(Rest(n), k, Number(m))
        Skipped(m) == ShareOf(m) = 0 \/ Tree[m].level >= Source(m).maxDepth
        isKid == {kids[i] : i \in 1 .. k}
    IN
    /\ FilesOver(n) /\ k > 0 /\ Rest(n) > 0
    /\ budget' = [m \in Nodes |-> IF m \in isKid THEN ShareOf(m) ELSE budget[m]]
    /\ phase' = [m \in Nodes |->
                    IF m = n THEN "subs"
                    ELSE IF m \in isKid THEN (IF Skipped(m) THEN "done" ELSE "ask")
                    ELSE phase[m]]
    /\ UNCHANGED <<sourceVars, seen, fileVars, got, tree, inUse>>

NoRecursion(n) ==
    /\ FilesOver(n) /\ (seen[n].kids = <<>> \/ Rest(n) = 0)
    /\ phase' = [phase EXCEPT ![n] = "done"]
    /\ got' = [got EXCEPT ![n] = own[n]]
    /\ UNCHANGED <<sourceVars, budget, seen, fileVars, tree, inUse>>

\* A mutant: one that raised takes its siblings along.
AllOrNothing(kids) ==
    IF \E i \in DOMAIN kids : phase[kids[i]] = "failed" THEN 0
    ELSE Total(got, {kids[i] : i \in DOMAIN kids})

\* A subdirectory that raised counts as one without files.
FromKids(kids) == Total(got, {kids[i] : i \in DOMAIN kids})

Gather(n) ==
    /\ phase[n] = "subs"
    /\ \A i \in DOMAIN seen[n].kids : phase[seen[n].kids[i]] \in {"done", "failed"}
    /\ got' = [got EXCEPT ![n] = own[n] + FromKids(seen[n].kids)]
    /\ phase' = [phase EXCEPT ![n] = "done"]
    /\ UNCHANGED <<sourceVars, budget, seen, fileVars, tree, inUse>>
-----------------------------------------------------------------------------
NodeStep(n) ==
    \/ AskListing(n) \/ ListingFails(n) \/ Listed(n) \/ NeedsTree(n) \/ HasTree(n)
    \/ FetchFile(n) \/ FileFetched(n) \/ FileFails(n) \/ FileExpires(n)
    \/ Recurse(n) \/ NoRecursion(n) \/ Gather(n)

Next ==
    \/ \E s \in Sources : StartSource(s) \/ FinishSource(s)
    \/ FetchAllReturns
    \/ \E r \in Repos : AskTree(r) \/ TreeAnswered(r) \/ TreeFails(r)
    \/ \E n \in Nodes : NodeStep(n)

Spec == Init /\ [][Next]_vars

\* Every request has a wall-clock limit, and the event loop runs what can run.
FairSpec == Spec /\ WF_vars(Next)
-----------------------------------------------------------------------------
(* Properties.                                                             *)

NodesOf(s) == {n \in Nodes : Tree[n].source = s}

\* No failure of a listing, a file or a subdirectory loses a file that was
\* fetched: an unfiltered source returns all that was fetched for it.  The run
\* summary counts as failed the sources that returned none.
NothingFetchedIsLost ==
    /\ \A s \in Sources :
          status[s] \in {"ok", "error"} /\ ~ Plan[s].filters =>
             files[s] = Total(own, NodesOf(s))
    /\ returned => /\ stats.failed = Cardinality({s \in Sources : files[s] = 0})
                   /\ stats.ok = Cardinality({s \in Sources : files[s] > 0})

\* A capped listing replaces the directory only when the tree of its repository
\* was asked for while it waited and could not be had; who waits for a tree waits
\* for one that is under way; a tree, once had, is never asked for again.
TreeBeforePrefix ==
    [][/\ \A n \in Nodes : phase'[n] = "tree" => tree'[Repo(n)] \in {"asked", "flight"}
       /\ \A n \in Nodes :
             Large(n) /\ seen[n] = Nothing /\ seen'[n] = Prefix(n) /\ seen'[n] # Nothing =>
                phase[n] = "tree" /\ tree[Repo(n)] \in {"asked", "flight"}
       /\ \A n \in Nodes :
             Large(n) /\ seen'[n] # seen[n] /\ tree'[Repo(n)] = "held" =>
                seen'[n] = Whole(n)
       /\ \A r \in Repos : tree[r] = "held" => tree'[r] = "held"]_vars

\* Fetching implements the reports it promises.
Outcome(s) ==
    IF status[s] \in {"queued", "running"} THEN -1
    ELSE IF status[s] = "error" THEN 0 ELSE files[s]

Reports ==
    INSTANCE SourceReports
        WITH MaxFiles <- [s \in Sources |-> Plan[s].maxFiles],
             outcome <- [s \in Sources |-> Outcome(s)],
             returned <- returned

KeepsReports == Reports!Spec
=============================================================================
