------------------------- MODULE SourceFetchProofs -------------------------
(***************************************************************************)
(* Proofs about SourceFetch, for any sources, directories and repositories *)
(* and any number of slots.                                                *)
(***************************************************************************)
EXTENDS SourceFetch, FiniteSetTheorems, WellFoundedInduction, TLAPS

\* Every node belongs to a repository.
LEMMA RepoType == \A n \in Nodes : Repo(n) \in Repos
BY PlanAssumption DEF Repo, Source

\* A capped listing lacks a file or a subdirectory.
LEMMA PrefixIsLess ==
    ASSUME NEW n \in Nodes, Large(n)
    PROVE  Prefix(n) # Whole(n)
<1>1. /\ Tree[n].files \in Nat /\ Tree[n].kids \in Seq(Nodes)
      /\ Tree[n].shownFiles \in 0 .. Tree[n].files
      /\ Tree[n].shownKids \in 0 .. Len(Tree[n].kids)
  BY PlanAssumption
<1>2. CASE Tree[n].shownFiles < Tree[n].files
  BY <1>1, <1>2 DEF Prefix, Whole
<1>3. CASE Tree[n].shownKids < Len(Tree[n].kids)
  <2>1. Len(SubSeq(Tree[n].kids, 1, Tree[n].shownKids)) = Tree[n].shownKids
    BY <1>1, <1>3
  <2>2. SubSeq(Tree[n].kids, 1, Tree[n].shownKids) # Tree[n].kids
    BY <2>1, <1>1, <1>3
  <2>. QED BY <2>2 DEF Prefix, Whole
<1>. QED BY <1>2, <1>3 DEF Large

\* Who waits for a tree waits for a request that will end.
WaitInv ==
    /\ phase \in [Nodes -> {"idle", "ask", "listing", "tree", "files", "subs",
                            "done", "failed"}]
    /\ DOMAIN seen = Nodes
    /\ tree \in [Repos -> {"none", "asked", "flight", "held"}]
    /\ \A n \in Nodes : phase[n] = "tree" => tree[Repo(n)] \in {"asked", "flight"}

\* What TreeBeforePrefix says of a step.
TreeStep ==
    /\ \A n \in Nodes : phase'[n] = "tree" => tree'[Repo(n)] \in {"asked", "flight"}
    /\ \A n \in Nodes :
          Large(n) /\ seen[n] = Nothing /\ seen'[n] = Prefix(n) /\ seen'[n] # Nothing =>
             phase[n] = "tree" /\ tree[Repo(n)] \in {"asked", "flight"}
    /\ \A n \in Nodes :
          Large(n) /\ seen'[n] # seen[n] /\ tree'[Repo(n)] = "held" =>
             seen'[n] = Whole(n)
    /\ \A r \in Repos : tree[r] = "held" => tree'[r] = "held"

\* A step that listens to no tree and adds nobody who waits for one.
LEMMA OtherSteps ==
    ASSUME WaitInv, UNCHANGED <<seen, tree>>,
           phase' \in [Nodes -> {"idle", "ask", "listing", "tree", "files", "subs",
                                 "done", "failed"}],
           \A n \in Nodes : phase'[n] = "tree" => phase[n] = "tree"
    PROVE  WaitInv' /\ TreeStep
BY DEF WaitInv, TreeStep

\* A listing that needed no tree, or found it there.
LEMMA WholeListing ==
    ASSUME WaitInv, NEW m \in Nodes, GoOn({m}, Whole), UNCHANGED tree
    PROVE  WaitInv' /\ TreeStep
<1>1. \A n \in Nodes : seen'[n] = IF n = m THEN Whole(n) ELSE seen[n]
  BY DEF GoOn
<1>2. \A n \in Nodes : phase'[n] = IF n = m THEN "files" ELSE phase[n]
  BY DEF GoOn
<1>3. WaitInv'
  BY <1>2 DEF GoOn, WaitInv
<1>. QED BY <1>1, <1>3, PrefixIsLess DEF TreeStep, WaitInv

\* The first that needs the tree has it asked for.
LEMMA NeedsTreeKeeps ==
    ASSUME WaitInv, NEW m \in Nodes, NeedsTree(m)
    PROVE  WaitInv' /\ TreeStep
<1>1. Repo(m) \in Repos
  BY RepoType
<1>2. /\ phase' = [phase EXCEPT ![m] = "tree"] /\ seen' = seen
      /\ tree' = [tree EXCEPT ![Repo(m)] = IF @ = "none" THEN "asked" ELSE @]
      /\ tree[Repo(m)] # "held"
  BY DEF NeedsTree
<1>3. tree'[Repo(m)] \in {"asked", "flight"}
  BY <1>1, <1>2 DEF WaitInv
<1>4. \A r \in Repos : tree'[r] = tree[r] \/ r = Repo(m)
  BY <1>2 DEF WaitInv
<1>5. WaitInv'
  BY <1>1, <1>2, <1>3, <1>4, RepoType DEF WaitInv
<1>. QED BY <1>2, <1>4, <1>5 DEF TreeStep, WaitInv

LEMMA AskTreeKeeps ==
    ASSUME WaitInv, NEW r \in Repos, AskTree(r)
    PROVE  WaitInv' /\ TreeStep
<1>1. /\ tree[r] = "asked" /\ tree' = [tree EXCEPT ![r] = "flight"]
      /\ UNCHANGED <<phase, seen>>
  BY DEF AskTree
<1>2. WaitInv'
  BY <1>1, RepoType DEF WaitInv
<1>. QED BY <1>1, <1>2 DEF TreeStep, WaitInv

\* The answer, or the failure, reaches all who wait.
LEMMA TreeEndsKeeps ==
    ASSUME WaitInv, NEW r \in Repos, TreeAnswered(r) \/ TreeFails(r)
    PROVE  WaitInv' /\ TreeStep
<1>1. tree[r] \in {"asked", "flight"}
  BY DEF TreeAnswered, TreeFails
<1>2. \A n \in Nodes : phase'[n] = IF n \in Waiters(r) THEN "files" ELSE phase[n]
  BY DEF TreeAnswered, TreeFails, GoOn
<1>3. /\ phase' \in [Nodes -> {"idle", "ask", "listing", "tree", "files", "subs",
                               "done", "failed"}]
      /\ DOMAIN seen' = Nodes
  BY DEF TreeAnswered, TreeFails, GoOn, WaitInv
<1>4. /\ tree' \in [Repos -> {"none", "asked", "flight", "held"}]
      /\ \A q \in Repos : q # r => tree'[q] = tree[q]
  BY DEF TreeAnswered, TreeFails, AfterFailure, WaitInv
<1>5. WaitInv'
  BY <1>2, <1>3, <1>4, RepoType DEF WaitInv, Waiters
<1>6. \A n \in Nodes : n \in Waiters(r) \/ seen'[n] = seen[n]
  BY DEF TreeAnswered, TreeFails, GoOn
<1>7. \A n \in Waiters(r) :
         /\ phase[n] = "tree" /\ Repo(n) = r
         /\ \/ seen'[n] = Whole(n)
            \/ tree'[r] = "none"
  BY DEF TreeAnswered, TreeFails, AfterFailure, GoOn, Waiters, WaitInv
<1>. QED BY <1>1, <1>4, <1>5, <1>6, <1>7 DEF TreeStep, WaitInv
-----------------------------------------------------------------------------
\* WaitInv holds at the start, and each step keeps it and what TreeStep says.
LEMMA InitWaits == Init => WaitInv
BY DEF Init, WaitInv

LEMMA StepsWait == WaitInv /\ [Next]_vars => WaitInv' /\ TreeStep
<1>. SUFFICES ASSUME WaitInv, [Next]_vars
              PROVE  WaitInv' /\ TreeStep
  OBVIOUS
<1>. USE DEF sourceVars, fileVars
<1>1. ASSUME NEW s \in Sources, StartSource(s)
      PROVE  WaitInv' /\ TreeStep
  BY <1>1, OtherSteps DEF StartSource, WaitInv
<1>2. ASSUME NEW s \in Sources, FinishSource(s)
      PROVE  WaitInv' /\ TreeStep
  BY <1>2, OtherSteps DEF FinishSource, WaitInv
<1>3. ASSUME FetchAllReturns
      PROVE  WaitInv' /\ TreeStep
  BY <1>3, OtherSteps DEF FetchAllReturns, WaitInv
<1>4. ASSUME NEW r \in Repos, AskTree(r) \/ TreeAnswered(r) \/ TreeFails(r)
      PROVE  WaitInv' /\ TreeStep
  BY <1>4, AskTreeKeeps, TreeEndsKeeps
<1>5. ASSUME NEW n \in Nodes, Listed(n) \/ HasTree(n)
      PROVE  WaitInv' /\ TreeStep
  BY <1>5, WholeListing DEF Listed, HasTree
<1>6. ASSUME NEW n \in Nodes, NeedsTree(n)
      PROVE  WaitInv' /\ TreeStep
  BY <1>6, NeedsTreeKeeps
<1>7. ASSUME NEW n \in Nodes, AskListing(n) \/ ListingFails(n)
      PROVE  WaitInv' /\ TreeStep
  BY <1>7, OtherSteps DEF AskListing, ListingFails, WaitInv
<1>8. ASSUME NEW n \in Nodes,
             FetchFile(n) \/ FileFetched(n) \/ FileFails(n) \/ FileExpires(n)
      PROVE  WaitInv' /\ TreeStep
  BY <1>8, OtherSteps DEF FetchFile, FileFetched, FileFails, FileExpires, WaitInv
<1>9. ASSUME NEW n \in Nodes, Recurse(n)
      PROVE  WaitInv' /\ TreeStep
  <2>1. /\ phase' \in [Nodes -> {"idle", "ask", "listing", "tree", "files", "subs",
                                 "done", "failed"}]
        /\ \A m \in Nodes : phase'[m] = "tree" => phase[m] = "tree"
        /\ UNCHANGED <<seen, tree>>
    BY <1>9 DEF Recurse, WaitInv
  <2>. QED BY <2>1, OtherSteps
<1>10. ASSUME NEW n \in Nodes, NoRecursion(n) \/ Gather(n)
       PROVE  WaitInv' /\ TreeStep
  BY <1>10, OtherSteps DEF NoRecursion, Gather, WaitInv
<1>11. CASE UNCHANGED vars
  BY <1>11, OtherSteps DEF vars, WaitInv
<1>. QED
  BY <1>1, <1>2, <1>3, <1>4, <1>5, <1>6, <1>7, <1>8, <1>9, <1>10, <1>11
  DEF Next, NodeStep

\* Whatever times out or fails (sources/github.py:483-571): a directory is cut to what one
\* listing shows only after its caller waited for the tree of the repository, and
\* nobody waits for a tree that was not asked for.
THEOREM PrefixOnlyWithoutTree == Spec => TreeBeforePrefix
<1>1. WaitInv /\ [Next]_vars => [TreeStep]_vars
  BY StepsWait
<1>2. WaitInv /\ [Next]_vars => WaitInv'
  BY StepsWait
<1>. QED
  BY InitWaits, <1>1, <1>2, PTL DEF Spec, TreeBeforePrefix, TreeStep
-----------------------------------------------------------------------------
(***************************************************************************)
(* Sums over finite sets.                                                  *)
(***************************************************************************)

\* Of any sets of nodes there is one no other is a part of.
LEMMA SmallestSet ==
    ASSUME NEW D, IsFiniteSet(D), NEW B \in SUBSET SUBSET D, B # {}
    PROVE  \E S \in B : \A T \in B : T \subseteq S => T = S
<1> DEFINE Part == StrictSubsetOrdering(D)
<1>1. IsWellFoundedOn(Part, FiniteSubsetsOf(D))
  BY FS_StrictSubsetOrderingWellFounded
<1>2. B \subseteq FiniteSubsetsOf(D)
  BY FS_FiniteSubsetsOfFinite
<1>3. PICK S \in B : \A T \in B : ~ (<<T, S>> \in Part)
  <2>. HIDE DEF Part
  <2>1. \E S \in B : \A T \in B : ~ (<<T, S>> \in Part)
    BY <1>1, <1>2, WFMin, Zenon
  <2>. QED BY <2>1
<1>4. ASSUME NEW T \in B, T \subseteq S PROVE T = S
  BY <1>3, <1>4 DEF StrictSubsetOrdering
<1>. QED BY <1>4

Pick(S) == CHOOSE x \in S : TRUE

\* The function that Total finds the sum with.
Sums(sum, f, S) ==
    sum = [T \in SUBSET S |->
             IF T = {} THEN 0 ELSE f[Pick(T)] + sum[T \ {Pick(T)}]]

LEMMA TotalIsASum == \A f, S : Total(f, S) = (CHOOSE sum : Sums(sum, f, S))[S]
BY DEF Total, MapThenSumSet, MapThenFoldSet, Sums, Pick

LEMMA PickType == \A S : S # {} => Pick(S) \in S
BY DEF Pick

\* Such functions agree where they are both defined.
LEMMA SumsAgree ==
    ASSUME NEW S, IsFiniteSet(S), NEW f, NEW R \in SUBSET S,
           NEW a, Sums(a, f, S), NEW b, Sums(b, f, R), NEW U \in SUBSET R
    PROVE  a[U] = b[U]
<1> DEFINE B == {T \in SUBSET R : a[T] # b[T]}
<1>1. B = {}
  <2> SUFFICES ASSUME B # {} PROVE FALSE
    OBVIOUS
  <2>1. PICK T \in B : \A V \in B : V \subseteq T => V = T
    <3>1. B \in SUBSET SUBSET S
      OBVIOUS
    <3>. HIDE DEF B
    <3>. QED BY <3>1, SmallestSet
  <2>2. /\ a[T] = IF T = {} THEN 0 ELSE f[Pick(T)] + a[T \ {Pick(T)}]
        /\ b[T] = IF T = {} THEN 0 ELSE f[Pick(T)] + b[T \ {Pick(T)}]
    BY DEF Sums
  <2>3. T # {}
    BY <2>2
  <2>4. T \ {Pick(T)} \notin B
    BY <2>1, <2>3, PickType
  <2>5. a[T \ {Pick(T)}] = b[T \ {Pick(T)}]
    BY <2>4
  <2>. QED BY <2>2, <2>5
<1>. QED BY <1>1

\* The equation Total is defined by.
LEMMA SumExists ==
    ASSUME NEW D, IsFiniteSet(D), NEW f, NEW S \in SUBSET D
    PROVE  \E sum : Sums(sum, f, S)
<1> DEFINE B == {T \in SUBSET D : ~ \E sum : Sums(sum, f, T)}
           SumOf(T) == CHOOSE sum : Sums(sum, f, T)
<1>1. B = {}
  <2> SUFFICES ASSUME B # {} PROVE FALSE
    OBVIOUS
  <2>1. PICK R \in B : \A T \in B : T \subseteq R => T = R
    <3>1. B \in SUBSET SUBSET D
      OBVIOUS
    <3>. HIDE DEF B
    <3>. QED BY <3>1, SmallestSet
  <2>2. \A T \in SUBSET R : T # R => Sums(SumOf(T), f, T)
    <3> SUFFICES ASSUME NEW T \in SUBSET R, T # R PROVE Sums(SumOf(T), f, T)
      OBVIOUS
    <3>1. \E sum : Sums(sum, f, T)
      BY <2>1
    <3>. QED BY <3>1
  <2>3. \A T \in SUBSET R : IsFiniteSet(T)
    BY FS_Subset
  <2> DEFINE rest(T) == T \ {Pick(T)}
             sum == [T \in SUBSET R |->
                       IF T = {} THEN 0 ELSE f[Pick(T)] + SumOf(rest(T))[rest(T)]]
  <2>4. \A T \in SUBSET R : T # R => sum[T] = SumOf(T)[T]
    <3> SUFFICES ASSUME NEW T \in SUBSET R, T # R PROVE sum[T] = SumOf(T)[T]
      OBVIOUS
    <3>1. sum[T] = IF T = {} THEN 0 ELSE f[Pick(T)] + SumOf(rest(T))[rest(T)]
      OBVIOUS
    <3>2. SumOf(T)[T] = IF T = {} THEN 0 ELSE f[Pick(T)] + SumOf(T)[rest(T)]
      <4>1. Sums(SumOf(T), f, T)
        BY <2>2
      <4>. HIDE DEF SumOf
      <4>. QED BY <4>1 DEF Sums
    <3>3. T # {} => SumOf(rest(T))[rest(T)] = SumOf(T)[rest(T)]
      <4>1. rest(T) \in SUBSET T /\ rest(T) \in SUBSET R /\ rest(T) # R
        BY PickType
      <4>2. Sums(SumOf(T), f, T) /\ Sums(SumOf(rest(T)), f, rest(T))
        <5>. HIDE DEF SumOf, rest
        <5>. QED BY <2>2, <4>1
      <4>3. IsFiniteSet(T) /\ rest(T) \in SUBSET rest(T)
        BY <2>3
      <4>. HIDE DEF SumOf, rest
      <4>. QED BY <4>1, <4>2, <4>3, SumsAgree
    <3>. HIDE DEF SumOf, rest, sum
    <3>. QED BY <3>1, <3>2, <3>3
  <2>5. \A T \in SUBSET R :
           sum[T] = IF T = {} THEN 0 ELSE f[Pick(T)] + sum[rest(T)]
    <3> SUFFICES ASSUME NEW T \in SUBSET R
                 PROVE  sum[T] = IF T = {} THEN 0 ELSE f[Pick(T)] + sum[rest(T)]
      OBVIOUS
    <3>1. sum[T] = IF T = {} THEN 0 ELSE f[Pick(T)] + SumOf(rest(T))[rest(T)]
      OBVIOUS
    <3>2. T # {} => rest(T) \in SUBSET R /\ rest(T) # R
      BY PickType
    <3>3. T # {} => sum[rest(T)] = SumOf(rest(T))[rest(T)]
      <4>. HIDE DEF SumOf, rest, sum
      <4>. QED BY <2>4, <3>2
    <3>. HIDE DEF SumOf, rest, sum
    <3>. QED BY <3>1, <3>3
  <2>6. Sums(sum, f, R)
    <3>1. sum = [T \in SUBSET R |-> sum[T]]
      OBVIOUS
    <3>. HIDE DEF sum
    <3>. QED BY <2>5, <3>1 DEF Sums
  <2>. QED BY <2>1, <2>6
<1>. QED BY <1>1

LEMMA TotalEquation ==
    ASSUME NEW S, IsFiniteSet(S), NEW f
    PROVE  /\ S = {} => Total(f, S) = 0
           /\ S # {} => Total(f, S) = f[Pick(S)] + Total(f, S \ {Pick(S)})
<1> DEFINE sum == CHOOSE a : Sums(a, f, S)
           R == S \ {Pick(S)}
           sumR == CHOOSE a : Sums(a, f, R)
<1>1. Sums(sum, f, S) /\ Sums(sumR, f, R)
  <2>1. R \in SUBSET S /\ S \in SUBSET S
    OBVIOUS
  <2>2. (\E a : Sums(a, f, S)) /\ (\E a : Sums(a, f, R))
    <3>. HIDE DEF R
    <3>. QED BY <2>1, SumExists
  <2>. QED BY <2>2
<1>2. Total(f, S) = sum[S] /\ Total(f, R) = sumR[R]
  BY TotalIsASum
<1>3. sum[S] = IF S = {} THEN 0 ELSE f[Pick(S)] + sum[R]
  <2>1. sum = [T \in SUBSET S |->
                 IF T = {} THEN 0 ELSE f[Pick(T)] + sum[T \ {Pick(T)}]]
    <3>. HIDE DEF sum
    <3>. QED BY <1>1 DEF Sums
  <2>. HIDE DEF sum
  <2>. QED BY <2>1
<1>4. sum[R] = sumR[R]
  <2>1. R \in SUBSET S /\ R \in SUBSET R
    OBVIOUS
  <2>. HIDE DEF sum, sumR, R
  <2>. QED BY <1>1, <2>1, SumsAgree
<1>. QED BY <1>2, <1>3, <1>4

Counts(f, S) == \A x \in S : f[x] \in Nat

LEMMA TotalType ==
    ASSUME NEW S, IsFiniteSet(S), NEW f, Counts(f, S)
    PROVE  Total(f, S) \in Nat
<1> DEFINE B == {T \in SUBSET S : Total(f, T) \notin Nat}
<1>1. B = {}
  <2> SUFFICES ASSUME B # {} PROVE FALSE
    OBVIOUS
  <2>1. PICK T \in B : \A V \in B : V \subseteq T => V = T
    <3>1. B \in SUBSET SUBSET S
      OBVIOUS
    <3>. HIDE DEF B
    <3>. QED BY <3>1, SmallestSet
  <2>2. IsFiniteSet(T)
    BY FS_Subset
  <2>3. T # {}
    BY <2>1, <2>2, TotalEquation
  <2>4. Pick(T) \in T
    BY <2>3, PickType
  <2>5. Total(f, T \ {Pick(T)}) \in Nat
    BY <2>1, <2>4
  <2>6. Total(f, T) = f[Pick(T)] + Total(f, T \ {Pick(T)})
    BY <2>2, <2>3, TotalEquation
  <2>7. f[Pick(T)] \in Nat
    BY <2>4 DEF Counts
  <2>. QED BY <2>5, <2>6, <2>7
<1>. QED BY <1>1

\* A sum does not depend on the order of its terms.
LEMMA TotalTake ==
    ASSUME NEW D, IsFiniteSet(D), NEW f, Counts(f, D), NEW x \in D
    PROVE  Total(f, D) = f[x] + Total(f, D \ {x})
<1> DEFINE wrong(T) == \E y \in T : Total(f, T) # f[y] + Total(f, T \ {y})
           B == {T \in SUBSET D : wrong(T)}
<1>1. B = {}
  <2> SUFFICES ASSUME B # {} PROVE FALSE
    OBVIOUS
  <2>1. PICK T \in B : \A V \in B : V \subseteq T => V = T
    <3>1. B \in SUBSET SUBSET D
      OBVIOUS
    <3>. HIDE DEF B
    <3>. QED BY <3>1, SmallestSet
  <2>2. PICK y \in T : Total(f, T) # f[y] + Total(f, T \ {y})
    BY <2>1
  <2> DEFINE p == Pick(T)
  <2>3. p \in T /\ IsFiniteSet(T) /\ IsFiniteSet(T \ {p}) /\ IsFiniteSet(T \ {y})
        /\ IsFiniteSet((T \ {p}) \ {y})
    BY <2>2, PickType, FS_Subset
  <2>4. Total(f, T) = f[p] + Total(f, T \ {p})
    BY <2>2, <2>3, TotalEquation
  <2>5. p # y
    BY <2>2, <2>4
  <2>. HIDE DEF p
  <2>6. ~ wrong(T \ {p}) /\ ~ wrong(T \ {y})
    <3>1. T \ {p} \in SUBSET D /\ T \ {p} # T /\ T \ {y} \in SUBSET D /\ T \ {y} # T
      BY <2>3
    <3>. HIDE DEF wrong
    <3>. QED BY <2>1, <3>1
  <2>7. Total(f, T \ {p}) = f[y] + Total(f, (T \ {p}) \ {y})
    BY <2>5, <2>6
  <2>8. Total(f, T \ {y}) = f[p] + Total(f, (T \ {y}) \ {p})
    BY <2>3, <2>5, <2>6
  <2>9. (T \ {y}) \ {p} = (T \ {p}) \ {y}
    OBVIOUS
  <2>10. f[p] \in Nat /\ f[y] \in Nat /\ Total(f, (T \ {p}) \ {y}) \in Nat
    BY <2>3, TotalType DEF Counts
  <2>. QED BY <2>2, <2>4, <2>7, <2>8, <2>9, <2>10
<1>. QED BY <1>1

\* Smaller terms make a smaller sum, equal ones the same.
LEMMA TotalAtMost ==
    ASSUME NEW S, IsFiniteSet(S), NEW f, Counts(f, S), NEW g, Counts(g, S),
           \A x \in S : f[x] <= g[x]
    PROVE  Total(f, S) <= Total(g, S)
<1> DEFINE B == {T \in SUBSET S : ~ (Total(f, T) <= Total(g, T))}
<1>1. B = {}
  <2> SUFFICES ASSUME B # {} PROVE FALSE
    OBVIOUS
  <2>1. PICK T \in B : \A V \in B : V \subseteq T => V = T
    <3>1. B \in SUBSET SUBSET S
      OBVIOUS
    <3>. HIDE DEF B
    <3>. QED BY <3>1, SmallestSet
  <2>2. IsFiniteSet(T) /\ IsFiniteSet(T \ {Pick(T)})
    BY FS_Subset
  <2>3. T # {}
    <3>1. T = {} => Total(f, T) = 0 /\ Total(g, T) = 0
      BY <2>2, TotalEquation
    <3>. QED BY <2>1, <3>1
  <2>4. Pick(T) \in T
    BY <2>3, PickType
  <2>5. Total(f, T \ {Pick(T)}) <= Total(g, T \ {Pick(T)})
    BY <2>1, <2>4
  <2>6. /\ Total(f, T) = f[Pick(T)] + Total(f, T \ {Pick(T)})
        /\ Total(g, T) = g[Pick(T)] + Total(g, T \ {Pick(T)})
    BY <2>2, <2>3, TotalEquation
  <2>7. /\ f[Pick(T)] \in Nat /\ g[Pick(T)] \in Nat /\ f[Pick(T)] <= g[Pick(T)]
        /\ Total(f, T \ {Pick(T)}) \in Nat /\ Total(g, T \ {Pick(T)}) \in Nat
    BY <2>2, <2>4, TotalType DEF Counts
  <2>. QED BY <2>1, <2>5, <2>6, <2>7
<1>. QED BY <1>1

LEMMA TotalSame ==
    ASSUME NEW S, IsFiniteSet(S), NEW f, Counts(f, S), NEW g,
           \A x \in S : f[x] = g[x]
    PROVE  Total(f, S) = Total(g, S)
<1>1. Counts(g, S)
  BY DEF Counts
<1>2. \A x \in S : f[x] <= g[x] /\ g[x] <= f[x]
  BY DEF Counts
<1>3. Total(f, S) <= Total(g, S) /\ Total(g, S) <= Total(f, S)
  BY <1>1, <1>2, TotalAtMost
<1>. QED BY <1>1, <1>3, TotalType

\* Nothing but zeros.
LEMMA TotalZero ==
    ASSUME NEW S, IsFiniteSet(S), NEW f, \A x \in S : f[x] = 0
    PROVE  Total(f, S) = 0
<1> DEFINE B == {T \in SUBSET S : Total(f, T) # 0}
<1>1. B = {}
  <2> SUFFICES ASSUME B # {} PROVE FALSE
    OBVIOUS
  <2>1. PICK T \in B : \A V \in B : V \subseteq T => V = T
    <3>1. B \in SUBSET SUBSET S
      OBVIOUS
    <3>. HIDE DEF B
    <3>. QED BY <3>1, SmallestSet
  <2>2. IsFiniteSet(T)
    BY FS_Subset
  <2>3. T # {}
    BY <2>2, TotalEquation
  <2>4. Pick(T) \in T
    BY <2>3, PickType
  <2>5. Total(f, T \ {Pick(T)}) = 0
    BY <2>1, <2>4
  <2>6. Total(f, T) = f[Pick(T)] + Total(f, T \ {Pick(T)})
    BY <2>2, <2>3, TotalEquation
  <2>. QED BY <2>1, <2>4, <2>5, <2>6
<1>. QED BY <1>1

\* The sum over two sets without a common element.
LEMMA TotalUnion ==
    ASSUME NEW S, IsFiniteSet(S), NEW f, Counts(f, S),
           NEW R \in SUBSET S
    PROVE  Total(f, S) = Total(f, R) + Total(f, S \ R)
<1> DEFINE rest(T) == S \ T
           B == {T \in SUBSET R : Total(f, T) + Total(f, S \ T) # Total(f, S)}
<1>1. B = {}
  <2> SUFFICES ASSUME B # {} PROVE FALSE
    OBVIOUS
  <2>1. PICK T \in B : \A V \in B : V \subseteq T => V = T
    <3>1. B \in SUBSET SUBSET S
      OBVIOUS
    <3>. HIDE DEF B
    <3>. QED BY <3>1, SmallestSet
  <2> DEFINE p == Pick(T)
  <2>2. T # {}
    <3> SUFFICES ASSUME T = {} PROVE FALSE
      OBVIOUS
    <3>1. Total(f, T) = 0
      BY FS_EmptySet, TotalEquation
    <3>2. Total(f, S \ T) = Total(f, S) /\ Total(f, S) \in Nat
      <4>1. S \ T = S
        OBVIOUS
      <4>. QED BY <4>1, TotalType
    <3>. QED BY <2>1, <3>1, <3>2
  <2>3. p \in T
    BY <2>2, PickType
  <2>. HIDE DEF p
  <2>4. /\ IsFiniteSet(T) /\ IsFiniteSet(T \ {p}) /\ IsFiniteSet(S \ T)
        /\ IsFiniteSet(S \ (T \ {p}))
    BY FS_Subset
  <2>5. /\ Counts(f, T) /\ Counts(f, T \ {p}) /\ Counts(f, S \ T)
        /\ Counts(f, S \ (T \ {p}))
    BY DEF Counts
  <2>6. Total(f, T \ {p}) + Total(f, S \ (T \ {p})) = Total(f, S)
    BY <2>1, <2>3
  <2>7. Total(f, T) = f[p] + Total(f, T \ {p})
    BY <2>3, <2>4, <2>5, TotalTake
  <2>8. Total(f, S \ (T \ {p})) = f[p] + Total(f, S \ T)
    <3>1. p \in S \ (T \ {p}) /\ (S \ (T \ {p})) \ {p} = S \ T
      BY <2>3
    <3>. QED BY <2>4, <2>5, <3>1, TotalTake
  <2>9. /\ f[p] \in Nat /\ Total(f, T \ {p}) \in Nat /\ Total(f, S \ T) \in Nat
    BY <2>3, <2>4, <2>5, TotalType DEF Counts
  <2>. QED BY <2>1, <2>6, <2>7, <2>8, <2>9
<1>2. R \notin B
  BY <1>1
<1>. QED BY <1>2

\* A sum of which one term changes.
LEMMA TotalChange ==
    ASSUME NEW S, IsFiniteSet(S), NEW f, Counts(f, S), NEW g, Counts(g, S),
           NEW x \in S, \A y \in S \ {x} : g[y] = f[y]
    PROVE  Total(g, S) = Total(f, S) + (g[x] - f[x])
<1>1. IsFiniteSet(S \ {x}) /\ Counts(f, S \ {x}) /\ Counts(g, S \ {x})
  BY FS_Subset DEF Counts
<1>2. Total(f, S) = f[x] + Total(f, S \ {x}) /\ Total(g, S) = g[x] + Total(g, S \ {x})
  BY TotalTake
<1>3. Total(f, S \ {x}) = Total(g, S \ {x})
  BY <1>1, TotalSame
<1>4. Total(f, S \ {x}) \in Nat /\ f[x] \in Nat /\ g[x] \in Nat
  BY <1>1, TotalType DEF Counts
<1>. QED BY <1>2, <1>3, <1>4

\* No term is above the sum.
LEMMA TermBelowTotal ==
    ASSUME NEW S, IsFiniteSet(S), NEW f, Counts(f, S), NEW x \in S
    PROVE  f[x] <= Total(f, S)
<1>1. IsFiniteSet(S \ {x}) /\ Counts(f, S \ {x})
  BY FS_Subset DEF Counts
<1>2. Total(f, S) = f[x] + Total(f, S \ {x})
  BY TotalTake
<1>3. Total(f, S \ {x}) \in Nat /\ f[x] \in Nat
  BY <1>1, TotalType DEF Counts
<1>. QED BY <1>2, <1>3
-----------------------------------------------------------------------------
(* Types, slots and the shape of the trees.                                *)

Phases == {"idle", "ask", "listing", "tree", "files", "subs", "done", "failed"}
Early == {"ask", "listing", "tree"}
Over == {"done", "failed"}

Kids(n) == {Tree[n].kids[i] : i \in DOMAIN Tree[n].kids}
SeenKids(n) == {seen[n].kids[i] : i \in DOMAIN seen[n].kids}

FormInv ==
    /\ status \in [Sources -> {"queued", "running", "ok", "error"}]
    /\ files \in [Sources -> Nat]
    /\ phase \in [Nodes -> Phases]
    /\ {budget, left, busy, own, got} \subseteq [Nodes -> Nat]
    /\ DOMAIN seen = Nodes /\ \A n \in Nodes : seen[n] \in {Nothing, Prefix(n), Whole(n)}
    /\ tree \in [Repos -> {"none", "asked", "flight", "held"}]
    /\ inUse \in [api : Int, gate : Int]
    /\ returned \in BOOLEAN

\* A node fetches only in its phase "files", within its budget, and has nothing
\* to return before it is done.
WorkInv ==
    \A n \in Nodes :
       /\ own[n] + left[n] + busy[n] <= budget[n]
       /\ phase[n] # "files" => left[n] = 0 /\ busy[n] = 0
       /\ phase[n] \notin {"files", "subs", "done"} => own[n] = 0
       /\ phase[n] # "done" => got[n] = 0

\* What holds a slot of its pool: the fetches of a node, and the request for a tree.
flight == [n \in Nodes |-> busy[n] + (IF phase[n] = "listing" THEN 1 ELSE 0)]
asking == [r \in Repos |-> IF tree[r] = "flight" THEN 1 ELSE 0]
Users(p) == {n \in Nodes : Pool(n) = p}
Askers(p) == IF p = "api" THEN Repos ELSE {}

SlotInv ==
    \A p \in {"api", "gate"} :
       /\ inUse[p] = Total(flight, Users(p)) + Total(asking, Askers(p))
       /\ inUse[p] <= Slots[p]

\* A subdirectory begins after the files of its directory, and ends before it.
KidsInv ==
    \A n \in Nodes : \A m \in Kids(n) :
       /\ phase[m] # "idle" => phase[n] \in {"subs", "done"} /\ m \in SeenKids(n)
       /\ phase[n] = "done" => phase[m] \in Over \cup {"idle"}

RootInv ==
    /\ \A s \in Sources :
          /\ status[s] = "queued" => phase[Plan[s].root] = "idle"
          /\ status[s] \in {"ok", "error"} => phase[Plan[s].root] \in Over
    /\ \A m \in Nodes :
          phase[m] # "idle" =>
             m = Source(m).root \/ \E n \in Nodes : m \in Kids(n)

ShapeInv == KidsInv /\ RootInv
-----------------------------------------------------------------------------
\* A listing is made of the first files and subdirectories of its directory.
LEMMA ListingShape ==
    ASSUME NEW n \in Nodes, NEW L, L \in {Nothing, Prefix(n), Whole(n)}
    PROVE  /\ L.files \in Nat /\ L.kids \in Seq(Nodes)
           /\ DOMAIN L.kids \subseteq DOMAIN Tree[n].kids
           /\ \A i \in DOMAIN L.kids : L.kids[i] = Tree[n].kids[i]
<1>1. /\ Tree[n].files \in Nat /\ Tree[n].kids \in Seq(Nodes)
      /\ Tree[n].shownFiles \in 0 .. Tree[n].files
      /\ Tree[n].shownKids \in 0 .. Len(Tree[n].kids)
  BY PlanAssumption
<1>2. CASE L = Nothing
  BY <1>1, <1>2 DEF Nothing
<1>3. CASE L = Whole(n)
  BY <1>1, <1>3 DEF Whole
<1>4. CASE L = Prefix(n)
  <2> DEFINE shown == SubSeq(Tree[n].kids, 1, Tree[n].shownKids)
  <2>1. /\ shown \in Seq(Nodes) /\ Len(shown) = Tree[n].shownKids
        /\ \A i \in 1 .. Len(shown) : shown[i] = Tree[n].kids[i]
    BY <1>1
  <2>2. L.kids = shown /\ L.files = Tree[n].shownFiles
    BY <1>4 DEF Prefix
  <2>3. DOMAIN shown = 1 .. Len(shown) /\ DOMAIN Tree[n].kids = 1 .. Len(Tree[n].kids)
    BY <2>1, <1>1
  <2>4. DOMAIN shown \subseteq DOMAIN Tree[n].kids
    BY <2>1, <2>3, <1>1
  <2> HIDE DEF shown
  <2>. QED BY <1>1, <2>1, <2>2, <2>3, <2>4
<1>. QED BY <1>2, <1>3, <1>4

\* The subdirectories of a directory, each of which is in no other.
LEMMA KidShape ==
    ASSUME NEW n \in Nodes, NEW m \in Kids(n)
    PROVE  /\ m \in Nodes /\ Tree[m].source = Tree[n].source
           /\ Tree[m].level = Tree[n].level + 1
           /\ \A p \in Nodes : m \in Kids(p) => p = n
           /\ m # n /\ m # Source(m).root
<1>1. PICK i \in DOMAIN Tree[n].kids : m = Tree[n].kids[i]
  BY DEF Kids
<1>2. m \in Nodes
  BY <1>1, PlanAssumption
<1>3. /\ Tree[m].source = Tree[n].source /\ Tree[m].level = Tree[n].level + 1
      /\ \A p \in Nodes : \A j \in DOMAIN Tree[p].kids : Tree[p].kids[j] = m => p = n
  BY <1>1, ForestAssumption
<1>4. \A p \in Nodes : m \in Kids(p) => p = n
  BY <1>3 DEF Kids
<1>5. Tree[n].level \in Nat /\ Tree[m].source \in Sources
  BY <1>2, PlanAssumption
<1>6. m # n
  BY <1>3, <1>5
<1>7. Tree[Source(m).root].level = 0
  BY <1>5, ForestAssumption DEF Source
<1>8. m # Source(m).root
  BY <1>3, <1>5, <1>7
<1>. QED BY <1>2, <1>3, <1>4, <1>6, <1>8

LEMMA RootShape ==
    ASSUME NEW s \in Sources
    PROVE  /\ Plan[s].root \in Nodes /\ Tree[Plan[s].root].source = s
           /\ Source(Plan[s].root) = Plan[s]
           /\ \A n \in Nodes : Plan[s].root \notin Kids(n)
<1>1. Plan[s].root \in Nodes /\ Tree[Plan[s].root].source = s
  BY PlanAssumption
<1>2. Source(Plan[s].root) = Plan[s]
  BY <1>1 DEF Source
<1>. QED BY <1>1, <1>2, KidShape

LEMMA SeenShape ==
    ASSUME NEW n \in Nodes, seen[n] \in {Nothing, Prefix(n), Whole(n)}
    PROVE  /\ seen[n].kids \in Seq(Nodes) /\ SeenKids(n) \subseteq Kids(n)
           /\ DOMAIN seen[n].kids = 1 .. Len(seen[n].kids) /\ Len(seen[n].kids) \in Nat
<1>1. /\ seen[n].kids \in Seq(Nodes)
      /\ DOMAIN seen[n].kids \subseteq DOMAIN Tree[n].kids
      /\ \A i \in DOMAIN seen[n].kids : seen[n].kids[i] = Tree[n].kids[i]
  BY ListingShape
<1>. QED BY <1>1 DEF SeenKids, Kids

\* A share is a number of files, and no more are taken than the budget allows.
LEMMA ShareType ==
    ASSUME NEW b \in Nat, NEW k \in Nat \ {0}, NEW i \in Int
    PROVE  Share(b, k, i) \in Nat
BY DEF Share

LEMMA TakeType ==
    ASSUME NEW n \in Nodes, budget[n] \in Nat, NEW L, L \in {Nothing, Prefix(n), Whole(n)}
    PROVE  Take(n, L) \in 0 .. budget[n]
<1>1. L.files \in Nat
  BY ListingShape
<1>. QED BY <1>1 DEF Take, Least

LEMMA GoOnType ==
    ASSUME FormInv, NEW N \in SUBSET Nodes,
           GoOn(N, Whole) \/ GoOn(N, Prefix)
    PROVE  /\ phase' \in [Nodes -> Phases] /\ left' \in [Nodes -> Nat]
           /\ DOMAIN seen' = Nodes
           /\ \A n \in Nodes : seen'[n] \in {Nothing, Prefix(n), Whole(n)}
           /\ \A n \in N : phase'[n] = "files" /\ left'[n] \in 0 .. budget[n]
           /\ \A n \in Nodes \ N : /\ phase'[n] = phase[n] /\ seen'[n] = seen[n]
                                   /\ left'[n] = left[n]
<1>1. \A n \in Nodes : /\ Take(n, Whole(n)) \in 0 .. budget[n]
                       /\ Take(n, Prefix(n)) \in 0 .. budget[n]
                       /\ budget[n] \in Nat
  BY TakeType DEF FormInv
<1>2. CASE GoOn(N, Whole)
  BY <1>1, <1>2 DEF GoOn, FormInv, Phases
<1>3. CASE GoOn(N, Prefix)
  BY <1>1, <1>3 DEF GoOn, FormInv, Phases
<1>. QED BY <1>2, <1>3
-----------------------------------------------------------------------------
\* The state keeps its form and each node its budget.
LoadInv == FormInv /\ WorkInv

\* The steps that leave the work of the nodes alone, or lead one to its next phase.
LEMMA LoadMoves ==
    ASSUME LoadInv, NEW m \in Nodes, NEW q \in Early \cup {"failed"},
           phase[m] \in Early, phase' = [phase EXCEPT ![m] = q],
           UNCHANGED <<status, files, returned, budget, seen, left, busy, own, got>>,
           tree' \in [Repos -> {"none", "asked", "flight", "held"}],
           inUse' \in [api : Int, gate : Int]
    PROVE  LoadInv'
<1>1. FormInv'
  BY DEF LoadInv, FormInv, Phases, Early
<1>2. WorkInv'
  BY DEF LoadInv, FormInv, WorkInv, Early
<1>. QED BY <1>1, <1>2 DEF LoadInv

LEMMA LoadListed ==
    ASSUME LoadInv, NEW N \in SUBSET Nodes, GoOn(N, Whole) \/ GoOn(N, Prefix),
           \A n \in N : phase[n] \in Early,
           UNCHANGED <<status, files, returned, budget, busy, own, got>>,
           tree' \in [Repos -> {"none", "asked", "flight", "held"}],
           inUse' \in [api : Int, gate : Int]
    PROVE  LoadInv'
<1>1. FormInv /\ WorkInv
  BY DEF LoadInv
<1>2. FormInv'
  <2>1. /\ phase' \in [Nodes -> Phases] /\ left' \in [Nodes -> Nat]
        /\ DOMAIN seen' = Nodes
        /\ \A n \in Nodes : seen'[n] \in {Nothing, Prefix(n), Whole(n)}
    BY <1>1, GoOnType
  <2>. QED BY <1>1, <2>1 DEF FormInv
<1>3. WorkInv'
  <2>1. /\ \A n \in N : phase'[n] = "files" /\ left'[n] \in 0 .. budget[n]
        /\ \A n \in Nodes \ N : phase'[n] = phase[n] /\ left'[n] = left[n]
    BY <1>1, GoOnType
  <2>2. \A n \in N : own[n] = 0 /\ busy[n] = 0 /\ got[n] = 0 /\ budget[n] \in Nat
    BY <1>1 DEF WorkInv, FormInv, Early
  <2>3. \A n \in Nodes : budget'[n] = budget[n] /\ own'[n] = own[n] /\ busy'[n] = busy[n]
                         /\ got'[n] = got[n]
    OBVIOUS
  <2>. QED BY <1>1, <2>1, <2>2, <2>3 DEF WorkInv
<1>. QED BY <1>2, <1>3 DEF LoadInv

LEMMA SlotTypes ==
    ASSUME FormInv
    PROVE  /\ \A n \in Nodes : Pool(n) \in {"api", "gate"}
           /\ \A p \in {"api", "gate"} :
                 Acquire(p) \/ Release(p) => inUse' \in [api : Int, gate : Int]
BY DEF FormInv, Pool, Acquire, Release

LEMMA LoadStarts ==
    ASSUME LoadInv, RootInv, NEW s \in Sources, StartSource(s)
    PROVE  LoadInv'
<1> DEFINE n == Plan[s].root
<1>1. n \in Nodes /\ Plan[s].maxFiles \in Nat \ {0}
  BY PlanAssumption
<1>2. phase[n] = "idle"
  BY DEF RootInv, StartSource
<1>3. own[n] = 0 /\ left[n] = 0 /\ busy[n] = 0 /\ got[n] = 0
  BY <1>1, <1>2 DEF LoadInv, WorkInv
<1>4. /\ status' = [status EXCEPT ![s] = "running"]
      /\ budget' = [budget EXCEPT ![n] = Plan[s].maxFiles]
      /\ \/ phase' = [phase EXCEPT ![n] = "ask"] /\ left' = left
         \/ phase' = [phase EXCEPT ![n] = "files"] /\ left' = [left EXCEPT ![n] = 1]
      /\ UNCHANGED <<files, returned, seen, busy, own, got, tree, inUse>>
  BY DEF StartSource
<1> HIDE DEF n
<1>5. FormInv'
  BY <1>1, <1>4 DEF LoadInv, FormInv, Phases
<1>6. WorkInv'
  <2>1. \A m \in Nodes \ {n} :
           /\ budget'[m] = budget[m] /\ phase'[m] = phase[m] /\ left'[m] = left[m]
           /\ busy'[m] = busy[m] /\ own'[m] = own[m] /\ got'[m] = got[m]
    BY <1>1, <1>4 DEF LoadInv, FormInv
  <2>2. /\ budget'[n] = Plan[s].maxFiles
        /\ busy'[n] = 0 /\ own'[n] = 0 /\ got'[n] = 0
        /\ \/ phase'[n] = "ask" /\ left'[n] = 0
           \/ phase'[n] = "files" /\ left'[n] = 1
    BY <1>1, <1>3, <1>4 DEF LoadInv, FormInv
  <2>. QED BY <1>1, <2>1, <2>2 DEF LoadInv, WorkInv
<1>. QED BY <1>5, <1>6 DEF LoadInv

LEMMA LoadFetches ==
    ASSUME LoadInv, NEW n \in Nodes,
           FetchFile(n) \/ FileFetched(n) \/ FileFails(n) \/ FileExpires(n)
    PROVE  LoadInv'
<1>1. FormInv /\ WorkInv
  BY DEF LoadInv
<1>2. inUse' \in [api : Int, gate : Int]
  BY <1>1, SlotTypes DEF FetchFile, FileFetched, FileFails, FileExpires, FormInv
<1>3. /\ UNCHANGED <<status, files, returned, phase, budget, seen, got, tree>>
      /\ \A m \in Nodes \ {n} :
            left'[m] = left[m] /\ busy'[m] = busy[m] /\ own'[m] = own[m]
  BY <1>1 DEF FetchFile, FileFetched, FileFails, FileExpires, FormInv, sourceVars
<1>4. /\ left' \in [Nodes -> Nat] /\ busy' \in [Nodes -> Nat] /\ own' \in [Nodes -> Nat]
      /\ own'[n] + left'[n] + busy'[n] <= own[n] + left[n] + busy[n]
      /\ phase[n] = "files"
  <2>1. CASE FetchFile(n)
    BY <1>1, <2>1 DEF FetchFile, FormInv
  <2>2. CASE FileFetched(n)
    BY <1>1, <2>2 DEF FileFetched, FormInv, WorkInv
  <2>3. CASE FileFails(n)
    BY <1>1, <2>3 DEF FileFails, FormInv, WorkInv
  <2>4. CASE FileExpires(n)
    BY <1>1, <2>4 DEF FileExpires, FormInv
  <2>. QED BY <2>1, <2>2, <2>3, <2>4
<1>5. FormInv'
  BY <1>1, <1>2, <1>3, <1>4 DEF FormInv
<1>6. WorkInv'
  <2>1. \A m \in Nodes \ {n} :
           /\ own'[m] + left'[m] + busy'[m] <= budget'[m]
           /\ phase'[m] # "files" => left'[m] = 0 /\ busy'[m] = 0
           /\ phase'[m] \notin {"files", "subs", "done"} => own'[m] = 0
           /\ phase'[m] # "done" => got'[m] = 0
    BY <1>1, <1>3 DEF WorkInv
  <2>2. /\ own'[n] + left'[n] + busy'[n] <= budget'[n]
        /\ phase'[n] = "files" /\ got'[n] = 0
    <3>1. own[n] + left[n] + busy[n] <= budget[n] /\ got[n] = 0
      BY <1>1, <1>4 DEF WorkInv
    <3>2. /\ own'[n] + left'[n] + busy'[n] \in Nat
          /\ own[n] + left[n] + busy[n] \in Nat /\ budget[n] \in Nat
      BY <1>1, <1>4 DEF FormInv
    <3>. QED BY <3>1, <3>2, <1>3, <1>4
  <2>. QED BY <2>1, <2>2 DEF WorkInv
<1>. QED BY <1>5, <1>6 DEF LoadInv
-----------------------------------------------------------------------------
\* What going down into the subdirectories changes.
LEMMA RecurseEffect ==
    ASSUME LoadInv, KidsInv, NEW n \in Nodes, Recurse(n)
    PROVE  /\ phase[n] = "files" /\ left[n] = 0 /\ busy[n] = 0
           /\ phase' \in [Nodes -> Phases] /\ budget' \in [Nodes -> Nat]
           /\ phase'[n] = "subs" /\ budget'[n] = budget[n]
           /\ n \notin SeenKids(n) /\ SeenKids(n) \subseteq Nodes
           /\ \A m \in SeenKids(n) : phase[m] = "idle" /\ phase'[m] \in {"ask", "done"}
           /\ \A m \in Nodes \ (SeenKids(n) \cup {n}) :
                 phase'[m] = phase[m] /\ budget'[m] = budget[m]
           /\ UNCHANGED <<status, files, returned, stats, seen, left, busy, own, got,
                          tree, inUse>>
<1> DEFINE k == Len(seen[n].kids)
           Number(m) == CHOOSE i \in 1 .. k : seen[n].kids[i] = m
           ShareOf(m) == Share(Rest(n), k, Number(m))
<1>1. /\ seen[n].kids \in Seq(Nodes) /\ SeenKids(n) \subseteq Kids(n)
      /\ DOMAIN seen[n].kids = 1 .. k /\ k \in Nat
  BY SeenShape DEF LoadInv, FormInv
<1>2. SeenKids(n) = {seen[n].kids[i] : i \in 1 .. k}
  BY <1>1 DEF SeenKids
<1>3. FilesOver(n) /\ k > 0 /\ Rest(n) > 0
  BY DEF Recurse
<1>4. budget' = [m \in Nodes |-> IF m \in SeenKids(n) THEN ShareOf(m) ELSE budget[m]]
  BY <1>2 DEF Recurse
<1>5. /\ phase' \in [Nodes -> Phases]
      /\ \A m \in Nodes :
            /\ m = n => phase'[m] = "subs"
            /\ m # n /\ m \in SeenKids(n) => phase'[m] \in {"ask", "done"}
            /\ m # n /\ m \notin SeenKids(n) => phase'[m] = phase[m]
  BY <1>2 DEF Recurse, LoadInv, FormInv, Phases
<1>6. UNCHANGED <<status, files, returned, stats, seen, left, busy, own, got, tree, inUse>>
  BY DEF Recurse, sourceVars, fileVars
<1>7. /\ phase[n] = "files" /\ left[n] = 0 /\ busy[n] = 0
  BY <1>3 DEF FilesOver
<1>8. n \notin SeenKids(n) /\ SeenKids(n) \subseteq Nodes
  BY <1>1, KidShape
<1>9. \A m \in SeenKids(n) : phase[m] = "idle"
  BY <1>1, <1>7 DEF KidsInv
<1>10. budget' \in [Nodes -> Nat]
  <2>1. Rest(n) \in Nat
    BY <1>3 DEF Rest, LoadInv, FormInv
  <2>2. \A m \in SeenKids(n) : Number(m) \in Int
    BY <1>2
  <2>3. \A m \in SeenKids(n) : ShareOf(m) \in Nat
    <3>1. \A i \in Int : Share(Rest(n), k, i) \in Nat
      <4>1. k \in Nat \ {0}
        BY <1>1, <1>3
      <4> HIDE DEF k
      <4>. QED BY <4>1, <2>1, ShareType
    <3> HIDE DEF Number
    <3>. QED BY <2>2, <3>1
  <2> HIDE DEF ShareOf
  <2>. QED BY <1>4, <2>3 DEF LoadInv, FormInv
<1> HIDE DEF ShareOf
<1>. QED BY <1>4, <1>5, <1>6, <1>7, <1>8, <1>9, <1>10

\* What ends the work of a node.
LEMMA EndEffect ==
    ASSUME LoadInv, NEW n \in Nodes, NoRecursion(n) \/ Gather(n)
    PROVE  /\ phase[n] \in {"files", "subs"} /\ left[n] = 0 /\ busy[n] = 0
           /\ phase' = [phase EXCEPT ![n] = "done"]
           /\ got' = [got EXCEPT ![n] = IF Gather(n) THEN own[n] + FromKids(seen[n].kids)
                                        ELSE own[n]]
           /\ got' \in [Nodes -> Nat]
           /\ UNCHANGED <<status, files, returned, stats, budget, seen, left, busy, own,
                          tree, inUse>>
<1>1. CASE ~ Gather(n)
  <2>1. NoRecursion(n)
    BY <1>1
  <2>. QED BY <1>1, <2>1 DEF NoRecursion, FilesOver, LoadInv, FormInv, sourceVars, fileVars
<1>2. CASE Gather(n)
  <2>1. /\ phase[n] = "subs" /\ phase' = [phase EXCEPT ![n] = "done"]
        /\ got' = [got EXCEPT ![n] = own[n] + FromKids(seen[n].kids)]
        /\ UNCHANGED <<status, files, returned, stats, budget, seen, left, busy, own,
                       tree, inUse>>
    BY <1>2 DEF Gather, sourceVars, fileVars
  <2>2. FromKids(seen[n].kids) = Total(got, SeenKids(n))
    BY DEF FromKids, SeenKids
  <2>3. FromKids(seen[n].kids) \in Nat
    <3>1. SeenKids(n) \subseteq Nodes
      BY SeenShape, KidShape DEF LoadInv, FormInv
    <3>2. IsFiniteSet(SeenKids(n)) /\ Counts(got, SeenKids(n))
      BY <3>1, ForestAssumption, FS_Subset DEF LoadInv, FormInv, Counts
    <3>. QED BY <2>2, <3>2, TotalType
  <2>4. left[n] = 0 /\ busy[n] = 0
    BY <2>1 DEF LoadInv, WorkInv
  <2>. QED BY <1>2, <2>1, <2>3, <2>4 DEF LoadInv, FormInv
<1>. QED BY <1>1, <1>2

LEMMA LoadEnds ==
    ASSUME LoadInv, NEW n \in Nodes, NoRecursion(n) \/ Gather(n)
    PROVE  LoadInv'
<1>1. /\ phase[n] \in {"files", "subs"} /\ left[n] = 0 /\ busy[n] = 0
      /\ phase' = [phase EXCEPT ![n] = "done"]
      /\ got' \in [Nodes -> Nat] /\ \A m \in Nodes \ {n} : got'[m] = got[m]
      /\ UNCHANGED <<status, files, returned, budget, seen, left, busy, own, tree, inUse>>
  <2> DEFINE g == IF Gather(n) THEN own[n] + FromKids(seen[n].kids) ELSE own[n]
  <2>1. /\ phase[n] \in {"files", "subs"} /\ left[n] = 0 /\ busy[n] = 0
        /\ phase' = [phase EXCEPT ![n] = "done"]
        /\ got' = [got EXCEPT ![n] = g] /\ got' \in [Nodes -> Nat]
        /\ UNCHANGED <<status, files, returned, budget, seen, left, busy, own, tree, inUse>>
    BY EndEffect
  <2> HIDE DEF g
  <2>. QED BY <2>1 DEF LoadInv, FormInv
<1>2. FormInv'
  BY <1>1 DEF LoadInv, FormInv, Phases
<1>3. WorkInv'
  BY <1>1 DEF LoadInv, FormInv, WorkInv
<1>. QED BY <1>2, <1>3 DEF LoadInv

LEMMA LoadRecurses ==
    ASSUME LoadInv, KidsInv, NEW n \in Nodes, Recurse(n)
    PROVE  LoadInv'
<1>1. /\ phase[n] = "files" /\ left[n] = 0 /\ busy[n] = 0
      /\ phase' \in [Nodes -> Phases] /\ budget' \in [Nodes -> Nat]
      /\ phase'[n] = "subs" /\ budget'[n] = budget[n]
      /\ n \notin SeenKids(n) /\ SeenKids(n) \subseteq Nodes
      /\ \A m \in SeenKids(n) : phase[m] = "idle" /\ phase'[m] \in {"ask", "done"}
      /\ \A m \in Nodes \ (SeenKids(n) \cup {n}) :
            phase'[m] = phase[m] /\ budget'[m] = budget[m]
      /\ UNCHANGED <<status, files, returned, seen, left, busy, own, got, tree, inUse>>
  BY RecurseEffect
<1>2. FormInv'
  BY <1>1 DEF LoadInv, FormInv
<1>3. WorkInv'
  <2>1. \A m \in SeenKids(n) :
           own[m] = 0 /\ left[m] = 0 /\ busy[m] = 0 /\ got[m] = 0 /\ budget'[m] \in Nat
    BY <1>1 DEF LoadInv, WorkInv
  <2>2. got[n] = 0
    BY <1>1 DEF LoadInv, WorkInv
  <2>3. \A m \in SeenKids(n) :
           /\ own'[m] + left'[m] + busy'[m] <= budget'[m]
           /\ left'[m] = 0 /\ busy'[m] = 0 /\ own'[m] = 0 /\ got'[m] = 0
    BY <1>1, <2>1
  <2>. QED BY <1>1, <2>2, <2>3 DEF LoadInv, WorkInv
<1>. QED BY <1>2, <1>3 DEF LoadInv

LEMMA LoadFinishes ==
    ASSUME LoadInv,
           FetchAllReturns \/ (\E s \in Sources : FinishSource(s)) \/ UNCHANGED vars
    PROVE  LoadInv'
<1> DEFINE new == /\ status' \in [Sources -> {"queued", "running", "ok", "error"}]
                  /\ files' \in [Sources -> Nat] /\ returned' \in BOOLEAN
<1>1. /\ UNCHANGED <<phase, budget, seen, left, busy, own, got, tree, inUse>>
      /\ new
  <2>1. CASE FetchAllReturns \/ UNCHANGED vars
    BY <2>1 DEF FetchAllReturns, vars, sourceVars, fileVars, LoadInv, FormInv
  <2>2. ASSUME NEW s \in Sources, FinishSource(s)
        PROVE  /\ UNCHANGED <<phase, budget, seen, left, busy, own, got, tree, inUse>>
               /\ new
    <3>1. PICK k \in Kept(s) :
             /\ files' = [files EXCEPT ![s] = k]
             /\ status' = [status EXCEPT ![s] = IF k > 0 THEN "ok" ELSE "error"]
      BY <2>2 DEF FinishSource
    <3>2. got[Plan[s].root] \in Nat
      BY RootShape DEF LoadInv, FormInv
    <3>3. k \in Nat
      BY <3>2 DEF Kept
    <3>. QED BY <2>2, <3>1, <3>3 DEF FinishSource, fileVars, LoadInv, FormInv
  <2>. QED BY <2>1, <2>2
<1>2. FormInv'
  BY <1>1 DEF LoadInv, FormInv
<1>3. WorkInv'
  BY <1>1 DEF LoadInv, WorkInv
<1>. QED BY <1>2, <1>3 DEF LoadInv
-----------------------------------------------------------------------------
\* The order of the phases in a tree.  First, nodes that go on before their end.
LEMMA ShapeMoves ==
    ASSUME FormInv, ShapeInv, UNCHANGED status,
           \A n \in Nodes :
              \/ phase'[n] = phase[n] /\ seen'[n] = seen[n]
              \/ phase[n] \in Early /\ phase'[n] \in Early \cup {"files", "failed"}
    PROVE  ShapeInv'
<1>1. KidsInv'
  <2>. SUFFICES ASSUME NEW n \in Nodes, NEW m \in Kids(n)
                PROVE  /\ phase'[m] # "idle" =>
                             phase'[n] \in {"subs", "done"} /\ m \in SeenKids(n)'
                       /\ phase'[n] = "done" => phase'[m] \in Over \cup {"idle"}
    BY DEF KidsInv, Kids
  <2>1. m \in Nodes
    BY KidShape
  <2>2. /\ phase[m] # "idle" => phase[n] \in {"subs", "done"} /\ m \in SeenKids(n)
        /\ phase[n] = "done" => phase[m] \in Over \cup {"idle"}
    BY DEF ShapeInv, KidsInv
  <2>3. phase'[m] # "idle" =>
           phase'[n] \in {"subs", "done"} /\ m \in SeenKids(n)'
    BY <2>1, <2>2 DEF Early, SeenKids
  <2>4. phase'[n] = "done" => phase'[m] \in Over \cup {"idle"}
    BY <2>1, <2>2 DEF Early, Over
  <2>. QED BY <2>3, <2>4
<1>2. RootInv'
  BY RootShape DEF ShapeInv, RootInv, Early, Over
<1>. QED BY <1>1, <1>2 DEF ShapeInv

LEMMA ShapeStarts ==
    ASSUME FormInv, ShapeInv, NEW s \in Sources, StartSource(s)
    PROVE  ShapeInv'
<1> DEFINE r == Plan[s].root
<1>1. /\ r \in Nodes /\ Source(r) = Plan[s] /\ Tree[r].source = s
      /\ \A n \in Nodes : r \notin Kids(n)
  BY RootShape
<1>2. /\ phase[r] = "idle" /\ phase'[r] \in {"ask", "files"} /\ seen' = seen
      /\ \A n \in Nodes \ {r} : phase'[n] = phase[n]
      /\ status'[s] = "running" /\ \A t \in Sources \ {s} : status'[t] = status[t]
  BY <1>1 DEF StartSource, FormInv, ShapeInv, RootInv
<1> HIDE DEF r
<1>3. KidsInv'
  <2>. SUFFICES ASSUME NEW n \in Nodes, NEW m \in Kids(n)
                PROVE  /\ phase'[m] # "idle" =>
                             phase'[n] \in {"subs", "done"} /\ m \in SeenKids(n)'
                       /\ phase'[n] = "done" => phase'[m] \in Over \cup {"idle"}
    BY DEF KidsInv, Kids
  <2>1. m \in Nodes /\ m # r
    BY <1>1, KidShape
  <2>2. /\ phase[m] # "idle" => phase[n] \in {"subs", "done"} /\ m \in SeenKids(n)
        /\ phase[n] = "done" => phase[m] \in Over \cup {"idle"}
    BY DEF ShapeInv, KidsInv
  <2>3. SeenKids(n)' = SeenKids(n)
    BY <1>2 DEF SeenKids
  <2>. QED BY <1>2, <2>1, <2>2, <2>3
<1>4. RootInv'
  <2>1. \A t \in Sources : /\ Plan[t].root \in Nodes
                           /\ t # s => Plan[t].root # r
    BY <1>1, RootShape
  <2>2. r = Plan[s].root /\ r = Source(r).root
    BY <1>1 DEF r
  <2>. QED BY <1>1, <1>2, <2>1, <2>2 DEF ShapeInv, RootInv
<1>. QED BY <1>3, <1>4 DEF ShapeInv

LEMMA ShapeFinishes ==
    ASSUME FormInv, ShapeInv,
           FetchAllReturns \/ (\E s \in Sources : FinishSource(s)) \/ UNCHANGED vars
    PROVE  ShapeInv'
<1>1. /\ UNCHANGED <<phase, seen>>
      /\ \A t \in Sources :
            \/ status'[t] = status[t]
            \/ status'[t] \in {"ok", "error"} /\ phase[Plan[t].root] \in Over
  BY DEF FetchAllReturns, FinishSource, vars, sourceVars, fileVars, FormInv, Over
<1>2. KidsInv'
  BY <1>1 DEF ShapeInv, KidsInv, SeenKids
<1>3. RootInv'
  BY <1>1 DEF ShapeInv, RootInv
<1>. QED BY <1>2, <1>3 DEF ShapeInv

LEMMA ShapeRecurses ==
    ASSUME LoadInv, ShapeInv, NEW n \in Nodes, Recurse(n)
    PROVE  ShapeInv'
<1>1. /\ phase[n] = "files" /\ phase'[n] = "subs" /\ UNCHANGED <<seen, status>>
      /\ SeenKids(n) \subseteq Nodes
      /\ \A m \in SeenKids(n) : phase[m] = "idle" /\ phase'[m] \in {"ask", "done"}
      /\ \A m \in Nodes \ (SeenKids(n) \cup {n}) : phase'[m] = phase[m]
  BY RecurseEffect DEF ShapeInv
<1>2. SeenKids(n) \subseteq Kids(n)
  BY SeenShape DEF LoadInv, FormInv
<1>3. KidsInv'
  <2>. SUFFICES ASSUME NEW p \in Nodes, NEW m \in Kids(p)
                PROVE  /\ phase'[m] # "idle" =>
                             phase'[p] \in {"subs", "done"} /\ m \in SeenKids(p)'
                       /\ phase'[p] = "done" => phase'[m] \in Over \cup {"idle"}
    BY DEF KidsInv, Kids
  <2>1. /\ phase[m] # "idle" => phase[p] \in {"subs", "done"} /\ m \in SeenKids(p)
        /\ phase[p] = "done" => phase[m] \in Over \cup {"idle"}
    BY DEF ShapeInv, KidsInv
  <2>2. SeenKids(p)' = SeenKids(p)
    BY <1>1 DEF SeenKids
  <2>3. m \in Nodes /\ (m \in Kids(n) => p = n) /\ m # p
    BY KidShape
  <2>4. CASE p = n
    BY <1>1, <2>1, <2>2, <2>3, <2>4
  <2>5. CASE p # n
    <3>1. m \notin SeenKids(n)
      BY <1>2, <2>3, <2>5
    <3>2. phase[p] # "idle" => phase'[p] = phase[p]
      BY <1>1, <2>5
    <3>3. CASE m = n
      BY <1>1, <2>1, <2>2, <3>2, <3>3, <2>5 DEF Over
    <3>4. CASE m # n
      <4>1. phase'[m] = phase[m]
        BY <1>1, <2>3, <3>1, <3>4
      <4>2. phase[p] = "idle" => phase[m] = "idle"
        BY <2>1
      <4>. QED BY <2>1, <2>2, <3>2, <4>1, <4>2 DEF Over
    <3>. QED BY <3>3, <3>4
  <2>. QED BY <2>4, <2>5
<1>4. RootInv'
  <2>1. \A s \in Sources : Plan[s].root \in Nodes \ SeenKids(n)
    BY <1>2, RootShape
  <2>. QED BY <1>1, <1>2, <2>1 DEF ShapeInv, RootInv, Over
<1>. QED BY <1>3, <1>4 DEF ShapeInv

LEMMA ShapeEnds ==
    ASSUME LoadInv, ShapeInv, NEW n \in Nodes, NoRecursion(n) \/ Gather(n)
    PROVE  ShapeInv'
<1>1. /\ phase[n] \in {"files", "subs"} /\ phase'[n] = "done" /\ UNCHANGED <<seen, status>>
      /\ \A m \in Nodes \ {n} : phase'[m] = phase[m]
  BY EndEffect DEF LoadInv, FormInv
<1>2. \A m \in Kids(n) : phase[m] \in Over \cup {"idle"}
  <2>. TAKE m \in Kids(n)
  <2>1. phase[m] # "idle" => phase[n] = "subs" /\ m \in SeenKids(n)
    BY <1>1 DEF ShapeInv, KidsInv
  <2>2. phase[n] = "subs" => \A j \in SeenKids(n) : phase[j] \in Over
    BY DEF NoRecursion, FilesOver, Gather, SeenKids, Over
  <2>. QED BY <2>1, <2>2
<1>3. KidsInv'
  <2>. SUFFICES ASSUME NEW p \in Nodes, NEW m \in Kids(p)
                PROVE  /\ phase'[m] # "idle" =>
                             phase'[p] \in {"subs", "done"} /\ m \in SeenKids(p)'
                       /\ phase'[p] = "done" => phase'[m] \in Over \cup {"idle"}
    BY DEF KidsInv, Kids
  <2>1. /\ phase[m] # "idle" => phase[p] \in {"subs", "done"} /\ m \in SeenKids(p)
        /\ phase[p] = "done" => phase[m] \in Over \cup {"idle"}
    BY DEF ShapeInv, KidsInv
  <2>2. SeenKids(p)' = SeenKids(p)
    BY <1>1 DEF SeenKids
  <2>3. m \in Nodes /\ m # p
    BY KidShape
  <2>. QED BY <1>1, <1>2, <2>1, <2>2, <2>3 DEF Over
<1>4. RootInv'
  BY <1>1, RootShape DEF ShapeInv, RootInv, Over
<1>. QED BY <1>3, <1>4 DEF ShapeInv
-----------------------------------------------------------------------------
\* Slots are counted right: none is taken twice, or given back twice.
LEMMA SlotShape ==
    ASSUME FormInv
    PROVE  /\ flight \in [Nodes -> Nat] /\ asking \in [Repos -> Nat]
           /\ \A p : /\ IsFiniteSet(Users(p)) /\ Counts(flight, Users(p))
                     /\ IsFiniteSet(Askers(p)) /\ Counts(asking, Askers(p))
                     /\ Total(flight, Users(p)) \in Nat /\ Total(asking, Askers(p)) \in Nat
<1>1. flight \in [Nodes -> Nat] /\ asking \in [Repos -> Nat]
  BY DEF FormInv, flight, asking
<1>2. \A p : /\ IsFiniteSet(Users(p)) /\ Counts(flight, Users(p))
             /\ IsFiniteSet(Askers(p)) /\ Counts(asking, Askers(p))
  <2>. TAKE p
  <2>1. Users(p) \subseteq Nodes /\ Askers(p) \subseteq Repos
    BY DEF Users, Askers
  <2>. QED BY <1>1, <2>1, ForestAssumption, FS_Subset DEF Counts
<1>. QED BY <1>1, <1>2, TotalType

LEMMA SlotsSame ==
    ASSUME SlotInv, flight' = flight, asking' = asking, inUse' = inUse
    PROVE  SlotInv'
<1>. SUFFICES ASSUME NEW p \in {"api", "gate"}
              PROVE  /\ inUse'[p] = Total(flight', Users(p)) + Total(asking', Askers(p))
                     /\ inUse'[p] <= Slots[p]
  BY DEF SlotInv, Users, Askers
<1>. QED BY DEF SlotInv

\* A fetch of m, or of the tree of r, begins (d = 1) or ends (d = -1).
LEMMA FlightChanges ==
    ASSUME SlotInv, FormInv, FormInv', NEW m \in Nodes, NEW d \in {1, -1},
           d = 1 => Acquire(Pool(m)), d = -1 => Release(Pool(m)),
           flight'[m] = flight[m] + d, \A n \in Nodes \ {m} : flight'[n] = flight[n],
           asking' = asking
    PROVE  SlotInv'
<1>. SUFFICES ASSUME NEW p \in {"api", "gate"}
              PROVE  /\ inUse'[p] = Total(flight', Users(p)) + Total(asking', Askers(p))
                     /\ inUse'[p] <= Slots[p]
  BY DEF SlotInv, Users, Askers
<1>1. /\ inUse[p] = Total(flight, Users(p)) + Total(asking, Askers(p))
      /\ inUse[p] <= Slots[p] /\ Slots[p] \in Nat /\ inUse[p] \in Int
  BY PlanAssumption DEF SlotInv, Slots, FormInv
<1>2. /\ IsFiniteSet(Users(p)) /\ Counts(flight, Users(p))
      /\ Total(flight, Users(p)) \in Nat /\ Total(asking, Askers(p)) \in Nat
      /\ flight \in [Nodes -> Nat]
  BY SlotShape
<1>3. flight' \in [Nodes -> Nat] /\ Counts(flight', Users(p))
  BY DEF FormInv, flight, Counts, Users
<1>4. CASE p = Pool(m)
  <2>1. inUse'[p] = inUse[p] + d /\ inUse'[p] <= Slots[p]
    BY <1>1, <1>4 DEF Acquire, Release, Full, FormInv
  <2>2. Total(flight', Users(p)) = Total(flight, Users(p)) + (flight'[m] - flight[m])
    <3>1. m \in Users(p) /\ \A n \in Users(p) \ {m} : flight'[n] = flight[n]
      BY <1>4 DEF Users
    <3>. QED BY <1>2, <1>3, <3>1, TotalChange
  <2>3. flight[m] \in Nat /\ flight'[m] \in Nat
    BY <1>2, <1>3
  <2>. QED BY <1>1, <1>2, <2>1, <2>2, <2>3
<1>5. CASE p # Pool(m)
  <2>1. inUse'[p] = inUse[p]
    BY <1>5 DEF Acquire, Release, FormInv
  <2>2. \A n \in Users(p) : flight[n] = flight'[n]
    BY <1>5 DEF Users
  <2>3. Total(flight', Users(p)) = Total(flight, Users(p))
    BY <1>2, <2>2, TotalSame
  <2>. QED BY <1>1, <2>1, <2>3
<1>. QED BY <1>4, <1>5

LEMMA AskingChanges ==
    ASSUME SlotInv, FormInv, FormInv', NEW r \in Repos, NEW d \in {1, -1},
           d = 1 => Acquire("api"), d = -1 => Release("api"),
           asking'[r] = asking[r] + d, \A q \in Repos \ {r} : asking'[q] = asking[q],
           flight' = flight
    PROVE  SlotInv'
<1>. SUFFICES ASSUME NEW p \in {"api", "gate"}
              PROVE  /\ inUse'[p] = Total(flight', Users(p)) + Total(asking', Askers(p))
                     /\ inUse'[p] <= Slots[p]
  BY DEF SlotInv, Users, Askers
<1>1. /\ inUse[p] = Total(flight, Users(p)) + Total(asking, Askers(p))
      /\ inUse[p] <= Slots[p] /\ Slots[p] \in Nat /\ inUse[p] \in Int
  BY PlanAssumption DEF SlotInv, Slots, FormInv
<1>2. /\ IsFiniteSet(Askers(p)) /\ Counts(asking, Askers(p))
      /\ Total(flight, Users(p)) \in Nat /\ Total(asking, Askers(p)) \in Nat
      /\ asking \in [Repos -> Nat]
  BY SlotShape
<1>3. asking' \in [Repos -> Nat] /\ Counts(asking', Askers(p))
  BY DEF FormInv, asking, Counts, Askers
<1>4. CASE p = "api"
  <2>1. inUse'[p] = inUse[p] + d /\ inUse'[p] <= Slots[p]
    BY <1>1, <1>4 DEF Acquire, Release, Full, FormInv
  <2>2. Total(asking', Askers(p)) = Total(asking, Askers(p)) + (asking'[r] - asking[r])
    <3>1. r \in Askers(p) /\ \A q \in Askers(p) \ {r} : asking'[q] = asking[q]
      BY <1>4 DEF Askers
    <3>. QED BY <1>2, <1>3, <3>1, TotalChange
  <2>3. asking[r] \in Nat /\ asking'[r] \in Nat
    BY <1>2, <1>3
  <2>. QED BY <1>1, <1>2, <2>1, <2>2, <2>3
<1>5. CASE p = "gate"
  <2>1. inUse'[p] = inUse[p]
    BY <1>5 DEF Acquire, Release, FormInv
  <2>2. Total(asking', Askers(p)) = Total(asking, Askers(p))
    <3>1. Askers(p) = {}
      BY <1>5 DEF Askers
    <3>. QED BY <1>2, <3>1, TotalSame
  <2>. QED BY <1>1, <2>1, <2>2
<1>. QED BY <1>4, <1>5
-----------------------------------------------------------------------------
FetchInv == LoadInv /\ ShapeInv /\ SlotInv

LEMMA InitFetches == Init => FetchInv
<1>. SUFFICES ASSUME Init PROVE FetchInv
  OBVIOUS
<1>1. LoadInv
  <2>1. FormInv
    <3>1. phase \in [Nodes -> Phases] /\ inUse \in [api : Int, gate : Int]
      BY DEF Init, Phases
    <3>2. DOMAIN seen = Nodes /\ \A n \in Nodes : seen[n] \in {Nothing, Prefix(n), Whole(n)}
      BY DEF Init
    <3>3. {budget, left, busy, own, got} \subseteq [Nodes -> Nat]
      BY DEF Init
    <3>. QED BY <3>1, <3>2, <3>3 DEF Init, FormInv
  <2>2. WorkInv
    BY DEF Init, WorkInv
  <2>. QED BY <2>1, <2>2 DEF LoadInv
<1>2. ShapeInv
  BY RootShape, KidShape DEF Init, ShapeInv, KidsInv, RootInv
<1>3. SlotInv
  <2>1. \A p : Total(flight, Users(p)) = 0 /\ Total(asking, Askers(p)) = 0
    <3>. TAKE p
    <3>1. /\ \A n \in Users(p) : flight[n] = 0
          /\ \A r \in Askers(p) : asking[r] = 0
      BY DEF Init, flight, asking, Users, Askers
    <3>. QED BY <1>1, <3>1, SlotShape, TotalZero DEF LoadInv
  <2>. QED BY <2>1, PlanAssumption DEF Init, SlotInv, Slots
<1>. QED BY <1>1, <1>2, <1>3 DEF FetchInv

\* A node goes on with a listing, or has none.
LEMMA ListingSteps ==
    ASSUME FetchInv, NEW n \in Nodes,
           AskListing(n) \/ ListingFails(n) \/ Listed(n) \/ NeedsTree(n) \/ HasTree(n)
    PROVE  FetchInv'
<1>. USE DEF sourceVars, fileVars
<1>1. LoadInv /\ ShapeInv /\ SlotInv /\ FormInv
  BY DEF FetchInv, LoadInv
<1>2. /\ phase[n] \in Early /\ UNCHANGED <<status, files, returned, budget, busy, own, got>>
      /\ tree' \in [Repos -> {"none", "asked", "flight", "held"}]
  BY <1>1, RepoType
  DEF AskListing, ListingFails, Listed, NeedsTree, HasTree, Early, FormInv
<1>3. Large(n) => Pool(n) = "api"
  BY ForestAssumption DEF Pool, OnGitHub
<1>4. inUse' \in [api : Int, gate : Int]
  <2>1. CASE ListingFails(n)
    BY <1>1, <2>1, SlotTypes DEF ListingFails, FormInv
  <2>. QED BY <1>1, <2>1, SlotTypes DEF AskListing, Listed, NeedsTree, HasTree, BeforeTree
<1>5. ASSUME AskListing(n) \/ ListingFails(n) \/ NeedsTree(n)
      PROVE  LoadInv' /\ ShapeInv'
  <2>1. PICK q \in Early \cup {"failed"} :
           phase' = [phase EXCEPT ![n] = q] /\ UNCHANGED <<seen, left>>
    BY <1>5 DEF AskListing, ListingFails, NeedsTree, Early
  <2>2. LoadInv'
    BY <1>1, <1>2, <1>4, <2>1, LoadMoves
  <2>3. \A m \in Nodes :
           \/ phase'[m] = phase[m] /\ seen'[m] = seen[m]
           \/ phase[m] \in Early /\ phase'[m] \in Early \cup {"files", "failed"}
    BY <1>1, <1>2, <2>1 DEF FormInv
  <2>4. ShapeInv'
    BY <1>1, <1>2, <2>3, ShapeMoves
  <2>. QED BY <2>2, <2>4
<1>6. ASSUME Listed(n) \/ HasTree(n)
      PROVE  LoadInv' /\ ShapeInv'
  <2>1. GoOn({n}, Whole)
    BY <1>6 DEF Listed, HasTree
  <2>2. LoadInv'
    BY <1>1, <1>2, <1>4, <2>1, LoadListed
  <2>3. \A m \in Nodes :
           \/ phase'[m] = phase[m] /\ seen'[m] = seen[m]
           \/ phase[m] \in Early /\ phase'[m] \in Early \cup {"files", "failed"}
    <3>1. {n} \in SUBSET Nodes
      OBVIOUS
    <3>2. /\ phase'[n] = "files"
          /\ \A m \in Nodes \ {n} : phase'[m] = phase[m] /\ seen'[m] = seen[m]
      BY <1>1, <2>1, <3>1, GoOnType
    <3>. QED BY <1>2, <3>2
  <2>4. ShapeInv'
    BY <1>1, <1>2, <2>3, ShapeMoves
  <2>. QED BY <2>2, <2>4
<1>7. LoadInv' /\ ShapeInv'
  BY <1>5, <1>6
<1>8. asking' = asking
  BY <1>1, RepoType
  DEF AskListing, ListingFails, Listed, NeedsTree, HasTree, asking, FormInv
<1>9. SlotInv'
  <2>1. \A m \in Nodes \ {n} : phase'[m] = phase[m]
    BY <1>1 DEF AskListing, ListingFails, Listed, NeedsTree, HasTree, GoOn, FormInv
  <2>2. \A m \in Nodes \ {n} : flight'[m] = flight[m]
    BY <1>2, <2>1 DEF flight
  <2>3. FormInv'
    BY <1>7 DEF LoadInv
  <2>4. CASE AskListing(n)
    <3>1. Acquire(Pool(n)) /\ phase[n] = "ask" /\ phase'[n] = "listing"
      BY <1>1, <2>4 DEF AskListing, FormInv
    <3>2. flight'[n] = flight[n] + 1
      BY <1>1, <1>2, <3>1 DEF flight, FormInv
    <3>. QED BY <1>1, <1>8, <2>2, <2>3, <3>1, <3>2, FlightChanges
  <2>5. CASE phase[n] = "ask" /\ ListingFails(n)
    <3>1. phase'[n] = "failed" /\ UNCHANGED inUse
      BY <1>1, <2>5 DEF ListingFails, FormInv
    <3>2. flight'[n] = flight[n]
      BY <1>2, <2>5, <3>1 DEF flight
    <3>3. flight' = flight
      BY <2>2, <3>2 DEF flight
    <3>. QED BY <1>1, <1>8, <3>1, <3>3, SlotsSame
  <2>6. CASE phase[n] = "listing" /\ ~ AskListing(n)
    <3>1. Release(Pool(n)) /\ phase'[n] # "listing"
      BY <1>1, <1>3, <2>6
      DEF ListingFails, Listed, NeedsTree, HasTree, BeforeTree, GoOn, FormInv
    <3>2. flight'[n] = flight[n] + (-1)
      BY <1>1, <1>2, <2>6, <3>1 DEF flight, FormInv
    <3>. QED BY <1>1, <1>8, <2>2, <2>3, <3>1, <3>2, FlightChanges
  <2>. QED
    BY <2>4, <2>5, <2>6 DEF ListingFails, Listed, NeedsTree, HasTree
<1>. QED BY <1>7, <1>9 DEF FetchInv

LEMMA TreeSteps ==
    ASSUME FetchInv, NEW r \in Repos, AskTree(r) \/ TreeAnswered(r) \/ TreeFails(r)
    PROVE  FetchInv'
<1>. USE DEF sourceVars, fileVars
<1>1. LoadInv /\ ShapeInv /\ SlotInv /\ FormInv
  BY DEF FetchInv, LoadInv
<1>2. /\ UNCHANGED <<status, files, returned, budget, busy, own, got>>
      /\ tree' \in [Repos -> {"none", "asked", "flight", "held"}]
      /\ \A q \in Repos \ {r} : tree'[q] = tree[q]
      /\ \A n \in Waiters(r) : phase[n] = "tree"
      /\ Waiters(r) \subseteq Nodes
  BY <1>1 DEF AskTree, TreeAnswered, TreeFails, AfterFailure, Waiters, FormInv
<1>3. inUse' \in [api : Int, gate : Int]
  <2>1. CASE TreeFails(r)
    BY <1>1, <2>1, SlotTypes DEF TreeFails, FormInv
  <2>. QED BY <1>1, <2>1, SlotTypes DEF AskTree, TreeAnswered
<1>4. LoadInv' /\ ShapeInv' /\ flight' = flight
  <2>1. CASE AskTree(r)
    <3>1. UNCHANGED <<phase, seen, left>>
      BY <2>1 DEF AskTree
    <3>2. LoadInv'
      BY <1>1, <1>2, <1>3, <3>1 DEF LoadInv, FormInv, WorkInv
    <3>. QED BY <1>1, <1>2, <3>1, <3>2, ShapeMoves DEF flight
  <2>2. CASE ~ AskTree(r)
    <3>1. GoOn(Waiters(r), Whole) \/ GoOn(Waiters(r), Prefix)
      BY <2>2 DEF TreeAnswered, TreeFails
    <3>2. LoadInv'
      BY <1>1, <1>2, <1>3, <3>1, LoadListed DEF Early
    <3>3. \A n \in Nodes :
             \/ phase'[n] = phase[n] /\ seen'[n] = seen[n]
             \/ phase[n] = "tree" /\ phase'[n] = "files"
      BY <1>1, <1>2, <3>1, GoOnType
    <3>4. ShapeInv'
      BY <1>1, <1>2, <3>3, ShapeMoves DEF Early
    <3>. QED BY <1>2, <3>2, <3>3, <3>4 DEF flight
  <2>. QED BY <2>1, <2>2
<1>5. FormInv'
  BY <1>4 DEF LoadInv
<1>6. \A q \in Repos \ {r} : asking'[q] = asking[q]
  BY <1>2 DEF asking
<1>7. SlotInv'
  <2>1. CASE AskTree(r)
    <3>1. Acquire("api") /\ asking[r] = 0 /\ asking'[r] = 1
      BY <1>1, <2>1 DEF AskTree, asking, FormInv
    <3>2. asking'[r] = asking[r] + 1
      BY <3>1
    <3>. QED BY <1>1, <1>4, <1>5, <1>6, <3>1, <3>2, AskingChanges
  <2>2. CASE tree[r] = "flight" /\ ~ AskTree(r)
    <3>1. Release("api") /\ asking[r] = 1 /\ asking'[r] = 0
      BY <1>1, <2>2 DEF TreeAnswered, TreeFails, AfterFailure, asking, FormInv
    <3>2. asking'[r] = asking[r] + (-1)
      BY <3>1
    <3>. QED BY <1>1, <1>4, <1>5, <1>6, <3>1, <3>2, AskingChanges
  <2>3. CASE tree[r] = "asked" /\ TreeFails(r)
    <3>1. UNCHANGED inUse /\ asking[r] = 0 /\ asking'[r] = 0
      BY <1>1, <2>3 DEF TreeFails, AfterFailure, asking, FormInv
    <3>2. asking' = asking
      BY <1>6, <3>1 DEF asking
    <3>. QED BY <1>1, <1>4, <3>1, <3>2, SlotsSame
  <2>. QED BY <2>1, <2>2, <2>3 DEF TreeAnswered, TreeFails
<1>. QED BY <1>4, <1>7 DEF FetchInv

LEMMA FileSteps ==
    ASSUME FetchInv, NEW n \in Nodes,
           FetchFile(n) \/ FileFetched(n) \/ FileFails(n) \/ FileExpires(n)
    PROVE  FetchInv'
<1>. USE DEF sourceVars, fileVars
<1>1. LoadInv /\ ShapeInv /\ SlotInv /\ FormInv
  BY DEF FetchInv, LoadInv
<1>2. LoadInv' /\ FormInv'
  BY <1>1, LoadFetches DEF LoadInv
<1>3. UNCHANGED <<status, phase, seen, tree>>
  BY DEF FetchFile, FileFetched, FileFails, FileExpires
<1>4. ShapeInv'
  BY <1>1, <1>3, ShapeMoves
<1>5. asking' = asking
  BY <1>3 DEF asking
<1>6. \A m \in Nodes \ {n} : flight'[m] = flight[m]
  BY <1>1, <1>3 DEF FetchFile, FileFetched, FileFails, FileExpires, flight, FormInv
<1>7. CASE FetchFile(n)
  <2>1. Acquire(Pool(n)) /\ busy'[n] = busy[n] + 1 /\ busy[n] \in Nat
    BY <1>1, <1>7 DEF FetchFile, FormInv
  <2>2. flight'[n] = flight[n] + 1
    BY <1>3, <2>1 DEF flight
  <2>. QED BY <1>1, <1>2, <1>4, <1>5, <1>6, <2>1, <2>2, FlightChanges DEF FetchInv
<1>8. CASE FileFetched(n) \/ FileFails(n)
  <2>1. Release(Pool(n)) /\ busy'[n] = busy[n] - 1 /\ busy[n] \in Nat
    BY <1>1, <1>8 DEF FileFetched, FileFails, FormInv
  <2>2. flight'[n] = flight[n] + (-1)
    BY <1>3, <2>1 DEF flight
  <2>. QED BY <1>1, <1>2, <1>4, <1>5, <1>6, <2>1, <2>2, FlightChanges DEF FetchInv
<1>9. CASE FileExpires(n)
  <2>1. UNCHANGED <<busy, inUse>>
    BY <1>9 DEF FileExpires
  <2>2. flight' = flight
    BY <1>3, <2>1 DEF flight
  <2>. QED BY <1>1, <1>2, <1>4, <1>5, <2>1, <2>2, SlotsSame DEF FetchInv
<1>. QED BY <1>7, <1>8, <1>9
LEMMA TreeDoneSteps ==
    ASSUME FetchInv, NEW n \in Nodes, Recurse(n) \/ NoRecursion(n) \/ Gather(n)
    PROVE  FetchInv'
<1>1. LoadInv /\ ShapeInv /\ SlotInv /\ FormInv
  BY DEF FetchInv, LoadInv
<1>2. LoadInv' /\ ShapeInv'
  BY <1>1, LoadRecurses, LoadEnds, ShapeRecurses, ShapeEnds DEF ShapeInv
<1>3. UNCHANGED <<busy, tree, inUse>>
  BY DEF Recurse, NoRecursion, Gather, fileVars
<1>4. \A m \in Nodes : phase'[m] = "listing" <=> phase[m] = "listing"
  <2>1. CASE Recurse(n)
    <3>1. /\ phase[n] = "files" /\ phase'[n] = "subs"
          /\ \A m \in SeenKids(n) : phase[m] = "idle" /\ phase'[m] \in {"ask", "done"}
          /\ \A m \in Nodes \ (SeenKids(n) \cup {n}) : phase'[m] = phase[m]
      BY <1>1, <2>1, RecurseEffect DEF ShapeInv
    <3>. QED BY <3>1
  <2>2. CASE NoRecursion(n) \/ Gather(n)
    BY <1>1, <2>2, EndEffect DEF FormInv
  <2>. QED BY <2>1, <2>2
<1>5. flight' = flight /\ asking' = asking
  BY <1>3, <1>4 DEF flight, asking
<1>. QED BY <1>1, <1>2, <1>3, <1>5, SlotsSame DEF FetchInv

LEMMA SourceSteps ==
    ASSUME FetchInv,
           \/ \E s \in Sources : StartSource(s) \/ FinishSource(s)
           \/ FetchAllReturns \/ UNCHANGED vars
    PROVE  FetchInv'
<1>1. LoadInv /\ ShapeInv /\ SlotInv /\ FormInv
  BY DEF FetchInv, LoadInv
<1>2. LoadInv' /\ ShapeInv'
  BY <1>1, LoadStarts, LoadFinishes, ShapeStarts, ShapeFinishes DEF ShapeInv
<1>3. UNCHANGED <<busy, tree, inUse>>
  BY DEF StartSource, FinishSource, FetchAllReturns, vars, fileVars
<1>4. \A m \in Nodes : phase'[m] = "listing" <=> phase[m] = "listing"
  <2>1. ASSUME NEW s \in Sources, StartSource(s)
        PROVE  \A m \in Nodes : phase'[m] = "listing" <=> phase[m] = "listing"
    BY <1>1, <2>1, RootShape DEF StartSource, FormInv, ShapeInv, RootInv
  <2>2. CASE UNCHANGED phase
    BY <2>2
  <2>. QED BY <2>1, <2>2 DEF FinishSource, FetchAllReturns, vars
<1>5. flight' = flight /\ asking' = asking
  BY <1>3, <1>4 DEF flight, asking
<1>. QED BY <1>1, <1>2, <1>3, <1>5, SlotsSame DEF FetchInv

LEMMA StepsFetch == FetchInv /\ [Next]_vars => FetchInv'
BY ListingSteps, TreeSteps, FileSteps, TreeDoneSteps, SourceSteps DEF Next, NodeStep

LEMMA FetchInvariant == Spec => []FetchInv
BY InitFetches, StepsFetch, PTL DEF Spec

\* For any sources, trees and slots (manager.py:293-480,
\* sources/github.py:317-347, 483-654): a
\* request, a download and the tree of a repository give back the slot they took,
\* once; no node works beyond its budget.
THEOREM TypeCorrect == Spec => []TypeOK
<1>1. FetchInv => TypeOK
  <2>. SUFFICES ASSUME FetchInv PROVE TypeOK
    OBVIOUS
  <2>1. inUse \in [api : 0 .. ApiSlots, gate : 0 .. Downloads]
    <3>1. \A p \in {"api", "gate"} : inUse[p] \in Nat /\ inUse[p] <= Slots[p]
      BY SlotShape DEF FetchInv, LoadInv, SlotInv
    <3>2. ApiSlots \in Nat /\ Downloads \in Nat
      BY PlanAssumption
    <3>3. inUse \in [api : Int, gate : Int]
      BY DEF FetchInv, LoadInv, FormInv
    <3>. QED BY <3>1, <3>2, <3>3 DEF Slots
  <2>. QED BY <2>1 DEF FetchInv, LoadInv, FormInv, WorkInv, TypeOK, Phases
<1>. QED BY FetchInvariant, <1>1, PTL
-----------------------------------------------------------------------------
(* Nothing that was fetched is lost.                                       *)
\* Any set of numbers has a least one.
LEMMA LeastNumber ==
    ASSUME NEW T \in SUBSET Nat, T # {}
    PROVE  \E m \in T : \A k \in T : m <= k
<1> DEFINE Less == {pair \in Nat \X Nat : pair[1] < pair[2]}
<1>1. IsWellFoundedOn(Less, Nat)
  BY NatLessThanWellFounded, Zenon DEF OpToRel
<1>2. \A k, m \in Nat : k < m => <<k, m>> \in Less
  OBVIOUS
<1>3. PICK m \in T : \A k \in T : ~ (<<k, m>> \in Less)
  <2>. HIDE DEF Less
  <2>1. T \subseteq Nat /\ T # {}
    OBVIOUS
  <2>2. \E m \in T : \A k \in T : ~ (<<k, m>> \in Less)
    BY <1>1, <2>1, WFMin, Zenon
  <2>. QED BY <2>2
<1>4. ASSUME NEW k \in T PROVE m <= k
  <2>. HIDE DEF Less
  <2>1. k \in Nat /\ m \in Nat
    OBVIOUS
  <2>2. ~ (k < m)
    BY <1>2, <1>3, <2>1, Zenon
  <2>. QED BY <2>1, <2>2
<1>. QED BY <1>4


\* A node that is done has handed its files on once its directory is done.
absorbed(n) == \E p \in Nodes : phase[p] = "done" /\ n \in Kids(p)
worth == [n \in Nodes |-> IF phase[n] # "done" THEN own[n]
                          ELSE IF absorbed(n) THEN 0 ELSE got[n]]

\* What was fetched for a source is what its nodes still have to hand on.
BalanceInv ==
    \A s \in Sources : Total(own, NodesOf(s)) = Total(worth, NodesOf(s))

\* A source reports what its root has, and the summary counts the reports.
ReportInv ==
    /\ \A s \in Sources :
          status[s] \in {"ok", "error"} =>
             /\ status[s] = "ok" <=> files[s] > 0
             /\ ~ Plan[s].filters => files[s] = got[Plan[s].root]
    /\ returned =>
          /\ \A s \in Sources : status[s] \in {"ok", "error"}
          /\ stats = [ok |-> Cardinality(Sources) - Cardinality(Failures),
                      failed |-> Cardinality(Failures)]

LEMMA WorthShape ==
    ASSUME FormInv
    PROVE  /\ worth \in [Nodes -> Nat]
           /\ \A s \in Sources :
                 /\ IsFiniteSet(NodesOf(s)) /\ NodesOf(s) \subseteq Nodes
                 /\ Counts(own, NodesOf(s)) /\ Counts(worth, NodesOf(s))
                 /\ Total(own, NodesOf(s)) \in Nat /\ Total(worth, NodesOf(s)) \in Nat
<1>1. worth \in [Nodes -> Nat] /\ own \in [Nodes -> Nat]
  BY DEF FormInv, worth
<1>2. \A s \in Sources : IsFiniteSet(NodesOf(s)) /\ NodesOf(s) \subseteq Nodes
  <2>1. \A s \in Sources : NodesOf(s) \subseteq Nodes
    BY DEF NodesOf
  <2>. QED BY <2>1, ForestAssumption, FS_Subset
<1>3. \A s \in Sources : Counts(own, NodesOf(s)) /\ Counts(worth, NodesOf(s))
  BY <1>1, <1>2 DEF Counts
<1>. QED BY <1>1, <1>2, <1>3, TotalType

\* When the root of a source is done, so is all that hangs below it.
LEMMA RootHasAll ==
    ASSUME FormInv, WorkInv, ShapeInv, NEW s \in Sources, phase[Plan[s].root] \in Over
    PROVE  Total(worth, NodesOf(s)) = got[Plan[s].root]
<1> DEFINE r == Plan[s].root
           open(n) == phase[n] \notin {"idle", "failed"} /\ ~ (phase[n] = "done" /\ absorbed(n))
           L == {Tree[n].level : n \in {m \in NodesOf(s) \ {r} : open(m)}}
<1>1. /\ r \in Nodes /\ r \in NodesOf(s)
      /\ \A n \in Nodes : r \notin Kids(n)
  BY RootShape DEF NodesOf
<1>2. \A n \in NodesOf(s) \ {r} : ~ open(n)
  <2>. SUFFICES ASSUME NEW m \in NodesOf(s) \ {r}, open(m) PROVE FALSE
    OBVIOUS
  <2>1. L \in SUBSET Nat /\ L # {}
    BY PlanAssumption DEF NodesOf
  <2>2. PICK l \in L : \A k \in L : l <= k
    <3> HIDE DEF L
    <3>. QED BY <2>1, LeastNumber
  <2>3. PICK n \in NodesOf(s) \ {r} : open(n) /\ Tree[n].level = l
    BY <2>2
  <2>4. n \in Nodes /\ Source(n) = Plan[s]
    BY <2>3 DEF NodesOf, Source
  <2>5. PICK p \in Nodes : n \in Kids(p)
    BY <2>3, <2>4 DEF ShapeInv, RootInv
  <2>6. Tree[p].source = s /\ Tree[n].level = Tree[p].level + 1
    BY <2>3, <2>5, KidShape DEF NodesOf
  <2>7. /\ phase[p] \in {"subs", "done"}
        /\ phase[p] = "done" => phase[n] \in Over \cup {"idle"}
    BY <2>3, <2>5 DEF ShapeInv, KidsInv
  <2>8. p = r \/ ~ open(p)
    <3>1. Tree[p].level \in Nat
      BY PlanAssumption
    <3>2. p # r /\ open(p) => Tree[p].level \in L
      BY <2>6 DEF NodesOf
    <3>3. Tree[p].level \notin L
      <4> HIDE DEF L
      <4>1. \A k \in L : Tree[p].level + 1 <= k
        BY <2>2, <2>3, <2>6
      <4>. QED BY <3>1, <4>1
    <3>. HIDE DEF open
    <3>. QED BY <3>2, <3>3
  <2>9. phase[p] = "done"
    BY <2>7, <2>8 DEF Over
  <2>10. absorbed(n)
    BY <2>5, <2>9 DEF absorbed
  <2>. QED BY <2>3, <2>7, <2>9, <2>10 DEF Over
<1>3. \A n \in NodesOf(s) \ {r} : worth[n] = 0
  <2>. TAKE n \in NodesOf(s) \ {r}
  <2>1. n \in Nodes /\ ~ open(n)
    BY <1>2 DEF NodesOf
  <2>2. phase[n] \in {"idle", "failed"} => own[n] = 0
    BY <2>1 DEF WorkInv
  <2>. QED BY <2>1, <2>2 DEF worth
<1>4. worth[r] = got[r]
  <2>1. ~ absorbed(r)
    BY <1>1 DEF absorbed
  <2>2. phase[r] = "failed" => own[r] = 0 /\ got[r] = 0
    BY <1>1 DEF WorkInv
  <2>. QED BY <1>1, <2>1, <2>2 DEF worth, Over
<1>. HIDE DEF r, open, L
<1>5. /\ IsFiniteSet(NodesOf(s)) /\ Counts(worth, NodesOf(s))
      /\ IsFiniteSet(NodesOf(s) \ {r}) /\ worth[r] \in Nat
  BY <1>1, WorthShape, FS_Subset DEF Counts
<1>6. Total(worth, NodesOf(s) \ {r}) = 0
  BY <1>3, <1>5, TotalZero
<1>7. Total(worth, NodesOf(s)) = worth[r] + Total(worth, NodesOf(s) \ {r})
  BY <1>1, <1>5, TotalTake
<1>. QED BY <1>4, <1>5, <1>6, <1>7 DEF r
-----------------------------------------------------------------------------
\* Steps that fetch nothing and end nothing.
LEMMA BalanceSame ==
    ASSUME BalanceInv, UNCHANGED own, worth' = worth
    PROVE  BalanceInv'
BY DEF BalanceInv, NodesOf

LEMMA NothingEnds ==
    ASSUME BalanceInv, UNCHANGED <<own, got>>,
           \A n \in Nodes : phase'[n] = "done" <=> phase[n] = "done"
    PROVE  BalanceInv'
<1>1. \A n \in Nodes : absorbed(n)' <=> absorbed(n)
  BY DEF absorbed, Kids
<1>2. worth' = worth
  BY <1>1 DEF worth
<1>. QED BY <1>2, BalanceSame

LEMMA BalanceFetched ==
    ASSUME FetchInv, FormInv', BalanceInv, NEW n \in Nodes, FileFetched(n)
    PROVE  BalanceInv'
<1>. SUFFICES ASSUME NEW s \in Sources
              PROVE  Total(own', NodesOf(s)) = Total(worth', NodesOf(s))
  BY DEF BalanceInv, NodesOf
<1>1. FormInv /\ WorkInv
  BY DEF FetchInv, LoadInv
<1>2. /\ own'[n] = own[n] + 1 /\ \A m \in Nodes \ {n} : own'[m] = own[m]
      /\ phase[n] = "files" /\ UNCHANGED <<phase, got>> /\ own[n] \in Nat
  BY <1>1 DEF FileFetched, FormInv, WorkInv
<1>3. \A m \in Nodes : absorbed(m)' <=> absorbed(m)
  BY <1>2 DEF absorbed, Kids
<1>4. /\ worth[n] = own[n] /\ worth'[n] = own[n] + 1
      /\ \A m \in Nodes \ {n} : worth'[m] = worth[m]
  BY <1>2, <1>3 DEF worth
<1>5. /\ IsFiniteSet(NodesOf(s)) /\ NodesOf(s) \subseteq Nodes
      /\ Counts(own, NodesOf(s)) /\ Counts(worth, NodesOf(s))
      /\ Total(own, NodesOf(s)) \in Nat /\ Total(worth, NodesOf(s)) \in Nat
  BY <1>1, WorthShape
<1>6. /\ own' \in [Nodes -> Nat] /\ worth' \in [Nodes -> Nat]
  BY DEF FormInv, worth
<1>7. Counts(own', NodesOf(s)) /\ Counts(worth', NodesOf(s))
  BY <1>5, <1>6 DEF Counts
<1>8. Total(own, NodesOf(s)) = Total(worth, NodesOf(s))
  BY DEF BalanceInv
<1>9. CASE n \in NodesOf(s)
  <2>1. Total(own', NodesOf(s)) = Total(own, NodesOf(s)) + (own'[n] - own[n])
    BY <1>2, <1>5, <1>7, <1>9, TotalChange
  <2>2. Total(worth', NodesOf(s)) = Total(worth, NodesOf(s)) + (worth'[n] - worth[n])
    BY <1>4, <1>5, <1>7, <1>9, TotalChange
  <2>3. own'[n] - own[n] = 1 /\ worth'[n] - worth[n] = 1
    BY <1>2, <1>4
  <2>. QED BY <1>8, <2>1, <2>2, <2>3
<1>10. CASE n \notin NodesOf(s)
  <2>1. /\ \A m \in NodesOf(s) : own[m] = own'[m]
        /\ \A m \in NodesOf(s) : worth[m] = worth'[m]
    BY <1>2, <1>4, <1>5, <1>10
  <2>2. Total(own, NodesOf(s)) = Total(own', NodesOf(s))
    BY <1>5, <2>1, TotalSame
  <2>3. Total(worth, NodesOf(s)) = Total(worth', NodesOf(s))
    BY <1>5, <2>1, TotalSame
  <2>. QED BY <1>8, <2>2, <2>3
<1>. QED BY <1>9, <1>10

LEMMA BalanceRecurses ==
    ASSUME FetchInv, BalanceInv, NEW n \in Nodes, Recurse(n)
    PROVE  BalanceInv'
<1>1. FormInv /\ WorkInv /\ KidsInv /\ LoadInv
  BY DEF FetchInv, LoadInv, ShapeInv
<1>2. /\ phase[n] = "files" /\ phase'[n] = "subs"
      /\ SeenKids(n) \subseteq Nodes
      /\ \A m \in SeenKids(n) : phase[m] = "idle" /\ phase'[m] \in {"ask", "done"}
      /\ \A m \in Nodes \ (SeenKids(n) \cup {n}) : phase'[m] = phase[m]
      /\ UNCHANGED <<own, got>>
  BY <1>1, RecurseEffect
<1>3. SeenKids(n) \subseteq Kids(n)
  BY <1>1, SeenShape DEF FormInv
<1>4. \A m \in Nodes : worth'[m] = worth[m]
  <2>. TAKE m \in Nodes
  <2>1. CASE m \in SeenKids(n)
    <3>1. own[m] = 0 /\ got[m] = 0
      BY <1>1, <1>2, <2>1 DEF WorkInv
    <3>. QED BY <1>2, <2>1, <3>1 DEF worth
  <2>2. CASE m = n
    BY <1>2, <2>2 DEF worth
  <2>3. CASE m \notin SeenKids(n) \cup {n}
    <3>1. phase'[m] = phase[m]
      BY <1>2, <2>3
    <3>2. phase[m] = "done" => (absorbed(m)' <=> absorbed(m))
      <4>. SUFFICES ASSUME phase[m] = "done",
                           NEW p \in Nodes, m \in Kids(p)
                    PROVE  phase'[p] = "done" <=> phase[p] = "done"
        BY DEF absorbed, Kids
      <4>1. phase[p] # "idle"
        BY <1>1 DEF KidsInv
      <4>. QED BY <1>2, <4>1
    <3>. QED BY <1>2, <3>1, <3>2 DEF worth
  <2>. QED BY <2>1, <2>2, <2>3
<1>5. worth' = worth
  BY <1>4 DEF worth
<1>. QED BY <1>2, <1>5, BalanceSame

\* What a node has when it ends, and what its subdirectories no longer have.
LEMMA EndWorth ==
    ASSUME FetchInv, NEW n \in Nodes, NoRecursion(n) \/ Gather(n)
    PROVE  /\ worth[n] = own[n] /\ worth'[n] = got'[n]
           /\ \A m \in Nodes \ (Kids(n) \cup {n}) : worth'[m] = worth[m]
           /\ \A m \in Kids(n) \ SeenKids(n) : worth'[m] = worth[m]
           /\ \A m \in SeenKids(n) :
                 /\ NoRecursion(n) => worth'[m] = worth[m]
                 /\ Gather(n) => worth[m] = got[m] /\ worth'[m] = 0
<1>1. FormInv /\ WorkInv /\ KidsInv /\ LoadInv
  BY DEF FetchInv, LoadInv, ShapeInv
<1>2. /\ phase[n] \in {"files", "subs"} /\ phase'[n] = "done"
      /\ \A m \in Nodes \ {n} : phase'[m] = phase[m] /\ got'[m] = got[m]
      /\ UNCHANGED own
  BY <1>1, EndEffect DEF FormInv
<1>3. \A p \in Nodes : n \in Kids(p) => p # n /\ phase[p] # "done"
  BY <1>1, <1>2, KidShape DEF KidsInv, Over
<1>4. ~ absorbed(n)'
  BY <1>2, <1>3 DEF absorbed, Kids
<1>5. worth[n] = own[n] /\ worth'[n] = got'[n]
  BY <1>2, <1>4 DEF worth
<1>6. \A m \in Nodes \ (Kids(n) \cup {n}) : worth'[m] = worth[m]
  <2>. TAKE m \in Nodes \ (Kids(n) \cup {n})
  <2>1. absorbed(m)' <=> absorbed(m)
    BY <1>2 DEF absorbed, Kids
  <2>. QED BY <1>2, <2>1 DEF worth
<1>7. \A m \in Kids(n) : m \in Nodes /\ m # n
  BY KidShape
<1>8. \A m \in Kids(n) : phase[m] = "idle" => worth'[m] = worth[m]
  BY <1>2, <1>7 DEF worth
<1>9. \A m \in Kids(n) \ SeenKids(n) : phase[m] = "idle"
  BY <1>1 DEF KidsInv
<1>10. SeenKids(n) \subseteq Kids(n)
  BY <1>1, SeenShape DEF FormInv
<1>11. NoRecursion(n) => \A m \in SeenKids(n) : phase[m] = "idle"
  BY <1>1, <1>10 DEF KidsInv, NoRecursion, FilesOver
<1>12. ASSUME Gather(n), NEW m \in SeenKids(n)
       PROVE  worth[m] = got[m] /\ worth'[m] = 0
  <2>1. phase[m] \in Over
    BY <1>12 DEF Gather, SeenKids, Over
  <2>2. m \in Kids(n) /\ m \in Nodes /\ m # n /\ phase'[m] = phase[m]
    BY <1>2, <1>7, <1>10, <1>12
  <2>3. phase[m] = "failed" => own[m] = 0 /\ got[m] = 0
    BY <1>1, <2>2 DEF WorkInv
  <2>4. ~ absorbed(m)
    <3>1. \A p \in Nodes : m \in Kids(p) => p = n
      BY <2>2, KidShape
    <3>. QED BY <1>2, <3>1 DEF absorbed
  <2>5. absorbed(m)'
    BY <1>2, <2>2 DEF absorbed, Kids
  <2>. QED BY <1>2, <2>1, <2>2, <2>3, <2>4, <2>5 DEF worth, Over
<1>. QED BY <1>5, <1>6, <1>8, <1>9, <1>10, <1>11, <1>12

LEMMA BalanceEnds ==
    ASSUME FetchInv, FormInv', BalanceInv, NEW n \in Nodes, NoRecursion(n) \/ Gather(n)
    PROVE  BalanceInv'
<1>1. FormInv /\ LoadInv
  BY DEF FetchInv, LoadInv
<1>2. SeenKids(n) \subseteq Kids(n) /\ Kids(n) \subseteq Nodes /\ n \notin Kids(n)
  BY <1>1, SeenShape, KidShape DEF FormInv
<1>3. UNCHANGED own
  BY <1>1, EndEffect
<1>4. CASE NoRecursion(n)
  <2>1. got'[n] = own[n]
    BY <1>1, <1>4 DEF NoRecursion, FormInv
  <2>2. \A m \in Nodes : worth'[m] = worth[m]
    BY <1>2, <1>4, <2>1, EndWorth
  <2>3. worth' = worth
    BY <2>2 DEF worth
  <2>. QED BY <1>3, <2>3, BalanceSame
<1>5. CASE Gather(n)
  <2>. SUFFICES ASSUME NEW s \in Sources
                PROVE  Total(own', NodesOf(s)) = Total(worth', NodesOf(s))
    BY DEF BalanceInv, NodesOf
  <2> DEFINE K == SeenKids(n)
             N == NodesOf(s)
  <2>1. got'[n] = own[n] + Total(got, K)
    BY <1>1, <1>5 DEF Gather, FromKids, SeenKids, FormInv
  <2>2. /\ worth[n] = own[n] /\ worth'[n] = own[n] + Total(got, K)
        /\ \A m \in Nodes \ (K \cup {n}) : worth'[m] = worth[m]
        /\ \A m \in K : worth[m] = got[m] /\ worth'[m] = 0
    BY <1>2, <1>5, <2>1, EndWorth
  <2>3. /\ IsFiniteSet(N) /\ N \subseteq Nodes /\ Counts(worth, N)
        /\ worth \in [Nodes -> Nat] /\ worth' \in [Nodes -> Nat]
        /\ Total(own, N) = Total(worth, N)
    BY <1>1, WorthShape DEF BalanceInv, FormInv, worth
  <2>4. Counts(worth', N)
    BY <2>3 DEF Counts
  <2>5. \A m \in K : Tree[m].source = Tree[n].source
    BY <1>2, KidShape
  <2>. HIDE DEF N
  <2>6. CASE n \notin N
    <3>1. \A m \in N : m \notin K \cup {n}
      BY <2>5, <2>6 DEF N, NodesOf
    <3>2. \A m \in N : worth[m] = worth'[m]
      BY <2>2, <2>3, <3>1
    <3>3. Total(worth, N) = Total(worth', N)
      BY <2>3, <3>2, TotalSame
    <3>. QED BY <1>3, <2>3, <3>3 DEF N
  <2>7. CASE n \in N
    <3>1. K \in SUBSET N
      BY <1>2, <2>5, <2>7 DEF N, NodesOf
    <3>2. /\ IsFiniteSet(K) /\ IsFiniteSet(N \ K)
          /\ Counts(worth, K) /\ Counts(worth, N \ K) /\ Counts(worth', N \ K)
      BY <2>3, <2>4, <3>1, FS_Subset DEF Counts
    <3>3. /\ Total(worth, N) = Total(worth, K) + Total(worth, N \ K)
          /\ Total(worth', N) = Total(worth', K) + Total(worth', N \ K)
      BY <2>3, <2>4, <3>1, TotalUnion
    <3>4. Total(worth', K) = 0
      BY <2>2, <3>2, TotalZero
    <3>5. Total(worth, K) = Total(got, K)
      BY <2>2, <3>2, TotalSame
    <3>6. Total(worth', N \ K) = Total(worth, N \ K) + (worth'[n] - worth[n])
      <4>1. n \in N \ K /\ \A m \in (N \ K) \ {n} : worth'[m] = worth[m]
        BY <1>2, <2>2, <2>3, <2>7
      <4>. QED BY <3>2, <4>1, TotalChange
    <3>7. /\ Total(worth, K) \in Nat /\ Total(worth, N \ K) \in Nat
          /\ worth[n] \in Nat /\ own[n] \in Nat
      BY <1>1, <2>3, <3>2, TotalType DEF FormInv
    <3>8. worth'[n] - worth[n] = Total(worth, K)
      BY <2>2, <3>5, <3>7
    <3>9. Total(worth', N) = Total(worth, N)
      BY <3>3, <3>4, <3>6, <3>7, <3>8
    <3>. QED BY <1>3, <2>3, <3>9 DEF N
  <2>. QED BY <2>6, <2>7
<1>. QED BY <1>4, <1>5
LEMMA StepsBalance ==
    ASSUME FetchInv, FetchInv', BalanceInv, [Next]_vars
    PROVE  BalanceInv'
<1>. USE DEF sourceVars, fileVars
<1>1. FormInv /\ LoadInv /\ ShapeInv /\ FormInv'
  BY DEF FetchInv, LoadInv
<1>2. ASSUME NEW s \in Sources, StartSource(s) \/ FinishSource(s)
      PROVE  BalanceInv'
  <2>1. /\ UNCHANGED <<own, got>>
        /\ \A n \in Nodes : phase'[n] = "done" <=> phase[n] = "done"
    BY <1>1, <1>2 DEF StartSource, FinishSource, FormInv, ShapeInv, RootInv
  <2>. QED BY <2>1, NothingEnds
<1>3. CASE FetchAllReturns \/ UNCHANGED vars
  BY <1>3, NothingEnds DEF FetchAllReturns, vars
<1>4. ASSUME NEW r \in Repos, AskTree(r) \/ TreeAnswered(r) \/ TreeFails(r)
      PROVE  BalanceInv'
  <2>1. /\ UNCHANGED <<own, got>>
        /\ \A n \in Nodes : phase'[n] = "done" <=> phase[n] = "done"
    BY <1>4 DEF AskTree, TreeAnswered, TreeFails, GoOn, Waiters
  <2>. QED BY <2>1, NothingEnds
<1>5. ASSUME NEW n \in Nodes,
             AskListing(n) \/ ListingFails(n) \/ Listed(n) \/ NeedsTree(n) \/ HasTree(n)
      PROVE  BalanceInv'
  <2>1. /\ UNCHANGED <<own, got>>
        /\ \A m \in Nodes : phase'[m] = "done" <=> phase[m] = "done"
    BY <1>1, <1>5
    DEF AskListing, ListingFails, Listed, NeedsTree, HasTree, GoOn, FormInv
  <2>. QED BY <2>1, NothingEnds
<1>6. ASSUME NEW n \in Nodes, FetchFile(n) \/ FileFails(n) \/ FileExpires(n)
      PROVE  BalanceInv'
  BY <1>6, NothingEnds DEF FetchFile, FileFails, FileExpires
<1>7. ASSUME NEW n \in Nodes,
             FileFetched(n) \/ Recurse(n) \/ NoRecursion(n) \/ Gather(n)
      PROVE  BalanceInv'
  BY <1>1, <1>7, BalanceFetched, BalanceRecurses, BalanceEnds
<1>. QED BY <1>2, <1>3, <1>4, <1>5, <1>6, <1>7 DEF Next, NodeStep

\* A source that is reported keeps what it reported.
LEMMA StepsReport ==
    ASSUME FetchInv, ReportInv, [Next]_vars
    PROVE  ReportInv'
<1>. USE DEF sourceVars, fileVars
<1>1. FormInv /\ LoadInv /\ ShapeInv
  BY DEF FetchInv, LoadInv
<1>2. ASSUME NEW s \in Sources, StartSource(s)
      PROVE  ReportInv'
  <2>1. /\ ~ returned /\ UNCHANGED <<files, returned, got>>
        /\ status'[s] = "running" /\ \A t \in Sources \ {s} : status'[t] = status[t]
    BY <1>1, <1>2 DEF StartSource, ReportInv, FormInv
  <2>. QED BY <2>1 DEF ReportInv
<1>3. ASSUME NEW s \in Sources, FinishSource(s)
      PROVE  ReportInv'
  <2>1. PICK k \in Kept(s) :
           /\ files' = [files EXCEPT ![s] = k]
           /\ status' = [status EXCEPT ![s] = IF k > 0 THEN "ok" ELSE "error"]
    BY <1>3 DEF FinishSource
  <2>2. ~ returned /\ UNCHANGED <<returned, got>>
    BY <1>3 DEF FinishSource, ReportInv
  <2>3. ~ Plan[s].filters => k = got[Plan[s].root]
    BY DEF Kept
  <2>4. /\ files'[s] = k /\ status'[s] = IF k > 0 THEN "ok" ELSE "error"
        /\ \A t \in Sources \ {s} : files'[t] = files[t] /\ status'[t] = status[t]
    BY <1>1, <2>1 DEF FormInv
  <2>. QED BY <2>2, <2>3, <2>4 DEF ReportInv
<1>4. CASE FetchAllReturns
  BY <1>4 DEF FetchAllReturns, ReportInv, Failures
<1>5. ASSUME UNCHANGED sourceVars,
             \A s \in Sources :
                status[s] \in {"ok", "error"} => got'[Plan[s].root] = got[Plan[s].root]
      PROVE  ReportInv'
  BY <1>5 DEF ReportInv, Failures
<1>6. CASE UNCHANGED vars
  BY <1>5, <1>6 DEF vars
<1>7. ASSUME NEW r \in Repos, AskTree(r) \/ TreeAnswered(r) \/ TreeFails(r)
      PROVE  ReportInv'
  BY <1>5, <1>7 DEF AskTree, TreeAnswered, TreeFails
<1>8. ASSUME NEW n \in Nodes, NodeStep(n), ~ NoRecursion(n), ~ Gather(n)
      PROVE  ReportInv'
  BY <1>5, <1>8
  DEF NodeStep, AskListing, ListingFails, Listed, NeedsTree, HasTree,
      FetchFile, FileFetched, FileFails, FileExpires, Recurse
<1>9. ASSUME NEW n \in Nodes, NoRecursion(n) \/ Gather(n)
      PROVE  ReportInv'
  <2>1. UNCHANGED sourceVars /\ phase[n] \notin Over /\ \A m \in Nodes \ {n} : got'[m] = got[m]
    BY <1>1, <1>9, EndEffect DEF FormInv, NoRecursion, Gather, Over, FilesOver
  <2>2. \A s \in Sources : Plan[s].root \in Nodes
    BY RootShape
  <2>3. \A s \in Sources :
           status[s] \in {"ok", "error"} => got'[Plan[s].root] = got[Plan[s].root]
    BY <1>1, <2>1, <2>2 DEF ShapeInv, RootInv
  <2>. QED BY <1>5, <2>1, <2>3
<1>. QED BY <1>2, <1>3, <1>4, <1>6, <1>7, <1>8, <1>9 DEF Next, NodeStep

LostInv == FetchInv /\ BalanceInv /\ ReportInv

LEMMA LostInvariant == Spec => []LostInv
<1>1. Init => LostInv
  <2>. SUFFICES ASSUME Init PROVE LostInv
    OBVIOUS
  <2>1. FetchInv
    BY InitFetches
  <2>2. worth = own
    BY DEF Init, worth
  <2>. QED BY <2>1, <2>2 DEF LostInv, BalanceInv, ReportInv, Init
<1>2. LostInv /\ [Next]_vars => LostInv'
  BY StepsFetch, StepsBalance, StepsReport DEF LostInv
<1>. QED BY <1>1, <1>2, PTL DEF Spec

\* Whatever listings, files and subdirectories fail, time out or are skipped, and
\* however the trees are nested, an unfiltered source reports every file that was
\* fetched for it, and the summary counts the reports (sources/github.py:880-1042,
\* sources/manager.py:293-480, stages/fetch.py:36-83).
THEOREM NothingIsLost == Spec => []NothingFetchedIsLost
<1>1. LostInv => NothingFetchedIsLost
  <2>. SUFFICES ASSUME LostInv PROVE NothingFetchedIsLost
    OBVIOUS
  <2>1. FormInv /\ WorkInv /\ ShapeInv /\ BalanceInv /\ ReportInv
    BY DEF LostInv, FetchInv, LoadInv
  <2>2. \A s \in Sources :
           status[s] \in {"ok", "error"} /\ ~ Plan[s].filters =>
              files[s] = Total(own, NodesOf(s))
    BY <2>1, RootHasAll DEF BalanceInv, ReportInv, ShapeInv, RootInv
  <2>3. ASSUME returned
        PROVE  /\ stats.failed = Cardinality({s \in Sources : files[s] = 0})
               /\ stats.ok = Cardinality({s \in Sources : files[s] > 0})
    <3> DEFINE none == {s \in Sources : files[s] = 0}
               some == {s \in Sources : files[s] > 0}
    <3>1. \A s \in Sources : /\ status[s] \in {"ok", "error"} /\ files[s] \in Nat
                             /\ status[s] = "ok" <=> files[s] > 0
      BY <2>1, <2>3 DEF ReportInv, FormInv
    <3>2. Failures = none /\ some = Sources \ none
      BY <3>1 DEF Failures
    <3>3. /\ IsFiniteSet(Sources) /\ IsFiniteSet(none) /\ IsFiniteSet(some)
          /\ none \cup some = Sources /\ none \cap some = {}
      BY <3>2, ForestAssumption, FS_Subset
    <3> HIDE DEF none, some
    <3>4. Cardinality(Sources) = Cardinality(none) + Cardinality(some)
      <4>1. /\ Cardinality(none) \in Nat /\ Cardinality(some) \in Nat
            /\ Cardinality(none \cap some) = 0
        BY <3>3, FS_CardinalityType, FS_EmptySet
      <4>2. Cardinality(none \cup some) =
               Cardinality(none) + Cardinality(some) - Cardinality(none \cap some)
        BY <3>3, FS_Union
      <4>3. Cardinality(none \cup some) = Cardinality(Sources)
        BY <3>3, Zenon
      <4>. QED BY <4>1, <4>2, <4>3
    <3>5. Cardinality(none) \in Nat /\ Cardinality(some) \in Nat
      BY <3>3, FS_CardinalityType
    <3>6. stats = [ok |-> Cardinality(Sources) - Cardinality(none),
                   failed |-> Cardinality(none)]
      BY <2>1, <2>3, <3>2 DEF ReportInv
    <3>. QED BY <3>4, <3>5, <3>6 DEF none, some
  <2>. QED BY <2>2, <2>3 DEF NothingFetchedIsLost
<1>. QED BY LostInvariant, <1>1, PTL
-----------------------------------------------------------------------------
(* Fetching implements the reports it promises: their size, by the budgets.  *)

\* The shares of k subdirectories make up the budget that is shared.
LEMMA WholeIsShared ==
    ASSUME NEW k \in Nat \ {0}, NEW kid, NEW f, NEW b \in Nat,
           \A i \in 1 .. k : f[kid[i]] = Share(b, k, i),
           \A i, j \in 1 .. k : kid[i] = kid[j] => i = j,
           NEW S, IsFiniteSet(S), \A i \in 1 .. k : kid[i] \in S,
           \A x \in S : \E i \in 1 .. k : x = kid[i]
    PROVE  Total(f, S) = b
<1> DEFINE q == b \div k
           r == b % k
<1>1. b = k * q + r
  OBVIOUS
<1>2. q \in Nat /\ r \in 0 .. k
  OBVIOUS
<1>3. \A i \in 1 .. k : f[kid[i]] = q + (IF i <= r THEN 1 ELSE 0)
  BY DEF Share
<1>. HIDE DEF q, r
<1> DEFINE K(j) == {kid[i] : i \in 1 .. j}
           Sum(j) == j * q + Least(j, r)
           wrong == {j \in 0 .. k : Total(f, K(j)) # Sum(j)}
<1>4. \A j \in 0 .. k : IsFiniteSet(K(j)) /\ Counts(f, K(j))
  <2>. TAKE j \in 0 .. k
  <2>1. K(j) \subseteq S
    OBVIOUS
  <2>2. IsFiniteSet(K(j))
    BY <2>1, FS_Subset
  <2>3. \A i \in 1 .. j : f[kid[i]] \in Nat
    BY <1>2, <1>3
  <2>. QED BY <2>2, <2>3 DEF Counts
<1>5. wrong = {}
  <2>. SUFFICES ASSUME wrong # {} PROVE FALSE
    OBVIOUS
  <2>1. wrong \in SUBSET Nat
    OBVIOUS
  <2>2. PICK m \in wrong : \A j \in wrong : m <= j
    <3>. HIDE DEF wrong
    <3>. QED BY <2>1, LeastNumber
  <2>3. m # 0
    <3>1. K(0) = {}
      OBVIOUS
    <3>2. Total(f, K(0)) = 0
      <4>1. 0 \in 0 .. k
        OBVIOUS
      <4>. HIDE DEF K
      <4>. QED BY <1>4, <3>1, <4>1, TotalZero
    <3>3. Sum(0) = 0
      BY <1>2 DEF Least
    <3>. HIDE DEF K, Sum
    <3>. QED BY <3>2, <3>3
  <2>4. m \in 1 .. k /\ m - 1 \in 0 .. k
    BY <2>2, <2>3
  <2>5. m - 1 \notin wrong
    <3>. HIDE DEF wrong
    <3>. QED BY <2>1, <2>2, <2>4
  <2>6. Total(f, K(m - 1)) = Sum(m - 1)
    <3>. HIDE DEF K, Sum
    <3>. QED BY <2>4, <2>5
  <2>7. kid[m] \in K(m) /\ K(m) \ {kid[m]} = K(m - 1)
    BY <2>4
  <2>8. Total(f, K(m)) = f[kid[m]] + Total(f, K(m) \ {kid[m]})
    <3>. HIDE DEF K
    <3>. QED BY <1>4, <2>4, <2>7, TotalTake
  <2>9. Sum(m) = f[kid[m]] + Sum(m - 1)
    <3>1. m * q = q + (m - 1) * q /\ m * q \in Nat /\ (m - 1) * q \in Nat
      BY <1>2, <2>4
    <3>2. Least(m, r) = (IF m <= r THEN 1 ELSE 0) + Least(m - 1, r)
      BY <1>2, <2>4 DEF Least
    <3>3. Least(m, r) \in Nat /\ Least(m - 1, r) \in Nat
      BY <1>2, <2>4 DEF Least
    <3>4. f[kid[m]] = q + (IF m <= r THEN 1 ELSE 0)
      BY <1>3, <2>4
    <3>. QED BY <1>2, <3>1, <3>2, <3>3, <3>4
  <2>10. Total(f, K(m)) = Sum(m)
    <3>. HIDE DEF K, Sum
    <3>. QED BY <2>6, <2>7, <2>8, <2>9
  <2>. HIDE DEF K, Sum
  <2>. QED BY <2>2, <2>10
<1>6. Total(f, K(k)) = Sum(k)
  <2>. HIDE DEF K, Sum
  <2>. QED BY <1>5
<1>7. K(k) = S
  OBVIOUS
<1>8. Least(k, r) = r
  BY <1>2 DEF Least
<1>. QED
  <2>. HIDE DEF K
  <2>. QED BY <1>1, <1>6, <1>7, <1>8

\* A node returns no more files than it may, and while its subdirectories are at
\* work they share what it has left.
BudgetInv ==
    /\ \A s \in Sources : status[s] # "queued" => budget[Plan[s].root] = Plan[s].maxFiles
    /\ \A n \in Nodes :
          /\ got[n] <= budget[n]
          /\ phase[n] = "subs" => Total(budget, SeenKids(n)) = Rest(n)

\* Steps that give no node a budget.
LEMMA BudgetKeeps ==
    ASSUME BudgetInv, FormInv, UNCHANGED budget,
           \A s \in Sources : status[s] = "queued" => status'[s] = "queued",
           \A n \in Nodes : got'[n] <= budget[n],
           \A n \in Nodes :
              phase'[n] = "subs" =>
                 phase[n] = "subs" /\ seen'[n] = seen[n] /\ own'[n] = own[n]
    PROVE  BudgetInv'
<1>1. \A s \in Sources : status'[s] # "queued" => budget'[Plan[s].root] = Plan[s].maxFiles
  BY DEF BudgetInv
<1>2. ASSUME NEW n \in Nodes, phase'[n] = "subs"
      PROVE  (Total(budget, SeenKids(n)) = Rest(n))'
  <2>1. SeenKids(n)' = SeenKids(n) /\ Rest(n)' = Rest(n)
    BY <1>2 DEF SeenKids, Rest
  <2>2. Total(budget, SeenKids(n)) = Rest(n)
    BY <1>2 DEF BudgetInv
  <2>. QED BY <2>1, <2>2
<1>. QED BY <1>1, <1>2 DEF BudgetInv

LEMMA BudgetStarts ==
    ASSUME FetchInv, BudgetInv, NEW s \in Sources, StartSource(s)
    PROVE  BudgetInv'
<1> DEFINE r == Plan[s].root
<1>1. FormInv /\ WorkInv /\ ShapeInv
  BY DEF FetchInv, LoadInv
<1>2. /\ r \in Nodes /\ Source(r) = Plan[s] /\ Tree[r].source = s
      /\ \A n \in Nodes : r \notin Kids(n)
  BY RootShape
<1>3. /\ phase[r] = "idle" /\ phase'[r] \in {"ask", "files"}
      /\ \A n \in Nodes \ {r} : phase'[n] = phase[n] /\ budget'[n] = budget[n]
      /\ budget'[r] = Plan[s].maxFiles /\ UNCHANGED <<seen, own, got>>
      /\ status'[s] = "running" /\ \A t \in Sources \ {s} : status'[t] = status[t]
  BY <1>1, <1>2 DEF StartSource, FormInv, ShapeInv, RootInv
<1>. HIDE DEF r
<1>4. \A t \in Sources : status'[t] # "queued" => budget'[Plan[t].root] = Plan[t].maxFiles
  <2>1. \A t \in Sources : Plan[t].root \in Nodes /\ (t # s => Plan[t].root # r)
    BY <1>2, RootShape
  <2>2. r = Plan[s].root
    BY DEF r
  <2>. QED BY <1>3, <2>1, <2>2 DEF BudgetInv
<1>5. \A n \in Nodes : got'[n] <= budget'[n]
  <2>1. got[r] = 0 /\ Plan[s].maxFiles \in Nat
    BY <1>1, <1>2, <1>3, PlanAssumption DEF WorkInv
  <2>. QED BY <1>3, <2>1 DEF BudgetInv
<1>6. ASSUME NEW n \in Nodes, phase'[n] = "subs"
      PROVE  (Total(budget, SeenKids(n)) = Rest(n))'
  <2>1. n # r /\ phase[n] = "subs"
    BY <1>3, <1>6
  <2>2. SeenKids(n)' = SeenKids(n) /\ Rest(n)' = Rest(n)
    BY <1>3, <2>1 DEF SeenKids, Rest
  <2>3. SeenKids(n) \subseteq Nodes \ {r}
    <3>1. SeenKids(n) \subseteq Kids(n)
      BY <1>1, SeenShape DEF FormInv
    <3>2. Kids(n) \subseteq Nodes
      BY KidShape
    <3>. QED BY <1>2, <3>1, <3>2
  <2>4. IsFiniteSet(SeenKids(n)) /\ Counts(budget, SeenKids(n))
    BY <1>1, <2>3, ForestAssumption, FS_Subset DEF FormInv, Counts
  <2>5. \A m \in SeenKids(n) : budget[m] = budget'[m]
    BY <1>3, <2>3
  <2>6. Total(budget, SeenKids(n)) = Total(budget', SeenKids(n))
    BY <2>4, <2>5, TotalSame
  <2>. QED BY <2>1, <2>2, <2>6 DEF BudgetInv
<1>. QED BY <1>4, <1>5, <1>6 DEF BudgetInv

\* The subdirectories share what the files of the directory left.
LEMMA RecurseShares ==
    ASSUME FetchInv, NEW n \in Nodes, Recurse(n)
    PROVE  Total(budget', SeenKids(n)) = Rest(n)
<1> DEFINE kid == seen[n].kids
           k == Len(kid)
           Number(m) == CHOOSE i \in 1 .. k : kid[i] = m
<1>1. FormInv
  BY DEF FetchInv, LoadInv
<1>2. /\ kid \in Seq(Nodes) /\ DOMAIN kid = 1 .. k /\ k \in Nat
      /\ SeenKids(n) \subseteq Kids(n)
  BY <1>1, SeenShape DEF FormInv
<1>3. SeenKids(n) = {kid[i] : i \in 1 .. k}
  BY <1>2 DEF SeenKids
<1>4. k \in Nat \ {0} /\ Rest(n) \in Nat
  <2>1. k > 0 /\ Rest(n) > 0
    BY DEF Recurse
  <2>2. Rest(n) \in Int
    BY <1>1 DEF Rest, FormInv
  <2>. QED BY <1>2, <2>1, <2>2
<1>5. \A i, j \in 1 .. k : kid[i] = kid[j] => i = j
  <2>1. \A i \in 1 .. k : kid[i] = Tree[n].kids[i] /\ i \in DOMAIN Tree[n].kids
    <3>1. seen[n] \in {Nothing, Prefix(n), Whole(n)}
      BY <1>1 DEF FormInv
    <3>2. /\ DOMAIN kid \subseteq DOMAIN Tree[n].kids
          /\ \A i \in DOMAIN kid : kid[i] = Tree[n].kids[i]
      BY <3>1, ListingShape
    <3>. QED BY <1>2, <3>2
  <2>. HIDE DEF k, kid
  <2>. QED BY <2>1, ForestAssumption
<1>6. IsFiniteSet(SeenKids(n))
  <2>1. SeenKids(n) \subseteq Nodes
    BY <1>2, KidShape
  <2>. QED BY <2>1, ForestAssumption, FS_Subset
<1>7. \A i \in 1 .. k : budget'[kid[i]] = Share(Rest(n), k, i)
  <2>. TAKE i \in 1 .. k
  <2>1. kid[i] \in Nodes /\ kid[i] \in SeenKids(n)
    BY <1>2, <1>3
  <2>2. Number(kid[i]) = i
    <3>. HIDE DEF k, kid
    <3>. QED BY <1>5
  <2>3. budget'[kid[i]] = Share(Rest(n), k, Number(kid[i]))
    BY <1>2, <1>3, <2>1 DEF Recurse
  <2>. HIDE DEF k, kid, Number
  <2>. QED BY <2>2, <2>3
<1>. HIDE DEF k, kid
<1>8. /\ \A i \in 1 .. k : kid[i] \in SeenKids(n)
      /\ \A m \in SeenKids(n) : \E i \in 1 .. k : m = kid[i]
  BY <1>3
<1>. QED BY <1>4, <1>5, <1>6, <1>7, <1>8, WholeIsShared

LEMMA BudgetRecurses ==
    ASSUME FetchInv, BudgetInv, NEW n \in Nodes, Recurse(n)
    PROVE  BudgetInv'
<1>1. FormInv /\ WorkInv /\ ShapeInv /\ KidsInv /\ LoadInv
  BY DEF FetchInv, LoadInv, ShapeInv
<1>2. /\ phase[n] = "files" /\ phase'[n] = "subs" /\ budget'[n] = budget[n]
      /\ budget' \in [Nodes -> Nat] /\ SeenKids(n) \subseteq Nodes
      /\ n \notin SeenKids(n)
      /\ \A m \in SeenKids(n) : phase[m] = "idle" /\ phase'[m] \in {"ask", "done"}
      /\ \A m \in Nodes \ (SeenKids(n) \cup {n}) :
            phase'[m] = phase[m] /\ budget'[m] = budget[m]
      /\ UNCHANGED <<status, seen, own, got>>
  BY <1>1, RecurseEffect
<1>3. SeenKids(n) \subseteq Kids(n)
  BY <1>1, SeenShape DEF FormInv
<1>4. \A s \in Sources : status'[s] # "queued" => budget'[Plan[s].root] = Plan[s].maxFiles
  <2>1. \A s \in Sources : Plan[s].root \in Nodes \ SeenKids(n)
    BY <1>3, RootShape
  <2>. QED BY <1>2, <2>1 DEF BudgetInv
<1>5. \A m \in Nodes : got'[m] <= budget'[m]
  <2>1. \A m \in SeenKids(n) : got[m] = 0
    BY <1>1, <1>2 DEF WorkInv
  <2>. QED BY <1>2, <2>1 DEF BudgetInv
<1>6. ASSUME NEW p \in Nodes, phase'[p] = "subs"
      PROVE  (Total(budget, SeenKids(p)) = Rest(p))'
  <2>1. SeenKids(p)' = SeenKids(p)
    BY <1>2 DEF SeenKids
  <2>2. CASE p = n
    <3>1. Rest(n)' = Rest(n)
      BY <1>2 DEF Rest
    <3>. QED BY <2>1, <2>2, <3>1, RecurseShares
  <2>3. CASE p # n
    <3>1. phase[p] = "subs" /\ p \notin SeenKids(n) /\ Rest(p)' = Rest(p)
      BY <1>2, <1>6, <2>3 DEF Rest
    <3>2. SeenKids(p) \subseteq Kids(p)
      BY <1>1, SeenShape DEF FormInv
    <3>3. SeenKids(p) \subseteq Nodes \ SeenKids(n)
      BY <1>3, <2>3, <3>2, KidShape
    <3>4. IsFiniteSet(SeenKids(p)) /\ Counts(budget, SeenKids(p))
      BY <1>1, <3>3, ForestAssumption, FS_Subset DEF FormInv, Counts
    <3>5. \A m \in SeenKids(p) : budget[m] = budget'[m]
      BY <1>2, <3>3
    <3>6. Total(budget, SeenKids(p)) = Total(budget', SeenKids(p))
      BY <3>4, <3>5, TotalSame
    <3>. QED BY <2>1, <3>1, <3>6 DEF BudgetInv
  <2>. QED BY <2>2, <2>3
<1>. QED BY <1>4, <1>5, <1>6 DEF BudgetInv

LEMMA BudgetEnds ==
    ASSUME FetchInv, BudgetInv, NEW n \in Nodes, NoRecursion(n) \/ Gather(n)
    PROVE  BudgetInv'
<1>1. FormInv /\ WorkInv /\ LoadInv
  BY DEF FetchInv, LoadInv
<1>2. /\ phase'[n] = "done" /\ \A m \in Nodes \ {n} : phase'[m] = phase[m] /\ got'[m] = got[m]
      /\ UNCHANGED <<status, budget, seen, own>>
  BY <1>1, EndEffect DEF FormInv
<1>3. own[n] \in Nat /\ left[n] \in Nat /\ busy[n] \in Nat /\ budget[n] \in Nat
  BY <1>1 DEF FormInv
<1>4. got'[n] <= budget[n]
  <2>1. CASE NoRecursion(n)
    <3>1. got'[n] = own[n]
      BY <1>1, <2>1 DEF NoRecursion, FormInv
    <3>. QED BY <1>1, <1>3, <3>1 DEF WorkInv
  <2>2. CASE Gather(n)
    <3>1. got'[n] = own[n] + Total(got, SeenKids(n)) /\ phase[n] = "subs"
      BY <1>1, <2>2 DEF Gather, FromKids, SeenKids, FormInv
    <3>2. SeenKids(n) \subseteq Nodes
      BY <1>1, SeenShape, KidShape DEF FormInv
    <3>3. /\ IsFiniteSet(SeenKids(n))
          /\ Counts(got, SeenKids(n)) /\ Counts(budget, SeenKids(n))
      BY <1>1, <3>2, ForestAssumption, FS_Subset DEF FormInv, Counts
    <3>4. \A m \in SeenKids(n) : got[m] <= budget[m]
      BY <3>2 DEF BudgetInv
    <3>5. Total(got, SeenKids(n)) <= Total(budget, SeenKids(n))
      BY <3>3, <3>4, TotalAtMost
    <3>6. Total(budget, SeenKids(n)) = budget[n] - own[n]
      BY <3>1 DEF BudgetInv, Rest
    <3>7. Total(got, SeenKids(n)) \in Nat
      BY <3>3, TotalType
    <3>. QED BY <1>3, <3>1, <3>5, <3>6, <3>7
  <2>. QED BY <2>1, <2>2
<1>5. \A m \in Nodes : got'[m] <= budget[m]
  BY <1>2, <1>4 DEF BudgetInv
<1>6. \A m \in Nodes :
         phase'[m] = "subs" =>
            phase[m] = "subs" /\ seen'[m] = seen[m] /\ own'[m] = own[m]
  BY <1>2
<1>. QED BY <1>1, <1>2, <1>5, <1>6, BudgetKeeps

LEMMA StepsBudget ==
    ASSUME FetchInv, BudgetInv, [Next]_vars
    PROVE  BudgetInv'
<1>. USE DEF sourceVars, fileVars
<1>1. FormInv /\ LoadInv /\ WorkInv
  BY DEF FetchInv, LoadInv
<1>2. \A n \in Nodes : got[n] <= budget[n]
  BY DEF BudgetInv
<1>3. ASSUME NEW s \in Sources, StartSource(s)
      PROVE  BudgetInv'
  BY <1>3, BudgetStarts
<1>4. ASSUME NEW s \in Sources, FinishSource(s)
      PROVE  BudgetInv'
  <2>1. /\ UNCHANGED <<phase, budget, seen, own, got>>
        /\ \A t \in Sources : status[t] = "queued" => status'[t] = "queued"
    BY <1>1, <1>4 DEF FinishSource, FormInv
  <2>. QED BY <1>1, <1>2, <2>1, BudgetKeeps
<1>5. CASE FetchAllReturns \/ UNCHANGED vars
  BY <1>1, <1>2, <1>5, BudgetKeeps DEF FetchAllReturns, vars
<1>6. ASSUME NEW r \in Repos, AskTree(r) \/ TreeAnswered(r) \/ TreeFails(r)
      PROVE  BudgetInv'
  <2>1. /\ UNCHANGED <<status, budget, own, got>>
        /\ \A n \in Nodes :
              phase'[n] = "subs" => phase[n] = "subs" /\ seen'[n] = seen[n]
    BY <1>6 DEF AskTree, TreeAnswered, TreeFails, GoOn, Waiters
  <2>. QED BY <1>1, <1>2, <2>1, BudgetKeeps
<1>7. ASSUME NEW n \in Nodes,
             AskListing(n) \/ ListingFails(n) \/ Listed(n) \/ NeedsTree(n) \/ HasTree(n)
      PROVE  BudgetInv'
  <2>1. /\ UNCHANGED <<status, budget, own, got>>
        /\ \A m \in Nodes :
              phase'[m] = "subs" => phase[m] = "subs" /\ seen'[m] = seen[m]
    BY <1>1, <1>7
    DEF AskListing, ListingFails, Listed, NeedsTree, HasTree, GoOn, FormInv
  <2>. QED BY <1>1, <1>2, <2>1, BudgetKeeps
<1>8. ASSUME NEW n \in Nodes,
             FetchFile(n) \/ FileFetched(n) \/ FileFails(n) \/ FileExpires(n)
      PROVE  BudgetInv'
  <2>1. /\ UNCHANGED <<status, phase, budget, seen, got>>
        /\ \A m \in Nodes : phase[m] = "subs" => own'[m] = own[m]
    BY <1>1, <1>8
    DEF FetchFile, FileFetched, FileFails, FileExpires, FormInv, WorkInv
  <2>. QED BY <1>1, <1>2, <2>1, BudgetKeeps
<1>9. ASSUME NEW n \in Nodes, Recurse(n) \/ NoRecursion(n) \/ Gather(n)
      PROVE  BudgetInv'
  BY <1>9, BudgetRecurses, BudgetEnds
<1>. QED BY <1>3, <1>4, <1>5, <1>6, <1>7, <1>8, <1>9 DEF Next, NodeStep

LEMMA BudgetInvariant == Spec => [](FetchInv /\ BudgetInv)
<1>1. Init => BudgetInv
  BY DEF Init, BudgetInv
<1>. QED BY <1>1, InitFetches, StepsFetch, StepsBudget, PTL DEF Spec

\* A step that reports or starts no source is none for the reports.
LEMMA NothingReported ==
    ASSUME UNCHANGED <<files, returned>>,
           \A s \in Sources :
              \/ status'[s] = status[s]
              \/ status[s] = "queued" /\ status'[s] = "running"
    PROVE  UNCHANGED Reports!absVars
<1>1. \A s \in Sources : Outcome(s)' = Outcome(s)
  BY DEF Outcome
<1>2. [s \in Sources |-> Outcome(s)]' = [s \in Sources |-> Outcome(s)]
  BY <1>1
<1>. QED BY <1>2 DEF Reports!absVars

\* A report is of no file, or of as many as the root had a budget for.
LEMMA FinishReports ==
    ASSUME FormInv, BudgetInv, NEW s \in Sources, FinishSource(s)
    PROVE  Reports!Report(s)
<1> DEFINE r == Plan[s].root
           abs == [t \in Sources |-> Outcome(t)]
<1>1. /\ status[s] = "running" /\ UNCHANGED returned
      /\ \E k \in Kept(s) :
            /\ files' = [files EXCEPT ![s] = k]
            /\ status' = [status EXCEPT ![s] = IF k > 0 THEN "ok" ELSE "error"]
  BY DEF FinishSource
<1>2. PICK k \in Kept(s) :
         /\ files' = [files EXCEPT ![s] = k]
         /\ status' = [status EXCEPT ![s] = IF k > 0 THEN "ok" ELSE "error"]
  BY <1>1
<1>3. got[r] \in Nat /\ got[r] <= Plan[s].maxFiles /\ Plan[s].maxFiles \in Nat
  BY <1>1, RootShape, PlanAssumption DEF BudgetInv, FormInv
<1>4. k \in 0 .. Plan[s].maxFiles
  BY <1>3 DEF Kept
<1>5. Outcome(s) = -1 /\ Outcome(s)' = k
  BY <1>1, <1>2, <1>4 DEF Outcome, FormInv
<1>6. \A t \in Sources \ {s} : Outcome(t)' = Outcome(t)
  BY <1>2 DEF Outcome, FormInv
<1>7. abs' = [abs EXCEPT ![s] = k]
  BY <1>5, <1>6
<1>8. k \in {Reports!Failed} \cup (1 .. [t \in Sources |-> Plan[t].maxFiles][s])
  BY <1>4 DEF Reports!Failed
<1>. QED BY <1>1, <1>5, <1>7, <1>8 DEF Reports!Report, Reports!NotYet

\* Whatever fails and whatever the sources are, each is reported once, as a failure
\* or with at least one and at most max_files files, which its directories share
\* without exceeding them, and the reports are returned when all are there
\* (sources/github.py:977-1042, manager.py:293-480).  That they are is left to TLC.
THEOREM ReportsArePromised ==
    Spec => Reports!Init /\ [][Reports!Next]_(Reports!absVars)
<1>1. Init => Reports!Init
  BY DEF Init, Reports!Init, Reports!NotYet, Outcome
<1>2. FetchInv /\ BudgetInv /\ [Next]_vars => [Reports!Next]_(Reports!absVars)
  <2>. SUFFICES ASSUME FetchInv, BudgetInv, [Next]_vars
                PROVE  Reports!Next \/ UNCHANGED Reports!absVars
    OBVIOUS
  <2>. USE DEF sourceVars
  <2>1. FormInv
    BY DEF FetchInv, LoadInv
  <2>2. ASSUME NEW s \in Sources, StartSource(s)
        PROVE  UNCHANGED Reports!absVars
    BY <2>1, <2>2, NothingReported DEF StartSource, FormInv
  <2>3. ASSUME NEW s \in Sources, FinishSource(s)
        PROVE  Reports!Next
    BY <2>1, <2>3, FinishReports DEF Reports!Next
  <2>4. CASE FetchAllReturns
    <3>1. \A s \in Sources : Outcome(s)' = Outcome(s) /\ Outcome(s) # -1
      BY <2>1, <2>4 DEF FetchAllReturns, Outcome, FormInv
    <3>2. [s \in Sources |-> Outcome(s)]' = [s \in Sources |-> Outcome(s)]
      BY <3>1
    <3>3. Reports!Return
      BY <2>4, <3>1, <3>2 DEF FetchAllReturns, Reports!Return, Reports!NotYet
    <3>. QED BY <3>3 DEF Reports!Next
  <2>5. CASE UNCHANGED sourceVars
    BY <2>5, NothingReported
  <2>6. ASSUME NEW r \in Repos, AskTree(r) \/ TreeAnswered(r) \/ TreeFails(r)
        PROVE  UNCHANGED sourceVars
    BY <2>6 DEF AskTree, TreeAnswered, TreeFails
  <2>7. ASSUME NEW n \in Nodes, NodeStep(n)
        PROVE  UNCHANGED sourceVars
    BY <2>7
    DEF NodeStep, AskListing, ListingFails, Listed, NeedsTree, HasTree,
        FetchFile, FileFetched, FileFails, FileExpires, Recurse, NoRecursion, Gather
  <2>. QED
    BY <2>2, <2>3, <2>4, <2>5, <2>6, <2>7 DEF Next, vars
<1>. QED BY <1>1, <1>2, BudgetInvariant, PTL DEF Spec
=============================================================================
