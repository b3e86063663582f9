----------------------------- MODULE RunProofs -----------------------------
(***************************************************************************)
(* What a run puts into its files, and what becomes of them: the           *)
(* properties of Selection.tla, for any configs, countries and settings,   *)
(* and those of PipelineRun.tla about the runs of a process and of those   *)
(* after it, for any files, settings, floors and number of runs.           *)
(***************************************************************************)
EXTENDS PipelineRun, Selection, FiniteSetTheorems, SequenceTheorems,
        WellFoundedInduction, TLAPS

(***************************************************************************)
(* Selection.                                                              *)
(***************************************************************************)

\* S written as a sequence, each element once.
Enumerates(q, S) ==
    /\ q \in Seq(S) /\ Len(q) = Cardinality(S)
    /\ IsInjective(q) /\ ToSet(q) = S

\* What is before each element of S in a strict order of S.
StrictOrder(ahead, S) ==
    /\ ahead \in [S -> SUBSET S]
    /\ \A c \in S : c \notin ahead[c]
    /\ \A c \in S : \A d \in ahead[c] : ahead[d] \subseteq ahead[c]
    /\ \A c, d \in S : c # d => c \in ahead[d] \/ d \in ahead[c]
-----------------------------------------------------------------------------
(* Orders.                                                                 *)

\* The places in an order are taken by one each.
LEMMA Ranks ==
    ASSUME NEW S, IsFiniteSet(S), NEW ahead, StrictOrder(ahead, S)
    PROVE  /\ Cardinality(S) \in Nat
           /\ \A c \in S : Cardinality(ahead[c]) \in 0 .. Cardinality(S) - 1
           /\ \A c, d \in S : Cardinality(ahead[c]) = Cardinality(ahead[d]) => c = d
           /\ \A k \in 1 .. Cardinality(S) :
                \E c \in S : Cardinality(ahead[c]) = k - 1
<1> DEFINE n == Cardinality(S)
           rank == [c \in S |-> Cardinality(ahead[c])]
           T == 0 .. n - 1
<1>1. n \in Nat
  BY FS_CardinalityType
<1>2. ASSUME NEW c \in S
      PROVE  IsFiniteSet(ahead[c]) /\ Cardinality(ahead[c]) \in T
  <2>1. ahead[c] \in SUBSET (S \ {c})
    BY DEF StrictOrder
  <2>2. IsFiniteSet(S \ {c}) /\ Cardinality(S \ {c}) = n - 1
    BY FS_RemoveElement
  <2>3. IsFiniteSet(ahead[c]) /\ Cardinality(ahead[c]) <= n - 1
    BY <2>1, <2>2, FS_Subset
  <2>4. Cardinality(ahead[c]) \in Nat
    BY <2>3, FS_CardinalityType
  <2>. QED BY <1>1, <2>3, <2>4
<1>3. ASSUME NEW c \in S, NEW d \in ahead[c]
      PROVE  d \in S /\ Cardinality(ahead[d]) < Cardinality(ahead[c])
  <2>1. d \in S /\ d \notin ahead[d] /\ ahead[d] \subseteq ahead[c]
    BY DEF StrictOrder
  <2>2. IsFiniteSet(ahead[d]) /\ IsFiniteSet(ahead[c])
    BY <1>2, <2>1
  <2>3. Cardinality(ahead[d] \cup {d}) = Cardinality(ahead[d]) + 1
    BY <2>1, <2>2, FS_AddElement
  <2>4. Cardinality(ahead[d] \cup {d}) <= Cardinality(ahead[c])
    BY <2>1, <2>2, FS_Subset
  <2>5. Cardinality(ahead[d]) \in Nat /\ Cardinality(ahead[c]) \in Nat
    BY <2>2, FS_CardinalityType
  <2>. QED BY <2>1, <2>3, <2>4, <2>5
<1>4. ASSUME NEW c \in S, NEW d \in S, Cardinality(ahead[c]) = Cardinality(ahead[d])
      PROVE  c = d
  <2>1. Cardinality(ahead[c]) \in Nat
    BY <1>1, <1>2
  <2>. QED BY <1>3, <1>4, <2>1 DEF StrictOrder
<1>5. rank \in Injection(S, T)
  BY <1>2, <1>4 DEF Injection, IsInjective
<1>6. IsFiniteSet(T) /\ Cardinality(T) = n
  BY <1>1, FS_Interval
<1>7. rank \in Surjection(S, T)
  BY <1>5, <1>6, FS_Injection
<1>8. ASSUME NEW k \in 1 .. n PROVE \E c \in S : Cardinality(ahead[c]) = k - 1
  <2>1. k - 1 \in T
    BY <1>1
  <2>. QED BY <1>7, <2>1 DEF Surjection
<1>. QED BY <1>1, <1>2, <1>4, <1>8

\* An order is written out element by element.
LEMMA OrderIsListed ==
    ASSUME NEW S, IsFiniteSet(S), NEW ahead, StrictOrder(ahead, S)
    PROVE  Enumerates(InOrder(ahead), S)
<1> DEFINE n == Cardinality(S)
           q == [k \in 1 .. n |-> CHOOSE c \in S : Cardinality(ahead[c]) = k - 1]
<1>1. n \in Nat
  BY Ranks
<1>2. ASSUME NEW k \in 1 .. n PROVE q[k] \in S /\ Cardinality(ahead[q[k]]) = k - 1
  BY Ranks
<1>3. q \in Seq(S) /\ Len(q) = n /\ DOMAIN q = 1 .. n
  BY <1>1, <1>2
<1>4. IsInjective(q)
  BY <1>1, <1>2, <1>3 DEF IsInjective
<1>5. ASSUME NEW c \in S PROVE c \in ToSet(q)
  <2>1. Cardinality(ahead[c]) \in 0 .. n - 1
    BY Ranks
  <2> DEFINE k == Cardinality(ahead[c]) + 1
  <2>2. k \in 1 .. n /\ k - 1 = Cardinality(ahead[c])
    BY <1>1, <2>1
  <2>3. q[k] = c
    BY <1>2, <2>2, Ranks
  <2>. QED BY <1>3, <2>2, <2>3 DEF ToSet
<1>6. ToSet(q) = S
  BY <1>2, <1>3, <1>5 DEF ToSet
<1>. HIDE DEF q
<1>7. Enumerates(q, S)
  BY <1>3, <1>4, <1>6 DEF Enumerates
<1>8. DOMAIN ahead = S
  BY DEF StrictOrder
<1>9. InOrder(ahead) = q
  BY <1>8 DEF InOrder, q
<1>. QED BY <1>7, <1>9

\* A list is finite.
LEMMA FiniteLists == \A S \in SUBSET Configs : IsFiniteSet(S) /\ Cardinality(S) \in Nat
BY SelectionAssumption, FS_Subset, FS_CardinalityType

\* Each of the three sorts writes out the whole of a list.
LEMMA SortsEnumerate ==
    ASSUME NEW S \in SUBSET Configs
    PROVE  /\ Enumerates(InOrder(ByLatency(S)), S)
           /\ Enumerates(InOrder(ByScore(S)), S)
           /\ Enumerates(InOrder(ByPlace(S)), S)
<1>1. StrictOrder(ByLatency(S), S)
  BY SelectionAssumption DEF StrictOrder, ByLatency, Faster, Latency
<1>2. StrictOrder(ByScore(S), S)
  BY SelectionAssumption DEF StrictOrder, ByScore, Better, Faster, Latency
<1>3. StrictOrder(ByPlace(S), S)
  BY SelectionAssumption DEF StrictOrder, ByPlace
<1>. QED BY <1>1, <1>2, <1>3, FiniteLists, OrderIsListed
-----------------------------------------------------------------------------
(* Sequences.                                                              *)

\* The smaller of two numbers is one of them.
LEMMA LeastIs ==
    ASSUME NEW a \in Nat, NEW b \in Nat
    PROVE  /\ Least(a, b) \in Nat /\ Least(a, b) <= a /\ Least(a, b) <= b
           /\ Least(a, b) = a \/ Least(a, b) = b
BY DEF Least

\* The first elements of a sequence.
LEMMA FirstOfIs ==
    ASSUME NEW X, NEW s \in Seq(X), NEW n \in Nat
    PROVE  /\ FirstOf(s, n) \in Seq(X)
           /\ Len(FirstOf(s, n)) = Least(n, Len(s))
           /\ \A i \in 1 .. Len(FirstOf(s, n)) : FirstOf(s, n)[i] = s[i]
           /\ ToSet(FirstOf(s, n)) \subseteq ToSet(s)
           /\ IsInjective(s) => IsInjective(FirstOf(s, n))
<1> DEFINE m == Least(n, Len(s))
           f == FirstOf(s, n)
<1>0. Len(s) \in Nat
  OBVIOUS
<1>1. m \in 0 .. Len(s)
  BY <1>0 DEF Least
<1>2. f = SubSeq(s, 1, m)
  BY DEF FirstOf
<1>3. \A i \in 1 .. m : s[i] \in X
  BY <1>1
<1>4. f \in Seq(X) /\ Len(f) = m /\ \A i \in 1 .. m : f[i] = s[i]
  BY <1>0, <1>1, <1>2, <1>3, SubSeqProperties
<1>5. ToSet(f) \subseteq ToSet(s)
  BY <1>1, <1>4 DEF ToSet
<1>6. ASSUME IsInjective(s) PROVE IsInjective(f)
  BY <1>1, <1>4, <1>6 DEF IsInjective
<1>. QED BY <1>4, <1>5, <1>6

\* A sequence without repetition has as many elements as places.
LEMMA DistinctLength ==
    ASSUME NEW X, NEW s \in Seq(X), IsInjective(s)
    PROVE  IsFiniteSet(ToSet(s)) /\ Cardinality(ToSet(s)) = Len(s)
<1>0. Len(s) \in Nat
  OBVIOUS
<1>1. IsFiniteSet(1 .. Len(s)) /\ Cardinality(1 .. Len(s)) = Len(s)
  BY <1>0, FS_Interval
<1>2. DOMAIN s = 1 .. Len(s) /\ s \in [1 .. Len(s) -> ToSet(s)]
  BY LenProperties DEF ToSet
<1>4. \A x \in ToSet(s) : \E i \in 1 .. Len(s) : s[i] = x
  BY <1>2 DEF ToSet
<1>5. s \in Bijection(1 .. Len(s), ToSet(s))
  BY <1>2, <1>4 DEF Bijection, Injection, Surjection
<1>3. ExistsBijection(1 .. Len(s), ToSet(s))
  BY <1>5 DEF ExistsBijection
<1>. QED BY <1>1, <1>3, FS_Bijection

\* The elements of two sequences put together.
LEMMA JoinedIs ==
    ASSUME NEW X, NEW s \in Seq(X), NEW r \in Seq(X)
    PROVE  /\ s \o r \in Seq(X) /\ Len(s \o r) = Len(s) + Len(r)
           /\ ToSet(s \o r) = ToSet(s) \cup ToSet(r)
           /\ IsInjective(s) /\ IsInjective(r) /\ ToSet(s) \cap ToSet(r) = {}
                => IsInjective(s \o r)
<1> DEFINE j == s \o r
<1>1. /\ j \in Seq(X) /\ Len(j) = Len(s) + Len(r)
      /\ \A i \in 1 .. Len(s) : j[i] = s[i]
      /\ \A i \in 1 .. Len(r) : j[Len(s) + i] = r[i]
      /\ \A i \in 1 .. Len(j) : j[i] = IF i <= Len(s) THEN s[i] ELSE r[i - Len(s)]
  BY ConcatProperties
<1>2. Len(s) \in Nat /\ Len(r) \in Nat
  OBVIOUS
<1>. HIDE DEF j
<1>3. ToSet(j) \subseteq ToSet(s) \cup ToSet(r)
  <2>1. ASSUME NEW i \in 1 .. Len(j) PROVE j[i] \in ToSet(s) \cup ToSet(r)
    <3>1. CASE i <= Len(s)
      BY <1>1, <1>2, <3>1 DEF ToSet
    <3>2. CASE i > Len(s)
      <4>1. i - Len(s) \in 1 .. Len(r) /\ j[i] = r[i - Len(s)]
        BY <1>1, <1>2, <3>2
      <4>. QED BY <4>1 DEF ToSet
    <3>. QED BY <1>1, <1>2, <3>1, <3>2
  <2>. QED BY <1>1, <2>1 DEF ToSet
<1>4. ToSet(s) \subseteq ToSet(j)
  BY <1>1, <1>2 DEF ToSet
<1>5. ToSet(r) \subseteq ToSet(j)
  <2>1. ASSUME NEW i \in 1 .. Len(r) PROVE r[i] \in ToSet(j)
    <3>1. Len(s) + i \in 1 .. Len(j) /\ j[Len(s) + i] = r[i]
      BY <1>1, <1>2
    <3>. QED BY <1>1, <3>1 DEF ToSet
  <2>. QED BY <2>1 DEF ToSet
<1>6. ASSUME IsInjective(s), IsInjective(r), ToSet(s) \cap ToSet(r) = {}
      PROVE  IsInjective(j)
  <2>1. ASSUME NEW i \in 1 .. Len(j), NEW k \in 1 .. Len(j), j[i] = j[k]
        PROVE  i = k
    <3>1. CASE i <= Len(s) /\ k <= Len(s)
      <4>1. i \in DOMAIN s /\ k \in DOMAIN s /\ s[i] = s[k]
        BY <1>1, <1>2, <2>1, <3>1
      <4>. QED BY <1>6, <4>1 DEF IsInjective
    <3>2. CASE i > Len(s) /\ k > Len(s)
      <4>1. /\ i - Len(s) \in DOMAIN r /\ k - Len(s) \in DOMAIN r
            /\ r[i - Len(s)] = r[k - Len(s)]
        BY <1>1, <1>2, <2>1, <3>2
      <4>2. i - Len(s) = k - Len(s)
        BY <1>6, <4>1 DEF IsInjective
      <4>. QED BY <1>1, <1>2, <4>2
    <3>3. CASE i <= Len(s) /\ k > Len(s)
      <4>1. i \in DOMAIN s /\ k - Len(s) \in DOMAIN r /\ s[i] = r[k - Len(s)]
        BY <1>1, <1>2, <2>1, <3>3
      <4>. QED BY <1>6, <4>1 DEF ToSet
    <3>4. CASE i > Len(s) /\ k <= Len(s)
      <4>1. k \in DOMAIN s /\ i - Len(s) \in DOMAIN r /\ s[k] = r[i - Len(s)]
        BY <1>1, <1>2, <2>1, <3>4
      <4>. QED BY <1>6, <4>1 DEF ToSet
    <3>. QED BY <1>1, <1>2, <3>1, <3>2, <3>3, <3>4
  <2>. QED BY <1>1, <2>1 DEF IsInjective
<1>. QED BY <1>1, <1>3, <1>4, <1>5, <1>6 DEF j

\* One element more.
LEMMA AppendedIs ==
    ASSUME NEW X, NEW s \in Seq(X), NEW x \in X
    PROVE  /\ Append(s, x) \in Seq(X) /\ Len(Append(s, x)) = Len(s) + 1
           /\ ToSet(Append(s, x)) = ToSet(s) \cup {x}
           /\ IsInjective(s) /\ x \notin ToSet(s) => IsInjective(Append(s, x))
<1> DEFINE j == Append(s, x)
<1>1. /\ j \in Seq(X) /\ Len(j) = Len(s) + 1
      /\ \A i \in 1 .. Len(s) : j[i] = s[i]
      /\ j[Len(s) + 1] = x
  BY AppendProperties
<1>2. Len(s) \in Nat /\ DOMAIN s = 1 .. Len(s) /\ DOMAIN j = 1 .. Len(s) + 1
  BY <1>1
<1>. HIDE DEF j
<1>3. \A i \in DOMAIN j : i \in DOMAIN s \/ i = Len(s) + 1
  BY <1>2
<1>4. DOMAIN s \subseteq DOMAIN j /\ Len(s) + 1 \in DOMAIN j
  BY <1>2
<1>5. ToSet(j) = ToSet(s) \cup {x}
  BY <1>1, <1>2, <1>3, <1>4 DEF ToSet
<1>6. ASSUME IsInjective(s), x \notin ToSet(s) PROVE IsInjective(j)
  BY <1>1, <1>2, <1>3, <1>6 DEF IsInjective, ToSet
<1>. QED BY <1>1, <1>5, <1>6 DEF j

\* Nothing.
LEMMA EmptyIs == /\ ToSet(<<>>) = {} /\ IsInjective(<<>>)
                 /\ \A X : <<>> \in Seq(X) /\ Len(<<>>) = 0
BY DEF ToSet, IsInjective
-----------------------------------------------------------------------------
(* Buckets.                                                                *)

\* How many of a country the quota lets in.
Within(own, quota) ==
    IF quota = 0 THEN Cardinality(own) ELSE Least(quota, Cardinality(own))

OwnOf(S, code) == {c \in S : Country[c] = code}

\* A bucket has servers of the country, each once, as many as the quota lets in.
LEMMA BucketIs ==
    ASSUME NEW S \in SUBSET Configs, NEW code, NEW quota \in Nat
    PROVE  LET q == Bucket(S, code, quota)
               own == OwnOf(S, code)
           IN  /\ q \in Seq(own) /\ IsInjective(q)
               /\ Len(q) = Within(own, quota) /\ Len(q) <= Cardinality(own)
               /\ quota = 0 => ToSet(q) = own
<1> DEFINE own == OwnOf(S, code)
           limit == IF quota = 0 THEN Cardinality(own) ELSE quota
           byLatency == InOrder(ByLatency(own))
           head == FirstOf(byLatency, limit)
           W == ToSet(head)
           q == InOrder(ByScore(W))
<1>1. own \in SUBSET Configs /\ Cardinality(own) \in Nat /\ limit \in Nat
  BY FiniteLists DEF OwnOf
<1>2. q = Bucket(S, code, quota)
  BY DEF Bucket, OwnOf
<1>. HIDE DEF own
<1>3. Enumerates(byLatency, own)
  BY <1>1, SortsEnumerate
<1>. HIDE DEF byLatency, limit
<1>4. /\ head \in Seq(own) /\ IsInjective(head) /\ W \subseteq own
      /\ Len(head) = Least(limit, Cardinality(own))
  BY <1>1, <1>3, FirstOfIs DEF Enumerates
<1>5. Cardinality(W) = Least(limit, Cardinality(own))
  BY <1>4, DistinctLength
<1>6. Enumerates(q, W)
  BY <1>1, <1>4, SortsEnumerate
<1>7. q \in Seq(own) /\ IsInjective(q) /\ Len(q) = Least(limit, Cardinality(own))
  BY <1>4, <1>5, <1>6, SeqMonotonic DEF Enumerates
<1>8. Len(q) = Within(own, quota) /\ Len(q) <= Cardinality(own)
  BY <1>1, <1>7 DEF Within, Least, limit
<1>9. quota = 0 => ToSet(q) = own
  <2>1. ASSUME quota = 0 PROVE W = own
    <3>1. Cardinality(W) = Cardinality(own)
      BY <1>1, <1>5, <2>1 DEF limit, Least
    <3>. QED BY <1>1, <1>4, <3>1, FiniteLists, FS_Subset
  <2>. QED BY <1>6, <2>1 DEF Enumerates
<1>. QED BY <1>2, <1>7, <1>8, <1>9 DEF own
-----------------------------------------------------------------------------
(* Turns.                                                                  *)

\* Quotient and rest of a number, and the only ones.
LEMMA Division ==
    ASSUME NEW n \in Nat \ {0}, NEW t \in Nat
    PROVE  /\ t \div n \in Nat /\ t % n \in 0 .. n - 1
           /\ t = n * (t \div n) + (t % n)
OBVIOUS

\* A later round is a later turn, whoever is asked.
LEMMA LaterRound ==
    ASSUME NEW n \in Nat \ {0}, NEW j \in Nat, NEW k \in Nat, j < k,
           NEW x \in 0 .. n - 1, NEW y \in 0 .. n - 1
    PROVE  n * j + x < n * k + y
<1>1. PICK d \in Nat : k = j + 1 + d
  <2>1. k - j - 1 \in Nat /\ k = j + 1 + (k - j - 1)
    OBVIOUS
  <2>. QED BY <2>1
<1>2. n * k = n * j + n + n * d
  BY <1>1
<1>3. n * d \in Nat /\ n * j \in Nat
  OBVIOUS
<1>. QED BY <1>2, <1>3

\* Two numbers with the same quotient and rest are one.
LEMMA SameTurn ==
    ASSUME NEW n \in Nat \ {0}, NEW j \in Nat, NEW k \in Nat,
           NEW x \in 0 .. n - 1, NEW y \in 0 .. n - 1, n * j + x = n * k + y
    PROVE  j = k /\ x = y
<1>1. ~ (j < k)
  <2>1. ASSUME j < k PROVE FALSE
    <3>1. n * j + x < n * k + y
      BY <2>1, LaterRound
    <3>2. n * j + x \in Int
      OBVIOUS
    <3>. QED BY <3>1, <3>2
  <2>. QED BY <2>1
<1>2. ~ (k < j)
  <2>1. ASSUME k < j PROVE FALSE
    <3>1. n * k + y < n * j + x
      BY <2>1, LaterRound
    <3>2. n * j + x \in Int
      OBVIOUS
    <3>. QED BY <3>1, <3>2
  <2>. QED BY <2>1
<1>3. j = k
  BY <1>1, <1>2
<1>4. n * j \in Int
  OBVIOUS
<1>. QED BY <1>3, <1>4

\* The countries asked in a round, and the turn of a country in a round.
Slot(code) == CHOOSE i \in 1 .. Len(Asked) : Asked[i] = code
TurnOf(code, k) == Len(Asked) * (k - 1) + Slot(code)

\* Every country is asked once, the unknown one too.
LEMMA AskedIs ==
    /\ Len(Asked) \in Nat \ {0} /\ DOMAIN Asked = 1 .. Len(Asked) /\ IsInjective(Asked)
    /\ ToSet(Asked) = ToSet(Codes) \cup {Unknown}
    /\ \A code \in ToSet(Asked) : Slot(code) \in 1 .. Len(Asked) /\ Asked[Slot(code)] = code
    /\ \A i \in 1 .. Len(Asked) : Asked[i] \in ToSet(Asked) /\ Slot(Asked[i]) = i
    /\ \A c \in Configs : Country[c] \in ToSet(Asked)
<1> DEFINE X == ToSet(Codes) \cup {Unknown}
<1>1. Codes \in Seq(X) /\ Unknown \in X
  BY SelectionAssumption, SeqMonotonic
<1>2. /\ Asked \in Seq(X) /\ Len(Asked) = Len(Codes) + 1
      /\ ToSet(Asked) = ToSet(Codes) \cup {Unknown} /\ IsInjective(Asked)
  BY <1>1, SelectionAssumption, AppendedIs DEF Asked
<1>3. Len(Codes) \in Nat
  BY <1>1
<1>4. Len(Asked) \in Nat \ {0} /\ DOMAIN Asked = 1 .. Len(Asked)
  BY <1>2, <1>3
<1>5. ASSUME NEW code \in ToSet(Asked)
      PROVE  Slot(code) \in 1 .. Len(Asked) /\ Asked[Slot(code)] = code
  BY <1>4 DEF Slot, ToSet
<1>6. ASSUME NEW i \in 1 .. Len(Asked)
      PROVE  Asked[i] \in ToSet(Asked) /\ Slot(Asked[i]) = i
  <2>1. Asked[i] \in ToSet(Asked)
    BY <1>4 DEF ToSet
  <2>2. Slot(Asked[i]) \in 1 .. Len(Asked) /\ Asked[Slot(Asked[i])] = Asked[i]
    BY <1>5, <2>1
  <2>. QED BY <1>2, <1>4, <2>1, <2>2 DEF IsInjective
<1>. QED BY <1>2, <1>4, <1>5, <1>6, SelectionAssumption

\* Every turn is that of one country in one round, within the rounds there are.
LEMMA TurnIs ==
    ASSUME NEW S \in SUBSET Configs
    PROVE  /\ Len(Turns(S)) \in Nat
           /\ \A t \in 1 .. Len(Turns(S)) :
                /\ Turns(S)[t].round \in 1 .. Cardinality(S)
                /\ Turns(S)[t].code \in ToSet(Asked)
                /\ TurnOf(Turns(S)[t].code, Turns(S)[t].round) = t
<1> DEFINE n == Len(Asked)
           z == Cardinality(S)
<1>1. n \in Nat \ {0} /\ z \in Nat
  BY AskedIs, FiniteLists
<1>2. z * n \in Nat
  BY <1>1
<1>3. Len(Turns(S)) = z * n
  BY <1>2 DEF Turns
<1>4. ASSUME NEW t \in 1 .. z * n
      PROVE  /\ Turns(S)[t].round \in 1 .. z
             /\ Turns(S)[t].code \in ToSet(Asked)
             /\ TurnOf(Turns(S)[t].code, Turns(S)[t].round) = t
  <2> DEFINE q == (t - 1) \div n
             r == (t - 1) % n
  <2>1. t - 1 \in Nat /\ t - 1 < z * n
    BY <1>2
  <2>2. q \in Nat /\ r \in 0 .. n - 1 /\ t - 1 = n * q + r
    BY <1>1, <2>1, Division
  <2>3. Turns(S)[t].round = 1 + q /\ Turns(S)[t].code = Asked[1 + r]
    BY DEF Turns
  <2>. HIDE DEF q, r
  <2>4. q < z
    <3>1. ASSUME ~ (q < z) PROVE FALSE
      <4>1. CASE q = z
        <5>1. n * q = z * n
          BY <1>1, <4>1
        <5>. QED BY <1>2, <2>1, <2>2, <5>1
      <4>2. CASE z < q
        <5>1. n * z + 0 < n * q + r
          BY <1>1, <2>2, <4>2, LaterRound
        <5>2. n * z = z * n
          BY <1>1
        <5>. QED BY <1>2, <2>1, <2>2, <5>1, <5>2
      <4>. QED BY <1>1, <2>2, <3>1, <4>1, <4>2
    <3>. QED BY <3>1
  <2>5. 1 + r \in 1 .. n
    BY <1>1, <2>2
  <2>6. Asked[1 + r] \in ToSet(Asked) /\ Slot(Asked[1 + r]) = 1 + r
    BY <2>5, AskedIs
  <2>7. TurnOf(Asked[1 + r], 1 + q) = n * ((1 + q) - 1) + (1 + r)
    BY <2>6 DEF TurnOf
  <2>8. (1 + q) - 1 = q
    BY <2>2
  <2>9. n * q \in Int
    BY <1>1, <2>2
  <2>10. TurnOf(Asked[1 + r], 1 + q) = t
    BY <2>1, <2>2, <2>7, <2>8, <2>9
  <2>. QED BY <1>1, <2>2, <2>3, <2>4, <2>6, <2>10
<1>. QED BY <1>2, <1>3, <1>4

\* Every country has its turn in every round.
LEMMA TurnOfIs ==
    ASSUME NEW S \in SUBSET Configs, NEW code \in ToSet(Asked),
           NEW k \in 1 .. Cardinality(S)
    PROVE  TurnOf(code, k) \in 1 .. Len(Turns(S))
<1> DEFINE n == Len(Asked)
           z == Cardinality(S)
<1>1. n \in Nat \ {0} /\ z \in Nat /\ Slot(code) \in 1 .. n
  BY AskedIs, FiniteLists
<1>2. z * n \in Nat /\ Len(Turns(S)) = z * n
  <2>1. z * n \in Nat
    BY <1>1
  <2>. QED BY <2>1 DEF Turns
<1>3. n * (k - 1) + (Slot(code) - 1) < n * z + 0
  <2>1. k - 1 \in Nat /\ k - 1 < z /\ Slot(code) - 1 \in 0 .. n - 1 /\ 0 \in 0 .. n - 1
    BY <1>1
  <2>. QED BY <1>1, <2>1, LaterRound
<1>4. n * (k - 1) \in Nat /\ n * z = z * n
  <2>1. k - 1 \in Nat
    BY <1>1
  <2>. QED BY <1>1, <2>1
<1>. QED BY <1>1, <1>2, <1>3, <1>4 DEF TurnOf

\* A country has one turn in a round, and later rounds are later turns.
LEMMA TurnsDiffer ==
    ASSUME NEW a \in ToSet(Asked), NEW b \in ToSet(Asked),
           NEW j \in Nat \ {0}, NEW k \in Nat \ {0}
    PROVE  /\ TurnOf(a, j) \in Nat
           /\ TurnOf(a, j) = TurnOf(b, k) => a = b /\ j = k
           /\ j < k => TurnOf(a, j) < TurnOf(b, k)
<1> DEFINE n == Len(Asked)
<1>1. n \in Nat \ {0} /\ Slot(a) \in 1 .. n /\ Slot(b) \in 1 .. n
  BY AskedIs
<1>2. /\ j - 1 \in Nat /\ k - 1 \in Nat
      /\ Slot(a) - 1 \in 0 .. n - 1 /\ Slot(b) - 1 \in 0 .. n - 1
  BY <1>1
<1>3. n * (j - 1) \in Nat /\ n * (k - 1) \in Nat
  BY <1>1, <1>2
<1>4. ASSUME TurnOf(a, j) = TurnOf(b, k) PROVE a = b /\ j = k
  <2>1. n * (j - 1) + (Slot(a) - 1) = n * (k - 1) + (Slot(b) - 1)
    BY <1>1, <1>3, <1>4 DEF TurnOf
  <2>2. j - 1 = k - 1 /\ Slot(a) - 1 = Slot(b) - 1
    <3> DEFINE p == j - 1
               q == k - 1
               x == Slot(a) - 1
               y == Slot(b) - 1
    <3>1. p \in Nat /\ q \in Nat /\ x \in 0 .. n - 1 /\ y \in 0 .. n - 1
          /\ n * p + x = n * q + y
      BY <1>2, <2>1
    <3>. HIDE DEF n, p, q, x, y
    <3>2. p = q /\ x = y
      BY <1>1, <3>1, SameTurn
    <3>. QED BY <3>2 DEF p, q, x, y
  <2>3. j = k /\ Slot(a) = Slot(b)
    BY <1>1, <2>2
  <2>. QED BY <2>3, AskedIs
<1>5. ASSUME j < k PROVE TurnOf(a, j) < TurnOf(b, k)
  <2>1. j - 1 < k - 1
    BY <1>5
  <2>2. n * (j - 1) + (Slot(a) - 1) < n * (k - 1) + (Slot(b) - 1)
    BY <1>1, <1>2, <2>1, LaterRound
  <2>. QED BY <1>1, <1>3, <2>2 DEF TurnOf
<1>. QED BY <1>1, <1>3, <1>4, <1>5 DEF TurnOf
-----------------------------------------------------------------------------
(* Repetition.                                                             *)

\* A set of numbers has a least one.
LEMMA LeastNumber ==
    ASSUME NEW T \in SUBSET Nat, T # {}
    PROVE  \E m \in T : \A k \in T : m <= k
<1> DEFINE Less == {pair \in Nat \X Nat : pair[1] < pair[2]}
<1>1. IsWellFoundedOn(Less, Nat)
  BY NatLessThanWellFounded, Zenon DEF OpToRel
<1>2. \A k, m \in Nat : k < m => <<k, m>> \in Less
  OBVIOUS
<1>3. PICK m \in T : \A k \in T : ~ (<<k, m>> \in Less)
  <2>. HIDE DEF Less
  <2>1. T \subseteq Nat /\ T # {}
    OBVIOUS
  <2>2. \E m \in T : \A k \in T : ~ (<<k, m>> \in Less)
    BY <1>1, <2>1, WFMin, Zenon
  <2>. QED BY <2>2
<1>4. ASSUME NEW k \in T PROVE m <= k
  <2>. HIDE DEF Less
  <2>1. k \in Nat /\ m \in Nat
    OBVIOUS
  <2>2. ~ (k < m)
    BY <1>2, <1>3, <2>1, Zenon
  <2>. QED BY <2>1, <2>2
<1>. QED BY <1>4

\* What holds of 0 and of the next number holds of all up to n.
LEMMA UpTo ==
    ASSUME NEW n \in Nat, NEW T, 0 \in T,
           \A t \in 0 .. n - 1 : t \in T => t + 1 \in T
    PROVE  0 .. n \subseteq T
<1> DEFINE Bad == {t \in 0 .. n : t \notin T}
<1>1. ASSUME Bad # {} PROVE FALSE
  <2>1. Bad \in SUBSET Nat
    OBVIOUS
  <2>2. PICK m \in Bad : \A k \in Bad : m <= k
    BY <1>1, <2>1, LeastNumber
  <2>3. m \in 0 .. n /\ m \notin T /\ m # 0
    BY <2>2
  <2>4. m - 1 \in 0 .. n - 1 /\ m - 1 \in 0 .. n /\ m - 1 < m /\ (m - 1) + 1 = m
    BY <2>3
  <2>5. m - 1 \in T
    BY <2>2, <2>4
  <2>6. (m - 1) + 1 \in T
    BY <2>4, <2>5
  <2>. QED BY <2>3, <2>4, <2>6
<1>. QED BY <1>1

\* f begins with first and goes on by the steps of G.
Repeats(f, n, X, first, G) ==
    /\ f \in [0 .. n -> X] /\ f[0] = first
    /\ \A t \in 1 .. n : f[t] = G[t][f[t - 1]]

\* A step can be repeated.
LEMMA Iterates ==
    ASSUME NEW n \in Nat, NEW X, NEW first \in X, NEW G \in [1 .. n -> [X -> X]]
    PROVE  \E f : Repeats(f, n, X, first, G)
<1> DEFINE good(f, k) == /\ f \in [0 .. k -> X] /\ f[0] = first
                         /\ \A t \in 1 .. k : f[t] = G[t][f[t - 1]]
           T == {k \in 0 .. n : \E f : good(f, k)}
<1>1. 0 \in T
  <2> DEFINE f == [t \in 0 .. 0 |-> first]
  <2>1. good(f, 0)
    OBVIOUS
  <2>2. 0 \in 0 .. n
    OBVIOUS
  <2>. QED BY <2>1, <2>2
<1>2. ASSUME NEW k \in 0 .. n - 1, k \in T PROVE k + 1 \in T
  <2>1. PICK f : good(f, k)
    BY <1>2
  <2> DEFINE g == [t \in 0 .. k + 1 |-> IF t <= k THEN f[t] ELSE G[k + 1][f[k]]]
  <2>2. k \in Nat /\ k + 1 \in 1 .. n /\ f[k] \in X
    BY <2>1
  <2>3. G[k + 1][f[k]] \in X
    BY <2>2
  <2>4. g \in [0 .. k + 1 -> X] /\ g[0] = first
    BY <2>1, <2>2, <2>3
  <2>5. ASSUME NEW t \in 1 .. k + 1 PROVE g[t] = G[t][g[t - 1]]
    <3>1. CASE t <= k
      <4>1. g[t] = f[t] /\ g[t - 1] = f[t - 1] /\ t \in 1 .. k
        BY <2>2, <3>1
      <4>. HIDE DEF g
      <4>. QED BY <2>1, <4>1
    <3>2. CASE t = k + 1
      <4>1. g[t] = G[k + 1][f[k]] /\ g[t - 1] = f[k]
        BY <2>2, <3>2
      <4>. HIDE DEF g
      <4>. QED BY <3>2, <4>1
    <3>. QED BY <2>2, <3>1, <3>2
  <2>. HIDE DEF g
  <2>6. good(g, k + 1)
    BY <2>4, <2>5
  <2>. QED BY <2>2, <2>6
<1>. HIDE DEF good
<1>3. 0 .. n \subseteq T
  <2>. HIDE DEF T
  <2>. QED BY <1>1, <1>2, UpTo
<1>4. n \in T
  BY <1>3
<1>. QED BY <1>4 DEF good, Repeats
-----------------------------------------------------------------------------
(* The country-balanced limit.                                             *)

\* What a turn adds to what was taken before.
AfterTurn(S, total, quota, t, before) ==
    LET own == Bucket(S, Turns(S)[t].code, quota)
    IN IF Len(before) >= total \/ Turns(S)[t].round > Len(own) THEN before
       ELSE Append(before, own[Turns(S)[t].round])

\* A turn adds a config of the list.
LEMMA AfterTurnType ==
    ASSUME NEW S \in SUBSET Configs, NEW total \in Nat, NEW quota \in Nat,
           NEW t \in 1 .. Len(Turns(S)), NEW before \in Seq(S)
    PROVE  AfterTurn(S, total, quota, t, before) \in Seq(S)
<1> DEFINE code == Turns(S)[t].code
           own == Bucket(S, code, quota)
           k == Turns(S)[t].round
<1>1. k \in 1 .. Cardinality(S) /\ own \in Seq(OwnOf(S, code)) /\ Len(own) \in Nat
  BY TurnIs, BucketIs
<1>2. ASSUME ~ (k > Len(own)) PROVE own[k] \in S
  <2>1. k \in 1 .. Len(own)
    BY <1>1, <1>2, FiniteLists
  <2>2. own[k] \in OwnOf(S, code)
    BY <1>1, <2>1, ElementOfSeq
  <2>. QED BY <2>2 DEF OwnOf
<1>. QED BY <1>2, AppendedIs DEF AfterTurn

\* The turns are taken one after the other.
LEMMA TakenIs ==
    ASSUME NEW S \in SUBSET Configs, NEW total \in Nat, NEW quota \in Nat
    PROVE  LET T == Taken(S, total, quota)
           IN  /\ T \in [0 .. Len(Turns(S)) -> Seq(S)] /\ T[0] = <<>>
               /\ \A t \in 1 .. Len(Turns(S)) :
                    T[t] = AfterTurn(S, total, quota, t, T[t - 1])
<1> DEFINE turns == Turns(S)
           N == Len(turns)
           bucket == [code \in ToSet(Asked) |-> Bucket(S, code, quota)]
           step(t, before) ==
             IF Len(before) >= total \/ turns[t].round > Len(bucket[turns[t].code]) THEN before
             ELSE Append(before, bucket[turns[t].code][turns[t].round])
           solves(f) == f = [t \in 0 .. N |-> IF t = 0 THEN <<>> ELSE step(t, f[t - 1])]
           G == [t \in 1 .. N |->
                   [before \in Seq(S) |-> AfterTurn(S, total, quota, t, before)]]
<1>1. N \in Nat
  BY TurnIs
<1>2. ASSUME NEW t \in 1 .. N, NEW before
      PROVE  step(t, before) = AfterTurn(S, total, quota, t, before)
  <2>1. turns[t].code \in ToSet(Asked)
    BY TurnIs
  <2>2. bucket[turns[t].code] = Bucket(S, turns[t].code, quota)
    BY <2>1
  <2>. HIDE DEF bucket
  <2>. QED BY <2>2 DEF AfterTurn
<1>3. G \in [1 .. N -> [Seq(S) -> Seq(S)]]
  BY AfterTurnType
<1>4. PICK f : Repeats(f, N, Seq(S), <<>>, G)
  <2>. HIDE DEF G, N
  <2>1. <<>> \in Seq(S)
    OBVIOUS
  <2>. QED BY <1>1, <1>3, <2>1, Iterates
<1>13. f \in [0 .. N -> Seq(S)] /\ f[0] = <<>>
  BY <1>4 DEF Repeats
<1>5. ASSUME NEW t \in 1 .. N
      PROVE  t - 1 \in 0 .. N /\ f[t] = AfterTurn(S, total, quota, t, f[t - 1])
  <2>1. t - 1 \in 0 .. N /\ f[t - 1] \in Seq(S)
    BY <1>1, <1>13
  <2>2. G[t][f[t - 1]] = AfterTurn(S, total, quota, t, f[t - 1])
    BY <2>1
  <2>. HIDE DEF G
  <2>. QED BY <1>4, <2>1, <2>2 DEF Repeats
<1>6. solves(f)
  <2>1. \A t \in 0 .. N : f[t] = IF t = 0 THEN <<>> ELSE step(t, f[t - 1])
    <3>1. \A t \in 0 .. N : t = 0 \/ t \in 1 .. N
      BY <1>1
    <3>. HIDE DEF step
    <3>. QED BY <1>2, <1>13, <1>5, <3>1
  <2>. HIDE DEF step
  <2>. QED BY <1>13, <2>1
<1>7. Taken(S, total, quota) = CHOOSE g : solves(g)
  BY DEF Taken
<1>8. solves(Taken(S, total, quota))
  <2>. HIDE DEF solves
  <2>. QED BY <1>6, <1>7
<1> DEFINE T == Taken(S, total, quota)
<1>. HIDE DEF T
<1>9. DOMAIN T = 0 .. N /\ T[0] = <<>>
  BY <1>1, <1>8 DEF T
<1>10. ASSUME NEW t \in 1 .. N PROVE T[t] = AfterTurn(S, total, quota, t, T[t - 1])
  <2>1. T[t] = step(t, T[t - 1])
    <3>1. t \in 0 .. N /\ t # 0
      BY <1>1
    <3>. HIDE DEF step
    <3>. QED BY <1>8, <3>1 DEF T
  <2>. HIDE DEF step
  <2>. QED BY <1>2, <2>1
<1>11. 0 .. N \subseteq {t \in 0 .. N : T[t] \in Seq(S)}
  <2> DEFINE Z == {t \in 0 .. N : T[t] \in Seq(S)}
  <2>1. 0 \in Z
    BY <1>1, <1>9
  <2>2. ASSUME NEW t \in 0 .. N - 1, t \in Z PROVE t + 1 \in Z
    <3>1. t + 1 \in 1 .. N /\ (t + 1) - 1 = t
      BY <1>1
    <3>2. T[t + 1] = AfterTurn(S, total, quota, t + 1, T[t])
      BY <1>10, <3>1
    <3>3. T[t + 1] \in Seq(S)
      BY <2>2, <3>1, <3>2, AfterTurnType
    <3>. QED BY <1>1, <3>1, <3>3
  <2>. HIDE DEF Z
  <2>3. 0 .. N \subseteq Z
    BY <1>1, <2>1, <2>2, UpTo
  <2>. QED BY <2>3 DEF Z
<1>12. T \in [0 .. N -> Seq(S)]
  <2>1. T = [t \in 0 .. N |-> T[t]]
    <3>. HIDE DEF step
    <3>. QED BY <1>8, <1>9 DEF T
  <2>. QED BY <1>11, <2>1
<1>. QED BY <1>9, <1>10, <1>12 DEF T

\* Who has been served by the first m turns, if nothing but the quotas stops them.
Served(S, quota, m) ==
    {c \in S : \E code \in ToSet(Asked) : \E k \in 1 .. Len(Bucket(S, code, quota)) :
                  c = Bucket(S, code, quota)[k] /\ TurnOf(code, k) <= m}

\* After t turns: whom they served, or whom they had served when the limit was met.
ServedBy(q, S, total, quota, t) ==
    /\ q \in Seq(S) /\ IsInjective(q) /\ Len(q) <= total
    /\ \E m \in 0 .. t : ToSet(q) = Served(S, quota, m) /\ (m = t \/ Len(q) = total)

\* A server of a bucket is one of its country, with a turn of its own.
LEMMA BucketTurns ==
    ASSUME NEW S \in SUBSET Configs, NEW quota \in Nat, NEW code \in ToSet(Asked),
           NEW k \in 1 .. Len(Bucket(S, code, quota))
    PROVE  /\ k \in 1 .. Cardinality(S) /\ TurnOf(code, k) \in 1 .. Len(Turns(S))
           /\ Bucket(S, code, quota)[k] \in S
           /\ Country[Bucket(S, code, quota)[k]] = code
<1> DEFINE own == OwnOf(S, code)
           q == Bucket(S, code, quota)
<1>1. own \in SUBSET S
  BY DEF OwnOf
<1>2. Cardinality(own) <= Cardinality(S) /\ Cardinality(own) \in Nat /\ Cardinality(S) \in Nat
  BY <1>1, FiniteLists, FS_Subset
<1>3. q \in Seq(own) /\ Len(q) <= Cardinality(own)
  BY BucketIs
<1>. HIDE DEF own, q
<1>4. k \in 1 .. Cardinality(S) /\ q[k] \in own
  <2>1. Len(q) \in Nat /\ k \in 1 .. Len(q)
    BY <1>3 DEF q
  <2>2. q[k] \in own
    BY <1>3, <2>1, ElementOfSeq
  <2>. QED BY <1>2, <1>3, <2>1, <2>2
<1>5. TurnOf(code, k) \in 1 .. Len(Turns(S))
  BY <1>4, TurnOfIs
<1>. QED BY <1>4, <1>5 DEF own, q, OwnOf

\* Turn t serves one more than the turns up to s, or nobody if the country has no more.
Serves(S, quota, s, t) ==
    LET own == Bucket(S, Turns(S)[t].code, quota)
        k == Turns(S)[t].round
    IN  /\ k > Len(own) => Served(S, quota, t) = Served(S, quota, s)
        /\ ~ (k > Len(own)) =>
             /\ own[k] \in S /\ own[k] \notin Served(S, quota, s)
             /\ Served(S, quota, t) = Served(S, quota, s) \cup {own[k]}

LEMMA ServedGrows ==
    ASSUME NEW S \in SUBSET Configs, NEW quota \in Nat, NEW t \in 1 .. Len(Turns(S))
    PROVE  Serves(S, quota, t - 1, t)
<1> DEFINE code == Turns(S)[t].code
           own == Bucket(S, code, quota)
           k == Turns(S)[t].round
<1>1. /\ code \in ToSet(Asked) /\ k \in Nat \ {0} /\ TurnOf(code, k) = t
      /\ own \in Seq(OwnOf(S, code)) /\ IsInjective(own) /\ Len(own) \in Nat
      /\ DOMAIN own = 1 .. Len(own)
  <2>1. code \in ToSet(Asked) /\ k \in 1 .. Cardinality(S) /\ TurnOf(code, k) = t
    BY TurnIs
  <2>2. own \in Seq(OwnOf(S, code)) /\ IsInjective(own)
    BY BucketIs
  <2>3. Len(own) \in Nat /\ DOMAIN own = 1 .. Len(own)
    BY <2>2
  <2>. QED BY <2>1, <2>2, <2>3, FiniteLists
<1>2. t \in Nat \ {0}
  BY TurnIs
<1>. HIDE DEF code, own, k
<1>3. ASSUME NEW other \in ToSet(Asked), NEW j \in 1 .. Len(Bucket(S, other, quota))
      PROVE  /\ TurnOf(other, j) \in Nat
             /\ TurnOf(other, j) <= t =>
                  \/ TurnOf(other, j) <= t - 1
                  \/ other = code /\ j = k
             /\ TurnOf(other, j) <= t - 1 => TurnOf(other, j) <= t
             /\ TurnOf(other, j) <= t - 1 => ~ (other = code /\ j = k)
  <2>1. j \in Nat \ {0}
    BY BucketTurns, FiniteLists
  <2>2. /\ TurnOf(other, j) \in Nat
        /\ TurnOf(other, j) = TurnOf(code, k) => other = code /\ j = k
    BY <1>1, <2>1, TurnsDiffer
  <2>. QED BY <1>1, <1>2, <2>2
<1>4. Served(S, quota, t - 1) \subseteq Served(S, quota, t)
  BY <1>3 DEF Served
<1>5. ASSUME NEW c \in Served(S, quota, t), c \notin Served(S, quota, t - 1)
      PROVE  k \in 1 .. Len(own) /\ c = own[k]
  <2>0. PICK other \in ToSet(Asked) : \E j \in 1 .. Len(Bucket(S, other, quota)) :
           c = Bucket(S, other, quota)[j] /\ TurnOf(other, j) <= t
    BY DEF Served
  <2>1. PICK j \in 1 .. Len(Bucket(S, other, quota)) :
           c = Bucket(S, other, quota)[j] /\ TurnOf(other, j) <= t
    BY <2>0
  <2>2. ~ (TurnOf(other, j) <= t - 1)
    BY <1>5, <2>1 DEF Served
  <2>3. other = code /\ j = k
    BY <1>3, <2>1, <2>2
  <2>. QED BY <2>1, <2>3 DEF own
<1>6. ASSUME ~ (k > Len(own))
      PROVE  /\ own[k] \in S /\ own[k] \in Served(S, quota, t)
             /\ own[k] \notin Served(S, quota, t - 1)
  <2>1. k \in 1 .. Len(own)
    BY <1>1, <1>6
  <2>2. own[k] \in S /\ Country[own[k]] = code
    BY <1>1, <2>1, BucketTurns DEF own
  <2>3. own[k] \in Served(S, quota, t)
    <3>1. TurnOf(code, k) <= t
      BY <1>1, <1>2
    <3>. QED BY <1>1, <2>1, <2>2, <3>1 DEF Served, own
  <2>4. ASSUME own[k] \in Served(S, quota, t - 1) PROVE FALSE
    <3>0. PICK other \in ToSet(Asked) : \E j \in 1 .. Len(Bucket(S, other, quota)) :
             own[k] = Bucket(S, other, quota)[j] /\ TurnOf(other, j) <= t - 1
      BY <2>4 DEF Served
    <3>1. PICK j \in 1 .. Len(Bucket(S, other, quota)) :
             own[k] = Bucket(S, other, quota)[j] /\ TurnOf(other, j) <= t - 1
      BY <3>0
    <3>2. other = code
      BY <2>2, <3>1, BucketTurns
    <3>3. j \in 1 .. Len(own) /\ own[j] = own[k]
      BY <3>1, <3>2 DEF own
    <3>4. j = k
      BY <1>1, <2>1, <3>3 DEF IsInjective
    <3>. QED BY <1>3, <3>1, <3>2, <3>4
  <2>. QED BY <2>2, <2>3, <2>4
<1>7. k > Len(own) => Served(S, quota, t) = Served(S, quota, t - 1)
  <2>1. ASSUME k > Len(own), NEW c \in Served(S, quota, t)
        PROVE  c \in Served(S, quota, t - 1)
    <3>1. ~ (k \in 1 .. Len(own))
      BY <1>1, <2>1
    <3>. QED BY <1>5, <3>1
  <2>. QED BY <1>4, <2>1
<1>8. ~ (k > Len(own)) => Served(S, quota, t) = Served(S, quota, t - 1) \cup {own[k]}
  BY <1>4, <1>5, <1>6
<1>. QED BY <1>6, <1>7, <1>8 DEF code, own, k, Serves

\* The limit is met turn by turn.
LEMMA TakenServes ==
    ASSUME NEW S \in SUBSET Configs, NEW total \in Nat \ {0}, NEW quota \in Nat,
           NEW t \in 0 .. Len(Turns(S))
    PROVE  ServedBy(Taken(S, total, quota)[t], S, total, quota, t)
<1> DEFINE N == Len(Turns(S))
           T == Taken(S, total, quota)
           Z == {i \in 0 .. N : ServedBy(T[i], S, total, quota, i)}
<1>1. N \in Nat
  BY TurnIs
<1>2. /\ T \in [0 .. N -> Seq(S)] /\ T[0] = <<>>
      /\ \A i \in 1 .. N : T[i] = AfterTurn(S, total, quota, i, T[i - 1])
  BY TakenIs
<1>. HIDE DEF T
<1>3. 0 \in Z
  <2>1. Served(S, quota, 0) = {}
    <3>1. ASSUME NEW code \in ToSet(Asked), NEW k \in 1 .. Len(Bucket(S, code, quota))
          PROVE  ~ (TurnOf(code, k) <= 0)
      BY BucketTurns, <1>1
    <3>. QED BY <3>1 DEF Served
  <2>2. ServedBy(<<>>, S, total, quota, 0)
    <3>1. 0 \in 0 .. 0 /\ 0 <= total
      OBVIOUS
    <3>2. ToSet(<<>>) = Served(S, quota, 0)
      BY <2>1, EmptyIs
    <3>. QED BY <3>1, <3>2, EmptyIs DEF ServedBy
  <2>3. 0 \in 0 .. N
    BY <1>1
  <2>. QED BY <1>2, <2>2, <2>3
<1>4. ASSUME NEW i \in 0 .. N - 1, i \in Z PROVE i + 1 \in Z
  <2> DEFINE before == T[i]
             after == T[i + 1]
             code == Turns(S)[i + 1].code
             own == Bucket(S, code, quota)
             k == Turns(S)[i + 1].round
  <2>1. i + 1 \in 1 .. N /\ i + 1 \in 0 .. N /\ (i + 1) - 1 = i /\ i \in Nat
    BY <1>1
  <2>2. after = AfterTurn(S, total, quota, i + 1, before)
    BY <1>2, <2>1
  <2>3. /\ before \in Seq(S) /\ IsInjective(before) /\ Len(before) <= total
        /\ Len(before) \in Nat
    BY <1>4 DEF ServedBy
  <2>4. PICK m \in 0 .. i : /\ ToSet(before) = Served(S, quota, m)
                            /\ m = i \/ Len(before) = total
    BY <1>4 DEF ServedBy
  <2>5. m \in 0 .. i + 1 /\ i + 1 \in 0 .. i + 1
    BY <2>1
  <2>8. /\ k > Len(own) => Served(S, quota, i + 1) = Served(S, quota, i)
        /\ ~ (k > Len(own)) =>
             /\ own[k] \in S /\ own[k] \notin Served(S, quota, i)
             /\ Served(S, quota, i + 1) = Served(S, quota, i) \cup {own[k]}
    <3>1. i + 1 \in 1 .. N
      BY <2>1
    <3>2. Serves(S, quota, (i + 1) - 1, i + 1)
      BY <3>1, ServedGrows
    <3>3. Serves(S, quota, i, i + 1)
      BY <2>1, <3>2
    <3>. QED BY <3>3 DEF Serves
  <2>. HIDE DEF before, after
  <2>9. after = IF Len(before) >= total \/ k > Len(own) THEN before
                ELSE Append(before, own[k])
    BY <2>2, Zenon DEF AfterTurn
  <2>. HIDE DEF code, own, k
  <2>6. CASE Len(before) >= total
    <3>1. after = before /\ Len(after) = total
      BY <2>3, <2>6, <2>9
    <3>2. ServedBy(after, S, total, quota, i + 1)
      BY <2>3, <2>4, <2>5, <3>1 DEF ServedBy
    <3>. QED BY <2>1, <3>2 DEF after
  <2>7. CASE ~ (Len(before) >= total)
    <3>1. ToSet(before) = Served(S, quota, i)
      BY <2>3, <2>4, <2>7
    <3>2. CASE k > Len(own)
      <4>1. after = before
        BY <2>9, <3>2
      <4>2. ToSet(after) = Served(S, quota, i + 1)
        BY <2>8, <3>1, <3>2, <4>1
      <4>3. ServedBy(after, S, total, quota, i + 1)
        BY <2>3, <2>5, <4>1, <4>2 DEF ServedBy
      <4>. QED BY <2>1, <4>3 DEF after
    <3>3. CASE ~ (k > Len(own))
      <4>1. after = Append(before, own[k])
        BY <2>7, <2>9, <3>3
      <4>2. /\ own[k] \in S /\ own[k] \notin ToSet(before)
            /\ Served(S, quota, i + 1) = ToSet(before) \cup {own[k]}
        BY <2>8, <3>1, <3>3
      <4>3. /\ after \in Seq(S) /\ IsInjective(after) /\ Len(after) = Len(before) + 1
            /\ ToSet(after) = Served(S, quota, i + 1)
        <5> DEFINE x == own[k]
        <5>1. x \in S /\ x \notin ToSet(before)
          BY <4>2
        <5>. HIDE DEF x
        <5>2. /\ Append(before, x) \in Seq(S) /\ IsInjective(Append(before, x))
              /\ Len(Append(before, x)) = Len(before) + 1
              /\ ToSet(Append(before, x)) = ToSet(before) \cup {x}
          BY <2>3, <5>1, AppendedIs
        <5>. QED BY <4>1, <4>2, <5>2 DEF x
      <4>4. Len(after) <= total
        BY <2>3, <2>7, <4>3
      <4>5. ServedBy(after, S, total, quota, i + 1)
        BY <2>5, <4>3, <4>4 DEF ServedBy
      <4>. QED BY <2>1, <4>5 DEF after
    <3>. QED BY <3>2, <3>3
  <2>. QED BY <2>6, <2>7
<1>. HIDE DEF Z
<1>5. 0 .. N \subseteq Z
  BY <1>1, <1>3, <1>4, UpTo
<1>. QED BY <1>5 DEF Z, T

\* The first m turns serve the first of a country, as many as it had turns.
LEMMA ServedOf ==
    ASSUME NEW S \in SUBSET Configs, NEW quota \in Nat, NEW m \in Nat,
           NEW code \in ToSet(Asked)
    PROVE  LET n == Cardinality({c \in Served(S, quota, m) : Country[c] = code})
               q == Bucket(S, code, quota)
           IN  /\ n \in 0 .. Len(q)
               /\ \A k \in 1 .. n : TurnOf(code, k) <= m
               /\ n < Len(q) => ~ (TurnOf(code, n + 1) <= m)
<1> DEFINE q == Bucket(S, code, quota)
           J == {k \in 1 .. Len(q) : TurnOf(code, k) <= m}
           M == {k \in Nat : k + 1 \notin J}
           own == OwnOf(S, code)
           part == {c \in Served(S, quota, m) : Country[c] = code}
<1>1. q \in Seq(own) /\ IsInjective(q) /\ Len(q) \in Nat /\ DOMAIN q = 1 .. Len(q)
  <2>1. q \in Seq(own) /\ IsInjective(q)
    BY BucketIs
  <2>. HIDE DEF q, own
  <2>. QED BY <2>1
<1>2. ASSUME NEW k \in 1 .. Len(q)
      PROVE  /\ TurnOf(code, k) \in Nat /\ q[k] \in S /\ Country[q[k]] = code
             /\ \A j \in 1 .. k - 1 : TurnOf(code, j) < TurnOf(code, k)
  <2>1. \A j \in 1 .. k : j \in Nat \ {0}
    BY <1>1
  <2>2. k \in 1 .. k /\ \A j \in 1 .. k - 1 : j \in 1 .. k /\ j < k
    BY <1>1
  <2>3. TurnOf(code, k) \in Nat
    BY <2>1, <2>2, TurnsDiffer
  <2>4. \A j \in 1 .. k - 1 : TurnOf(code, j) < TurnOf(code, k)
    BY <2>1, <2>2, TurnsDiffer
  <2>. QED BY <2>3, <2>4, BucketTurns
<1>. HIDE DEF q
<1>3. PICK r \in M : \A k \in M : r <= k
  <2>1. Len(q) \in M
    BY <1>1
  <2>2. M \in SUBSET Nat /\ M # {}
    BY <2>1
  <2>. HIDE DEF M
  <2>. QED BY <2>2, LeastNumber
<1>4. r \in Nat /\ r + 1 \notin J /\ r <= Len(q)
  BY <1>1, <1>3
<1>5. ASSUME NEW k \in 1 .. r PROVE k \in J
  <2>1. k - 1 \in Nat /\ ~ (r <= k - 1)
    BY <1>4
  <2>2. (k - 1) + 1 = k
    BY <1>4
  <2>. QED BY <1>3, <2>1, <2>2
<1>6. ASSUME NEW k \in J PROVE k \in 1 .. r
  <2>1. k \in 1 .. Len(q) /\ TurnOf(code, k) <= m /\ k \in Nat
    BY <1>1
  <2>2. ASSUME r + 1 < k PROVE FALSE
    <3>1. r + 1 \in 1 .. k - 1 /\ r + 1 \in 1 .. Len(q)
      BY <1>1, <1>4, <2>1, <2>2
    <3>2. TurnOf(code, r + 1) < TurnOf(code, k) /\ TurnOf(code, r + 1) \in Nat
      BY <1>2, <2>1, <3>1
    <3>3. TurnOf(code, r + 1) <= m
      BY <1>2, <2>1, <3>2
    <3>. QED BY <1>4, <3>1, <3>3
  <2>. QED BY <1>4, <2>1, <2>2
<1>7. /\ FirstOf(q, r) \in Seq(own) /\ IsInjective(FirstOf(q, r))
      /\ Len(FirstOf(q, r)) = r
      /\ \A i \in 1 .. r : FirstOf(q, r)[i] = q[i]
  BY <1>1, <1>4, FirstOfIs DEF Least
<1>8. Cardinality(ToSet(FirstOf(q, r))) = r
  BY <1>7, DistinctLength
<1>9. part = ToSet(FirstOf(q, r))
  <2>1. ASSUME NEW i \in 1 .. r PROVE q[i] \in part
    <3>1. i \in 1 .. Len(q) /\ TurnOf(code, i) <= m
      BY <1>5
    <3>. QED BY <1>2, <3>1 DEF Served, q
  <2>2. ASSUME NEW c \in part PROVE \E i \in 1 .. r : c = q[i]
    <3>1. PICK other \in ToSet(Asked) : \E j \in 1 .. Len(Bucket(S, other, quota)) :
             c = Bucket(S, other, quota)[j] /\ TurnOf(other, j) <= m
      BY DEF Served
    <3>2. PICK j \in 1 .. Len(Bucket(S, other, quota)) :
             c = Bucket(S, other, quota)[j] /\ TurnOf(other, j) <= m
      BY <3>1
    <3>3. other = code
      <4>1. Country[Bucket(S, other, quota)[j]] = other
        <5>. HIDE DEF part, own, J, M
        <5>. QED BY BucketTurns
      <4>2. Country[c] = code
        OBVIOUS
      <4>. QED BY <3>2, <4>1, <4>2
    <3>4. j \in J /\ c = q[j]
      BY <3>2, <3>3 DEF q
    <3>. QED BY <1>6, <3>4
  <2>3. DOMAIN FirstOf(q, r) = 1 .. r
    BY <1>7
  <2>. HIDE DEF part
  <2>. QED BY <1>7, <2>1, <2>2, <2>3 DEF ToSet
<1>10. Cardinality(part) = r
  BY <1>8, <1>9
<1>11. r < Len(q) => ~ (TurnOf(code, r + 1) <= m)
  BY <1>1, <1>4
<1>12. \A k \in 1 .. r : TurnOf(code, k) <= m
  BY <1>5
<1>. HIDE DEF part, J
<1>13. r \in 0 .. Len(q)
  BY <1>1, <1>4
<1>. QED BY <1>10, <1>11, <1>12, <1>13 DEF q, part

\* No country has two more than another that has more to give.
Shares(q, S, quota) ==
    \A a, b \in ToSet(Asked) :
       Cardinality(OfCountry(q, a)) >= Cardinality(OfCountry(q, b)) + 2
          => Cardinality(OfCountry(q, b)) = Within(OwnOf(S, b), quota)

\* Whoever is served turn by turn is shared so.
LEMMA ServedShare ==
    ASSUME NEW S \in SUBSET Configs, NEW quota \in Nat, NEW m \in Nat,
           NEW q, ToSet(q) = Served(S, quota, m)
    PROVE  Shares(q, S, quota)
<1> SUFFICES ASSUME NEW a \in ToSet(Asked), NEW b \in ToSet(Asked),
                    Cardinality(OfCountry(q, a)) >= Cardinality(OfCountry(q, b)) + 2
             PROVE  Cardinality(OfCountry(q, b)) = Within(OwnOf(S, b), quota)
  BY DEF Shares
<1> DEFINE x == Cardinality(OfCountry(q, a))
           y == Cardinality(OfCountry(q, b))
           z == Len(Bucket(S, b, quota))
<1>1. /\ x \in 0 .. Len(Bucket(S, a, quota))
      /\ \A k \in 1 .. x : TurnOf(a, k) <= m
  <2>1. x = Cardinality({c \in Served(S, quota, m) : Country[c] = a})
    BY DEF OfCountry
  <2>. QED BY <2>1, ServedOf
<1>2. y \in 0 .. z /\ (y < z => ~ (TurnOf(b, y + 1) <= m))
  <2>1. y = Cardinality({c \in Served(S, quota, m) : Country[c] = b})
    BY DEF OfCountry
  <2>. QED BY <2>1, ServedOf
<1>3. z = Within(OwnOf(S, b), quota) /\ z \in Nat
  <2>1. z = Within(OwnOf(S, b), quota) /\ Bucket(S, b, quota) \in Seq(OwnOf(S, b))
    BY BucketIs
  <2>. QED BY <2>1
<1>. HIDE DEF z
<1>4. x >= y + 2 /\ x \in Nat /\ y \in Nat
  <2>1. x \in Nat
    BY <1>1
  <2>. QED BY <1>2, <1>3, <2>1
<1>. HIDE DEF x, y
<1>5. ASSUME y < z PROVE FALSE
  <2>1. y + 1 \in Nat \ {0} /\ y + 2 \in Nat \ {0} /\ y + 1 < y + 2 /\ y + 2 \in 1 .. x
    BY <1>4
  <2>2. TurnOf(b, y + 1) < TurnOf(a, y + 2) /\ TurnOf(b, y + 1) \in Nat
    BY <2>1, TurnsDiffer
  <2>3. TurnOf(a, y + 2) \in Nat
    BY <2>1, TurnsDiffer
  <2>4. TurnOf(a, y + 2) <= m
    BY <1>1, <2>1
  <2>. QED BY <1>2, <1>5, <2>2, <2>3, <2>4
<1>6. y = z
  BY <1>2, <1>3, <1>4, <1>5
<1>. QED BY <1>3, <1>6 DEF y

\* Every country has given what it may.
Exhausts(q, S, quota) ==
    \A code \in ToSet(Asked) :
       Cardinality(OfCountry(q, code)) = Within(OwnOf(S, code), quota)

\* All the turns serve whom the quotas let in.
LEMMA AllExhausted ==
    ASSUME NEW S \in SUBSET Configs, NEW quota \in Nat,
           NEW q, ToSet(q) = Served(S, quota, Len(Turns(S)))
    PROVE  Exhausts(q, S, quota)
<1> SUFFICES ASSUME NEW code \in ToSet(Asked)
             PROVE  Cardinality(OfCountry(q, code)) = Within(OwnOf(S, code), quota)
  BY DEF Exhausts
<1> DEFINE N == Len(Turns(S))
           n == Cardinality(OfCountry(q, code))
           z == Len(Bucket(S, code, quota))
<1>1. N \in Nat
  BY TurnIs
<1>2. z = Within(OwnOf(S, code), quota) /\ z \in Nat
  <2>1. z = Within(OwnOf(S, code), quota) /\ Bucket(S, code, quota) \in Seq(OwnOf(S, code))
    BY BucketIs
  <2>. QED BY <2>1
<1>3. n \in 0 .. z /\ (n < z => ~ (TurnOf(code, n + 1) <= N))
  <2>1. n = Cardinality({c \in Served(S, quota, N) : Country[c] = code})
    BY DEF OfCountry
  <2>. HIDE DEF N
  <2>. QED BY <1>1, <2>1, ServedOf
<1>4. ASSUME n < z PROVE FALSE
  <2>1. n + 1 \in 1 .. Len(Bucket(S, code, quota))
    BY <1>2, <1>3, <1>4
  <2>2. TurnOf(code, n + 1) \in 1 .. N
    BY <2>1, BucketTurns
  <2>. HIDE DEF n, N
  <2>. QED BY <1>1, <1>3, <1>4, <2>2
<1>. HIDE DEF n, z
<1>5. n = z
  BY <1>2, <1>3, <1>4
<1>. QED BY <1>2, <1>5 DEF n

\* All the turns serve everyone there is, if there is no quota.
LEMMA AllServed ==
    ASSUME NEW S \in SUBSET Configs
    PROVE  Served(S, 0, Len(Turns(S))) = S
<1>1. ASSUME NEW c \in S PROVE c \in Served(S, 0, Len(Turns(S)))
  <2> DEFINE code == Country[c]
             q == Bucket(S, code, 0)
  <2>1. code \in ToSet(Asked)
    BY AskedIs
  <2>2. c \in ToSet(q) /\ DOMAIN q = 1 .. Len(q)
    <3>1. q \in Seq(OwnOf(S, code)) /\ ToSet(q) = OwnOf(S, code)
      BY BucketIs
    <3>2. DOMAIN q = 1 .. Len(q)
      BY <3>1
    <3>. QED BY <3>1, <3>2 DEF OwnOf
  <2>3. PICK k \in 1 .. Len(q) : c = q[k]
    BY <2>2 DEF ToSet
  <2>4. TurnOf(code, k) \in 1 .. Len(Turns(S))
    BY <2>1, BucketTurns
  <2>5. TurnOf(code, k) <= Len(Turns(S))
    BY <2>4, TurnIs
  <2>. QED BY <2>1, <2>3, <2>5 DEF Served
<1>. QED BY <1>1 DEF Served

\* What the balanced limit leaves of a list: some of its configs, each once, at most
\* the limit, shared among the countries, and less only if no country may give more.
LEMMA BalancedIs ==
    ASSUME NEW S \in SUBSET Configs, NEW total \in Nat, NEW quota \in Nat
    PROVE  /\ Balanced(S, total, quota) \in Seq(S)
           /\ IsInjective(Balanced(S, total, quota))
           /\ total > 0 => /\ Len(Balanced(S, total, quota)) <= total
                           /\ Shares(Balanced(S, total, quota), S, quota)
                           /\ \/ Len(Balanced(S, total, quota)) = total
                              \/ Exhausts(Balanced(S, total, quota), S, quota)
           /\ total > 0 /\ quota = 0 =>
                Len(Balanced(S, total, quota)) = Least(total, Cardinality(S))
<1> DEFINE q == Balanced(S, total, quota)
           N == Len(Turns(S))
<1>1. CASE total = 0
  <2>1. q = InOrder(ByPlace(S))
    BY <1>1 DEF Balanced
  <2>. HIDE DEF q
  <2>2. q \in Seq(S) /\ IsInjective(q)
    BY <2>1, SortsEnumerate DEF Enumerates
  <2>. QED BY <1>1, <2>2 DEF q
<1>2. CASE total # 0
  <2>1. q = Taken(S, total, quota)[N]
    BY <1>2, Zenon DEF Balanced
  <2>2. N \in Nat /\ N \in 0 .. N
    BY TurnIs
  <2>3. ServedBy(q, S, total, quota, N)
    BY <1>2, <2>1, <2>2, TakenServes
  <2>. HIDE DEF q
  <2>4. q \in Seq(S) /\ IsInjective(q) /\ Len(q) <= total /\ Len(q) \in Nat
    BY <2>3 DEF ServedBy
  <2>5. PICK m \in 0 .. N : ToSet(q) = Served(S, quota, m) /\ (m = N \/ Len(q) = total)
    BY <2>3 DEF ServedBy
  <2>6. Shares(q, S, quota)
    BY <2>2, <2>5, ServedShare
  <2>7. Cardinality(ToSet(q)) = Len(q) /\ ToSet(q) \subseteq S
    BY <2>4, <2>5, DistinctLength DEF Served
  <2>8. Len(q) <= Cardinality(S) /\ Cardinality(S) \in Nat
    BY <2>7, FiniteLists, FS_Subset
  <2>9. quota = 0 => Len(q) = total \/ Len(q) = Cardinality(S)
    BY <2>5, <2>7, AllServed
  <2>10. quota = 0 => Len(q) = Least(total, Cardinality(S))
    BY <2>4, <2>8, <2>9 DEF Least
  <2>11. Len(q) = total \/ Exhausts(q, S, quota)
    BY <2>5, AllExhausted
  <2>. QED BY <2>4, <2>6, <2>10, <2>11 DEF q
<1>. QED BY <1>1, <1>2
-----------------------------------------------------------------------------
(* The balance of the whitelist.                                           *)

\* A percentage of a number, all of it at 100.
LEMMA Percent ==
    ASSUME NEW n \in Nat, NEW p \in 0 .. 100
    PROVE  /\ (n * p) \div 100 \in 0 .. n
           /\ p = 100 => (n * p) \div 100 = n
<1> DEFINE x == n * p
           y == n * (100 - p)
           q == x \div 100
           r == x % 100
<1>1. x \in Nat /\ y \in Nat
  <2>1. 100 - p \in Nat /\ p \in Nat
    OBVIOUS
  <2>. QED BY <2>1
<1>2. x + y = 100 * n
  OBVIOUS
<1>3. p = 100 => x = 100 * n
  OBVIOUS
<1>. HIDE DEF x, y
<1>4. q \in Nat /\ r \in 0 .. 99 /\ x = 100 * q + r
  BY <1>1
<1>. HIDE DEF q, r
<1>. QED BY <1>1, <1>2, <1>3, <1>4 DEF q, x

\* The parts of the balance: the length of one is made up from the other, unless
\* Europe has no part.
LEMMA PartsLength ==
    ASSUME NEW total \in Nat, NEW rt \in 0 .. total, NEW a \in Nat, NEW b \in Nat
    PROVE  LET et == total - rt
               pa == Least(rt, a)
               pb == Least(et, b)
               missing == total - pa - pb
               len == IF et > 0 /\ pa < rt /\ b > pb THEN pa + Least(pb + missing, b)
                      ELSE IF pb < et /\ a > pa THEN Least(pa + missing, a) + pb
                      ELSE pa + pb
           IN  /\ missing \in Nat /\ et \in Nat /\ len <= total
               /\ et > 0 => len = Least(total, a + b)
BY DEF Least

\* The balance has some of the list, each once, at most the total; where Europe has
\* a part, the total or all of both countries; where Russia has it all, only Russia.
Balances(q, S, total) ==
    /\ q \in Seq(S) /\ IsInjective(q) /\ Len(q) <= total
    /\ (total * settings.ru) \div 100 < total =>
         Len(q) = Least(total, Cardinality({c \in S : Country[c] \in Europe \cup {"RU"}}))
    /\ settings.ru = 100 => \A c \in ToSet(q) : Country[c] = "RU"

LEMMA BalanceIs ==
    ASSUME NEW S \in SUBSET Configs, NEW total \in Nat, settings \in Settings
    PROVE  Balances(WhitelistBalance(S, total), S, total)
<1> DEFINE R == {c \in S : Country[c] = "RU"}
           E == {c \in S : Country[c] \in Europe}
           rt == (total * settings.ru) \div 100
           et == total - rt
           ru == Balanced(R, total, 0)
           eu == Balanced(E, total, 0)
           ruPart == FirstOf(ru, rt)
           euPart == FirstOf(eu, et)
           missing == total - Len(ruPart) - Len(euPart)
           q == IF et > 0 /\ Len(ruPart) < rt /\ Len(eu) > Len(euPart)
                THEN ruPart \o FirstOf(eu, Len(euPart) + missing)
                ELSE IF Len(euPart) < et /\ Len(ru) > Len(ruPart)
                THEN FirstOf(ru, Len(ruPart) + missing) \o euPart
                ELSE ruPart \o euPart
<1>1. settings.ru \in 0 .. 100
  BY SelectionAssumption
<1>2. rt \in 0 .. total /\ (settings.ru = 100 => rt = total)
  BY <1>1, Percent
<1>3. WhitelistBalance(S, total) = q
  BY DEF WhitelistBalance
<1>4. R \in SUBSET Configs /\ E \in SUBSET Configs
  OBVIOUS
<1>5. /\ ru \in Seq(R) /\ IsInjective(ru) /\ Len(ru) \in Nat
      /\ eu \in Seq(E) /\ IsInjective(eu) /\ Len(eu) \in Nat
      /\ total > 0 => /\ Len(ru) = Least(total, Cardinality(R))
                      /\ Len(eu) = Least(total, Cardinality(E))
  <2>. HIDE DEF R, E
  <2>1. ru \in Seq(R) /\ IsInjective(ru) /\ eu \in Seq(E) /\ IsInjective(eu)
    BY <1>4, BalancedIs
  <2>2. total > 0 => /\ Len(ru) = Least(total, Cardinality(R))
                     /\ Len(eu) = Least(total, Cardinality(E))
    BY <1>4, BalancedIs
  <2>. HIDE DEF ru, eu
  <2>. QED BY <2>1, <2>2
<1>6. R \cap E = {} /\ R \subseteq S /\ E \subseteq S
  BY SelectionAssumption
<1>7. \A c \in R : Country[c] = "RU"
  OBVIOUS
<1>8. R \cup E = {c \in S : Country[c] \in Europe \cup {"RU"}}
  OBVIOUS
<1>. HIDE DEF R, E, rt, ru, eu
<1> DEFINE pa == Least(rt, Len(ru))
           pb == Least(et, Len(eu))
<1>9. Len(ruPart) = pa /\ Len(euPart) = pb /\ pa \in Nat /\ pb \in Nat
  <2>1. rt \in Nat /\ et \in Nat
    BY <1>2
  <2>. QED BY <1>5, <2>1, FirstOfIs, LeastIs
<1>10. missing \in Nat /\ et \in Nat /\ rt \in Nat /\ missing = total - pa - pb
  <2>1. et \in Nat /\ rt \in Nat
    BY <1>2
  <2>2. total - pa - pb \in Nat
    BY <1>2, <1>5, PartsLength
  <2>. QED BY <1>9, <2>1, <2>2
<1>11. ASSUME NEW x \in Nat, NEW y \in Nat
       PROVE  LET j == FirstOf(ru, x) \o FirstOf(eu, y)
              IN  /\ j \in Seq(S) /\ IsInjective(j)
                  /\ Len(j) = Least(x, Len(ru)) + Least(y, Len(eu))
  <2> DEFINE u == FirstOf(ru, x)
             v == FirstOf(eu, y)
  <2>1. /\ u \in Seq(R) /\ IsInjective(u) /\ Len(u) = Least(x, Len(ru))
        /\ v \in Seq(E) /\ IsInjective(v) /\ Len(v) = Least(y, Len(eu))
    BY <1>5, FirstOfIs
  <2>. HIDE DEF u, v
  <2>2. u \in Seq(S) /\ v \in Seq(S)
    BY <1>6, <2>1, SeqMonotonic
  <2>3. ToSet(u) \subseteq R /\ ToSet(v) \subseteq E
    BY <2>1, ElementOfSeq DEF ToSet
  <2>4. u \o v \in Seq(S) /\ IsInjective(u \o v) /\ Len(u \o v) = Len(u) + Len(v)
    BY <1>6, <2>1, <2>2, <2>3, JoinedIs
  <2>. QED BY <2>1, <2>4 DEF u, v
<1>12. /\ q \in Seq(S) /\ IsInjective(q)
       /\ Len(q) = IF et > 0 /\ pa < rt /\ Len(eu) > pb
                   THEN pa + Least(pb + missing, Len(eu))
                   ELSE IF pb < et /\ Len(ru) > pa
                   THEN Least(pa + missing, Len(ru)) + pb ELSE pa + pb
  <2>1. CASE et > 0 /\ Len(ruPart) < rt /\ Len(eu) > Len(euPart)
    <3>1. q = FirstOf(ru, rt) \o FirstOf(eu, Len(euPart) + missing)
      BY <2>1
    <3>2. Len(euPart) + missing \in Nat
      BY <1>9, <1>10
    <3>. HIDE DEF q, pa, pb, missing, et, euPart, ruPart
    <3>3. /\ q \in Seq(S) /\ IsInjective(q)
          /\ Len(q) = Least(rt, Len(ru)) + Least(Len(euPart) + missing, Len(eu))
      BY <1>10, <1>11, <3>1, <3>2
    <3>. QED BY <1>9, <2>1, <3>3 DEF pa
  <2>2. CASE /\ ~ (et > 0 /\ Len(ruPart) < rt /\ Len(eu) > Len(euPart))
             /\ Len(euPart) < et /\ Len(ru) > Len(ruPart)
    <3>1. q = FirstOf(ru, Len(ruPart) + missing) \o FirstOf(eu, et)
      BY <2>2
    <3>2. Len(ruPart) + missing \in Nat
      BY <1>9, <1>10
    <3>. HIDE DEF q, pa, pb, missing, et, euPart, ruPart
    <3>3. /\ q \in Seq(S) /\ IsInjective(q)
          /\ Len(q) = Least(Len(ruPart) + missing, Len(ru)) + Least(et, Len(eu))
      BY <1>10, <1>11, <3>1, <3>2
    <3>. QED BY <1>9, <2>2, <3>3 DEF pb
  <2>3. CASE /\ ~ (et > 0 /\ Len(ruPart) < rt /\ Len(eu) > Len(euPart))
             /\ ~ (Len(euPart) < et /\ Len(ru) > Len(ruPart))
    <3>1. q = FirstOf(ru, rt) \o FirstOf(eu, et)
      BY <2>3
    <3>. HIDE DEF q, pa, pb, missing, et, euPart, ruPart
    <3>3. /\ q \in Seq(S) /\ IsInjective(q)
          /\ Len(q) = Least(rt, Len(ru)) + Least(et, Len(eu))
      BY <1>10, <1>11, <3>1
    <3>. QED BY <1>9, <2>3, <3>3 DEF pa, pb
  <2>. QED BY <2>1, <2>2, <2>3
<1>13. Len(q) <= total /\ (et > 0 => Len(q) = Least(total, Len(ru) + Len(eu)))
  <2> DEFINE a == Len(ru)
             b == Len(eu)
             len == Len(q)
  <2>1. /\ len = IF et > 0 /\ pa < rt /\ b > pb THEN pa + Least(pb + missing, b)
                 ELSE IF pb < et /\ a > pa THEN Least(pa + missing, a) + pb ELSE pa + pb
        /\ pa = Least(rt, a) /\ pb = Least(et, b) /\ a \in Nat /\ b \in Nat
        /\ missing = total - pa - pb /\ et = total - rt
    BY <1>5, <1>10, <1>12
  <2>. HIDE DEF a, b, len, pa, pb, missing, et
  <2>2. len <= total /\ (et > 0 => len = Least(total, a + b))
    BY <1>2, <2>1 DEF Least
  <2>. QED BY <2>2 DEF a, b, len
<1>14. ASSUME rt < total PROVE Len(q) = Least(total, Cardinality(R \cup E))
  <2>1. IsFiniteSet(R) /\ IsFiniteSet(E) /\ Cardinality(R) \in Nat /\ Cardinality(E) \in Nat
    BY <1>4, FiniteLists
  <2>2. Cardinality(R \cup E) = Cardinality(R) + Cardinality(E)
    <3>1. Cardinality(R \cap E) = 0
      BY <1>6, FS_EmptySet, Zenon
    <3>2. Cardinality(R \cup E) = Cardinality(R) + Cardinality(E) - Cardinality(R \cap E)
      BY <2>1, FS_Union
    <3>. QED BY <2>1, <3>1, <3>2
  <2>3. et > 0 /\ total > 0
    BY <1>2, <1>14
  <2>. HIDE DEF q, et
  <2>4. /\ Len(q) = Least(total, Len(ru) + Len(eu))
        /\ Len(ru) = Least(total, Cardinality(R)) /\ Len(eu) = Least(total, Cardinality(E))
    BY <1>5, <1>13, <2>3
  <2>. QED BY <2>1, <2>2, <2>4 DEF Least
<1>15. ASSUME settings.ru = 100, NEW c \in ToSet(q) PROVE Country[c] = "RU"
  <2>1. et = 0 /\ pb = 0
    BY <1>2, <1>5, <1>15 DEF Least
  <2>2. ~ (et > 0) /\ ~ (Len(euPart) < et)
    BY <1>9, <2>1
  <2>3. q = ruPart \o euPart
    BY <2>2
  <2>4. ruPart \in Seq(R) /\ euPart \in Seq(E) /\ Len(euPart) = 0
    BY <1>5, <1>9, <1>10, <2>1, FirstOfIs
  <2>5. ToSet(ruPart) \subseteq R /\ ToSet(euPart) = {}
    <3>. HIDE DEF ruPart, euPart
    <3>1. ToSet(ruPart) \subseteq R
      BY <2>4, ElementOfSeq DEF ToSet
    <3>2. ToSet(euPart) = {}
      BY <2>4 DEF ToSet
    <3>. QED BY <3>1, <3>2
  <2>6. ruPart \in Seq(S) /\ euPart \in Seq(S)
    BY <1>6, <2>4, SeqMonotonic
  <2>. HIDE DEF q, ruPart, euPart
  <2>7. ToSet(q) = ToSet(ruPart) \cup ToSet(euPart)
    BY <2>3, <2>6, JoinedIs
  <2>. QED BY <1>7, <1>15, <2>5, <2>7
<1>. HIDE DEF q
<1>16. rt < total =>
         Len(q) = Least(total, Cardinality({c \in S : Country[c] \in Europe \cup {"RU"}}))
  BY <1>8, <1>14
<1>17. settings.ru = 100 => \A c \in ToSet(q) : Country[c] = "RU"
  BY <1>15
<1>. QED BY <1>3, <1>12, <1>13, <1>16, <1>17 DEF rt, Balances
-----------------------------------------------------------------------------
(* One config of each server.                                              *)

\* No two configs of S have one server.
OneEach(S) == \A c, d \in S : Server[c] = Server[d] => c = d

\* There are at most as many servers as configs, as many if there is one of each.
LEMMA OneEachCount ==
    ASSUME NEW S, IsFiniteSet(S)
    PROVE  /\ IsFiniteSet(Servers(S)) /\ Cardinality(Servers(S)) <= Cardinality(S)
           /\ OneEach(S) => Cardinality(Servers(S)) = Cardinality(S)
<1> DEFINE f == [c \in S |-> Server[c]]
           T == Servers(S)
<1>1. f \in [S -> T] /\ \A x \in T : \E c \in S : f[c] = x
  BY DEF Servers
<1>2. f \in Surjection(S, T)
  BY <1>1 DEF Surjection
<1>3. IsFiniteSet(T) /\ Cardinality(T) <= Cardinality(S)
  BY <1>2, FS_Surjection
<1>4. ASSUME OneEach(S) PROVE Cardinality(T) = Cardinality(S)
  <2>1. f \in Injection(S, T)
    BY <1>1, <1>4 DEF Injection, IsInjective, OneEach
  <2>2. f \in Bijection(S, T)
    BY <1>2, <2>1 DEF Bijection
  <2>3. ExistsBijection(S, T)
    BY <2>2 DEF ExistsBijection
  <2>. QED BY <2>3, FS_Bijection
<1>. QED BY <1>3, <1>4

\* What a config adds to what was taken before it.
AfterConfig(s, target, used, i, before) ==
    IF Len(before) >= target \/ Server[s[i]] \in used \cup Servers(ToSet(before))
    THEN before ELSE Append(before, s[i])

\* What is added is a config of the list.
LEMMA AfterConfigType ==
    ASSUME NEW X, NEW s \in Seq(X), NEW target, NEW used,
           NEW i \in 1 .. Len(s), NEW before \in Seq(X)
    PROVE  AfterConfig(s, target, used, i, before) \in Seq(X)
<1>1. s[i] \in X
  BY ElementOfSeq
<1>. QED BY <1>1, AppendedIs DEF AfterConfig

\* The configs are taken one after the other.
LEMMA UniqueTakenIs ==
    ASSUME NEW X, NEW s \in Seq(X), NEW target, NEW used
    PROVE  LET T == UniqueTaken(s, target, used)
           IN  /\ T \in [0 .. Len(s) -> Seq(X)] /\ T[0] = <<>>
               /\ \A i \in 1 .. Len(s) : T[i] = AfterConfig(s, target, used, i, T[i - 1])
<1> DEFINE N == Len(s)
           solves(f) ==
             f = [i \in 0 .. N |->
                    IF i = 0 THEN <<>> ELSE AfterConfig(s, target, used, i, f[i - 1])]
           G == [i \in 1 .. N |->
                   [before \in Seq(X) |-> AfterConfig(s, target, used, i, before)]]
<1>1. N \in Nat
  OBVIOUS
<1>3. G \in [1 .. N -> [Seq(X) -> Seq(X)]]
  BY AfterConfigType
<1>4. PICK f : Repeats(f, N, Seq(X), <<>>, G)
  <2>. HIDE DEF G, N
  <2>1. <<>> \in Seq(X)
    OBVIOUS
  <2>. QED BY <1>1, <1>3, <2>1, Iterates
<1>13. f \in [0 .. N -> Seq(X)] /\ f[0] = <<>>
  BY <1>4 DEF Repeats
<1>5. ASSUME NEW i \in 1 .. N
      PROVE  i - 1 \in 0 .. N /\ f[i] = AfterConfig(s, target, used, i, f[i - 1])
  <2>1. i - 1 \in 0 .. N /\ f[i - 1] \in Seq(X)
    BY <1>1, <1>13
  <2>2. G[i][f[i - 1]] = AfterConfig(s, target, used, i, f[i - 1])
    BY <2>1
  <2>. HIDE DEF G
  <2>. QED BY <1>4, <2>1, <2>2 DEF Repeats
<1>6. solves(f)
  <2>1. \A i \in 0 .. N :
          f[i] = IF i = 0 THEN <<>> ELSE AfterConfig(s, target, used, i, f[i - 1])
    <3>1. \A i \in 0 .. N : i = 0 \/ i \in 1 .. N
      BY <1>1
    <3>. QED BY <1>13, <1>5, <3>1
  <2>. QED BY <1>13, <2>1
<1>7. UniqueTaken(s, target, used) = CHOOSE g : solves(g)
  BY DEF UniqueTaken, AfterConfig
<1>8. solves(UniqueTaken(s, target, used))
  <2>. HIDE DEF solves
  <2>. QED BY <1>6, <1>7
<1> DEFINE T == UniqueTaken(s, target, used)
<1>. HIDE DEF T
<1>9. DOMAIN T = 0 .. N /\ T[0] = <<>>
  BY <1>1, <1>8 DEF T
<1>10. ASSUME NEW i \in 1 .. N PROVE T[i] = AfterConfig(s, target, used, i, T[i - 1])
  <2>1. i \in 0 .. N /\ i # 0
    BY <1>1
  <2>. QED BY <1>8, <2>1 DEF T
<1>11. 0 .. N \subseteq {i \in 0 .. N : T[i] \in Seq(X)}
  <2> DEFINE Z == {i \in 0 .. N : T[i] \in Seq(X)}
  <2>1. 0 \in Z
    BY <1>1, <1>9
  <2>2. ASSUME NEW i \in 0 .. N - 1, i \in Z PROVE i + 1 \in Z
    <3>1. i + 1 \in 1 .. N /\ (i + 1) - 1 = i
      BY <1>1
    <3>2. T[i + 1] = AfterConfig(s, target, used, i + 1, T[i])
      BY <1>10, <3>1
    <3>3. T[i + 1] \in Seq(X)
      BY <2>2, <3>1, <3>2, AfterConfigType
    <3>. QED BY <1>1, <3>1, <3>3
  <2>. HIDE DEF Z
  <2>3. 0 .. N \subseteq Z
    BY <1>1, <2>1, <2>2, UpTo
  <2>. QED BY <2>3 DEF Z
<1>12. T \in [0 .. N -> Seq(X)]
  <2>1. T = [i \in 0 .. N |-> T[i]]
    BY <1>8, <1>9 DEF T
  <2>. QED BY <1>11, <2>1
<1>. QED BY <1>9, <1>10, <1>12 DEF T

\* After i configs: new servers, one config of each, the target met or none missing.
Picked(q, s, target, used, i) ==
    /\ IsInjective(q) /\ OneEach(ToSet(q)) /\ Len(q) <= target
    /\ ToSet(q) \subseteq ToSet(s) /\ Servers(ToSet(q)) \cap used = {}
    /\ Len(q) = target \/ \A j \in 1 .. i : Server[s[j]] \in used \cup Servers(ToSet(q))

\* One config more.
LEMMA PickedNext ==
    ASSUME NEW X, NEW s \in Seq(X), NEW target \in Nat, NEW used,
           NEW i \in 1 .. Len(s), NEW q \in Seq(X), Picked(q, s, target, used, i - 1)
    PROVE  Picked(AfterConfig(s, target, used, i, q), s, target, used, i)
<1> DEFINE r == AfterConfig(s, target, used, i, q)
           x == s[i]
<1>1. /\ x \in X /\ x \in ToSet(s) /\ Len(q) \in Nat
      /\ \A j \in 1 .. i : j \in 1 .. i - 1 \/ j = i
  BY ElementOfSeq DEF ToSet
<1>2. CASE Len(q) >= target
  <2>1. r = q /\ Len(q) = target
    BY <1>1, <1>2 DEF AfterConfig, Picked
  <2>. HIDE DEF r
  <2>2. Picked(r, s, target, used, i)
    BY <2>1 DEF Picked
  <2>. QED BY <2>2 DEF r
<1>3. CASE ~ (Len(q) >= target) /\ Server[x] \in used \cup Servers(ToSet(q))
  <2>1. r = q
    BY <1>3 DEF AfterConfig
  <2>. HIDE DEF r
  <2>2. ASSUME NEW j \in 1 .. i PROVE Server[s[j]] \in used \cup Servers(ToSet(q))
    BY <1>1, <1>3 DEF Picked
  <2>3. Picked(r, s, target, used, i)
    BY <2>1, <2>2 DEF Picked
  <2>. QED BY <2>3 DEF r
<1>4. CASE ~ (Len(q) >= target) /\ Server[x] \notin used \cup Servers(ToSet(q))
  <2>1. r = Append(q, x)
    BY <1>4 DEF AfterConfig
  <2>2. x \notin ToSet(q)
    BY <1>4 DEF Servers
  <2>. HIDE DEF x, r
  <2>3. /\ IsInjective(r) /\ Len(r) = Len(q) + 1 /\ ToSet(r) = ToSet(q) \cup {x}
    BY <1>1, <2>1, <2>2, AppendedIs DEF Picked
  <2>4. Len(r) <= target
    BY <1>1, <1>4, <2>3
  <2>5. Servers(ToSet(r)) = Servers(ToSet(q)) \cup {Server[x]}
    BY <2>3 DEF Servers
  <2>6. OneEach(ToSet(r))
    BY <1>4, <2>3 DEF OneEach, Picked, Servers
  <2>7. ToSet(r) \subseteq ToSet(s) /\ Servers(ToSet(r)) \cap used = {}
    BY <1>1, <1>4, <2>3, <2>5 DEF Picked
  <2>8. ASSUME NEW j \in 1 .. i PROVE Server[s[j]] \in used \cup Servers(ToSet(r))
    <3>1. Len(q) # target
      BY <1>1, <1>4
    <3>2. CASE j \in 1 .. i - 1
      BY <2>5, <3>1, <3>2 DEF Picked
    <3>3. CASE j = i
      BY <2>5, <3>3 DEF x
    <3>. QED BY <1>1, <3>2, <3>3
  <2>9. Picked(r, s, target, used, i)
    BY <2>3, <2>4, <2>6, <2>7, <2>8 DEF Picked
  <2>. QED BY <2>9 DEF r
<1>. QED BY <1>2, <1>3, <1>4

\* Of a list with one config of each server, none of them used, as many are taken as
\* there are, up to the target; of any list, one of each server, and none used.
LEMMA TakeUniqueIs ==
    ASSUME NEW X, NEW s \in Seq(X), NEW target \in Nat, NEW used
    PROVE  LET q == TakeUnique(s, target, used)
           IN  /\ q \in Seq(X) /\ Picked(q, s, target, used, Len(s))
               /\ OneEach(ToSet(s)) /\ IsInjective(s) /\ Servers(ToSet(s)) \cap used = {}
                    => Len(q) = Least(target, Len(s))
<1> DEFINE q == TakeUnique(s, target, used)
           N == Len(s)
           T == UniqueTaken(s, target, used)
           Z == {i \in 0 .. N : Picked(T[i], s, target, used, i)}
<1>1. N \in Nat /\ DOMAIN s = 1 .. N
  OBVIOUS
<1>2. /\ T \in [0 .. N -> Seq(X)] /\ T[0] = <<>>
      /\ \A i \in 1 .. N : T[i] = AfterConfig(s, target, used, i, T[i - 1])
  BY UniqueTakenIs
<1>8. q = T[N]
  BY DEF TakeUnique
<1>. HIDE DEF T, q
<1>3. 0 \in Z
  <2>1. Picked(<<>>, s, target, used, 0)
    BY EmptyIs DEF Picked, OneEach, Servers
  <2>. QED BY <1>1, <1>2, <2>1
<1>4. ASSUME NEW i \in 0 .. N - 1, i \in Z PROVE i + 1 \in Z
  <2>1. i + 1 \in 1 .. N /\ (i + 1) - 1 = i /\ i + 1 \in 0 .. N /\ i \in 0 .. N
    BY <1>1
  <2>2. T[i] \in Seq(X) /\ Picked(T[i], s, target, used, (i + 1) - 1)
    BY <1>2, <1>4, <2>1
  <2>3. Picked(AfterConfig(s, target, used, i + 1, T[i]), s, target, used, i + 1)
    BY <2>1, <2>2, PickedNext
  <2>4. T[i + 1] = AfterConfig(s, target, used, i + 1, T[i])
    BY <1>2, <2>1
  <2>. QED BY <2>1, <2>3, <2>4
<1>5. 0 .. N \subseteq Z
  <2>. HIDE DEF Z
  <2>. QED BY <1>1, <1>3, <1>4, UpTo
<1>6. q \in Seq(X) /\ Picked(q, s, target, used, N)
  BY <1>1, <1>2, <1>5, <1>8
<1>7. ASSUME OneEach(ToSet(s)), IsInjective(s), Servers(ToSet(s)) \cap used = {}
      PROVE  Len(q) = Least(target, N)
  <2>1. /\ IsFiniteSet(ToSet(s)) /\ Cardinality(ToSet(s)) = N
        /\ IsFiniteSet(ToSet(q)) /\ Cardinality(ToSet(q)) = Len(q)
    BY <1>6, <1>7, DistinctLength DEF Picked
  <2>2. ToSet(q) \subseteq ToSet(s) /\ OneEach(ToSet(q)) /\ Len(q) \in Nat
    BY <1>6 DEF Picked
  <2>3. Len(q) <= N
    BY <2>1, <2>2, FS_Subset
  <2>4. Len(q) <= target
    BY <1>6 DEF Picked
  <2>5. CASE Len(q) = target
    <3>1. target <= N
      BY <2>3, <2>5
    <3>. HIDE DEF N
    <3>. QED BY <1>1, <2>5, <3>1 DEF Least
  <2>6. CASE \A j \in 1 .. N : Server[s[j]] \in used \cup Servers(ToSet(q))
    <3>1. Servers(ToSet(s)) \subseteq Servers(ToSet(q))
      BY <1>1, <1>7, <2>6 DEF Servers, ToSet
    <3>2. /\ IsFiniteSet(Servers(ToSet(q))) /\ Cardinality(Servers(ToSet(q))) = Len(q)
          /\ Cardinality(Servers(ToSet(s))) = N
      BY <1>7, <2>1, <2>2, OneEachCount
    <3>3. N <= Len(q)
      BY <3>1, <3>2, FS_Subset
    <3>. HIDE DEF N
    <3>. QED BY <1>1, <2>2, <2>3, <2>4, <3>3 DEF Least
  <2>. QED BY <1>6, <2>5, <2>6 DEF Picked
<1>. QED BY <1>6, <1>7 DEF q
-----------------------------------------------------------------------------
(* The outputs.                                                            *)

\* Duplicates leave one config of each server, a dead one only if all are dead.
LEMMA DeduplicatedIs ==
    ASSUME NEW S \in SUBSET Configs
    PROVE  /\ Deduplicated(S) \subseteq S /\ OneEach(Deduplicated(S))
           /\ \A c \in Deduplicated(S) \cap dead : \A d \in S :
                 Server[d] = Server[c] => d \in dead
<1>1. \A c, d \in S : ~ (Faster(c, d) /\ Faster(d, c))
  <2>1. \A c \in S : Latency(c) \in Int /\ Place[c] \in Int
    BY SelectionAssumption DEF Latency
  <2>. QED BY <2>1 DEF Faster
<1>2. \A c, d \in S : ~ (Preferred(c, d) /\ Preferred(d, c))
  BY <1>1 DEF Preferred
<1>3. OneEach(Deduplicated(S))
  BY <1>2 DEF OneEach, Deduplicated
<1>4. ASSUME NEW c \in Deduplicated(S) \cap dead, NEW d \in S, Server[d] = Server[c]
      PROVE  d \in dead
  BY <1>4 DEF Deduplicated, Preferred
<1>. QED BY <1>3, <1>4 DEF Deduplicated

\* Lists hold configs that were parsed for them, from the first stage on one of each
\* server, and the outputs are as they should be when they are written.
SelectionInv ==
    /\ settings \in Settings
    /\ kept \in [Lists -> SUBSET Configs] /\ \A l \in Lists : kept[l] \subseteq Parsed[l]
    /\ at # "parsed" => \A l \in Lists : OneEach(kept[l])
    /\ CountriesTakeTurns /\ MixIsFilled

\* The lists and the settings have their types.
LEMMA ListsAreLists ==
    ASSUME SelectionInv
    PROVE  /\ \A l \in Lists : kept[l] \in SUBSET Configs
           /\ UNION {kept[l] : l \in Lists} \in SUBSET Configs
           /\ settings.total \in Nat /\ settings.perCountry \in Nat
           /\ settings.mixBlack \in Nat /\ settings.mixWhite \in Nat
           /\ settings.ru \in 0 .. 100 /\ settings.minFast \in Nat
           /\ settings.minStable \in Nat \ {0} /\ settings.share \in 0 .. 100
BY SelectionAssumption DEF SelectionInv

\* What CountriesTakeTurns says of the combined output.
Shared(q) ==
    /\ Cardinality(Servers(ToSet(q))) = Len(q)
    /\ \A c \in ToSet(q) \cap dead : \A l \in Lists :
          \A d \in kept[l] : Server[d] = Server[c] => d \in dead
    /\ Len(q) <= settings.total
    /\ \/ Len(q) = settings.total
       \/ \A code \in ToSet(Codes) \cup {Unknown} :
             Cardinality(OfCountry(q, code)) = Quota(code)
    /\ \A a, b \in ToSet(Codes) \cup {Unknown} :
          Cardinality(OfCountry(q, a)) >= Cardinality(OfCountry(q, b)) + 2
             => Cardinality(OfCountry(q, b)) = Quota(b)

\* It holds of the combined output of any lists.
LEMMA CombinedIsShared ==
    ASSUME SelectionInv, settings.total > 0
    PROVE  Shared(Balanced(Combinable, settings.total, settings.perCountry))
<1> DEFINE all == UNION {kept[l] : l \in Lists}
           q == Balanced(Combinable, settings.total, settings.perCountry)
<1>1. all \in SUBSET Configs /\ settings.total \in Nat /\ settings.perCountry \in Nat
  BY ListsAreLists
<1>2. /\ Combinable \in SUBSET Configs /\ Combinable \subseteq all /\ OneEach(Combinable)
      /\ \A c \in Combinable \cap dead : \A d \in all : Server[d] = Server[c] => d \in dead
  BY <1>1, DeduplicatedIs DEF Combinable
<1>3. /\ q \in Seq(Combinable) /\ IsInjective(q) /\ Len(q) <= settings.total
      /\ Shares(q, Combinable, settings.perCountry)
      /\ Len(q) = settings.total \/ Exhausts(q, Combinable, settings.perCountry)
  BY <1>1, <1>2, BalancedIs
<1>. HIDE DEF q
<1>4. ToSet(q) \subseteq Combinable
  BY <1>3, ElementOfSeq DEF ToSet
<1>5. Cardinality(Servers(ToSet(q))) = Len(q)
  <2>1. OneEach(ToSet(q))
    BY <1>2, <1>4 DEF OneEach
  <2>2. IsFiniteSet(ToSet(q)) /\ Cardinality(ToSet(q)) = Len(q)
    BY <1>3, DistinctLength
  <2>. QED BY <2>1, <2>2, OneEachCount
<1>6. ASSUME NEW c \in ToSet(q) \cap dead, NEW l \in Lists, NEW d \in kept[l],
             Server[d] = Server[c]
      PROVE  d \in dead
  BY <1>2, <1>4, <1>6
<1>7. ASSUME NEW b
      PROVE  Quota(b) = Within(OwnOf(Combinable, b), settings.perCountry)
  <2>1. Cardinality(OwnOf(Combinable, b)) \in Nat
    BY <1>2, FiniteLists DEF OwnOf
  <2>. QED BY <1>1, <2>1 DEF Quota, Within, OwnOf, Least
<1>8. ASSUME NEW a \in ToSet(Codes) \cup {Unknown}, NEW b \in ToSet(Codes) \cup {Unknown},
             Cardinality(OfCountry(q, a)) >= Cardinality(OfCountry(q, b)) + 2
      PROVE  Cardinality(OfCountry(q, b)) = Quota(b)
  <2>1. a \in ToSet(Asked) /\ b \in ToSet(Asked)
    BY AskedIs
  <2>2. Cardinality(OfCountry(q, b)) = Within(OwnOf(Combinable, b), settings.perCountry)
    BY <1>3, <1>8, <2>1 DEF Shares
  <2>. QED BY <1>7, <2>2
<1>9. \/ Len(q) = settings.total
      \/ \A code \in ToSet(Codes) \cup {Unknown} :
            Cardinality(OfCountry(q, code)) = Quota(code)
  <2>1. ToSet(Asked) = ToSet(Codes) \cup {Unknown}
    BY AskedIs
  <2>. QED BY <1>3, <1>7, <2>1 DEF Exhausts
<1>. QED BY <1>3, <1>5, <1>6, <1>8, <1>9 DEF Shared, q

\* What MixIsFilled says of the mix.
Filled(q, offered) ==
    LET black == Servers(ToSet(q) \cap kept["blacklist"])
        white == ToSet(q) \cap kept["whitelist"]
        free == {c \in kept["whitelist"] :
                    Server[c] \notin black /\ Country[c] \in Europe \cup {"RU"}}
        ruTarget == (settings.mixWhite * settings.ru) \div 100
    IN  /\ Cardinality(Servers(ToSet(q))) = Len(q)
        /\ Cardinality(ToSet(q) \cap kept["blacklist"])
              = Least(settings.mixBlack, Len(offered))
        /\ ruTarget \in 1 .. settings.mixWhite - 1 =>
              Cardinality(white) = Least(settings.mixWhite, Cardinality(free))
        /\ settings.ru = 100 => \A c \in white : Country[c] = "RU"

\* It holds of the mix of any lists.
LEMMA MixIsMade ==
    ASSUME SelectionInv, \A l \in Lists : OneEach(kept[l]), settings.total > 0
    PROVE  Filled(Mixed,
                  Balanced(kept["blacklist"], settings.total, settings.perCountry))
<1> DEFINE B == kept["blacklist"]
           W == kept["whitelist"]
           x == settings.mixBlack
           y == settings.mixWhite
           list == Balanced(B, settings.total, settings.perCountry)
           black == TakeUnique(list, x, {})
           used == Servers(ToSet(black))
           F == Unused(W, used)
           rest == WhitelistBalance(F, y)
           white == TakeUnique(rest, y, used)
           q == black \o white
           free == {c \in F : Country[c] \in Europe \cup {"RU"}}
<1>1. /\ B \in SUBSET Configs /\ W \in SUBSET Configs /\ B \cap W = {}
      /\ OneEach(B) /\ OneEach(W)
      /\ x \in Nat /\ y \in Nat
      /\ settings.total \in Nat /\ settings.perCountry \in Nat /\ settings \in Settings
  <2>1. "blacklist" \in Lists /\ "whitelist" \in Lists
    BY DEF Lists
  <2>2. B \subseteq Parsed["blacklist"] /\ W \subseteq Parsed["whitelist"]
    BY <2>1 DEF SelectionInv
  <2>. QED BY <2>1, <2>2, ListsAreLists, SelectionAssumption DEF SelectionInv
<1>2. Mixed = q
  BY DEF Mixed, MixPart
<1>. HIDE DEF B, W, x, y
<1>3. list \in Seq(B) /\ IsInjective(list)
  BY <1>1, BalancedIs
<1>. HIDE DEF list
<1>4. OneEach(ToSet(list)) /\ Servers(ToSet(list)) \cap {} = {}
  <2>1. ToSet(list) \subseteq B
    BY <1>3, ElementOfSeq DEF ToSet
  <2>. QED BY <1>1, <2>1 DEF OneEach
<1>5. /\ black \in Seq(B) /\ Picked(black, list, x, {}, Len(list))
      /\ Len(black) = Least(x, Len(list))
  BY <1>1, <1>3, <1>4, TakeUniqueIs
<1>. HIDE DEF black
<1>6. F \in SUBSET Configs /\ F \subseteq W /\ OneEach(F) /\ Servers(F) \cap used = {}
  BY <1>1 DEF Unused, OneEach, Servers
<1>. HIDE DEF F, used
<1>7. /\ rest \in Seq(F) /\ IsInjective(rest) /\ Len(rest) <= y
      /\ (y * settings.ru) \div 100 < y => Len(rest) = Least(y, Cardinality(free))
      /\ settings.ru = 100 => \A c \in ToSet(rest) : Country[c] = "RU"
  <2>1. settings \in Settings /\ y \in Nat /\ F \in SUBSET Configs
    BY <1>1, <1>6
  <2>2. Balances(rest, F, y)
    BY <2>1, BalanceIs
  <2>. HIDE DEF rest
  <2>. QED BY <2>2 DEF Balances
<1>. HIDE DEF rest
<1>8. ToSet(rest) \subseteq F
  BY <1>7, ElementOfSeq DEF ToSet
<1>9. OneEach(ToSet(rest)) /\ Servers(ToSet(rest)) \cap used = {}
  BY <1>6, <1>8 DEF OneEach, Servers
<1>10. /\ white \in Seq(F) /\ Picked(white, rest, y, used, Len(rest))
      /\ Len(white) = Len(rest)
  <2>1. /\ white \in Seq(F) /\ Picked(white, rest, y, used, Len(rest))
        /\ Len(white) = Least(y, Len(rest))
    BY <1>1, <1>7, <1>9, TakeUniqueIs
  <2>2. Len(rest) \in Nat
    BY <1>7
  <2>. QED BY <1>1, <1>7, <2>1, <2>2 DEF Least
<1>. HIDE DEF white
<1>11. /\ ToSet(black) \subseteq B /\ ToSet(white) \subseteq F /\ ToSet(white) \subseteq W
       /\ ToSet(white) \subseteq ToSet(rest)
  <2>1. ToSet(black) \subseteq B
    BY <1>5, ElementOfSeq DEF ToSet
  <2>2. ToSet(white) \subseteq ToSet(rest)
    BY <1>10 DEF Picked
  <2>. QED BY <1>6, <1>8, <2>1, <2>2
<1>12. /\ q \in Seq(Configs) /\ IsInjective(q) /\ Len(q) = Len(black) + Len(white)
       /\ ToSet(q) = ToSet(black) \cup ToSet(white)
  <2>1. black \in Seq(Configs) /\ white \in Seq(Configs)
    BY <1>1, <1>5, <1>6, <1>10, SeqMonotonic
  <2>2. IsInjective(black) /\ IsInjective(white) /\ ToSet(black) \cap ToSet(white) = {}
    BY <1>1, <1>5, <1>10, <1>11 DEF Picked
  <2>. QED BY <2>1, <2>2, JoinedIs
<1>. HIDE DEF q
<1>13. ToSet(q) \cap B = ToSet(black) /\ ToSet(q) \cap W = ToSet(white)
  BY <1>1, <1>11, <1>12
<1>14. Cardinality(Servers(ToSet(q))) = Len(q)
  <2>1. OneEach(ToSet(q))
    <3>1. OneEach(ToSet(black)) /\ OneEach(ToSet(white))
      BY <1>5, <1>10 DEF Picked
    <3>2. \A c \in ToSet(black), d \in ToSet(white) : Server[c] # Server[d]
      BY <1>6, <1>11 DEF Servers, used
    <3>. QED BY <1>12, <3>1, <3>2 DEF OneEach
  <2>2. IsFiniteSet(ToSet(q)) /\ Cardinality(ToSet(q)) = Len(q)
    BY <1>12, DistinctLength
  <2>. QED BY <2>1, <2>2, OneEachCount
<1>15. free = {c \in W : /\ Server[c] \notin Servers(ToSet(black))
                         /\ Country[c] \in Europe \cup {"RU"}}
  BY DEF F, used, Unused
<1>16. ASSUME (y * settings.ru) \div 100 \in 1 .. y - 1
       PROVE  Cardinality(ToSet(white)) = Least(y, Cardinality(free))
  <2>1. (y * settings.ru) \div 100 < y
    BY <1>1, <1>16
  <2>2. Cardinality(ToSet(white)) = Len(white)
    BY <1>10, DistinctLength DEF Picked
  <2>. QED BY <1>7, <1>10, <2>1, <2>2
<1>17. ASSUME settings.ru = 100, NEW c \in ToSet(white) PROVE Country[c] = "RU"
  BY <1>7, <1>11, <1>17
<1>. HIDE DEF free
<1>18. Cardinality(ToSet(q) \cap B) = Least(x, Len(list))
  BY <1>5, <1>13, DistinctLength DEF Picked
<1>19. Filled(q, list)
  BY <1>13, <1>14, <1>15, <1>16, <1>17, <1>18 DEF Filled, B, W, x, y
<1>. QED BY <1>2, <1>19 DEF list, B

\* The invariant holds of the parsed lists, and every stage keeps it.
LEMMA SelectionInitHolds == SelectionInit => SelectionInv
<1> SUFFICES ASSUME SelectionInit PROVE SelectionInv
  OBVIOUS
<1>1. at = "parsed" /\ settings \in Settings /\ kept = Parsed
  BY DEF SelectionInit
<1>2. kept \in [Lists -> SUBSET Configs]
  BY <1>1, SelectionAssumption
<1>. QED BY <1>1, <1>2 DEF SelectionInv, CountriesTakeTurns, MixIsFilled

\* A stage before the outputs has only to leave some of a list, one of each server.
LEMMA StageKeeps ==
    ASSUME SelectionInv, at' # "written", settings' = settings,
           kept' \in [Lists -> SUBSET Configs],
           \A l \in Lists : kept'[l] \subseteq Parsed[l] /\ OneEach(kept'[l])
    PROVE  SelectionInv'
<1>1. CountriesTakeTurns' /\ MixIsFilled'
  BY DEF CountriesTakeTurns, MixIsFilled
<1>. QED BY <1>1 DEF SelectionInv, OneEach

LEMMA SelectionStep == SelectionInv /\ [SelectionNext]_selectionVars => SelectionInv'
<1> SUFFICES ASSUME SelectionInv, [SelectionNext]_selectionVars PROVE SelectionInv'
  OBVIOUS
<1>1. CASE Preprocess
  <2>1. \E black \in Samples(Parsed["blacklist"]), white \in Samples(Parsed["whitelist"]) :
           kept' = [l \in Lists |-> Preprocessed(IF l = "blacklist" THEN black ELSE white)]
    BY <1>1 DEF Preprocess
  <2>2. ASSUME NEW S \in SUBSET Configs, NEW sample \in Samples(S)
        PROVE  Preprocessed(sample) \subseteq S /\ OneEach(Preprocessed(sample))
    <3>1. S \ Garbage \in SUBSET Configs
      OBVIOUS
    <3>2. /\ Deduplicated(S \ Garbage) \subseteq S \ Garbage
          /\ OneEach(Deduplicated(S \ Garbage))
      BY <3>1, DeduplicatedIs
    <3>3. sample \subseteq Deduplicated(S \ Garbage)
      BY DEF Samples, kSubset
    <3>4. Preprocessed(sample) \subseteq sample
      BY DEF Preprocessed
    <3>. QED BY <3>2, <3>3, <3>4 DEF OneEach
  <2>3. at' # "written" /\ settings' = settings
    BY <1>1 DEF Preprocess
  <2>4. ASSUME NEW l \in Lists
        PROVE  kept'[l] \subseteq Parsed[l] /\ OneEach(kept'[l]) /\ kept'[l] \in SUBSET Configs
    <3>1. Parsed["blacklist"] \in SUBSET Configs /\ Parsed["whitelist"] \in SUBSET Configs
      BY DEF Configs, Lists
    <3>2. PICK black \in Samples(Parsed["blacklist"]), white \in Samples(Parsed["whitelist"]) :
             kept' = [m \in Lists |-> Preprocessed(IF m = "blacklist" THEN black ELSE white)]
      BY <2>1
    <3>3. CASE l = "blacklist"
      BY <2>2, <3>1, <3>2, <3>3
    <3>4. CASE l = "whitelist"
      BY <2>2, <3>1, <3>2, <3>4
    <3>. QED BY <3>3, <3>4 DEF Lists
  <2>5. kept' \in [Lists -> SUBSET Configs]
    BY <2>1, <2>4
  <2>. QED BY <2>3, <2>4, <2>5, StageKeeps
<1>2. CASE Validate
  <2> DEFINE all == UNION {kept[l] : l \in Lists}
  <2>0. PICK alive \in SUBSET all :
           \E open \in SUBSET (all \ alive) :
              kept' = [l \in Lists |-> kept[l] \cap (alive \cup open)]
    BY <1>2 DEF Validate
  <2>1. PICK open \in SUBSET (all \ alive) :
           kept' = [l \in Lists |-> kept[l] \cap (alive \cup open)]
    BY <2>0
  <2>2. at' # "written" /\ settings' = settings /\ at # "parsed"
    BY <1>2 DEF Validate
  <2>3. ASSUME NEW l \in Lists
        PROVE  kept'[l] \subseteq Parsed[l] /\ OneEach(kept'[l]) /\ kept'[l] \in SUBSET Configs
    BY <2>1, <2>2 DEF SelectionInv, OneEach
  <2>4. kept' \in [Lists -> SUBSET Configs]
    BY <2>1, <2>3
  <2>. QED BY <2>2, <2>3, <2>4, StageKeeps
<1>3. CASE Quality
  <2>1. kept' = [l \in Lists |-> Gated(Fast(kept[l]))]
    BY <1>3 DEF Quality
  <2>2. at' # "written" /\ settings' = settings /\ at # "parsed"
    BY <1>3 DEF Quality
  <2>3. ASSUME NEW l \in Lists
        PROVE  kept'[l] \subseteq Parsed[l] /\ OneEach(kept'[l]) /\ kept'[l] \in SUBSET Configs
    <3>1. kept'[l] \subseteq kept[l]
      BY <2>1 DEF Gated, Fast, Stable
    <3>. QED BY <2>2, <3>1 DEF SelectionInv, OneEach
  <2>4. kept' \in [Lists -> SUBSET Configs]
    BY <2>1, <2>3
  <2>. QED BY <2>2, <2>3, <2>4, StageKeeps
<1>4. CASE Output
  <2>1. /\ combined' = Balanced(Combinable, settings.total, settings.perCountry)
        /\ mix' = Mixed /\ settings' = settings /\ kept' = kept /\ dead' = dead
        /\ slow' = slow /\ at # "parsed"
    BY <1>4 DEF Output, found
  <2>2. CountriesTakeTurns'
    <3> SUFFICES ASSUME settings.total > 0 PROVE CountriesTakeTurns'
      BY <2>1 DEF CountriesTakeTurns
    <3>1. Shared(combined')
      BY <2>1, CombinedIsShared
    <3>2. Combinable' = Combinable
      BY <2>1 DEF Combinable, Deduplicated, Preferred, Faster, Latency
    <3>3. \A b : Quota(b)' = Quota(b)
      BY <2>1, <3>2 DEF Quota
    <3>. QED BY <2>1, <3>1, <3>3 DEF Shared, CountriesTakeTurns, OfCountry, Servers
  <2>3. MixIsFilled'
    <3> SUFFICES ASSUME settings.total > 0 PROVE MixIsFilled'
      BY <2>1 DEF MixIsFilled
    <3>1. Filled(mix', split'["blacklist"])
      <4>1. split'["blacklist"] =
              Balanced(kept["blacklist"], settings.total, settings.perCountry)
        BY <1>4 DEF Output, Lists
      <4>. QED BY <2>1, <4>1, MixIsMade DEF SelectionInv
    <3>. QED BY <2>1, <3>1 DEF Filled, MixIsFilled, Servers
  <2>. QED BY <2>1, <2>2, <2>3 DEF SelectionInv, OneEach
<1>5. CASE UNCHANGED selectionVars
  <2>1. /\ at' = at /\ settings' = settings /\ kept' = kept /\ dead' = dead /\ slow' = slow
        /\ combined' = combined /\ mix' = mix /\ split' = split
    BY <1>5 DEF selectionVars, found, outputs
  <2>2. Combinable' = Combinable
    BY <2>1 DEF Combinable, Deduplicated, Preferred, Faster, Latency
  <2>3. CountriesTakeTurns'
    BY <2>1, <2>2 DEF SelectionInv, CountriesTakeTurns, OfCountry, Servers, Quota
  <2>4. MixIsFilled'
    BY <2>1 DEF SelectionInv, MixIsFilled, Servers
  <2>. QED BY <2>1, <2>3, <2>4 DEF SelectionInv, OneEach
<1>. QED BY <1>1, <1>2, <1>3, <1>4, <1>5 DEF SelectionNext

\* No country gets two more than another that has more to give, no server is twice in
\* the combined output, and it is as long as limit and quotas allow, for any configs,
\* countries and limits (aggregate.py, _country_balanced_limit).
THEOREM CountriesShare == SelectionSpec => []CountriesTakeTurns
<1>1. SelectionInv => CountriesTakeTurns
  BY DEF SelectionInv
<1>. QED BY SelectionInitHolds, SelectionStep, <1>1, PTL DEF SelectionSpec

\* No server is twice in the mix, its two parts are as long as the lists allow,
\* and at a ratio of 100 it is of one country (runner.py, _build_mixed_output).
THEOREM MixesAreFilled == SelectionSpec => []MixIsFilled
<1>1. SelectionInv => MixIsFilled
  BY DEF SelectionInv
<1>. QED BY SelectionInitHolds, SelectionStep, <1>1, PTL DEF SelectionSpec

\* What the quality filter leaves of a list, for any history and settings.
Leaves(S, left) ==
    /\ left # {}
    /\ S \ slow \subseteq left \/ Cardinality(left) >= settings.minStable

LEMMA GateLeaves ==
    ASSUME SelectionInv, NEW l \in Lists, kept[l] # {}
    PROVE  Leaves(kept[l], Gated(Fast(kept[l])))
<1> DEFINE S == kept[l]
           F == Fast(S)
<1>1. /\ S \in SUBSET Configs /\ settings.minFast \in Nat
      /\ settings.minStable \in Nat \ {0} /\ settings.share \in 0 .. 100
  BY ListsAreLists
<1>2. F \subseteq S /\ S \ slow \subseteq F /\ F # {}
  <2>1. CASE F = S
    BY <2>1
  <2>2. CASE F # S
    <3>1. F = S \ slow /\ settings.minFast # 0 /\ ~ (Cardinality(S \ slow) < settings.minFast)
      BY <2>2 DEF Fast
    <3>2. Cardinality(S \ slow) \in Nat
      BY <1>1, FiniteLists
    <3>3. Cardinality(S \ slow) # 0
      BY <1>1, <3>1, <3>2
    <3>. QED BY <3>1, <3>3, FS_EmptySet
  <2>. QED BY <2>1, <2>2
<1>. HIDE DEF F
<1>3. Floor(F) \in Int /\ Floor(F) >= settings.minStable
  <2>1. Cardinality(F) \in Nat
    BY <1>1, <1>2, FiniteLists
  <2>2. (Cardinality(F) * settings.share) \div 100 \in Nat
    BY <1>1, <2>1, Percent
  <2>. QED BY <1>1, <2>2 DEF Floor, Most
<1>4. CASE Cardinality(Stable(F)) >= Floor(F)
  <2>1. Gated(F) = Stable(F)
    BY <1>4 DEF Gated
  <2>2. Cardinality(Stable(F)) \in Nat
    BY <1>1, <1>2, FiniteLists DEF Stable
  <2>3. Cardinality(Stable(F)) >= settings.minStable /\ Cardinality(Stable(F)) # 0
    BY <1>1, <1>3, <1>4, <2>2
  <2>. QED BY <2>1, <2>3, FS_EmptySet DEF F, Leaves
<1>5. CASE ~ (Cardinality(Stable(F)) >= Floor(F))
  <2>1. Gated(F) = F
    BY <1>5 DEF Gated
  <2>. QED BY <1>2, <2>1 DEF F, Leaves
<1>. QED BY <1>4, <1>5

\* The quality filter never takes the last config of a list, and where the gate was
\* enforced it leaves the floor (quality.py, apply_quality_filter).
THEOREM QualityLeavesAList == SelectionSpec => QualityKeepsAList
<1>1. ASSUME SelectionInv, [SelectionNext]_selectionVars
      PROVE  [at = "validated" /\ at' = "selected" =>
                \A l \in Lists : kept[l] # {} =>
                   /\ kept'[l] # {}
                   /\ kept[l] \ slow \subseteq kept'[l]
                         \/ Cardinality(kept'[l]) >= settings.minStable]_selectionVars
  <2>1. CASE Quality
    <3>1. \A l \in Lists : kept'[l] = Gated(Fast(kept[l]))
      BY <2>1 DEF Quality
    <3>2. \A l \in Lists : kept[l] # {} => Leaves(kept[l], Gated(Fast(kept[l])))
      BY <1>1, GateLeaves
    <3>. QED BY <3>1, <3>2 DEF Leaves
  <2>2. CASE Preprocess \/ Validate \/ Output
    BY <2>2 DEF Preprocess, Validate, Output
  <2>3. CASE UNCHANGED selectionVars
    BY <2>3
  <2>. QED BY <1>1, <2>1, <2>2, <2>3 DEF SelectionNext
<1>. QED BY SelectionInitHolds, SelectionStep, <1>1, PTL DEF SelectionSpec, QualityKeepsAList

(***************************************************************************)
(* PipelineRun.                                                            *)
(***************************************************************************)


----------------------------------------------------------------------------
(* The invariant.                                                          *)

\* A version is of a run begun, of an earlier one while this one is at work;
\* a Clash file is never the plain fallback.
VersionInv ==
    \A f \in Contents :
        /\ local[f] # None => local[f].run <= run
        /\ repo[f] # None => repo[f].run <= run
        /\ pc = "running" /\ local[f] # None => local[f].run < run
        /\ f \in ClashSet =>
              /\ local[f] # None => ~ local[f].plain
              /\ repo[f] # None => ~ repo[f].plain

\* What the run knows of its files is what is on disk.
WrittenInv ==
    pc \in {"written", "recorded"} =>
        /\ \A f \in (Configured \cup retired) \ fallback :
              local[f] # None => Wrote(f) /\ ~ local[f].plain
        /\ \A f \in ClashSet :
              local[f] # None /\ ~ brokenClash /\ ~ EmptyRun => Wrote(f)
        /\ \A f \in Subscriptions : Wrote(f) =>
              /\ f \in Configured \cup retired \cup ClashSet
              /\ f \in fallback => local[f].plain
              /\ counted[f] = local[f].count
        /\ \A f \in SliceSet :
              /\ f \in registered => counted[f] = 0
              /\ counted[f] = 0 /\ f \notin registered => Unverified
        /\ Combined \notin fallback => made = counted[Combined]
        /\ EmptyRun => made = 0

\* What may replace a working file.
MayReplaceWorking(f) ==
    /\ ~ local[f].plain
    /\ MinPublish > 0 =>
          \/ local[f].count >= MinPublish
          \/ f \notin Configured /\ local[f].count = 0
          \/ f \in SliceSet /\ Unverified

DueInv ==
    pc = "publishing" =>
        \A f \in due \cap Subscriptions : local[f] # None => MayReplaceWorking(f)

\* A file of this run that is published, or was held back for a reason.
Settled(f) ==
    \/ repo[f] = local[f]
    \/ local[f].plain
    \/ local[f].count < MinPublish
    \/ made < MinPublish
    \/ f = Clash /\ brokenClash

\* A batch without a failure so far has settled all that is not due.
BatchInv ==
    pc = "publishing" /\ allOk =>
        /\ hasSummary => Summary \in due \/ repoSummary = localSummary
        /\ \A f \in Subscriptions : Wrote(f) => f \in due \/ Settled(f)

\* A run that ends well, and what follows it, leaves all settled.
EndInv ==
    Publishes /\ (\/ pc = "ended" /\ publishOk
                  \/ pc \in {"idle", "stopped"} /\ run > 0 /\ exit = 0) =>
        /\ hasSummary => repoSummary = localSummary
        /\ \A f \in Subscriptions : Wrote(f) => Settled(f)

\* A summary counts as written only by the run that wrote it.
SummaryInv ==
    /\ pc \in {"running", "written"} => ~ hasSummary
    /\ pc \in {"recorded", "publishing", "ended"} /\ hasSummary =>
          localSummary.run = run
    /\ pc \notin {"idle", "stopped"} => reported = None
    /\ reported # None => reported.run = run
    /\ localSummary \in SummaryRecord /\ repoSummary \in SummaryRecord

RunInv ==
    /\ TypeOK /\ VersionInv /\ WrittenInv /\ DueInv /\ BatchInv /\ EndInv
    /\ SummaryInv
----------------------------------------------------------------------------
(* The files of a setup.                                                   *)

\* The kinds of files are told apart by their names.
FilesOK ==
    /\ MinPublish \in Nat /\ MaxConfigs \in Nat /\ MaxRuns \in Nat
    /\ MaxBackoff \in Nat \ {0}
    /\ {Publishes, Continuous, Unverified, DiskMayFail} \subseteq BOOLEAN
    /\ setup.runs \in 0 .. MaxRuns
    /\ Configured = {Combined} \cup SliceSet
    /\ Subscriptions = Configured \cup ClashSet \cup LocationSet
    /\ Contents = Subscriptions \cup {Stats}
    /\ Summary \notin Contents
    /\ None \notin Contents /\ Summary # None /\ None \notin 0 .. MaxConfigs
    /\ Stats \notin Subscriptions
    /\ Combined \notin SliceSet \cup LocationSet \cup ClashSet
    /\ SliceSet \cap (LocationSet \cup ClashSet) = {}
    /\ ClashSet \cap LocationSet = {}
    /\ ClashSet \subseteq {Clash} /\ None \notin ClashSet

LEMMA Files == setup \in Setups => FilesOK
BY FilesAssumption
   DEF FilesOK, Publishes, Continuous, Unverified, DiskMayFail, SliceSet, Slices,
       LocationSet, Locations, ClashSet, Clash, Configured, Subscriptions, Contents

\* The settings stay those of the first run.
LEMMA SettingsStay ==
    ASSUME setup' = setup
    PROVE  /\ Publishes' = Publishes /\ Continuous' = Continuous
           /\ Unverified' = Unverified /\ DiskMayFail' = DiskMayFail
           /\ Clash' = Clash /\ ClashSet' = ClashSet /\ SliceSet' = SliceSet
           /\ LocationSet' = LocationSet /\ Configured' = Configured
           /\ Subscriptions' = Subscriptions /\ Contents' = Contents
           /\ SummaryRecord' = SummaryRecord
BY DEF SummaryRecord, Publishes, Continuous, Unverified, DiskMayFail, SliceSet, Slices,
       LocationSet, Locations, ClashSet, Clash, Configured, Subscriptions, Contents
----------------------------------------------------------------------------
(* The beginning of a run.                                                 *)

LEMMA InitHolds == Init => RunInv
<1>. SUFFICES ASSUME Init PROVE RunInv
  OBVIOUS
<1>1. FilesOK
  BY Files DEF Init
<1>2. PICK absent \in SUBSET LocationSet :
         local = [f \in Contents |->
                    IF f \in absent THEN None
                    ELSE [run |-> 0, count |-> MaxConfigs, plain |-> FALSE]]
  BY DEF Init
<1>3. [run |-> 0, count |-> MaxConfigs, plain |-> FALSE] \in Version
  BY <1>1 DEF Version, FilesOK
<1>4. local \in [Contents -> Version \cup {None}] /\ repo = local
  BY <1>2, <1>3 DEF Init
<1>5. localSummary \in SummaryRecord /\ repoSummary = localSummary
  BY <1>1 DEF Init, SummaryRecord, RunStatus, FilesOK
<1>6. TypeOK
  <2>1. /\ status \in RunStatus /\ backoff \in 1 .. MaxBackoff
        /\ made \in 0 .. MaxConfigs /\ run \in 0 .. MaxRuns
        /\ exit \in {0, 1, 3, 130} /\ setup \in Setups
    BY <1>1 DEF Init, FilesOK, RunStatus
  <2>2. {localSummary, repoSummary, reported} \subseteq SummaryRecord \cup {None}
    BY <1>5 DEF Init
  <2>3. {hasSummary, allOk, publishOk} \subseteq BOOLEAN
    BY DEF Init
  <2>4. counted \in [Subscriptions -> (0 .. MaxConfigs) \cup {None}]
    BY DEF Init
  <2>. QED BY <1>4, <2>1, <2>2, <2>3, <2>4 DEF Init, TypeOK
<1>7. \A f \in Contents : local[f] # None => local[f].run = 0 /\ ~ local[f].plain
  BY <1>2
<1>8. VersionInv
  BY <1>4, <1>7 DEF Init, VersionInv
<1>9. WrittenInv /\ DueInv /\ BatchInv /\ EndInv
  BY DEF Init, WrittenInv, DueInv, BatchInv, EndInv
<1>10. SummaryInv
  BY <1>5 DEF Init, SummaryInv
<1>. QED BY <1>6, <1>8, <1>9, <1>10 DEF RunInv

LEMMA BeginKeeps ==
    ASSUME RunInv, Begin, setup' = setup
    PROVE  RunInv'
<1>1. FilesOK /\ TypeOK
  BY Files DEF RunInv, TypeOK
<1>2. /\ pc' = "running" /\ run' = run + 1 /\ run' \in 0 .. MaxRuns
      /\ status' = status /\ local' = local /\ repo' = repo
      /\ repoSummary' = repoSummary /\ localSummary' = localSummary
      /\ exit' = exit /\ backoff' = backoff /\ hasSummary' = FALSE /\ reported' = None
      /\ counted' = [f \in Subscriptions |-> None]
      /\ registered' = {} /\ retired' = {} /\ brokenClash' = FALSE /\ made' = 0
      /\ fallback' = {} /\ withheld' = {} /\ due' = {}
      /\ allOk' = TRUE /\ publishOk' = FALSE
  BY <1>1 DEF Begin, repoVars, TypeOK, FilesOK
<1>3. TypeOK'
  <2>1. {localSummary, repoSummary, reported}' \subseteq SummaryRecord \cup {None}
    BY <1>1, <1>2 DEF TypeOK
  <2>2. {hasSummary, allOk, publishOk}' \subseteq BOOLEAN
    BY <1>2
  <2>3. made' \in 0 .. MaxConfigs
    BY <1>1, <1>2 DEF FilesOK
  <2>. QED BY <1>1, <1>2, <2>1, <2>2, <2>3, SettingsStay DEF TypeOK
<1>4. VersionInv'
  <2>1. \A f \in Contents : /\ local[f] # None => local[f].run \in Nat
                            /\ repo[f] # None => repo[f].run \in Nat
    BY <1>1 DEF TypeOK, Version
  <2>. QED BY <1>1, <1>2, <2>1, SettingsStay DEF RunInv, VersionInv, TypeOK
<1>5. WrittenInv' /\ DueInv' /\ BatchInv' /\ EndInv'
  BY <1>2 DEF WrittenInv, DueInv, BatchInv, EndInv
<1>6. SummaryInv'
  BY <1>2, SettingsStay DEF RunInv, SummaryInv
<1>. QED BY <1>3, <1>4, <1>5, <1>6 DEF RunInv
----------------------------------------------------------------------------
(* Writing.                                                                *)

\* What Write leaves on disk and in the counts.
LEMMA WhatIsWritten ==
    ASSUME RunInv, pc = "running", setup' = setup, run' = run,
           NEW texts \in SUBSET Subscriptions, Configured \cup ClashSet \subseteq texts,
           NEW counts \in [texts -> 0 .. MaxConfigs],
           NEW broken \in Breakable, NEW lost \in Losable(broken),
           Write(counts, broken, lost)
    PROVE  /\ local' \in [Contents -> Version \cup {None}]
           /\ counted' \in [Subscriptions -> (0 .. MaxConfigs) \cup {None}]
           /\ fallback' \subseteq Subscriptions \ ClashSet
           /\ fallback' = broken /\ lost \subseteq broken \cup ClashSet
           /\ retired' \subseteq LocationSet
           /\ \A f \in Contents : local'[f] # None =>
                 /\ local'[f].run <= run
                 /\ f \in ClashSet => ~ local'[f].plain
           /\ \A f \in (Configured \cup retired') \ broken :
                 local'[f] # None => local'[f].run = run /\ ~ local'[f].plain
           /\ \A f \in ClashSet \ lost : local'[f] # None => local'[f].run = run
           /\ \A f \in Subscriptions :
                 local'[f] # None /\ local'[f].run = run =>
                    /\ f \in Configured \cup retired' \cup ClashSet
                    /\ f \in broken => local'[f].plain
                    /\ counted'[f] = local'[f].count
           /\ \A f \in Configured : counted'[f] = counts[f]
<1>1. FilesOK /\ TypeOK
  BY Files DEF RunInv, TypeOK
<1> DEFINE wrote == texts \cup LocationsOf(texts)
<1> DEFINE count(f) == IF f \in texts THEN counts[f] ELSE 0
<1>2. DOMAIN counts = texts
  OBVIOUS
<1>3. /\ broken \subseteq wrote \ ClashSet
      /\ local' = [f \in Contents |->
                     IF f \in wrote \ lost
                       THEN [run |-> run, count |-> count(f), plain |-> f \in broken]
                     ELSE IF f \in lost \cap LocationSet THEN None
                     ELSE local[f]]
      /\ counted' = [f \in Subscriptions |-> IF f \in wrote THEN count(f) ELSE None]
      /\ fallback' = broken
      /\ retired' = wrote \cap LocationSet
  BY <1>2 DEF Write
<1>4. /\ wrote \subseteq Subscriptions /\ texts \subseteq wrote
      /\ Configured \cup ClashSet \subseteq wrote
  BY <1>1 DEF LocationsOf, FilesOK
<1>5. \A f \in Subscriptions :
         count(f) \in 0 .. MaxConfigs
           /\ [run |-> run, count |-> count(f), plain |-> f \in broken] \in Version
  BY <1>1 DEF Version, TypeOK, FilesOK
<1>6. lost \subseteq broken \cup ClashSet
  BY DEF Losable
<1>7. \A f \in Contents : local[f] # None =>
         local[f].run < run /\ local[f].run \in Nat /\ (f \in ClashSet => ~ local[f].plain)
  BY <1>1 DEF RunInv, VersionInv, TypeOK, Version
<1>8. local' \in [Contents -> Version \cup {None}]
  BY <1>1, <1>3, <1>4, <1>5 DEF TypeOK
<1>9. counted' \in [Subscriptions -> (0 .. MaxConfigs) \cup {None}]
  BY <1>3, <1>4, <1>5
<1> HIDE DEF count, wrote
<1>10. \A f \in Contents :
          \/ /\ f \in wrote \ lost
             /\ local'[f].run = run /\ local'[f].count = count(f)
             /\ local'[f].plain <=> f \in broken
          \/ f \notin wrote \ lost /\ (local'[f] = None \/ local'[f] = local[f])
  BY <1>3
<1>11. run \in Nat
  BY <1>1 DEF TypeOK
<1>12. \A f \in Contents : local'[f] # None =>
                 /\ local'[f].run <= run
                 /\ f \in ClashSet => ~ local'[f].plain
  <2>. SUFFICES ASSUME NEW f \in Contents, local'[f] # None
                PROVE  local'[f].run <= run /\ (f \in ClashSet => ~ local'[f].plain)
    OBVIOUS
  <2>1. CASE local'[f].run = run /\ (local'[f].plain <=> f \in broken)
    BY <1>3, <1>11, <2>1
  <2>2. CASE local'[f] = local[f]
    BY <1>7, <1>11, <2>2
  <2>. QED BY <1>10, <2>1, <2>2
<1>13. \A f \in (Configured \cup retired') \ broken :
                 local'[f] # None => local'[f].run = run /\ ~ local'[f].plain
  <2>. SUFFICES ASSUME NEW f \in (Configured \cup retired') \ broken, local'[f] # None
                PROVE  local'[f].run = run /\ ~ local'[f].plain
    OBVIOUS
  <2>1. f \in Contents /\ f \notin ClashSet
    BY <1>1, <1>3 DEF FilesOK
  <2>2. f \in wrote \ lost
    BY <1>3, <1>4, <1>6, <2>1
  <2>. QED BY <1>10, <2>1, <2>2
<1>14. \A f \in ClashSet \ lost : local'[f] # None => local'[f].run = run
  <2>. SUFFICES ASSUME NEW f \in ClashSet \ lost PROVE local'[f].run = run
    OBVIOUS
  <2>1. f \in Contents /\ f \in wrote \ lost
    BY <1>1, <1>4 DEF FilesOK
  <2>. QED BY <1>10, <2>1
<1>15. \A f \in Subscriptions :
                 local'[f] # None /\ local'[f].run = run =>
                    /\ f \in Configured \cup retired' \cup ClashSet
                    /\ f \in broken => local'[f].plain
                    /\ counted'[f] = local'[f].count
  <2>. SUFFICES ASSUME NEW f \in Subscriptions, local'[f] # None, local'[f].run = run
                PROVE  /\ f \in Configured \cup retired' \cup ClashSet
                       /\ f \in broken => local'[f].plain
                       /\ counted'[f] = local'[f].count
    OBVIOUS
  <2>1. f \in Contents
    BY <1>1 DEF FilesOK
  <2>2. local'[f] # local[f]
    BY <1>7, <1>11, <2>1
  <2>3. /\ f \in wrote /\ local'[f].count = count(f)
        /\ local'[f].plain <=> f \in broken
    BY <1>10, <2>1, <2>2
  <2>. QED BY <1>1, <1>3, <2>3 DEF FilesOK
<1>16. \A f \in Configured : counted'[f] = counts[f]
  BY <1>1, <1>3, <1>4 DEF FilesOK, count
<1>. QED BY <1>3, <1>4, <1>6, <1>8, <1>9, <1>12, <1>13, <1>14, <1>15, <1>16
         DEF FilesOK
\* What both ways of writing keep of the invariant, once the counts of the
\* slices and of the combined file are accounted for.
LEMMA WritingKeeps ==
    ASSUME RunInv, pc = "running", pc' = "written", setup' = setup, run' = run,
           NEW texts \in SUBSET Subscriptions, Configured \cup ClashSet \subseteq texts,
           NEW counts \in [texts -> 0 .. MaxConfigs],
           NEW broken \in Breakable, NEW lost \in Losable(broken),
           Write(counts, broken, lost),
           repo' = repo, repoSummary' = repoSummary, localSummary' = localSummary,
           hasSummary' = hasSummary, reported' = reported, due' = due,
           allOk' = allOk, publishOk' = publishOk, withheld' = withheld,
           exit' = exit, backoff' = backoff,
           status' \in RunStatus, registered' \in SUBSET SliceSet,
           made' \in 0 .. MaxConfigs, brokenClash' \in BOOLEAN,
           \A f \in SliceSet :
              /\ f \in registered' => counts[f] = 0
              /\ counts[f] = 0 /\ f \notin registered' => Unverified,
           Combined \notin broken => made' = counts[Combined],
           status' \in EmptyStatus => made' = 0,
           status' \notin EmptyStatus /\ lost \cap ClashSet # {} => brokenClash'
    PROVE  RunInv'
<1>1. FilesOK /\ TypeOK
  BY Files DEF RunInv, TypeOK
<1>2. /\ local' \in [Contents -> Version \cup {None}]
      /\ counted' \in [Subscriptions -> (0 .. MaxConfigs) \cup {None}]
      /\ fallback' \subseteq Subscriptions \ ClashSet
      /\ fallback' = broken /\ lost \subseteq broken \cup ClashSet
      /\ retired' \subseteq LocationSet
      /\ \A f \in Contents : local'[f] # None =>
            /\ local'[f].run <= run
            /\ f \in ClashSet => ~ local'[f].plain
      /\ \A f \in (Configured \cup retired') \ broken :
            local'[f] # None => local'[f].run = run /\ ~ local'[f].plain
      /\ \A f \in ClashSet \ lost : local'[f] # None => local'[f].run = run
      /\ \A f \in Subscriptions :
            local'[f] # None /\ local'[f].run = run =>
               /\ f \in Configured \cup retired' \cup ClashSet
               /\ f \in broken => local'[f].plain
               /\ counted'[f] = local'[f].count
      /\ \A f \in Configured : counted'[f] = counts[f]
  BY WhatIsWritten
<1>3. TypeOK'
  <2>1. {localSummary, repoSummary, reported}' \subseteq SummaryRecord \cup {None}
    BY <1>1 DEF TypeOK
  <2>2. {hasSummary, allOk, publishOk}' \subseteq BOOLEAN
    BY <1>1 DEF TypeOK
  <2>. QED BY <1>1, <1>2, <2>1, <2>2, SettingsStay DEF TypeOK
<1>4. VersionInv'
  BY <1>1, <1>2, SettingsStay DEF RunInv, VersionInv
<1>5. WrittenInv'
  <2>1. \A f \in (Configured \cup retired') \ fallback' :
           local'[f] # None => Wrote(f)' /\ ~ local'[f].plain
    BY <1>2 DEF Wrote
  <2>2. \A f \in ClashSet :
           local'[f] # None /\ ~ brokenClash' /\ status' \notin EmptyStatus => Wrote(f)'
    BY <1>2 DEF Wrote
  <2>3. \A f \in Subscriptions : Wrote(f)' =>
              /\ f \in Configured \cup retired' \cup ClashSet
              /\ f \in fallback' => local'[f].plain
              /\ counted'[f] = local'[f].count
    BY <1>2 DEF Wrote
  <2>4. \A f \in SliceSet \cup {Combined} : counted'[f] = counts[f]
    BY <1>1, <1>2 DEF FilesOK
  <2>. QED BY <1>2, <2>1, <2>2, <2>3, <2>4, SettingsStay DEF WrittenInv, EmptyRun
<1>6. DueInv' /\ BatchInv' /\ EndInv'
  BY DEF DueInv, BatchInv, EndInv
<1>7. SummaryInv'
  BY SettingsStay DEF RunInv, SummaryInv
<1>. QED BY <1>3, <1>4, <1>5, <1>6, <1>7 DEF RunInv

LEMMA FinishEmptyRunKeeps ==
    ASSUME RunInv, FinishEmptyRun, setup' = setup
    PROVE  RunInv'
<1>1. FilesOK /\ TypeOK
  BY Files DEF RunInv, TypeOK
<1> DEFINE counts == [f \in Configured \cup ClashSet |-> 0]
<1>2. PICK broken \in Breakable :
         \E lost \in Losable(broken) : Write(counts, broken, lost)
  BY DEF FinishEmptyRun
<1>6. PICK lost \in Losable(broken) : Write(counts, broken, lost)
  BY <1>2
<1>3. /\ Configured \cup ClashSet \in SUBSET Subscriptions
      /\ counts \in [Configured \cup ClashSet -> 0 .. MaxConfigs]
      /\ \A f \in SliceSet \cup {Combined} : counts[f] = 0
  BY <1>1 DEF FilesOK
<1> HIDE DEF counts
<1>4. /\ pc = "running" /\ pc' = "written" /\ run' = run
      /\ repo' = repo /\ repoSummary' = repoSummary /\ localSummary' = localSummary
      /\ hasSummary' = hasSummary /\ reported' = reported /\ due' = due
      /\ allOk' = allOk /\ publishOk' = publishOk /\ withheld' = withheld
      /\ exit' = exit /\ backoff' = backoff /\ brokenClash' = brokenClash
      /\ status' \in EmptyStatus /\ made' = 0 /\ registered' = SliceSet
  BY DEF FinishEmptyRun, repoVars, summaryVars, publishVars, loopVars
<1>5. status' \in RunStatus /\ brokenClash' \in BOOLEAN /\ made' \in 0 .. MaxConfigs
  BY <1>1, <1>4 DEF TypeOK, RunStatus, FilesOK
<1>. QED BY <1>3, <1>4, <1>5, <1>6, WritingKeeps

LEMMA WriteOutputsKeeps ==
    ASSUME RunInv, WriteOutputs, setup' = setup
    PROVE  RunInv'
<1>1. FilesOK /\ TypeOK
  BY Files DEF RunInv, TypeOK
<1>2. PICK live \in SUBSET LocationSet :
        \E counts \in [Configured \cup ClashSet \cup live -> 0 .. MaxConfigs],
           broken \in Breakable :
        \E lost \in Losable(broken) :
          /\ Write(counts, broken, lost)
          /\ \E gone \in SUBSET {f \in SliceSet : counts[f] = 0} :
                /\ gone # {} => Unverified
                /\ registered' = {f \in SliceSet : counts[f] = 0} \ gone
          /\ made' \in Returned(counts[Combined], broken, lost)
          /\ status' \in IF counts[Combined] = 0
                         THEN {"ok", "validation_disabled"} ELSE {"ok"}
          /\ brokenClash' \in IF DiskMayFail /\ \A c \in ClashSet : counts[c] = 0
                              THEN BOOLEAN ELSE {FALSE}
          /\ lost \cap ClashSet # {} => brokenClash'
  BY DEF WriteOutputs
<1> DEFINE texts == Configured \cup ClashSet \cup live
<1>3. PICK counts \in [texts -> 0 .. MaxConfigs], broken \in Breakable :
        \E lost \in Losable(broken) :
          /\ Write(counts, broken, lost)
          /\ \E gone \in SUBSET {f \in SliceSet : counts[f] = 0} :
                /\ gone # {} => Unverified
                /\ registered' = {f \in SliceSet : counts[f] = 0} \ gone
          /\ made' \in Returned(counts[Combined], broken, lost)
          /\ status' \in IF counts[Combined] = 0
                         THEN {"ok", "validation_disabled"} ELSE {"ok"}
          /\ brokenClash' \in IF DiskMayFail /\ \A c \in ClashSet : counts[c] = 0
                              THEN BOOLEAN ELSE {FALSE}
          /\ lost \cap ClashSet # {} => brokenClash'
  BY <1>2
<1>4. PICK lost \in Losable(broken) :
          /\ Write(counts, broken, lost)
          /\ \E gone \in SUBSET {f \in SliceSet : counts[f] = 0} :
                /\ gone # {} => Unverified
                /\ registered' = {f \in SliceSet : counts[f] = 0} \ gone
          /\ made' \in Returned(counts[Combined], broken, lost)
          /\ status' \in IF counts[Combined] = 0
                         THEN {"ok", "validation_disabled"} ELSE {"ok"}
          /\ brokenClash' \in IF DiskMayFail /\ \A c \in ClashSet : counts[c] = 0
                              THEN BOOLEAN ELSE {FALSE}
          /\ lost \cap ClashSet # {} => brokenClash'
  BY <1>3
<1>5. texts \in SUBSET Subscriptions /\ Configured \cup ClashSet \subseteq texts
      /\ Combined \in texts
  BY <1>1 DEF FilesOK
<1> HIDE DEF texts
<1>6. /\ registered' \in SUBSET SliceSet
      /\ \A f \in SliceSet : /\ f \in registered' => counts[f] = 0
                             /\ counts[f] = 0 /\ f \notin registered' => Unverified
  BY <1>4
<1>7. counts[Combined] \in 0 .. MaxConfigs
  BY <1>5
<1>8. /\ made' \in 0 .. MaxConfigs
      /\ Combined \notin broken => made' = counts[Combined]
  <2>1. Combined \notin broken => Combined \notin lost
    BY <1>1 DEF Losable, FilesOK
  <2>. QED BY <1>1, <1>4, <1>7, <2>1 DEF Returned, FilesOK
<1>9. brokenClash' \in BOOLEAN /\ status' \in RunStatus /\ status' \notin EmptyStatus
  BY <1>4 DEF RunStatus, EmptyStatus
<1>10. /\ pc = "running" /\ pc' = "written" /\ run' = run
       /\ repo' = repo /\ repoSummary' = repoSummary /\ localSummary' = localSummary
       /\ hasSummary' = hasSummary /\ reported' = reported /\ due' = due
       /\ allOk' = allOk /\ publishOk' = publishOk /\ withheld' = withheld
       /\ exit' = exit /\ backoff' = backoff
  BY DEF WriteOutputs, repoVars, summaryVars, publishVars, loopVars
<1>. QED BY <1>4, <1>5, <1>6, <1>8, <1>9, <1>10, WritingKeeps

LEMMA WriteMetadataKeeps ==
    ASSUME RunInv, WriteMetadata, setup' = setup
    PROVE  RunInv'
<1>1. FilesOK /\ TypeOK
  BY Files DEF RunInv, TypeOK
<1>2. /\ pc = "written" /\ pc' = "recorded" /\ run' = run /\ status' = status
      /\ made' = made /\ registered' = registered /\ counted' = counted
      /\ fallback' = fallback /\ retired' = retired /\ brokenClash' = brokenClash
      /\ repo' = repo /\ repoSummary' = repoSummary /\ reported' = reported /\ due' = due
      /\ allOk' = allOk /\ publishOk' = publishOk /\ withheld' = withheld
      /\ exit' = exit /\ backoff' = backoff
  BY DEF WriteMetadata, repoVars, publishVars, loopVars
<1>3. \/ /\ localSummary' = [run |-> run, status |-> status, floor |-> withheld]
         /\ hasSummary' = TRUE
      \/ localSummary' = localSummary /\ hasSummary' = hasSummary
  BY DEF WriteMetadata, summaryVars
<1>4. \/ local' = [local EXCEPT ![Stats] = [run |-> run, count |-> 0, plain |-> FALSE]]
      \/ local' = local
  BY DEF WriteMetadata
<1>5. /\ local' \in [Contents -> Version \cup {None}]
      /\ \A f \in Contents \ {Stats} : local'[f] = local[f]
      /\ local'[Stats] # local[Stats] => local'[Stats].run = run
  <2>1. [run |-> run, count |-> 0, plain |-> FALSE] \in Version
    BY <1>1 DEF TypeOK, FilesOK, Version
  <2>2. Stats \in Contents /\ local \in [Contents -> Version \cup {None}]
    BY <1>1 DEF TypeOK, FilesOK
  <2>3. CASE local' = [local EXCEPT ![Stats] = [run |-> run, count |-> 0, plain |-> FALSE]]
    BY <2>1, <2>2, <2>3
  <2>. QED BY <1>4, <2>2, <2>3
<1>6. localSummary' \in SummaryRecord /\ hasSummary' \in BOOLEAN
      /\ (localSummary' # localSummary => localSummary'.run = run)
  <2>1. withheld \subseteq Subscriptions /\ run \in 0 .. MaxRuns /\ status \in RunStatus
    BY <1>1 DEF TypeOK
  <2>2. [run |-> run, status |-> status, floor |-> withheld] \in SummaryRecord
    BY <2>1 DEF SummaryRecord
  <2>3. localSummary \in SummaryRecord /\ hasSummary \in BOOLEAN
    BY <1>1 DEF RunInv, SummaryInv, TypeOK
  <2>4. CASE /\ localSummary' = [run |-> run, status |-> status, floor |-> withheld]
             /\ hasSummary' = TRUE
    <3>1. localSummary' \in SummaryRecord
      BY <2>2, <2>4
    <3>2. localSummary'.run = run
      BY <2>4
    <3>. QED BY <2>4, <3>1, <3>2
  <2>. QED BY <1>3, <2>3, <2>4
<1>7. TypeOK'
  <2>1. {localSummary, repoSummary, reported}' \subseteq SummaryRecord \cup {None}
    BY <1>1, <1>2, <1>6 DEF TypeOK
  <2>2. {hasSummary, allOk, publishOk}' \subseteq BOOLEAN
    BY <1>1, <1>2, <1>6 DEF TypeOK
  <2>. QED BY <1>1, <1>2, <1>5, <2>1, <2>2, SettingsStay DEF TypeOK
<1>8. VersionInv'
  <2>1. run \in Nat
    BY <1>1 DEF TypeOK
  <2>2. Stats \notin ClashSet
    BY <1>1 DEF FilesOK
  <2>. QED BY <1>1, <1>2, <1>5, <2>1, <2>2, SettingsStay DEF RunInv, VersionInv
<1>9. WrittenInv'
  <2>1. \A f \in Subscriptions : local'[f] = local[f] /\ (Wrote(f)' <=> Wrote(f))
    BY <1>1, <1>2, <1>5 DEF Wrote, FilesOK
  <2>2. Configured \cup retired \cup ClashSet \cup SliceSet \subseteq Subscriptions
    BY <1>1 DEF FilesOK, TypeOK
  <2>. QED BY <1>2, <2>1, <2>2, SettingsStay DEF RunInv, WrittenInv, EmptyRun
<1>10. DueInv' /\ BatchInv' /\ EndInv'
  BY <1>2 DEF DueInv, BatchInv, EndInv
<1>11. SummaryInv'
  BY <1>2, <1>3, <1>6, SettingsStay DEF RunInv, SummaryInv
<1>. QED BY <1>7, <1>8, <1>9, <1>10, <1>11 DEF RunInv
----------------------------------------------------------------------------
(* Publishing.                                                             *)

\* A file that is chosen may replace a working one.
LEMMA ChosenMayReplace ==
    ASSUME RunInv, pc = "recorded",
           NEW f \in Subscriptions,
           f \in (Selected.chosen \ Selected.scarce) \ fallback,
           local[f] # None
    PROVE  MayReplaceWorking(f)
<1>1. FilesOK /\ TypeOK
  BY Files DEF RunInv, TypeOK
<1>2. /\ f \in OutputFiles /\ f \notin fallback
      /\ MinPublish > 0 => ~ BelowFloor /\ f \notin registered
      /\ f \notin NearEmpty(Selected.chosen) /\ f \in Selected.chosen
  BY <1>1 DEF Selected, EmptySlices
<1>3. f \in Configured \cup retired \cup ClashSet
  BY <1>1, <1>2 DEF OutputFiles, FilesOK
<1>4. ~ local[f].plain
  <2>1. CASE f \in ClashSet
    BY <1>1, <2>1 DEF RunInv, VersionInv, FilesOK
  <2>2. CASE f \in Configured \cup retired
    BY <1>2, <2>2 DEF RunInv, WrittenInv
  <2>. QED BY <1>3, <2>1, <2>2
<1>5. ASSUME MinPublish > 0
      PROVE  \/ local[f].count >= MinPublish
             \/ f \notin Configured /\ local[f].count = 0
             \/ f \in SliceSet /\ Unverified
  <2>1. ~ EmptyRun /\ made >= MinPublish
    BY <1>1, <1>2, <1>5 DEF BelowFloor, TypeOK, FilesOK
  <2>2. f \in ClashSet => ~ brokenClash
    BY <1>1, <1>2 DEF OutputFiles, FilesOK, TypeOK
  <2>3. Wrote(f) /\ counted[f] = local[f].count
    BY <1>2, <1>3, <2>1, <2>2 DEF RunInv, WrittenInv
  <2>4. local[f].count \in Nat
    BY <1>1 DEF TypeOK, Version, FilesOK
  <2>5. CASE f = Combined
    BY <1>1, <1>2, <2>1, <2>3, <2>5 DEF RunInv, WrittenInv
  <2>6. CASE f # Combined
    <3>1. f \in SliceSet \cup ClashSet \cup LocationSet
      BY <1>1, <2>6 DEF FilesOK
    <3>2. ~ (counted[f] # None /\ counted[f] \in 1 .. MinPublish - 1)
      BY <1>2, <3>1 DEF NearEmpty
    <3>3. local[f].count \in 0 .. MaxConfigs /\ counted[f] # None
      BY <1>1, <2>3 DEF TypeOK, FilesOK, Version
    <3>4. local[f].count = 0 \/ local[f].count >= MinPublish
      BY <1>1, <2>3, <2>4, <3>2, <3>3 DEF FilesOK
    <3>5. f \in SliceSet /\ local[f].count = 0 => Unverified
      BY <1>2, <1>5, <2>3 DEF RunInv, WrittenInv
    <3>6. f \in Configured => f \in SliceSet
      BY <1>1, <2>6 DEF FilesOK
    <3>. QED BY <3>4, <3>5, <3>6
  <2>. QED BY <2>5, <2>6
<1>. QED BY <1>4, <1>5 DEF MayReplaceWorking

\* A file of the run that is not chosen was held back.
LEMMA NotChosenIsSettled ==
    ASSUME RunInv, pc = "recorded",
           NEW f \in Subscriptions, Wrote(f),
           f \notin (Selected.chosen \ Selected.scarce) \ fallback
    PROVE  Settled(f)
<1>1. FilesOK /\ TypeOK
  BY Files DEF RunInv, TypeOK
<1>2. /\ f \in Configured \cup retired \cup ClashSet
      /\ f \in fallback => local[f].plain
      /\ counted[f] = local[f].count
  BY DEF RunInv, WrittenInv
<1>3. f \in OutputFiles \/ (f = Clash /\ brokenClash)
  BY <1>1, <1>2 DEF OutputFiles, FilesOK
<1>4. CASE f \in fallback
  BY <1>2, <1>4 DEF Settled
<1>5. CASE MinPublish > 0 /\ BelowFloor
  <2>1. made < MinPublish
    BY <1>1, <1>5 DEF BelowFloor, RunInv, WrittenInv, TypeOK, FilesOK
  <2>. QED BY <2>1 DEF Settled
<1>6. CASE MinPublish > 0 /\ f \in registered
  <2>1. local[f].count = 0
    BY <1>1, <1>2, <1>6 DEF RunInv, WrittenInv, TypeOK
  <2>. QED BY <1>6, <2>1, <1>1 DEF Settled, FilesOK
<1>7. CASE f \in Selected.scarce
  <2>1. local[f].count \in 1 .. MinPublish - 1
    BY <1>2, <1>7 DEF Selected, NearEmpty
  <2>. QED BY <2>1, <1>1 DEF Settled, FilesOK
<1>8. CASE f \notin OutputFiles
  BY <1>3, <1>8 DEF Settled
<1>9. CASE f \notin Selected.chosen
  BY <1>5, <1>6, <1>8, <1>9 DEF Selected, EmptySlices, BelowFloor
<1>. QED BY <1>4, <1>7, <1>9

LEMMA SelectKeeps ==
    ASSUME RunInv, Select, setup' = setup
    PROVE  RunInv'
<1>1. FilesOK /\ TypeOK
  BY Files DEF RunInv, TypeOK
<1>2. /\ pc = "recorded" /\ run' = run /\ status' = status
      /\ local' = local /\ made' = made /\ registered' = registered
      /\ counted' = counted /\ fallback' = fallback /\ retired' = retired
      /\ brokenClash' = brokenClash /\ repo' = repo /\ repoSummary' = repoSummary
      /\ localSummary' = localSummary /\ hasSummary' = hasSummary
      /\ publishOk' = publishOk /\ reported' = reported /\ exit' = exit
      /\ backoff' = backoff
      /\ \/ /\ Publishes
            /\ withheld' = Selected.scarce
            /\ due' = (Selected.chosen \ Selected.scarce) \ fallback
            /\ allOk' = TRUE /\ pc' = "publishing"
         \/ /\ ~ Publishes /\ pc' = "ended"
            /\ withheld' = withheld /\ due' = due /\ allOk' = allOk
  BY DEF Select, fileVars, repoVars, summaryVars
<1>3. /\ Selected.scarce \subseteq Subscriptions \ {Combined}
      /\ Selected.chosen \subseteq Contents \cup {Summary}
  BY <1>1 DEF Selected, NearEmpty, OutputFiles, EmptySlices, FilesOK, TypeOK
<1>4. TypeOK'
  <2>1. {localSummary, repoSummary, reported}' \subseteq SummaryRecord \cup {None}
    BY <1>1, <1>2 DEF TypeOK
  <2>2. {hasSummary, allOk, publishOk}' \subseteq BOOLEAN
    BY <1>1, <1>2 DEF TypeOK
  <2>3. due' \subseteq Contents \cup {Summary} /\ withheld' \subseteq Subscriptions \ {Combined}
    BY <1>1, <1>2, <1>3 DEF TypeOK
  <2>. QED BY <1>1, <1>2, <2>1, <2>2, <2>3, SettingsStay DEF TypeOK
<1>5. VersionInv' /\ WrittenInv'
  BY <1>2, SettingsStay DEF RunInv, VersionInv, WrittenInv
<1>6. DueInv'
  <2>1. ASSUME pc' = "publishing", NEW f \in due' \cap Subscriptions, local[f] # None
        PROVE  MayReplaceWorking(f)
    BY <1>2, <2>1, ChosenMayReplace
  <2>. QED BY <1>2, <2>1, SettingsStay DEF DueInv, MayReplaceWorking
<1>7. BatchInv'
  <2>1. ASSUME pc' = "publishing", hasSummary
        PROVE  Summary \in due'
    <3>1. Summary \in OutputFiles
      BY <2>1 DEF OutputFiles
    <3>2. Summary \notin Subscriptions
      BY <1>1 DEF FilesOK
    <3>3. Summary \notin registered /\ Summary \notin fallback
      BY <1>1, <3>2 DEF TypeOK, FilesOK
    <3>4. Summary \in Selected.chosen /\ Summary \notin Selected.scarce
      BY <1>3, <3>1, <3>2, <3>3 DEF Selected, EmptySlices
    <3>. QED BY <1>2, <2>1, <3>3, <3>4
  <2>2. ASSUME pc' = "publishing", NEW f \in Subscriptions, Wrote(f)
        PROVE  f \in due' \/ Settled(f)
    BY <1>2, <2>2, NotChosenIsSettled
  <2>. QED BY <1>2, <2>1, <2>2, SettingsStay DEF BatchInv, Wrote, Settled
<1>8. EndInv'
  BY <1>2, SettingsStay DEF EndInv
<1>9. SummaryInv'
  BY <1>2, SettingsStay DEF RunInv, SummaryInv
<1>. QED BY <1>4, <1>5, <1>6, <1>7, <1>8, <1>9 DEF RunInv

\* What a request of the batch may do to the repository.
LEMMA BatchKeeps ==
    ASSUME RunInv, setup' = setup, pc = "publishing", NEW f \in due, MayReplace(f),
           due' \subseteq due, allOk' \in BOOLEAN,
           allOk' => allOk /\ Readable(f) /\ Replace(f) /\ due' = due \ {f},
           UNCHANGED <<pc, run, status, fileVars, summaryVars, publishOk, withheld,
                       loopVars>>
    PROVE  /\ RunInv'
           /\ \A g \in Subscriptions : repo'[g] # repo[g] =>
                 repo'[g] = local[g] /\ MayReplaceWorking(g)
<1>1. FilesOK /\ TypeOK
  BY Files DEF RunInv, TypeOK
<1>2. /\ pc' = pc /\ run' = run /\ status' = status
      /\ local' = local /\ made' = made /\ registered' = registered
      /\ counted' = counted /\ fallback' = fallback /\ retired' = retired
      /\ brokenClash' = brokenClash
      /\ localSummary' = localSummary /\ hasSummary' = hasSummary
      /\ publishOk' = publishOk /\ withheld' = withheld /\ reported' = reported
      /\ exit' = exit /\ backoff' = backoff
  BY DEF fileVars, summaryVars, loopVars
<1>3. \/ repo' = repo /\ repoSummary' = repoSummary
      \/ f = Summary /\ repoSummary' = localSummary /\ repo' = repo
      \/ /\ f \in Contents /\ local[f] # None
         /\ repo' = [repo EXCEPT ![f] = local[f]] /\ repoSummary' = repoSummary
  BY <1>1 DEF MayReplace, Readable, Replace, repoVars, TypeOK, FilesOK
<1>4. /\ repo' \in [Contents -> Version \cup {None}]
      /\ repoSummary' \in SummaryRecord
      /\ \A g \in Contents : g # f => repo'[g] = repo[g]
      /\ f \in Contents => \/ repo'[f] = repo[f]
                           \/ repo'[f] = local[f] /\ local[f] # None
  BY <1>1, <1>3 DEF RunInv, SummaryInv, TypeOK
<1>5. TypeOK'
  <2>1. {localSummary, repoSummary, reported}' \subseteq SummaryRecord \cup {None}
    BY <1>1, <1>2, <1>4 DEF TypeOK
  <2>2. {hasSummary, allOk, publishOk}' \subseteq BOOLEAN
    BY <1>1, <1>2 DEF TypeOK
  <2>3. due' \subseteq Contents \cup {Summary}
    BY <1>1 DEF TypeOK
  <2>. QED BY <1>1, <1>2, <1>4, <2>1, <2>2, <2>3, SettingsStay DEF TypeOK
<1>6. VersionInv'
  BY <1>2, <1>4, SettingsStay DEF RunInv, VersionInv
<1>7. WrittenInv' /\ EndInv'
  BY <1>2 DEF WrittenInv, EndInv
<1>8. DueInv'
  BY <1>2, SettingsStay DEF RunInv, DueInv, MayReplaceWorking
<1>9. BatchInv'
  <2>. SUFFICES ASSUME allOk'
                PROVE  /\ hasSummary => Summary \in due' \/ repoSummary' = localSummary
                       /\ \A g \in Subscriptions :
                             Wrote(g) => g \in due' \/ Settled(g)'
    BY <1>2, SettingsStay DEF BatchInv, Wrote
  <2>1. /\ allOk /\ Replace(f) /\ due' = due \ {f}
    OBVIOUS
  <2>2. f = Summary => repoSummary' = localSummary
    BY <2>1 DEF Replace
  <2>3. f # Summary => repoSummary' = repoSummary
    BY <2>1 DEF Replace
  <2>4. f \in Subscriptions => repo'[f] = local[f]
    BY <1>1, <2>1 DEF Replace, FilesOK, TypeOK
  <2>5. \A g \in Subscriptions : g # f => repo'[g] = repo[g]
    BY <1>1, <1>4 DEF FilesOK
  <2>. QED BY <1>2, <2>1, <2>2, <2>3, <2>4, <2>5, SettingsStay
           DEF RunInv, BatchInv, Settled
<1>10. SummaryInv'
  BY <1>2, <1>4, SettingsStay DEF RunInv, SummaryInv
<1>11. \A g \in Subscriptions : repo'[g] # repo[g] =>
                 repo'[g] = local[g] /\ MayReplaceWorking(g)
  <2>. SUFFICES ASSUME NEW g \in Subscriptions, repo'[g] # repo[g]
                PROVE  repo'[g] = local[g] /\ MayReplaceWorking(g)
    OBVIOUS
  <2>1. g = f /\ repo'[f] = local[f] /\ local[f] # None
    BY <1>1, <1>4 DEF FilesOK
  <2>. QED BY <2>1 DEF RunInv, DueInv
<1>. QED BY <1>5, <1>6, <1>7, <1>8, <1>9, <1>10, <1>11 DEF RunInv
\* The three outcomes of a request, as steps of the batch.
LEMMA PublishKeeps ==
    ASSUME RunInv, PublishOne \/ FailOne \/ AbortBatch, setup' = setup
    PROVE  /\ RunInv'
           /\ \A g \in Subscriptions : repo'[g] # repo[g] =>
                 repo'[g] = local[g] /\ MayReplaceWorking(g)
<1>1. CASE PublishOne
  <2>1. PICK f \in due : Readable(f) /\ Replace(f) /\ due' = due \ {f}
    BY <1>1 DEF PublishOne, IsNext
  <2>2. allOk' = allOk /\ allOk \in BOOLEAN
    BY <1>1 DEF PublishOne, RunInv, TypeOK
  <2>3. MayReplace(f)
    BY <2>1 DEF MayReplace
  <2>. QED BY <1>1, <2>1, <2>2, <2>3, BatchKeeps DEF PublishOne
<1>2. CASE FailOne
  <2>1. PICK f \in due : MayReplace(f) /\ due' = due \ {f}
    BY <1>2 DEF FailOne, IsNext
  <2>. QED BY <1>2, <2>1, BatchKeeps DEF FailOne
<1>3. CASE AbortBatch
  <2>1. PICK f \in due : MayReplace(f)
    BY <1>3 DEF AbortBatch, IsNext
  <2>. QED BY <1>3, <2>1, BatchKeeps DEF AbortBatch, AbortedOk
<1>. QED BY <1>1, <1>2, <1>3

LEMMA FinishPublishKeeps ==
    ASSUME RunInv, FinishPublish, setup' = setup
    PROVE  RunInv'
<1>1. FilesOK /\ TypeOK
  BY Files DEF RunInv, TypeOK
<1>2. /\ pc = "publishing" /\ pc' = "ended" /\ due = {} /\ due' = due
      /\ run' = run /\ status' = status
      /\ local' = local /\ made' = made /\ registered' = registered
      /\ counted' = counted /\ fallback' = fallback /\ retired' = retired
      /\ brokenClash' = brokenClash /\ repo' = repo /\ repoSummary' = repoSummary
      /\ hasSummary' = hasSummary /\ allOk' = allOk /\ publishOk' = allOk
      /\ withheld' = withheld /\ reported' = reported
      /\ exit' = exit /\ backoff' = backoff
  BY DEF FinishPublish, fileVars, repoVars, loopVars
<1>3. /\ localSummary' \in SummaryRecord /\ localSummary'.run = localSummary.run
      /\ allOk => localSummary' = localSummary
  <2>1. localSummary \in SummaryRecord
    BY DEF RunInv, SummaryInv
  <2>2. CASE /\ ~ allOk
             /\ localSummary' = [localSummary EXCEPT !.status = "publish_failed"]
    BY <2>1, <2>2 DEF SummaryRecord
  <2>3. CASE localSummary' = localSummary
    BY <2>1, <2>3
  <2>. QED BY <2>2, <2>3 DEF FinishPublish
<1>4. TypeOK'
  <2>1. {localSummary, repoSummary, reported}' \subseteq SummaryRecord \cup {None}
    BY <1>1, <1>2, <1>3 DEF TypeOK
  <2>2. {hasSummary, allOk, publishOk}' \subseteq BOOLEAN
    BY <1>1, <1>2 DEF TypeOK
  <2>. QED BY <1>1, <1>2, <2>1, <2>2, SettingsStay DEF TypeOK
<1>5. VersionInv' /\ WrittenInv' /\ DueInv' /\ BatchInv'
  BY <1>2, SettingsStay DEF RunInv, VersionInv, WrittenInv, DueInv, BatchInv
<1>6. EndInv'
  <2>1. allOk => /\ hasSummary => repoSummary = localSummary
                 /\ \A f \in Subscriptions : Wrote(f) => Settled(f)
    BY <1>1, <1>2 DEF RunInv, BatchInv
  <2>. QED BY <1>2, <1>3, <2>1, SettingsStay DEF EndInv, Wrote, Settled
<1>7. SummaryInv'
  BY <1>2, <1>3, SettingsStay DEF RunInv, SummaryInv
<1>. QED BY <1>4, <1>5, <1>6, <1>7 DEF RunInv
----------------------------------------------------------------------------
(* The process.                                                            *)

LEMMA PauseBounded ==
    ASSUME TypeOK, NEW productive \in BOOLEAN, Pause(productive)
    PROVE  pc' \in {"idle", "stopped"} /\ backoff' \in 1 .. MaxBackoff
BY FilesAssumption DEF TypeOK, Pause

LEMMA EndRunKeeps ==
    ASSUME RunInv, EndRun \/ Crash, setup' = setup
    PROVE  RunInv'
<1>1. FilesOK /\ TypeOK
  BY Files DEF RunInv, TypeOK
<1>2. /\ pc \notin {"idle", "stopped"} /\ run' = run /\ status' = status
      /\ local' = local /\ made' = made /\ registered' = registered
      /\ counted' = counted /\ fallback' = fallback /\ retired' = retired
      /\ brokenClash' = brokenClash /\ repo' = repo /\ repoSummary' = repoSummary
      /\ localSummary' = localSummary /\ hasSummary' = hasSummary /\ due' = due
      /\ allOk' = allOk /\ publishOk' = publishOk /\ withheld' = withheld
      /\ exit' \in {0, 1, 3}
      /\ exit' = 0 /\ Publishes => pc = "ended" /\ publishOk
      /\ \/ pc = "ended" /\ hasSummary /\ reported' = localSummary
         \/ reported' = None
  <2>1. CASE EndRun
    <3>1. exit' = ExitCode(publishOk) /\ reported' = SummaryToReport /\ pc = "ended"
      BY <2>1 DEF EndRun
    <3>2. exit' \in {0, 1, 3} /\ (exit' = 0 /\ Publishes => publishOk)
      BY <3>1 DEF ExitCode
    <3>. QED BY <2>1, <3>1, <3>2
             DEF EndRun, SummaryToReport, fileVars, repoVars, summaryVars, publishVars
  <2>2. CASE Crash
    BY <2>2 DEF Crash, fileVars, repoVars, summaryVars, publishVars
  <2>. QED BY <2>1, <2>2
<1>3. pc' \in {"idle", "stopped"} /\ backoff' \in 1 .. MaxBackoff
  <2>1. CASE EndRun
    <3>1. Pause(exit' = 0 /\ ~ EmptyRun /\ made > 0)
      BY <2>1 DEF EndRun
    <3>2. (exit' = 0 /\ ~ EmptyRun /\ made > 0) \in BOOLEAN
      OBVIOUS
    <3>. QED BY <1>1, <3>1, <3>2, PauseBounded
  <2>2. CASE Crash
    BY <1>1, <2>2, PauseBounded DEF Crash
  <2>. QED BY <2>1, <2>2
<1>4. TypeOK'
  <2>1. {localSummary, repoSummary, reported}' \subseteq SummaryRecord \cup {None}
    BY <1>1, <1>2 DEF TypeOK
  <2>2. {hasSummary, allOk, publishOk}' \subseteq BOOLEAN
    BY <1>1, <1>2 DEF TypeOK
  <2>. QED BY <1>1, <1>2, <1>3, <2>1, <2>2, SettingsStay DEF TypeOK
<1>5. VersionInv' /\ WrittenInv' /\ DueInv' /\ BatchInv'
  BY <1>2, <1>3, SettingsStay DEF RunInv, VersionInv, WrittenInv, DueInv, BatchInv
<1>6. EndInv'
  BY <1>2, <1>3, SettingsStay DEF RunInv, EndInv, Wrote, Settled
<1>7. SummaryInv'
  BY <1>2, <1>3, SettingsStay DEF RunInv, SummaryInv
<1>. QED BY <1>4, <1>5, <1>6, <1>7 DEF RunInv

LEMMA DieKeeps ==
    ASSUME RunInv, Die, setup' = setup
    PROVE  RunInv'
<1>1. FilesOK /\ TypeOK
  BY Files DEF RunInv, TypeOK
<1>2. /\ pc \notin {"idle", "stopped"} /\ pc' = "stopped" /\ exit' = 130
      /\ run' = run /\ status' = status /\ made' = made /\ registered' = registered
      /\ counted' = counted /\ fallback' = fallback /\ retired' = retired
      /\ brokenClash' = brokenClash /\ repo' = repo /\ repoSummary' = repoSummary
      /\ localSummary' = localSummary /\ hasSummary' = hasSummary /\ due' = due
      /\ allOk' = allOk /\ publishOk' = publishOk /\ withheld' = withheld
      /\ backoff' = backoff /\ reported' = reported
  BY DEF Die, repoVars, summaryVars, publishVars
<1>3. /\ local' \in [Contents -> Version \cup {None}]
      /\ \A f \in Contents : local'[f] = None \/ local'[f] = local[f]
  BY <1>1 DEF Die, TypeOK
<1>4. TypeOK'
  <2>1. {localSummary, repoSummary, reported}' \subseteq SummaryRecord \cup {None}
    BY <1>1, <1>2 DEF TypeOK
  <2>2. {hasSummary, allOk, publishOk}' \subseteq BOOLEAN
    BY <1>1, <1>2 DEF TypeOK
  <2>. QED BY <1>1, <1>2, <1>3, <2>1, <2>2, SettingsStay DEF TypeOK
<1>5. VersionInv'
  BY <1>2, <1>3, SettingsStay DEF RunInv, VersionInv
<1>6. WrittenInv' /\ DueInv' /\ BatchInv' /\ EndInv'
  BY <1>2 DEF WrittenInv, DueInv, BatchInv, EndInv
<1>7. SummaryInv'
  BY <1>2, SettingsStay DEF RunInv, SummaryInv
<1>. QED BY <1>4, <1>5, <1>6, <1>7 DEF RunInv

\* A fresh checkout shows what is published, so nothing is left to be settled.
LEMMA RelaunchKeeps ==
    ASSUME RunInv, Relaunch, setup' = setup
    PROVE  RunInv'
<1>1. FilesOK /\ TypeOK
  BY Files DEF RunInv, TypeOK
<1>2. /\ pc = "stopped" /\ pc' = "idle" /\ backoff' = 1 /\ exit' = exit
      /\ run' = run /\ status' = status /\ made' = made /\ registered' = registered
      /\ counted' = counted /\ fallback' = fallback /\ retired' = retired
      /\ brokenClash' = brokenClash /\ repo' = repo /\ repoSummary' = repoSummary
      /\ hasSummary' = hasSummary /\ due' = due
      /\ allOk' = allOk /\ publishOk' = publishOk /\ withheld' = withheld
      /\ reported' = reported
      /\ \/ local' = local /\ localSummary' = localSummary
         \/ local' = repo /\ localSummary' = repoSummary
  BY DEF Relaunch, repoVars, publishVars
<1>3. TypeOK'
  <2>1. {localSummary, repoSummary, reported}' \subseteq SummaryRecord \cup {None}
    BY <1>1, <1>2 DEF TypeOK
  <2>2. {hasSummary, allOk, publishOk}' \subseteq BOOLEAN
    BY <1>1, <1>2 DEF TypeOK
  <2>3. backoff' \in 1 .. MaxBackoff
    BY <1>1, <1>2 DEF FilesOK
  <2>4. local' \in [Contents -> Version \cup {None}]
    BY <1>1, <1>2 DEF TypeOK
  <2>. QED BY <1>1, <1>2, <2>1, <2>2, <2>3, <2>4, SettingsStay DEF TypeOK
<1>4. VersionInv'
  BY <1>2, SettingsStay DEF RunInv, VersionInv
<1>5. WrittenInv' /\ DueInv' /\ BatchInv'
  BY <1>2 DEF WrittenInv, DueInv, BatchInv
<1>6. EndInv'
  <2>1. CASE local' = local /\ localSummary' = localSummary
    BY <1>2, <2>1, SettingsStay DEF RunInv, EndInv, Wrote, Settled
  <2>2. CASE local' = repo /\ localSummary' = repoSummary
    BY <1>2, <2>2, SettingsStay DEF EndInv, Settled
  <2>. QED BY <1>2, <2>1, <2>2
<1>7. SummaryInv'
  BY <1>2, SettingsStay DEF RunInv, SummaryInv
<1>. QED BY <1>3, <1>4, <1>5, <1>6, <1>7 DEF RunInv
----------------------------------------------------------------------------
(* The theorems.                                                           *)

LEMMA NextKeeps == RunInv /\ [Next]_vars => RunInv'
<1>. SUFFICES ASSUME RunInv, [Next]_vars PROVE RunInv'
  OBVIOUS
<1>1. CASE Next
  BY <1>1, BeginKeeps, FinishEmptyRunKeeps, WriteOutputsKeeps, WriteMetadataKeeps,
     SelectKeeps, PublishKeeps, FinishPublishKeeps, EndRunKeeps, DieKeeps,
     RelaunchKeeps DEF Next
<1>2. CASE UNCHANGED vars
  <2>1. /\ setup' = setup /\ pc' = pc /\ run' = run /\ status' = status
        /\ local' = local /\ made' = made /\ registered' = registered
        /\ counted' = counted /\ fallback' = fallback /\ retired' = retired
        /\ brokenClash' = brokenClash /\ repo' = repo /\ repoSummary' = repoSummary
        /\ localSummary' = localSummary /\ hasSummary' = hasSummary /\ due' = due
        /\ allOk' = allOk /\ publishOk' = publishOk /\ withheld' = withheld
        /\ exit' = exit /\ backoff' = backoff /\ reported' = reported
    BY <1>2 DEF vars, fileVars, repoVars, summaryVars, publishVars, loopVars
  <2>2. TypeOK' /\ VersionInv' /\ WrittenInv'
    BY <2>1, SettingsStay DEF RunInv, TypeOK, VersionInv, WrittenInv, Wrote, EmptyRun
  <2>3. DueInv' /\ BatchInv' /\ EndInv' /\ SummaryInv'
    BY <2>1, SettingsStay
       DEF RunInv, DueInv, BatchInv, EndInv, SummaryInv, MayReplaceWorking, Wrote, Settled
  <2>. QED BY <2>2, <2>3 DEF RunInv
<1>. QED BY <1>1, <1>2

LEMMA RunInvariant == Spec => []RunInv
BY InitHolds, NextKeeps, PTL DEF Spec

\* Whatever breaks, is killed or is started again, the state of the runs keeps
\* its type; in particular the pause stays within its bound (main.py:374-413).
THEOREM TypeCorrect == Spec => []TypeOK
<1>1. RunInv => TypeOK
  BY DEF RunInv
<1>. QED BY RunInvariant, <1>1, PTL

\* No working file is ever replaced by a near-empty, unregistered empty or plain
\* one, with any outputs, floor, failures and number of runs (runner.py:494-524,
\* 1484-1592).
THEOREM WorkingFilesAreKept == Spec => WorkingFileKept
<1>1. RunInv /\ [Next]_vars =>
         [\A f \in Subscriptions :
             repo'[f] # repo[f] =>
                /\ ~ repo'[f].plain
                /\ MinPublish > 0 =>
                      \/ repo'[f].count >= MinPublish
                      \/ f \notin Configured /\ repo'[f].count = 0
                      \/ f \in SliceSet /\ Unverified]_vars
  <2>. SUFFICES ASSUME RunInv, Next, NEW f \in Subscriptions, repo'[f] # repo[f]
                PROVE  /\ ~ repo'[f].plain
                       /\ MinPublish > 0 =>
                             \/ repo'[f].count >= MinPublish
                             \/ f \notin Configured /\ repo'[f].count = 0
                             \/ f \in SliceSet /\ Unverified
    OBVIOUS
  <2>1. setup' = setup
    BY DEF Next
  <2>2. PublishOne \/ FailOne \/ AbortBatch
    BY DEF Next, Begin, FinishEmptyRun, WriteOutputs, WriteMetadata, Select,
           FinishPublish, EndRun, Crash, Die, Relaunch, repoVars
  <2>3. repo'[f] = local[f] /\ MayReplaceWorking(f)
    BY <2>1, <2>2, PublishKeeps
  <2>. QED BY <2>3 DEF MayReplaceWorking
<1>. QED BY RunInvariant, <1>1, PTL DEF Spec, WorkingFileKept

\* An exit code of 0 never hides a file that was not published, however the
\* batch went (runner.py:1374-1422, main.py:252-307).
THEOREM GreenIsTruthful == Spec => []GreenMeansPublished
<1>1. RunInv => GreenMeansPublished
  BY DEF RunInv, EndInv, GreenMeansPublished, Settled
<1>. QED BY RunInvariant, <1>1, PTL

\* No report shows the numbers of an earlier run, whatever is left on disk
\* (main.py:181-209).
THEOREM ReportsAreCurrent == Spec => []ReportIsOfThisRun
<1>1. RunInv => ReportIsOfThisRun
  BY DEF RunInv, SummaryInv, ReportIsOfThisRun
<1>. QED BY RunInvariant, <1>1, PTL
----------------------------------------------------------------------------
(* The location files, over several runs.                                  *)

\* No published location file disappears from the disk: what a kill in the
\* middle of the writing, or a write that fails after the removal, would do.
NoLocationIsLost ==
    \A l \in LocationSet : repo[l] # None /\ local[l] # None => local'[l] # None

\* A location file that is published is there to be found by the next run.
KeptInv == \A l \in LocationSet : repo[l] # None => local[l] # None

\* Every one of them is written again, with its configs or emptied.
RewrittenInv ==
    pc \in {"written", "recorded"} =>
        \A l \in LocationSet : repo[l] # None => l \in retired /\ Wrote(l)

\* A run that publishes its subscriptions.
HasSubscriptions == ~ EmptyRun /\ made >= MinPublish

\* The published file is of this run, or was held back.
Renewed(l) == repo[l].run = run \/ l \in withheld \cup fallback

RenewalInv ==
    pc = "publishing" =>
        /\ \A l \in due \cap LocationSet : local[l] # None => Wrote(l)
        /\ allOk /\ HasSubscriptions =>
              \A l \in LocationSet : repo[l] # None => l \in due \/ Renewed(l)

RenewedInv ==
    Publishes /\ HasSubscriptions
      /\ (\/ pc = "ended" /\ publishOk
          \/ pc \in {"idle", "stopped"} /\ run > 0 /\ exit = 0) =>
        \A l \in LocationSet : repo[l] # None => Renewed(l)

LocationInv == KeptInv /\ RewrittenInv /\ RenewalInv /\ RenewedInv

LEMMA LocationInit == Init => LocationInv
<1>. SUFFICES ASSUME Init PROVE LocationInv
  OBVIOUS
<1>1. pc = "idle" /\ run = 0 /\ repo = local
  BY DEF Init
<1>. QED BY <1>1 DEF LocationInv, KeptInv, RewrittenInv, RenewalInv, RenewedInv

\* A run finds every published location file and writes it.
LEMMA EveryLocationIsRewritten ==
    ASSUME RunInv, KeptInv, NoLocationIsLost, setup' = setup, run' = run, repo' = repo,
           NEW counts, NEW broken, NEW lost, Write(counts, broken, lost),
           NEW l \in LocationSet, repo[l] # None
    PROVE  l \in retired' /\ local'[l] # None /\ local'[l].run = run
<1>1. FilesOK
  BY Files DEF RunInv, TypeOK
<1>2. local[l] # None /\ local'[l] # None
  BY DEF KeptInv, NoLocationIsLost
<1>3. l \in LocationsOf(DOMAIN counts)
  BY <1>2 DEF LocationsOf
<1>4. l \in Contents
  BY <1>1 DEF FilesOK
<1>5. l \in retired'
  BY <1>3 DEF Write
<1>6. local'[l].run = run
  <2> DEFINE wrote == DOMAIN counts \cup LocationsOf(DOMAIN counts)
             count(f) == IF f \in DOMAIN counts THEN counts[f] ELSE 0
  <2>1. local'[l] = IF l \in wrote \ lost
                      THEN [run |-> run, count |-> count(l), plain |-> l \in broken]
                    ELSE IF l \in lost \cap LocationSet THEN None
                    ELSE local[l]
    BY <1>4 DEF Write
  <2>2. l \in wrote
    BY <1>3
  <2>. HIDE DEF wrote, count
  <2>. QED BY <1>2, <2>1, <2>2
<1>. QED BY <1>2, <1>5, <1>6

\* What the disk step of a run leaves true, whichever way it is written.
LEMMA WritingRenews ==
    ASSUME RunInv, LocationInv, NoLocationIsLost, setup' = setup,
           FinishEmptyRun \/ WriteOutputs
    PROVE  LocationInv'
<1>1. PICK counts, broken, lost : Write(counts, broken, lost)
  <2>1. CASE FinishEmptyRun
    BY <2>1 DEF FinishEmptyRun
  <2>2. CASE WriteOutputs
    BY <2>2 DEF WriteOutputs
  <2>. QED BY <2>1, <2>2
<1>2. run' = run /\ repo' = repo /\ pc' = "written"
  BY DEF FinishEmptyRun, WriteOutputs, repoVars
<1>3. \A l \in LocationSet : repo[l] # None =>
         l \in retired' /\ local'[l] # None /\ local'[l].run = run
  BY <1>1, <1>2, EveryLocationIsRewritten DEF LocationInv
<1>4. KeptInv' /\ RewrittenInv'
  BY <1>2, <1>3, SettingsStay DEF KeptInv, RewrittenInv, Wrote
<1>. QED BY <1>2, <1>4 DEF LocationInv, RenewalInv, RenewedInv

\* Every location file of a run with subscriptions is chosen, unless it is held
\* back; and what is chosen, the run wrote.
LEMMA LocationsAreChosen ==
    ASSUME RunInv, RewrittenInv, Select, setup' = setup, Publishes
    PROVE  /\ \A l \in due' \cap LocationSet : local[l] # None => Wrote(l)
           /\ HasSubscriptions =>
                 \A l \in LocationSet : repo[l] # None =>
                    l \in due' \cup withheld' \cup fallback
<1>1. FilesOK /\ TypeOK
  BY Files DEF RunInv, TypeOK
<1>2. /\ pc = "recorded" /\ withheld' = Selected.scarce
      /\ due' = (Selected.chosen \ Selected.scarce) \ fallback
  BY DEF Select
<1>3. ASSUME NEW l \in due' \cap LocationSet, local[l] # None
      PROVE  Wrote(l)
  <2>1. l \in OutputFiles /\ l \notin fallback
    BY <1>2 DEF Selected, EmptySlices
  <2>2. l \in retired
    BY <1>1, <2>1 DEF OutputFiles, FilesOK
  <2>. QED BY <1>2, <1>3, <2>1, <2>2 DEF RunInv, WrittenInv
<1>4. ASSUME HasSubscriptions, NEW l \in LocationSet, repo[l] # None
      PROVE  l \in due' \cup withheld' \cup fallback
  <2>1. l \in OutputFiles
    BY <1>2, <1>4 DEF RewrittenInv, OutputFiles
  <2>2. ~ BelowFloor
    BY <1>1, <1>4 DEF BelowFloor, HasSubscriptions, TypeOK, FilesOK
  <2>3. l \notin registered
    BY <1>1 DEF TypeOK, FilesOK
  <2>4. l \in Selected.chosen
    BY <2>1, <2>2, <2>3 DEF Selected, EmptySlices
  <2>. QED BY <1>2, <2>4
<1>. QED BY <1>3, <1>4

\* A request replaces the file it is about, or fails and shows.
LEMMA RequestRenews ==
    ASSUME RunInv, LocationInv, setup' = setup, PublishOne \/ FailOne \/ AbortBatch
    PROVE  LocationInv'
<1>1. FilesOK /\ TypeOK
  BY Files DEF RunInv, TypeOK
<1>2. /\ pc = "publishing" /\ pc' = pc /\ run' = run /\ status' = status
      /\ local' = local /\ made' = made /\ fallback' = fallback
      /\ retired' = retired /\ withheld' = withheld /\ due' \subseteq due
  BY DEF PublishOne, FailOne, AbortBatch, fileVars
<1>3. PICK f \in due :
        /\ MayReplace(f)
        /\ allOk' => allOk /\ Readable(f) /\ Replace(f) /\ due' = due \ {f}
  <2>1. CASE PublishOne
    BY <2>1 DEF PublishOne, MayReplace
  <2>2. CASE FailOne
    BY <2>2 DEF FailOne
  <2>3. CASE AbortBatch
    BY <2>3 DEF AbortBatch, AbortedOk
  <2>. QED BY <2>1, <2>2, <2>3
<1>4. \A l \in LocationSet :
        \/ repo'[l] = repo[l]
        \/ l = f /\ local[l] # None /\ repo'[l] = local[l]
  BY <1>1, <1>3 DEF MayReplace, Readable, Replace, repoVars, TypeOK, FilesOK
<1>5. KeptInv'
  BY <1>2, <1>4, SettingsStay DEF LocationInv, KeptInv
<1>6. RewrittenInv' /\ RenewedInv'
  BY <1>2 DEF RewrittenInv, RenewedInv
<1>7. RenewalInv'
  <2>1. \A l \in due' \cap LocationSet : local'[l] # None => Wrote(l)'
    BY <1>2 DEF LocationInv, RenewalInv, Wrote
  <2>2. ASSUME allOk', HasSubscriptions', NEW l \in LocationSet, repo'[l] # None
        PROVE  l \in due' \/ Renewed(l)'
    <3>1. allOk /\ HasSubscriptions /\ Replace(f) /\ Readable(f) /\ due' = due \ {f}
      BY <1>2, <1>3, <2>2 DEF HasSubscriptions, EmptyRun
    <3>2. CASE l = f
      <4>1. l # Summary /\ l \in Contents
        BY <1>1 DEF FilesOK
      <4>2. repo'[l] = local[l]
        BY <1>1, <3>1, <3>2, <4>1 DEF Replace, TypeOK
      <4>3. local[l].run = run
        BY <1>2, <1>3, <2>2, <3>2, <4>2 DEF LocationInv, RenewalInv, Wrote
      <4>. QED BY <1>2, <4>2, <4>3 DEF Renewed
    <3>3. CASE l # f
      <4>1. repo'[l] = repo[l]
        BY <1>4, <3>3
      <4>2. l \in due \/ Renewed(l)
        BY <1>2, <2>2, <3>1, <4>1 DEF LocationInv, RenewalInv
      <4>. QED BY <1>2, <3>1, <3>3, <4>1, <4>2 DEF Renewed
    <3>. QED BY <3>2, <3>3
  <2>. QED BY <2>1, <2>2, SettingsStay DEF RenewalInv
<1>. QED BY <1>5, <1>6, <1>7 DEF LocationInv

LEMMA LocationStep ==
    RunInv /\ LocationInv /\ [Next]_vars /\ [NoLocationIsLost]_vars => LocationInv'
<1>. SUFFICES ASSUME RunInv, LocationInv, [Next]_vars, [NoLocationIsLost]_vars
              PROVE  LocationInv'
  OBVIOUS
<1>. USE DEF fileVars, repoVars, summaryVars, publishVars, loopVars
<1>0. FilesOK /\ TypeOK
  BY Files DEF RunInv, TypeOK
<1>1. CASE UNCHANGED vars
  <2>1. /\ setup' = setup /\ pc' = pc /\ run' = run /\ status' = status
        /\ local' = local /\ made' = made /\ fallback' = fallback /\ retired' = retired
        /\ repo' = repo /\ due' = due /\ allOk' = allOk /\ publishOk' = publishOk
        /\ withheld' = withheld /\ exit' = exit
    BY <1>1 DEF vars
  <2>2. HasSubscriptions' = HasSubscriptions
    BY <2>1 DEF HasSubscriptions, EmptyRun
  <2>. QED BY <2>1, <2>2, SettingsStay
           DEF LocationInv, KeptInv, RewrittenInv, RenewalInv, RenewedInv, Wrote, Renewed
<1>. SUFFICES ASSUME Next, NoLocationIsLost, setup' = setup PROVE LocationInv'
  <2>1. CASE vars' # vars
    BY <2>1 DEF Next
  <2>. QED BY <1>1, <2>1
<1>2. CASE Begin
  BY <1>2, SettingsStay
     DEF Begin, LocationInv, KeptInv, RewrittenInv, RenewalInv, RenewedInv
<1>3. CASE FinishEmptyRun \/ WriteOutputs
  BY <1>3, WritingRenews
<1>4. CASE WriteMetadata
  <2>1. /\ pc = "written" /\ pc' = "recorded" /\ run' = run /\ repo' = repo
        /\ retired' = retired
    BY <1>4 DEF WriteMetadata
  <2>2. \A l \in LocationSet : local'[l] = local[l]
    BY <1>0, <1>4 DEF WriteMetadata, TypeOK, FilesOK
  <2>3. KeptInv' /\ RewrittenInv'
    BY <2>1, <2>2, SettingsStay DEF LocationInv, KeptInv, RewrittenInv, Wrote
  <2>. QED BY <2>1, <2>3 DEF LocationInv, RenewalInv, RenewedInv
<1>5. CASE Select
  <2>1. /\ pc = "recorded" /\ run' = run /\ repo' = repo /\ local' = local
        /\ status' = status /\ made' = made /\ fallback' = fallback
        /\ publishOk' = publishOk
        /\ pc' = IF Publishes THEN "publishing" ELSE "ended"
    BY <1>5 DEF Select
  <2>2. KeptInv' /\ RewrittenInv'
    BY <2>1, SettingsStay DEF LocationInv, KeptInv, RewrittenInv
  <2>3. RenewalInv'
    BY <1>5, <2>1, LocationsAreChosen, SettingsStay
       DEF LocationInv, RenewalInv, HasSubscriptions, EmptyRun, Renewed, Wrote
  <2>4. RenewedInv'
    BY <2>1, SettingsStay DEF RenewedInv
  <2>. QED BY <2>2, <2>3, <2>4 DEF LocationInv
<1>6. CASE PublishOne \/ FailOne \/ AbortBatch
  BY <1>6, RequestRenews
<1>7. CASE FinishPublish
  <2>1. /\ pc = "publishing" /\ pc' = "ended" /\ due = {} /\ publishOk' = allOk
        /\ run' = run /\ repo' = repo /\ local' = local /\ status' = status
        /\ made' = made /\ fallback' = fallback /\ withheld' = withheld
    BY <1>7 DEF FinishPublish
  <2>2. HasSubscriptions' = HasSubscriptions
    BY <2>1 DEF HasSubscriptions, EmptyRun
  <2>3. allOk /\ HasSubscriptions =>
           \A l \in LocationSet : repo[l] # None => Renewed(l)
    BY <2>1 DEF LocationInv, RenewalInv
  <2>4. RenewedInv'
    BY <2>1, <2>2, <2>3, SettingsStay DEF RenewedInv, Renewed
  <2>. QED BY <2>1, <2>4, SettingsStay DEF LocationInv, KeptInv, RewrittenInv, RenewalInv
<1>8. CASE EndRun \/ Crash
  <2>1. /\ run' = run /\ repo' = repo /\ local' = local /\ status' = status
        /\ made' = made /\ fallback' = fallback /\ withheld' = withheld
        /\ pc' \in {"idle", "stopped"}
    BY <1>8 DEF EndRun, Crash, Pause
  <2>2. Publishes /\ exit' = 0 => pc = "ended" /\ publishOk
    BY <1>8 DEF EndRun, Crash, ExitCode
  <2>3. HasSubscriptions' = HasSubscriptions
    BY <2>1 DEF HasSubscriptions, EmptyRun
  <2>4. RenewedInv'
    BY <2>1, <2>2, <2>3, SettingsStay DEF LocationInv, RenewedInv, Renewed
  <2>. QED BY <2>1, <2>4, SettingsStay DEF LocationInv, KeptInv, RewrittenInv, RenewalInv
<1>9. CASE Die
  <2>1. pc' = "stopped" /\ exit' = 130 /\ repo' = repo
    BY <1>9 DEF Die
  <2>2. KeptInv'
    BY <2>1, SettingsStay DEF LocationInv, KeptInv, NoLocationIsLost
  <2>. QED BY <2>1, <2>2 DEF LocationInv, RewrittenInv, RenewalInv, RenewedInv
<1>10. CASE Relaunch
  <2>1. /\ pc = "stopped" /\ pc' = "idle" /\ run' = run /\ repo' = repo /\ exit' = exit
        /\ status' = status /\ made' = made /\ fallback' = fallback
        /\ withheld' = withheld /\ (local' = local \/ local' = repo)
    BY <1>10 DEF Relaunch
  <2>2. HasSubscriptions' = HasSubscriptions
    BY <2>1 DEF HasSubscriptions, EmptyRun
  <2>3. KeptInv'
    BY <2>1, SettingsStay DEF LocationInv, KeptInv
  <2>4. RenewedInv'
    BY <2>1, <2>2, SettingsStay DEF LocationInv, RenewedInv, Renewed
  <2>. QED BY <2>1, <2>3, <2>4 DEF LocationInv, RewrittenInv, RenewalInv
<1>. QED BY <1>2, <1>3, <1>4, <1>5, <1>6, <1>7, <1>8, <1>9, <1>10 DEF Next

\* However many runs and restarts there are, a published location file that
\* offers configs is of the run that published last, or was held back, as long
\* as none is lost between the removal of the old file and the writing of the
\* new one (stages/write.py:148-292).  Without that it does not hold: a file that is
\* gone from the disk is not found, so it is not emptied.
THEOREM LocationsStayCurrent ==
    Spec /\ [][NoLocationIsLost]_vars => []LocationsAreCurrent
<1>1. RunInv /\ LocationInv => LocationsAreCurrent
  <2>. SUFFICES ASSUME RunInv, LocationInv, pc \in {"idle", "stopped"}, run > 0,
                       exit = 0, Publishes, HasSubscriptions,
                       NEW l \in LocationSet, repo[l] # None, repo[l].run < run
                PROVE  l \in withheld \cup fallback
    BY DEF LocationsAreCurrent, HasSubscriptions
  <2>1. run \in Nat
    BY DEF RunInv, TypeOK
  <2>. QED BY <2>1 DEF LocationInv, RenewedInv, Renewed
<1>. QED BY InitHolds, NextKeeps, LocationInit, LocationStep, <1>1, PTL DEF Spec
============================================================================
