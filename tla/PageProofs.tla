----------------------------- MODULE PageProofs -----------------------------
(***************************************************************************)
(* Proofs about PageAnalysis, for any pages, options and URLs and any      *)
(* limits: types and the breakers' counts, that the parts of a finished    *)
(* analysis and its report of links are complete, and that a breaker is    *)
(* blamed only after failures.                                             *)
(***************************************************************************)
EXTENDS PageAnalysis, FiniteSetTheorems, SequenceTheorems, TLAPS

-----------------------------------------------------------------------------
(* The breaker                                                             *)

\* A new generation starts from nothing.
Forgets(a, b) ==
  /\ a.generation = b.generation + 1
  /\ a.requests = 0 /\ a.failures = 0 /\ a.successes = 0

LEMMA NewGenerationIs ==
  ASSUME NEW b \in Breaker, NEW state \in {"closed", "open", "half-open"}
  PROVE  LET n == NewGeneration(b, state)
         IN  n \in Breaker /\ n.state = state /\ Forgets(n, b)
  BY DEF NewGeneration, Breaker, Forgets

LEMMA NewClosed ==
  ASSUME NEW b \in Breaker, NEW a, a = NewGeneration(b, "closed")
  PROVE  a \in Breaker /\ a.state = "closed" /\ Forgets(a, b)
  BY NewGenerationIs

LEMMA NewOpen ==
  ASSUME NEW b \in Breaker, NEW a, a = NewGeneration(b, "open")
  PROVE  a \in Breaker /\ a.state = "open" /\ Forgets(a, b)
  BY NewGenerationIs

\* Letting a call through counts it.
LEMMA BreakerAsked ==
  ASSUME NEW b \in Breaker
  PROVE  /\ Before(b) \in Breaker
         /\ Before(b).state = b.state /\ Before(b).generation = b.generation
         /\ Before(b).requests = b.requests + 1
         /\ Before(b).failures = b.failures /\ Before(b).successes = b.successes
  BY DEF Before, Breaker

\* The clock ends a generation.
LEMMA BreakerExpired ==
  ASSUME NEW b \in Breaker
  PROVE  /\ Expired(b) \in Breaker /\ Forgets(Expired(b), b)
         /\ Expired(b).state = IF b.state = "open" THEN "half-open" ELSE "closed"
  BY NewGenerationIs DEF Expired

\* A call of this generation that succeeds closes the breaker or is counted.
LEMMA CallSucceeds ==
  ASSUME NEW b \in Breaker, NEW a, NEW calls, NEW tenths,
         a = After(b, b.generation, TRUE, calls, tenths)
  PROVE  /\ a \in Breaker
         /\ \/ Forgets(a, b) /\ a.state = "closed"
            \/ a = [b EXCEPT !.successes = b.successes + 1]
  <1> DEFINE counted == [b EXCEPT !.successes = b.successes + 1]
  <1>1. counted \in Breaker
    BY DEF Breaker
  <1>2. \/ a = NewGeneration(b, "closed")
        \/ a = counted
    BY DEF After
  <1>3. CASE a = NewGeneration(b, "closed")
    BY <1>3, NewClosed
  <1> QED
    BY <1>1, <1>2, <1>3

\* One that fails opens the breaker, if it is half-open or ready to trip, or is counted.
LEMMA CallFails ==
  ASSUME NEW b \in Breaker, NEW a, NEW calls \in Nat, NEW tenths \in Nat,
         a = After(b, b.generation, FALSE, calls, tenths)
  PROVE  /\ a \in Breaker
         /\ \/ /\ Forgets(a, b) /\ a.state = "open"
               /\ \/ b.state = "half-open"
                  \/ b.requests >= calls /\ 10 * (b.failures + 1) >= tenths * b.requests
            \/ a = [b EXCEPT !.failures = b.failures + 1]
  <1> DEFINE counted == [b EXCEPT !.failures = b.failures + 1]
             opens == b.state = "half-open" \/ Trips(counted, calls, tenths)
  <1>1. counted \in Breaker /\ counted.requests = b.requests /\ counted.failures = b.failures + 1
    BY DEF Breaker
  <1>2. (a = NewGeneration(b, "open") /\ opens) \/ a = counted
    BY DEF After
  <1>3. Trips(counted, calls, tenths) =>
          b.requests >= calls /\ 10 * (b.failures + 1) >= tenths * b.requests
    BY <1>1 DEF Trips
  <1>4. CASE a = NewGeneration(b, "open") /\ opens
    BY <1>3, <1>4, NewOpen
  <1> QED
    BY <1>1, <1>2, <1>4

\* Whatever its outcome, a call that ends is forgotten with its generation, or counted.
Counted(a, b) ==
  /\ a.state = b.state /\ a.generation = b.generation /\ a.requests = b.requests
  /\ a.failures + a.successes = b.failures + b.successes + 1

CallEnds(a, b, generation) ==
  /\ a \in Breaker
  /\ \/ generation # b.generation /\ a = b
     \/ generation = b.generation /\ (Forgets(a, b) \/ Counted(a, b))

AfterSuccess(a, b, generation) ==
  CallEnds(a, b, generation) /\ a.failures <= b.failures /\ a.state \in {b.state, "closed"}

AfterFailure(a, b, generation, calls, tenths) ==
  /\ CallEnds(a, b, generation) /\ a.failures <= b.failures + 1
  /\ \/ a.state = b.state \/ b.state = "half-open"
     \/ b.requests >= calls /\ 10 * (b.failures + 1) >= tenths * b.requests

LEMMA SuccessCounts ==
  ASSUME NEW b \in Breaker, NEW g \in Nat, NEW a \in Breaker,
         \/ g # b.generation /\ a = b
         \/ /\ g = b.generation
            /\ \/ Forgets(a, b) /\ a.state = "closed"
               \/ a = [b EXCEPT !.successes = b.successes + 1]
  PROVE  AfterSuccess(a, b, g)
  <1>0. b.failures \in Nat /\ b.successes \in Nat
    BY DEF Breaker
  <1>1. CASE g # b.generation /\ a = b
    BY <1>0, <1>1 DEF AfterSuccess, CallEnds
  <1>2. CASE g = b.generation /\ Forgets(a, b) /\ a.state = "closed"
    BY <1>0, <1>2 DEF AfterSuccess, CallEnds, Forgets
  <1>3. CASE g = b.generation /\ a = [b EXCEPT !.successes = b.successes + 1]
    <2>1. /\ a.state = b.state /\ a.generation = b.generation /\ a.requests = b.requests
          /\ a.failures = b.failures /\ a.successes = b.successes + 1
      BY <1>3 DEF Breaker
    <2> QED
      BY <1>0, <1>3, <2>1 DEF AfterSuccess, CallEnds, Counted
  <1> QED
    BY <1>1, <1>2, <1>3

LEMMA FailureCounts ==
  ASSUME NEW b \in Breaker, NEW g \in Nat, NEW a \in Breaker,
         NEW calls \in Nat, NEW tenths \in Nat,
         \/ g # b.generation /\ a = b
         \/ /\ g = b.generation
            /\ \/ /\ Forgets(a, b) /\ a.state = "open"
                  /\ \/ b.state = "half-open"
                     \/ b.requests >= calls /\ 10 * (b.failures + 1) >= tenths * b.requests
               \/ a = [b EXCEPT !.failures = b.failures + 1]
  PROVE  AfterFailure(a, b, g, calls, tenths)
  <1>0. b.failures \in Nat /\ b.successes \in Nat
    BY DEF Breaker
  <1>1. CASE g # b.generation /\ a = b
    BY <1>0, <1>1 DEF AfterFailure, CallEnds
  <1>2. CASE /\ g = b.generation /\ Forgets(a, b)
             /\ \/ b.state = "half-open"
                \/ b.requests >= calls /\ 10 * (b.failures + 1) >= tenths * b.requests
    BY <1>0, <1>2 DEF AfterFailure, CallEnds, Forgets
  <1>3. CASE g = b.generation /\ a = [b EXCEPT !.failures = b.failures + 1]
    <2>1. /\ a.state = b.state /\ a.generation = b.generation /\ a.requests = b.requests
          /\ a.failures = b.failures + 1 /\ a.successes = b.successes
      BY <1>3 DEF Breaker
    <2> QED
      BY <1>0, <1>3, <2>1 DEF AfterFailure, CallEnds, Counted
  <1> QED
    BY <1>1, <1>2, <1>3

LEMMA SuccessEnds ==
  ASSUME NEW b \in Breaker, NEW g \in Nat, NEW a, NEW calls \in Nat, NEW tenths \in Nat,
         a = After(b, g, TRUE, calls, tenths)
  PROVE  AfterSuccess(a, b, g)
  <1>1. CASE g # b.generation
    <2>1. a = b
      BY <1>1 DEF After
    <2> QED
      BY <1>1, <2>1, SuccessCounts
  <1>2. CASE g = b.generation
    BY <1>2, CallSucceeds, SuccessCounts
  <1> QED
    BY <1>1, <1>2

LEMMA FailureEnds ==
  ASSUME NEW b \in Breaker, NEW g \in Nat, NEW a, NEW calls \in Nat, NEW tenths \in Nat,
         a = After(b, g, FALSE, calls, tenths)
  PROVE  AfterFailure(a, b, g, calls, tenths)
  <1>1. CASE g # b.generation
    <2>1. a = b
      BY <1>1 DEF After
    <2> QED
      BY <1>1, <2>1, FailureCounts
  <1>2. CASE g = b.generation
    BY <1>2, CallFails, FailureCounts
  <1> QED
    BY <1>1, <1>2

-----------------------------------------------------------------------------
(* The links that are checked                                              *)

Less == {pair \in Nat \X Nat : pair[1] < pair[2]}

\* A set of numbers that is not empty has a least one.
LEMMA LeastNumber ==
  ASSUME NEW S, S # {}, S \subseteq Nat
  PROVE  \E x \in S : \A y \in S : x <= y
  <1>1. IsWellFoundedOn(Less, Nat)
    BY NatLessThanWellFounded DEF OpToRel, Less
  <1>2. PICK x \in S : \A y \in S : ~ (<<y, x>> \in Less)
    BY <1>1, WFMin
  <1>3. \A y \in S : ~ (y < x)
    BY <1>2 DEF Less
  <1> QED
    BY <1>3

\* The links up to a place are finitely many, more with every place, by one at most.
LEMMA UpToGrows ==
  ASSUME NEW S, NEW links \in Seq(S), NEW i \in 1..Len(links)
  PROVE  /\ IsFiniteSet(UpTo(links, i)) /\ IsFiniteSet(UpTo(links, i - 1))
         /\ Cardinality(UpTo(links, i)) \in Nat /\ Cardinality(UpTo(links, i - 1)) \in Nat
         /\ Cardinality(UpTo(links, i)) <= Cardinality(UpTo(links, i - 1)) + 1
         /\ \A j \in i..Len(links) : Cardinality(UpTo(links, i)) <= Cardinality(UpTo(links, j))
  <1>1. ASSUME NEW n \in 0..Len(links)
        PROVE  IsFiniteSet(UpTo(links, n)) /\ Cardinality(UpTo(links, n)) \in Nat
    <2>1. IsFiniteSet(1..n)
      BY FS_Interval
    <2> DEFINE f == [j \in 1..n |-> links[j]]
    <2>2. f \in Surjection(1..n, UpTo(links, n))
      BY DEF UpTo, Surjection
    <2>3. IsFiniteSet(UpTo(links, n))
      BY <2>1, <2>2, FS_Surjection
    <2> QED
      BY <2>3, FS_CardinalityType
  <1>2. UpTo(links, i) = UpTo(links, i - 1) \cup {links[i]}
    BY DEF UpTo
  <1>3. i - 1 \in 0..Len(links) /\ i \in 0..Len(links)
    OBVIOUS
  <1>4. Cardinality(UpTo(links, i)) <= Cardinality(UpTo(links, i - 1)) + 1
    <2>1. IsFiniteSet(UpTo(links, i - 1)) /\ Cardinality(UpTo(links, i - 1)) \in Nat
      BY <1>1, <1>3
    <2>2. Cardinality(UpTo(links, i)) = IF links[i] \in UpTo(links, i - 1)
                                         THEN Cardinality(UpTo(links, i - 1))
                                         ELSE Cardinality(UpTo(links, i - 1)) + 1
      BY <1>2, <2>1, FS_AddElement
    <2> QED
      BY <2>1, <2>2
  <1>5. ASSUME NEW j \in i..Len(links)
        PROVE  Cardinality(UpTo(links, i)) <= Cardinality(UpTo(links, j))
    <2>1. UpTo(links, i) \subseteq UpTo(links, j)
      BY DEF UpTo
    <2>2. j \in 0..Len(links)
      OBVIOUS
    <2> QED
      BY <1>1, <2>1, <2>2, FS_Subset
  <1> QED
    BY <1>1, <1>3, <1>4, <1>5

\* filterExternalLinks and the limit: all links, or as many as the limit allows.
LEMMA LinksChecked ==
  ASSUME NEW S, NEW links \in Seq(S)
  PROVE  /\ IsFiniteSet(LinksToCheck(links))
         /\ LinksToCheck(links) \subseteq ToSet(links)
         /\ \/ LinksToCheck(links) = ToSet(links)
            \/ Cardinality(LinksToCheck(links)) = MaxLinksToCheck
  <1> DEFINE Past == {i \in 1..Len(links) : Cardinality(UpTo(links, i)) > MaxLinksToCheck}
  <1>1. DOMAIN links = 1..Len(links)
    OBVIOUS
  <1>2. LinksToCheck(links) \subseteq ToSet(links)
    BY DEF LinksToCheck, ToSet
  <1>3. CASE Past = {}
    <2>1. LinksToCheck(links) = ToSet(links)
      BY <1>1, <1>3, UpToGrows, LinkCheckerAssumption DEF LinksToCheck, ToSet
    <2>2. ToSet(links) = UpTo(links, Len(links))
      BY <1>1 DEF ToSet, UpTo
    <2>3. IsFiniteSet(UpTo(links, Len(links)))
      <3>1. CASE Len(links) = 0
        BY <3>1, FS_EmptySet DEF UpTo
      <3>2. CASE Len(links) # 0
        <4>1. Len(links) \in 1..Len(links)
          BY <3>2
        <4> QED
          BY <4>1, UpToGrows
      <3> QED
        BY <3>1, <3>2
    <2> QED
      BY <2>1, <2>2, <2>3
  <1>4. CASE Past # {}
    <2>0. Past \subseteq Nat
      OBVIOUS
    <2>1. PICK i \in Past : \A j \in Past : i <= j
      <3> HIDE DEF Past
      <3> QED
        BY <1>4, <2>0, LeastNumber
    <2>2. /\ i \in 1..Len(links)
          /\ Cardinality(UpTo(links, i)) > MaxLinksToCheck
          /\ Cardinality(UpTo(links, i)) <= Cardinality(UpTo(links, i - 1)) + 1
          /\ IsFiniteSet(UpTo(links, i - 1))
          /\ Cardinality(UpTo(links, i)) \in Nat /\ Cardinality(UpTo(links, i - 1)) \in Nat
      BY <2>1, UpToGrows
    <2>3. \A j \in 1..Len(links) : Cardinality(UpTo(links, j)) <= MaxLinksToCheck <=> j < i
      <3>1. TAKE j \in 1..Len(links)
      <3>2. Cardinality(UpTo(links, j)) \in Nat
        BY UpToGrows
      <3>3. CASE j < i
        BY <2>1, <3>2, <3>3, LinkCheckerAssumption
      <3>4. CASE ~ j < i
        <4>1. j \in i..Len(links)
          BY <2>2, <3>4
        <4>2. Cardinality(UpTo(links, i)) <= Cardinality(UpTo(links, j))
          BY <2>2, <4>1, UpToGrows
        <4> QED
          BY <2>2, <3>2, <3>4, <4>2, LinkCheckerAssumption
      <3> QED
        BY <3>3, <3>4
    <2>4. LinksToCheck(links) = UpTo(links, i - 1)
      <3>1. {j \in DOMAIN links : Cardinality(UpTo(links, j)) <= MaxLinksToCheck} = 1..(i - 1)
        BY <1>1, <2>2, <2>3
      <3> QED
        BY <3>1 DEF LinksToCheck, UpTo
    <2>5. Cardinality(UpTo(links, i - 1)) <= MaxLinksToCheck
      <3>1. CASE i = 1
        <4>1. UpTo(links, i - 1) = {}
          BY <3>1 DEF UpTo
        <4>2. Cardinality(UpTo(links, i - 1)) = 0
          BY <4>1, FS_EmptySet
        <4> QED
          BY <4>2, LinkCheckerAssumption
      <3>2. CASE i # 1
        BY <2>2, <2>3, <3>2
      <3> QED
        BY <3>1, <3>2
    <2> QED
      BY <1>2, <2>2, <2>4, <2>5, LinkCheckerAssumption
  <1> QED
    BY <1>3, <1>4

-----------------------------------------------------------------------------
(* The links of a page                                                     *)

NothingFound == [seen |-> {}, links |-> NoLinks]

LEMMA MaxIs ==
  ASSUME NEW S, S \subseteq Int, NEW m \in S, \A x \in S : m >= x
  PROVE  Max(S) = m
  <1>1. \A x \in S : (\A y \in S : x >= y) => x = m
    OBVIOUS
  <1> QED
    BY <1>1 DEF Max

\* The fold goes from anchor to anchor.  That there is a function as FoldLeft describes it, on the
\* sets of places, is shown from the least number of places for which there would be none.
LEMMA FoldOfAnchors ==
  ASSUME NEW A, A \in Seq(ToSet(A))
  PROVE  \E F : /\ F[0] = NothingFound
                /\ \A i \in 1..Len(A) : F[i] = AddAnchor(F[i - 1], A[i])
                /\ FoldLeft(AddAnchor, NothingFound, A) = F[Len(A)]
  <1> DEFINE Following(s, g) == IF s = {} THEN NothingFound
                                      ELSE AddAnchor(g[s \ {Max(s)}], A[Max(s)])
             IsFold(n, g) == g = [s \in SUBSET (1..n) |-> Following(s, g)]
             Without == {n \in Nat : ~ \E g : IsFold(n, g)}
  <1>1. Without = {}
    <2> SUFFICES ASSUME Without # {} PROVE FALSE
      OBVIOUS
    <2>1. PICK n \in Without : \A m \in Without : n <= m
      <3>1. Without \subseteq Nat
        OBVIOUS
      <3> HIDE DEF Without
      <3> QED
        BY <3>1, LeastNumber
    <2>2. n \in Nat /\ ~ \E g : IsFold(n, g)
      OBVIOUS
    <2>3. CASE n = 0
      <3> DEFINE g == [s \in SUBSET (1..0) |-> NothingFound]
      <3>1. \A s \in SUBSET (1..0) : s = {}
        OBVIOUS
      <3>2. IsFold(0, g)
        BY <3>1
      <3> QED
        BY <2>2, <2>3, <3>2
    <2>4. CASE n # 0
      <3>1. n - 1 \in Nat /\ n - 1 \notin Without
        <4>1. n - 1 \in Nat /\ ~ (n <= n - 1)
          BY <2>2, <2>4
        <4> HIDE DEF Without
        <4> QED
          BY <2>1, <4>1
      <3>2. PICK g : IsFold(n - 1, g)
        BY <3>1
      <3> DEFINE h == [s \in SUBSET (1..n) |->
                         IF s = {} THEN NothingFound
                         ELSE IF n \in s THEN AddAnchor(g[s \ {n}], A[n]) ELSE g[s]]
      <3>3. \A s \in SUBSET (1..n - 1) : g[s] = Following(s, g)
        BY <3>2
      <3>4. \A s \in SUBSET (1..n - 1) : h[s] = g[s]
        <4> TAKE s \in SUBSET (1..n - 1)
        <4>1. n \notin s /\ s \in SUBSET (1..n)
          BY <2>2
        <4>2. s = {} => g[s] = NothingFound
          BY <3>3
        <4> QED
          BY <4>1, <4>2
      <3>5. ASSUME NEW s \in SUBSET (1..n) PROVE h[s] = Following(s, h)
        <4>1. CASE s = {}
          BY <4>1
        <4>2. CASE n \in s
          <5>1. Max(s) = n
            <6>1. s \subseteq Int /\ \A x \in s : n >= x
              BY <2>2
            <6> QED
              BY <4>2, <6>1, MaxIs
          <5>2. s \ {n} \in SUBSET (1..n - 1)
            BY <2>2
          <5>3. h[s \ {n}] = g[s \ {n}]
            BY <3>4, <5>2
          <5>4. h[s] = AddAnchor(g[s \ {n}], A[n])
            BY <4>2
          <5> HIDE DEF h
          <5> QED
            BY <4>2, <5>1, <5>3, <5>4
        <4>3. CASE s # {} /\ n \notin s
          <5>1. s \in SUBSET (1..n - 1)
            <6>1. ASSUME NEW x \in s PROVE x \in 1..n - 1
              BY <2>2, <4>3
            <6> QED
              BY <6>1
          <5>a. s \ {Max(s)} \in SUBSET (1..n - 1)
            BY <5>1
          <5>2. h[s] = g[s] /\ h[s \ {Max(s)}] = g[s \ {Max(s)}] /\ g[s] = Following(s, g)
            BY <3>3, <3>4, <5>1, <5>a
          <5> HIDE DEF h
          <5> QED
            BY <4>3, <5>2
        <4> QED
          BY <4>1, <4>2, <4>3
      <3>6. IsFold(n, h)
        BY <3>5
      <3> QED
        BY <2>2, <3>6
    <2> QED
      BY <2>3, <2>4
  <1>2. Len(A) \in Nat /\ DOMAIN A = 1..Len(A)
    OBVIOUS
  <1> DEFINE iter == CHOOSE g : IsFold(Len(A), g)
  <1>3. IsFold(Len(A), iter)
    BY <1>1, <1>2
  <1>4. FoldLeft(AddAnchor, NothingFound, A) = iter[1..Len(A)]
    BY <1>2 DEF FoldLeft, MapThenFoldSet
  <1> HIDE DEF iter
  <1>5. \A s \in SUBSET (1..Len(A)) : iter[s] = Following(s, iter)
    BY <1>3
  <1> DEFINE F == [i \in 0..Len(A) |-> iter[1..i]]
  <1>6. F[0] = NothingFound
    <2>1. 1..0 = {} /\ {} \in SUBSET (1..Len(A)) /\ 0 \in 0..Len(A)
      BY <1>2
    <2>2. iter[{}] = NothingFound
      BY <1>5, <2>1
    <2> QED
      BY <2>1, <2>2
  <1>7. ASSUME NEW i \in 1..Len(A) PROVE F[i] = AddAnchor(F[i - 1], A[i])
    <2>0. i \in Nat /\ i >= 1 /\ i <= Len(A) /\ i - 1 \in 0..Len(A)
      BY <1>2
    <2>1. 1..i \in SUBSET (1..Len(A)) /\ 1..i # {} /\ (1..i) \ {i} = 1..(i - 1)
      <3>1. \A x \in 1..i : x \in 1..Len(A)
        BY <1>2, <2>0
      <3>2. i \in 1..i
        BY <2>0
      <3>3. \A x : x \in 1..i /\ x # i <=> x \in 1..(i - 1)
        BY <2>0
      <3> QED
        BY <3>1, <3>2, <3>3
    <2>2. Max(1..i) = i
      <3>1. 1..i \subseteq Int /\ i \in 1..i /\ \A x \in 1..i : i >= x
        BY <2>0
      <3> QED
        BY <3>1, MaxIs
    <2>3. iter[1..i] = AddAnchor(iter[1..(i - 1)], A[i])
      BY <1>5, <2>1, <2>2
    <2> QED
      BY <1>2, <2>0, <2>3
  <1>8. FoldLeft(AddAnchor, NothingFound, A) = F[Len(A)]
    BY <1>2, <1>4
  <1> HIDE DEF F
  <1> QED
    BY <1>6, <1>7, <1>8

Followed(anchor) == anchor.href \notin NoURL
SeenUpTo(A, i) == {A[j].url : j \in {k \in 1..i : Followed(A[k])}}

\* The places up to i that add a link: the first mention of their URL, and not skipped.
AddsLink(A, j) ==
  /\ Followed(A[j]) /\ A[j].url \notin SeenUpTo(A, j - 1)
  /\ A[j].href \notin Skipped
LinksUpTo(A, i) == {A[j].url : j \in {k \in 1..i : AddsLink(A, k)}}

LinkAnalysis(A) ==
  [total : Nat, internal : Nat, external : Seq({anchor.url : anchor \in ToSet(A)}),
   inaccessible : {<<>>}]

\* What has been found up to a place.
FoundUpTo(found, A, i) ==
  /\ found.seen = SeenUpTo(A, i)
  /\ found.links \in LinkAnalysis(A)
  /\ IsFiniteSet(LinksUpTo(A, i))
  /\ found.links.total = Cardinality(LinksUpTo(A, i))
  /\ found.links.internal = Cardinality({url \in LinksUpTo(A, i) : Internal(url)})
  /\ found.links.internal + Len(found.links.external) = found.links.total
  /\ ToSet(found.links.external) = {url \in LinksUpTo(A, i) : ~ Internal(url)}

\* One link more.
LinkAdded(A, more, links, url) ==
  /\ more \in LinkAnalysis(A)
  /\ more.total = links.total + 1
  /\ more.internal = links.internal + (IF Internal(url) THEN 1 ELSE 0)
  /\ more.internal + Len(more.external) = more.total
  /\ ToSet(more.external) = ToSet(links.external) \cup (IF Internal(url) THEN {} ELSE {url})

LEMMA OneMore ==
  ASSUME NEW S, NEW seq \in Seq(S), NEW e \in S
  PROVE  /\ Append(seq, e) \in Seq(S) /\ Len(Append(seq, e)) = Len(seq) + 1
         /\ ToSet(Append(seq, e)) = ToSet(seq) \cup {e}
  <1>1. /\ Append(seq, e) \in Seq(S) /\ Len(Append(seq, e)) = Len(seq) + 1
        /\ Append(seq, e)[Len(seq) + 1] = e
        /\ \A i \in 1..Len(seq) : Append(seq, e)[i] = seq[i]
        /\ DOMAIN Append(seq, e) = 1..Len(seq) + 1 /\ DOMAIN seq = 1..Len(seq)
        /\ Len(seq) \in Nat
    OBVIOUS
  <1>2. ToSet(Append(seq, e)) \subseteq ToSet(seq) \cup {e}
    BY <1>1 DEF ToSet
  <1>3. e \in ToSet(Append(seq, e))
    <2>1. Len(seq) + 1 \in DOMAIN Append(seq, e)
      BY <1>1
    <2> QED
      BY <1>1, <2>1 DEF ToSet
  <1>4. ToSet(seq) \subseteq ToSet(Append(seq, e))
    <2>1. \A i \in DOMAIN seq : i \in DOMAIN Append(seq, e) /\ Append(seq, e)[i] = seq[i]
      BY <1>1
    <2> QED
      BY <2>1 DEF ToSet
  <1> QED
    BY <1>1, <1>2, <1>3, <1>4

LEMMA LinkIsAdded ==
  ASSUME NEW A, NEW links \in LinkAnalysis(A), NEW url \in {anchor.url : anchor \in ToSet(A)},
         links.internal + Len(links.external) = links.total, NEW more, more = AddLink(links, url)
  PROVE  LinkAdded(A, more, links, url)
  <1> DEFINE linked == {anchor.url : anchor \in ToSet(A)}
  <1>0. url \in linked
    OBVIOUS
  <1>1. PICK t \in Nat, n \in Nat, e \in Seq(linked) :
          links = [total |-> t, internal |-> n, external |-> e, inaccessible |-> <<>>]
    BY DEF LinkAnalysis
  <1>2. /\ Len(e) \in Nat /\ n + Len(e) = t /\ links.total = t /\ links.internal = n
        /\ links.external = e
    BY <1>1
  <1>3. CASE Internal(url)
    <2>1. more = [total |-> t + 1, internal |-> n + 1, external |-> e, inaccessible |-> <<>>]
      <3> HIDE DEF linked
      <3>1. more = [links EXCEPT !.total = t + 1, !.internal = n + 1]
        BY <1>1, <1>3 DEF AddLink
      <3>2. [links EXCEPT !.total = t + 1] =
              [total |-> t + 1, internal |-> n, external |-> e, inaccessible |-> <<>>]
        BY <1>1
      <3> QED
        BY <3>1, <3>2
    <2>2. more \in LinkAnalysis(A)
      BY <2>1 DEF LinkAnalysis
    <2>3. more.total = t + 1 /\ more.internal = n + 1 /\ more.external = e
      BY <2>1
    <2> QED
      BY <1>2, <1>3, <2>2, <2>3 DEF LinkAdded
  <1>4. CASE ~ Internal(url)
    <2> DEFINE f == Append(e, url)
    <2>1. f \in Seq(linked) /\ Len(f) = Len(e) + 1 /\ ToSet(f) = ToSet(e) \cup {url}
      <3> HIDE DEF linked
      <3> QED
        BY <1>0, OneMore
    <2>2. f = Append(e, url)
      OBVIOUS
    <2> HIDE DEF f
    <2>3. more = [total |-> t + 1, internal |-> n, external |-> f, inaccessible |-> <<>>]
      <3> HIDE DEF linked
      <3>1. more = [links EXCEPT !.total = t + 1, !.external = f]
        BY <1>2, <1>4, <2>2 DEF AddLink
      <3>2. [links EXCEPT !.total = t + 1] =
              [total |-> t + 1, internal |-> n, external |-> e, inaccessible |-> <<>>]
        BY <1>1
      <3> QED
        BY <3>1, <3>2
    <2>4. more \in LinkAnalysis(A)
      BY <2>1, <2>3 DEF LinkAnalysis
    <2>5. more.total = t + 1 /\ more.internal = n /\ more.external = f
      BY <2>3
    <2> QED
      BY <1>2, <1>4, <2>1, <2>4, <2>5 DEF LinkAdded
  <1> QED
    BY <1>3, <1>4

LEMMA AnchorIgnored ==
  ASSUME NEW found, NEW anchor, anchor.url \in found.seen \/ ~ Followed(anchor)
  PROVE  AddAnchor(found, anchor) = found
  BY DEF AddAnchor, Followed

LEMMA AnchorTaken ==
  ASSUME NEW found, NEW anchor, anchor.url \notin found.seen, Followed(anchor)
  PROVE  /\ AddAnchor(found, anchor).seen = found.seen \cup {anchor.url}
         /\ AddAnchor(found, anchor).links
              = IF anchor.href \in Skipped THEN found.links ELSE AddLink(found.links, anchor.url)
  BY DEF AddAnchor, Followed

LEMMA AnchorIsAdded ==
  ASSUME NEW A, A \in Seq(ToSet(A)), NEW i \in 1..Len(A),
         NEW found, FoundUpTo(found, A, i - 1), NEW after, after = AddAnchor(found, A[i])
  PROVE  FoundUpTo(after, A, i)
  <1> DEFINE url == A[i].url
  <1>0. found.seen = SeenUpTo(A, i - 1)
    BY DEF FoundUpTo
  <1>1. 1..i = 1..(i - 1) \cup {i} /\ A[i] \in ToSet(A)
    BY DEF ToSet
  <1>2. SeenUpTo(A, i) = SeenUpTo(A, i - 1) \cup (IF Followed(A[i]) THEN {url} ELSE {})
    BY <1>1 DEF SeenUpTo
  <1>3. LinksUpTo(A, i) = LinksUpTo(A, i - 1) \cup (IF AddsLink(A, i) THEN {url} ELSE {})
    BY <1>1 DEF LinksUpTo
  <1>4. CASE ~ Followed(A[i]) \/ url \in SeenUpTo(A, i - 1)
    <2>1. after = found
      BY <1>0, <1>4, AnchorIgnored
    <2>2. SeenUpTo(A, i) = SeenUpTo(A, i - 1) /\ LinksUpTo(A, i) = LinksUpTo(A, i - 1)
      BY <1>2, <1>3, <1>4 DEF AddsLink
    <2> QED
      BY <2>1, <2>2 DEF FoundUpTo
  <1>5. CASE Followed(A[i]) /\ url \notin SeenUpTo(A, i - 1)
    <2>1. /\ after.seen = found.seen \cup {url}
          /\ after.links = IF A[i].href \in Skipped THEN found.links
                                                    ELSE AddLink(found.links, url)
      BY <1>0, <1>5, AnchorTaken
    <2>2. after.seen = SeenUpTo(A, i)
      BY <1>0, <1>2, <1>5, <2>1
    <2>3. CASE A[i].href \in Skipped
      <3>1. after.links = found.links /\ LinksUpTo(A, i) = LinksUpTo(A, i - 1)
        BY <1>3, <2>1, <2>3 DEF AddsLink
      <3> QED
        BY <2>2, <3>1 DEF FoundUpTo
    <2>4. CASE A[i].href \notin Skipped
      <3>1. LinksUpTo(A, i) = LinksUpTo(A, i - 1) \cup {url}
        BY <1>3, <1>5, <2>4 DEF AddsLink
      <3>2. url \notin LinksUpTo(A, i - 1)
        BY <1>5 DEF LinksUpTo, AddsLink, SeenUpTo
      <3>3. /\ IsFiniteSet(LinksUpTo(A, i - 1)) /\ IsFiniteSet(LinksUpTo(A, i))
            /\ Cardinality(LinksUpTo(A, i)) = Cardinality(LinksUpTo(A, i - 1)) + 1
        <4>1. IsFiniteSet(LinksUpTo(A, i - 1))
          BY DEF FoundUpTo
        <4> DEFINE before == LinksUpTo(A, i - 1)
        <4>2. IsFiniteSet(before) /\ url \notin before /\ LinksUpTo(A, i) = before \cup {url}
          BY <3>1, <3>2, <4>1
        <4> HIDE DEF url, before
        <4>3. IsFiniteSet(before \cup {url}) /\ Cardinality(before \cup {url}) = Cardinality(before) + 1
          BY <4>2, FS_AddElement
        <4> QED
          BY <4>2, <4>3 DEF before
      <3>4. url \in {anchor.url : anchor \in ToSet(A)}
        BY <1>1
      <3>5. {u \in LinksUpTo(A, i) : ~ Internal(u)}
              = {u \in LinksUpTo(A, i - 1) : ~ Internal(u)}
                  \cup (IF Internal(url) THEN {} ELSE {url})
        BY <3>1
      <3>6. /\ found.links \in LinkAnalysis(A)
            /\ found.links.internal = Cardinality({u \in LinksUpTo(A, i - 1) : Internal(u)})
            /\ found.links.internal + Len(found.links.external) = found.links.total
            /\ found.links.total = Cardinality(LinksUpTo(A, i - 1))
            /\ ToSet(found.links.external) = {u \in LinksUpTo(A, i - 1) : ~ Internal(u)}
        BY DEF FoundUpTo
      <3> HIDE DEF url
      <3>7. LinkAdded(A, after.links, found.links, url)
        BY <2>1, <2>4, <3>4, <3>6, LinkIsAdded
      <3>8. Cardinality({u \in LinksUpTo(A, i) : Internal(u)})
              = Cardinality({u \in LinksUpTo(A, i - 1) : Internal(u)})
                  + (IF Internal(url) THEN 1 ELSE 0)
        <4> DEFINE inside == {u \in LinksUpTo(A, i - 1) : Internal(u)}
                   inAll == {u \in LinksUpTo(A, i) : Internal(u)}
        <4>1. /\ IsFiniteSet(inside) /\ Cardinality(inside) \in Nat /\ url \notin inside
          <5>1. inside \in SUBSET LinksUpTo(A, i - 1)
            OBVIOUS
          <5> QED
            BY <3>2, <3>3, <5>1, FS_Subset, FS_CardinalityType
        <4>2. inAll = IF Internal(url) THEN inside \cup {url} ELSE inside
          BY <3>1
        <4> HIDE DEF inside, inAll
        <4>3. Cardinality(inside \cup {url}) = Cardinality(inside) + 1
          BY <4>1, FS_AddElement
        <4>4. Cardinality(inAll) = Cardinality(inside) + (IF Internal(url) THEN 1 ELSE 0)
          BY <4>1, <4>2, <4>3
        <4> QED
          BY <4>4 DEF inAll, inside
      <3> QED
        BY <2>2, <3>3, <3>5, <3>6, <3>7, <3>8 DEF FoundUpTo, LinkAdded
    <2> QED
      BY <2>3, <2>4
  <1> QED
    BY <1>4, <1>5

LEMMA AllAnchorsAdded ==
  ASSUME NEW A, A \in Seq(ToSet(A))
  PROVE  FoundUpTo(FoldLeft(AddAnchor, NothingFound, A), A, Len(A))
  <1>1. PICK F : /\ F[0] = NothingFound
                 /\ \A i \in 1..Len(A) : F[i] = AddAnchor(F[i - 1], A[i])
                 /\ FoldLeft(AddAnchor, NothingFound, A) = F[Len(A)]
    BY FoldOfAnchors
  <1> DEFINE Bad == {i \in 0..Len(A) : ~ FoundUpTo(F[i], A, i)}
  <1>2. FoundUpTo(NothingFound, A, 0)
    <2>1. SeenUpTo(A, 0) = {} /\ LinksUpTo(A, 0) = {}
      BY DEF SeenUpTo, LinksUpTo
    <2>2. ToSet(<<>>) = {} /\ <<>> \in Seq({anchor.url : anchor \in ToSet(A)})
      BY DEF ToSet
    <2>3. NoLinks \in LinkAnalysis(A)
      BY <2>2 DEF NoLinks, LinkAnalysis
    <2>4. /\ NothingFound.seen = {} /\ NothingFound.links = NoLinks
          /\ NoLinks.total = 0 /\ NoLinks.internal = 0 /\ NoLinks.external = <<>>
      BY DEF NoLinks, NothingFound
    <2>5. IsFiniteSet({}) /\ Cardinality({}) = 0
      BY FS_EmptySet
    <2>6. {url \in {} : ~ Internal(url)} = {} /\ {url \in {} : Internal(url)} = {} /\ Len(<<>>) = 0 /\ 0 + 0 = 0
      OBVIOUS
    <2> HIDE DEF Bad
    <2> QED
      BY <2>1, <2>2, <2>3, <2>4, <2>5, <2>6 DEF FoundUpTo
  <1>3. Bad = {}
    <2> SUFFICES ASSUME Bad # {} PROVE FALSE
      OBVIOUS
    <2>1. PICK i \in Bad : \A j \in Bad : i <= j
      <3>1. Bad \subseteq Nat
        OBVIOUS
      <3> HIDE DEF Bad
      <3> QED
        BY <3>1, LeastNumber
    <2>2. i \in 0..Len(A) /\ ~ FoundUpTo(F[i], A, i)
      OBVIOUS
    <2>3. i # 0
      BY <1>1, <1>2, <2>2
    <2>4. i \in 1..Len(A) /\ i - 1 \in 0..Len(A) /\ i - 1 \notin Bad
      BY <2>1, <2>2, <2>3
    <2>5. FoundUpTo(F[i - 1], A, i - 1)
      BY <2>4
    <2>6. FoundUpTo(F[i], A, i)
      BY <1>1, <2>4, <2>5, AnchorIsAdded
    <2> QED
      BY <2>2, <2>6
  <1>4. Len(A) \in 0..Len(A)
    OBVIOUS
  <1> QED
    BY <1>1, <1>3, <1>4

LEMMA PageLinks ==
  ASSUME NEW p \in Pages, NEW A, A = p.anchors, NEW links, links = AnalyzeLinks(p)
  PROVE  /\ links \in LinkAnalysis(A)
         /\ links.total = Cardinality(LinksUpTo(A, Len(A)))
         /\ links.internal = Cardinality({url \in LinksUpTo(A, Len(A)) : Internal(url)})
         /\ links.internal + Len(links.external) = links.total
         /\ ToSet(links.external) = {url \in LinksUpTo(A, Len(A)) : ~ Internal(url)}
  <1> DEFINE found == FoldLeft(AddAnchor, NothingFound, A)
  <1>1. A \in Seq(ToSet(A))
    BY PagesAssumption
  <1>2. FoundUpTo(found, A, Len(A))
    BY <1>1, AllAnchorsAdded
  <1>3. links = found.links
    BY DEF AnalyzeLinks, NothingFound
  <1> HIDE DEF found
  <1> QED
    BY <1>2, <1>3 DEF FoundUpTo

-----------------------------------------------------------------------------
(* The inductive invariant                                                 *)

\* The fetcher and its breaker: a fetch under way began in this generation or an earlier one.
FetchCounts ==
  fetchBreaker.requests = fetchBreaker.failures + fetchBreaker.successes
                            + (IF fetching = fetchBreaker.generation THEN 1 ELSE 0)

FetcherInv ==
  /\ fetchBreaker \in Breaker /\ fetching \in Nat /\ FetchCounts
  /\ fetching <= fetchBreaker.generation
  /\ stage # "fetch" => fetching = 0

Entry(link) == [url |-> link, status |-> check[link].status]
Entries == [url : DOMAIN check, status : Statuses]

\* The link checker and its breaker: so did the checks under way; and a goroutine that is not done
\* belongs to the analysis whose links are being checked.
LinkCounts ==
  linkBreaker.requests = linkBreaker.failures + linkBreaker.successes + Cardinality(UnderWay)

CheckerInv ==
  /\ linkBreaker \in Breaker /\ failures \in Nat /\ LinkCounts
  /\ IsFiniteSet(DOMAIN check)
  /\ check \in [DOMAIN check -> Goroutines]
  /\ \A link \in DOMAIN check :
       Stage(link) = "checking" => check[link].generation <= linkBreaker.generation
  /\ stage # "check" => \A link \in DOMAIN check : Stage(link) = "done"
  /\ inaccessible \in Seq(Entries)

AnalysisTypes ==
  /\ stage \in {"idle", "fetch", "analyze", "check"} /\ left \in 0..MaxPages
  /\ page \in Pages \cup {NoPage} /\ options \in Options \cup {{}}
  /\ writing \subseteq Parts({"headings", "forms"})
  /\ error \in {"INVALID_URL", "CIRCUIT_BREAKER_OPEN"} \cup FetchOutcomes

\* The results hold what the goroutines that are done have written, and nothing else.
ResultsSoFar ==
  /\ results = [part \in DOMAIN NoResults |-> results[part]]
  /\ stage = "fetch" => results = NoResults /\ page = NoPage
  /\ stage \in {"analyze", "check"} =>
       /\ page \in Pages /\ writing \subseteq Parts(options)
       /\ \A part \in DOMAIN NoResults :
            results[part] = IF part \in Parts(options) \ writing THEN Extract(page, part)
                                                                 ELSE NoResults[part]
  /\ stage = "check" => writing = {}
  /\ Finished =>
       /\ page \in Pages /\ PartsWritten
       /\ results.links = [AnalyzeLinks(page) EXCEPT !.inaccessible = inaccessible]

\* The breaker is open, or was, only after four failures.
OpenAfterFailures ==
  /\ linkBreaker.failures <= failures
  /\ linkBreaker.state # "closed" => failures >= 4
  /\ \A link \in DOMAIN check : check[link].status = 503 => failures >= 4

\* The links whose goroutines are done and found them inaccessible, each as often as it is listed.
BadOnes == {link \in DOMAIN check : Stage(link) = "done" /\ IsInaccessible(link)}

Reported ==
  /\ ToSet(inaccessible) = {Entry(link) : link \in BadOnes}
  /\ Len(inaccessible) = Cardinality(BadOnes)
  /\ stage \in {"fetch", "analyze"} => DOMAIN check = {} /\ inaccessible = <<>>
  /\ stage = "check" =>
       "check" \in options /\ DOMAIN check = LinksToCheck(AnalyzeLinks(page).external)
  /\ Finished =>
       DOMAIN check = IF "check" \in options THEN LinksToCheck(AnalyzeLinks(page).external) ELSE {}

PageInv ==
  /\ FetcherInv /\ CheckerInv /\ AnalysisTypes
  /\ ResultsSoFar /\ BlamedAfterFailures /\ OpenAfterFailures /\ Reported

LEMMA TypesFromParts == FetcherInv /\ CheckerInv /\ AnalysisTypes => PageTypeOK
  BY DEF FetcherInv, FetchCounts, CheckerInv, LinkCounts, AnalysisTypes, PageTypeOK, CountsAddUp, Entries

-----------------------------------------------------------------------------
(* A step of one link's goroutine                                          *)

\* It goes from "spawned" through "checking", unless it is rejected, and "checked" to "done".
Begins(link) ==
  /\ Stage(link) = "spawned"
  /\ check'[link] = Goroutine("checking", linkBreaker.generation, 0)
  /\ linkBreaker' = Before(linkBreaker)
  /\ UNCHANGED <<inaccessible, failures>>

Rejected(link) ==
  /\ Stage(link) = "spawned"
  /\ check'[link] = Goroutine("checked", 0, Unasked)
  /\ linkBreaker.state # "closed"
  /\ UNCHANGED <<linkBreaker, inaccessible, failures>>

Succeeds(link) ==
  /\ Stage(link) = "checking"
  /\ check'[link].stage = "checked" /\ check'[link].generation = 0
  /\ check'[link].status \in {200, 404}
  /\ AfterSuccess(linkBreaker', linkBreaker, check[link].generation)
  /\ UNCHANGED <<inaccessible, failures>>

Fails(link) ==
  /\ Stage(link) = "checking"
  /\ check'[link] = Goroutine("checked", 0, 0)
  /\ AfterFailure(linkBreaker', linkBreaker, check[link].generation, 5, 8)
  /\ failures' = failures + 1
  /\ UNCHANGED inaccessible

Listed(link) ==
  /\ Stage(link) = "checked"
  /\ check'[link] = Goroutine("done", check[link].generation, check[link].status)
  /\ inaccessible' = IF IsInaccessible(link)
                       THEN Append(inaccessible, Entry(link))
                       ELSE inaccessible
  /\ UNCHANGED <<linkBreaker, failures>>

LEMMA LinkAnswered ==
  ASSUME NEW b \in Breaker, NEW g \in Nat, NEW a, a = After(b, g, TRUE, 5, 8)
  PROVE  AfterSuccess(a, b, g)
  BY SuccessEnds

LEMMA CheckEffects ==
  ASSUME CheckerInv, NEW link \in DOMAIN check, CheckStep(link)
  PROVE  /\ DOMAIN check' = DOMAIN check
         /\ check' \in [DOMAIN check' -> Goroutines]
         /\ \A other \in DOMAIN check \ {link} : check'[other] = check[other]
         /\ Begins(link) \/ Rejected(link) \/ Succeeds(link) \/ Fails(link) \/ Listed(link)
  <1>0. /\ check \in [DOMAIN check -> Goroutines] /\ check[link] \in Goroutines
        /\ linkBreaker \in Breaker /\ linkBreaker.generation \in Nat /\ failures \in Nat
        /\ check[link].generation \in Nat /\ check[link].status \in Statuses
    BY DEF CheckerInv, Goroutines, Breaker
  <1>a. ASSUME NEW g \in Goroutines, check' = [check EXCEPT ![link] = g]
        PROVE  /\ DOMAIN check' = DOMAIN check /\ check'[link] = g
               /\ check' \in [DOMAIN check' -> Goroutines]
               /\ \A other \in DOMAIN check \ {link} : check'[other] = check[other]
    BY <1>0, <1>a
  <1>1. CASE BeginCheck(link)
    <2>1. Goroutine("checking", linkBreaker.generation, 0) \in Goroutines
      BY <1>0 DEF Goroutine, Goroutines, Statuses
    <2> QED
      BY <1>1, <1>a, <2>1 DEF BeginCheck, Enters, Begins
  <1>2. CASE RejectCheck(link)
    <2>1. Goroutine("checked", 0, Unasked) \in Goroutines
      BY DEF Goroutine, Goroutines, Statuses, Unasked
    <2> QED
      BY <1>2, <1>a, <2>1 DEF RejectCheck, Enters, Rejected, Lets
  <1>3. CASE Answered(link, 200) \/ Answered(link, 404)
    <2>1. linkBreaker' = After(linkBreaker, check[link].generation, TRUE, 5, 8)
      BY <1>3 DEF Answered
    <2>2. AfterSuccess(linkBreaker', linkBreaker, check[link].generation)
      BY <1>0, <2>1, LinkAnswered
    <2>3. PICK status \in {200, 404} : Answered(link, status)
      BY <1>3
    <2>4. Goroutine("checked", 0, status) \in Goroutines
      BY DEF Goroutine, Goroutines, Statuses
    <2>5. /\ Stage(link) = "checking" /\ UNCHANGED <<inaccessible, failures>>
          /\ check' = [check EXCEPT ![link] = Goroutine("checked", 0, status)]
      BY <2>3 DEF Answered
    <2>6. check'[link] = Goroutine("checked", 0, status)
      BY <1>a, <2>4, <2>5
    <2>7. Succeeds(link)
      BY <2>2, <2>5, <2>6 DEF Succeeds, Goroutine
    <2> QED
      BY <1>a, <2>4, <2>5, <2>7
  <1>4. CASE Unreachable(link)
    <2>1. Goroutine("checked", 0, 0) \in Goroutines
      BY DEF Goroutine, Goroutines, Statuses
    <2>2. /\ Stage(link) = "checking" /\ failures' = failures + 1 /\ UNCHANGED inaccessible
          /\ check' = [check EXCEPT ![link] = Goroutine("checked", 0, 0)]
      BY <1>4 DEF Unreachable
    <2>3. AfterFailure(linkBreaker', linkBreaker, check[link].generation, 5, 8)
      BY <1>0, <1>4, FailureEnds DEF Unreachable
    <2> QED
      BY <1>a, <2>1, <2>2, <2>3 DEF Fails
  <1>5. CASE Report(link)
    <2>1. /\ [check[link] EXCEPT !.stage = "done"]
               = Goroutine("done", check[link].generation, check[link].status)
          /\ Goroutine("done", check[link].generation, check[link].status) \in Goroutines
      BY <1>0 DEF Goroutine, Goroutines, Statuses
    <2>2. check' = [check EXCEPT ![link] =
                      Goroutine("done", check[link].generation, check[link].status)]
      BY <1>0, <1>5, <2>1 DEF Report
    <2> QED
      BY <1>5, <1>a, <2>1, <2>2 DEF Report, Listed, Entry
  <1> QED
    BY <1>1, <1>2, <1>3, <1>4, <1>5 DEF CheckStep

LEMMA CheckCounts ==
  ASSUME CheckerInv, NEW link \in DOMAIN check, CheckStep(link)
  PROVE  /\ linkBreaker' \in Breaker /\ LinkCounts'
         /\ \A other \in DOMAIN check' :
              check'[other].stage = "checking" =>
                check'[other].generation <= linkBreaker'.generation
  <1>0. /\ linkBreaker \in Breaker /\ linkBreaker.generation \in Nat /\ linkBreaker.requests \in Nat
        /\ linkBreaker.failures \in Nat /\ linkBreaker.successes \in Nat
        /\ LinkCounts
        /\ \A other \in DOMAIN check : check[other].generation \in Nat
        /\ \A other \in DOMAIN check :
             check[other].stage = "checking" => check[other].generation <= linkBreaker.generation
        /\ DOMAIN check' = DOMAIN check
        /\ \A other \in DOMAIN check \ {link} : check'[other] = check[other]
        /\ Begins(link) \/ Rejected(link) \/ Succeeds(link) \/ Fails(link) \/ Listed(link)
    BY CheckEffects DEF CheckerInv, LinkCounts, Breaker, Goroutines, Stage
  <1>1. IsFiniteSet(UnderWay) /\ Cardinality(UnderWay) \in Nat
    <2>1. UnderWay \in SUBSET DOMAIN check
      BY DEF UnderWay
    <2> QED
      BY <2>1, FS_Subset, FS_CardinalityType DEF CheckerInv
  <1>2. UnderWay' = {other \in DOMAIN check : /\ check'[other].stage = "checking"
                                              /\ check'[other].generation = linkBreaker'.generation}
    BY <1>0 DEF UnderWay, Stage
  <1>3. CASE Begins(link)
    <2>1. /\ linkBreaker' \in Breaker /\ linkBreaker'.generation = linkBreaker.generation
          /\ linkBreaker'.requests = linkBreaker.requests + 1
          /\ linkBreaker'.failures = linkBreaker.failures
          /\ linkBreaker'.successes = linkBreaker.successes
      BY <1>0, <1>3, BreakerAsked DEF Begins
    <2>2. UnderWay' = UnderWay \cup {link} /\ link \notin UnderWay
      BY <1>0, <1>2, <1>3, <2>1 DEF Begins, Goroutine, UnderWay, Stage
    <2>3. Cardinality(UnderWay') = Cardinality(UnderWay) + 1
      BY <1>1, <2>2, FS_AddElement
    <2>4. LinkCounts'
      BY <1>0, <1>1, <2>1, <2>3 DEF LinkCounts
    <2> QED
      BY <1>0, <1>3, <2>1, <2>4 DEF Begins, Goroutine
  <1>4. CASE Rejected(link) \/ Listed(link)
    <2>1. linkBreaker' = linkBreaker /\ check'[link].stage # "checking" /\ check[link].stage # "checking"
      BY <1>4 DEF Rejected, Listed, Goroutine, Stage
    <2>2. UnderWay' = UnderWay
      BY <1>0, <1>2, <2>1 DEF UnderWay, Stage
    <2> QED
      BY <1>0, <2>1, <2>2 DEF LinkCounts
  <1>5. CASE Succeeds(link) \/ Fails(link)
    <2>0. /\ check[link].generation \in Nat
          /\ check[link].stage = "checking" /\ check'[link].stage = "checked"
      <3>1. check'[link].stage = "checked"
        BY <1>5 DEF Succeeds, Fails, Goroutine
      <3>2. check[link].stage = "checking"
        BY <1>5 DEF Succeeds, Fails, Stage
      <3> QED
        BY <1>0, <3>1, <3>2
    <2>1. CallEnds(linkBreaker', linkBreaker, check[link].generation)
      <3>1. CASE Succeeds(link)
        BY <3>1 DEF Succeeds, AfterSuccess
      <3>2. CASE Fails(link)
        BY <3>2 DEF Fails, AfterFailure
      <3> QED
        BY <1>5, <3>1, <3>2
    <2>3. CASE check[link].generation # linkBreaker.generation
      <3>1. linkBreaker' = linkBreaker
        BY <2>1, <2>3 DEF CallEnds
      <3>2. UnderWay' = UnderWay
        BY <1>0, <1>2, <2>0, <2>3, <3>1 DEF UnderWay, Stage
      <3> QED
        BY <1>0, <2>0, <3>1, <3>2 DEF LinkCounts
    <2>4. CASE check[link].generation = linkBreaker.generation
      <3>1. /\ linkBreaker' \in Breaker
            /\ \/ /\ linkBreaker'.generation = linkBreaker.generation + 1
                  /\ linkBreaker'.requests = 0 /\ linkBreaker'.failures = 0
                  /\ linkBreaker'.successes = 0
               \/ /\ linkBreaker'.generation = linkBreaker.generation
                  /\ linkBreaker'.requests = linkBreaker.requests
                  /\ linkBreaker'.failures + linkBreaker'.successes
                       = linkBreaker.failures + linkBreaker.successes + 1
        BY <2>1, <2>4 DEF CallEnds, Forgets, Counted
      <3>2. CASE linkBreaker'.generation = linkBreaker.generation + 1
        <4>1. UnderWay' = {}
          BY <1>0, <1>2, <2>0, <3>2
        <4>2. Cardinality(UnderWay') = 0
          BY <4>1, FS_EmptySet
        <4>3. LinkCounts'
          BY <1>0, <3>1, <3>2, <4>2 DEF LinkCounts
        <4> QED
          BY <1>0, <2>0, <3>1, <3>2, <4>3
      <3>3. CASE linkBreaker'.generation = linkBreaker.generation
        <4>1. UnderWay' = UnderWay \ {link} /\ link \in UnderWay
          BY <1>0, <1>2, <2>0, <2>4, <3>3 DEF UnderWay, Stage
        <4>2. Cardinality(UnderWay') = Cardinality(UnderWay) - 1
          BY <1>1, <4>1, FS_RemoveElement
        <4>3. /\ linkBreaker'.requests \in Nat /\ linkBreaker'.failures \in Nat
              /\ linkBreaker'.successes \in Nat
          BY <3>1 DEF Breaker
        <4>4. LinkCounts'
          BY <1>0, <1>1, <3>1, <3>3, <4>2, <4>3 DEF LinkCounts
        <4> QED
          BY <1>0, <2>0, <3>1, <3>3, <4>4
      <3> QED
        BY <3>1, <3>2, <3>3
    <2> QED
      BY <2>3, <2>4
  <1> QED
    BY <1>0, <1>3, <1>4, <1>5

LEMMA CheckLinkKeeps ==
  ASSUME CheckerInv, stage = "check", NEW link \in DOMAIN check, CheckStep(link), UNCHANGED stage
  PROVE  CheckerInv'
  <1>1. /\ linkBreaker' \in Breaker /\ LinkCounts'
        /\ \A other \in DOMAIN check' :
             check'[other].stage = "checking" =>
               check'[other].generation <= linkBreaker'.generation
    BY CheckCounts
  <1>2. /\ DOMAIN check' = DOMAIN check
        /\ check' \in [DOMAIN check' -> Goroutines]
        /\ Begins(link) \/ Rejected(link) \/ Succeeds(link) \/ Fails(link) \/ Listed(link)
    BY CheckEffects
  <1>3. failures' \in Nat
    BY <1>2 DEF CheckerInv, Begins, Rejected, Succeeds, Fails, Listed
  <1>4. inaccessible' \in Seq(Entries')
    <2>1. Entry(link) \in Entries
      BY DEF CheckerInv, Goroutines, Entry, Entries
    <2>2. inaccessible' = inaccessible \/ inaccessible' = Append(inaccessible, Entry(link))
      BY <1>2 DEF Begins, Rejected, Succeeds, Fails, Listed
    <2>3. inaccessible \in Seq(Entries)
      BY DEF CheckerInv
    <2>4. inaccessible' \in Seq(Entries)
      BY <2>1, <2>2, <2>3, OneMore
    <2> QED
      BY <1>2, <2>4 DEF Entries
  <1> QED
    BY <1>1, <1>2, <1>3, <1>4 DEF CheckerInv, Stage

LEMMA FetcherInvKept ==
  ASSUME FetcherInv, stage' = "fetch" <=> stage = "fetch", UNCHANGED fetchVars
  PROVE  FetcherInv'
  BY DEF FetcherInv, FetchCounts, fetchVars

LEMMA CheckerInvKept ==
  ASSUME CheckerInv, stage # "check" /\ stage' # "check", UNCHANGED checkVars
  PROVE  CheckerInv'
  BY DEF CheckerInv, LinkCounts, UnderWay, Stage, Entries, checkVars

\* A fetch that ends, however it does.
LEMMA FetchEnds ==
  ASSUME FetcherInv, NEW outcome, EndFetch(outcome)
  PROVE  FetcherInv' /\ fetching' = 0
  <1>0. fetchBreaker \in Breaker /\ fetching \in Nat
    BY DEF FetcherInv
  <1>1. CallEnds(fetchBreaker', fetchBreaker, fetching)
    <2>1. CASE outcome = ""
      <3>1. fetchBreaker' = After(fetchBreaker, fetching, TRUE, 3, 6)
        BY <2>1 DEF EndFetch
      <3>2. AfterSuccess(fetchBreaker', fetchBreaker, fetching)
        BY <1>0, <3>1, SuccessEnds
      <3> QED
        BY <3>2 DEF AfterSuccess
    <2>2. CASE outcome # ""
      <3>1. fetchBreaker' = After(fetchBreaker, fetching, FALSE, 3, 6)
        BY <2>2 DEF EndFetch
      <3>2. AfterFailure(fetchBreaker', fetchBreaker, fetching, 3, 6)
        BY <1>0, <3>1, FailureEnds
      <3> QED
        BY <3>2 DEF AfterFailure
    <2> QED
      BY <2>1, <2>2
  <1>2. fetching' = 0
    BY DEF EndFetch
  <1>3. /\ fetchBreaker' \in Breaker /\ fetchBreaker'.generation \in Nat \ {0}
        /\ fetchBreaker.requests \in Nat /\ fetchBreaker.failures \in Nat
        /\ fetchBreaker.successes \in Nat
        /\ fetchBreaker'.requests \in Nat /\ fetchBreaker'.failures \in Nat
        /\ fetchBreaker'.successes \in Nat
    BY <1>0, <1>1 DEF CallEnds, Breaker
  <1>4. fetchBreaker'.requests = fetchBreaker'.failures + fetchBreaker'.successes
    BY <1>1, <1>3 DEF CallEnds, Forgets, Counted, FetcherInv, FetchCounts
  <1> QED
    BY <1>2, <1>3, <1>4 DEF FetcherInv, FetchCounts

-----------------------------------------------------------------------------
(* Types and counts, step by step                                          *)

LEMMA FetcherStep ==
  ASSUME FetcherInv, [PageNext]_pageVars
  PROVE  FetcherInv'
  <1>1. ASSUME NEW url \in Urls, Fetch(url)
        PROVE  FetcherInv'
    <2>1. CASE error' = ""
      <3>1. /\ stage' = "fetch" /\ BeginFetch /\ fetching = 0
            /\ fetchBreaker \in Breaker /\ fetchBreaker.generation \in Nat \ {0}
            /\ fetchBreaker.requests = fetchBreaker.failures + fetchBreaker.successes
            /\ fetchBreaker.failures \in Nat /\ fetchBreaker.successes \in Nat
        <4>1. stage' = "fetch" /\ BeginFetch /\ stage = "idle"
          BY <1>1, <2>1 DEF Fetch
        <4>2. fetching = 0
          BY <4>1 DEF FetcherInv
        <4>3. /\ fetchBreaker \in Breaker /\ fetchBreaker.generation \in Nat \ {0}
              /\ fetchBreaker.failures \in Nat /\ fetchBreaker.successes \in Nat
              /\ fetchBreaker.requests \in Nat
          BY DEF FetcherInv, Breaker
        <4> QED
          BY <4>1, <4>2, <4>3 DEF FetcherInv, FetchCounts
      <3>2. /\ fetchBreaker' \in Breaker /\ fetching' = fetchBreaker.generation
            /\ fetchBreaker'.generation = fetchBreaker.generation
            /\ fetchBreaker'.requests = fetchBreaker.requests + 1
            /\ fetchBreaker'.failures = fetchBreaker.failures
            /\ fetchBreaker'.successes = fetchBreaker.successes
        BY <3>1, BreakerAsked DEF BeginFetch
      <3> QED
        BY <3>1, <3>2 DEF FetcherInv, FetchCounts
    <2>2. CASE error' # ""
      BY <1>1, <2>2, FetcherInvKept DEF Fetch
    <2> QED
      BY <2>1, <2>2
  <1>2. CASE FetchFails \/ FetchReturns
    <2>1. \E outcome : EndFetch(outcome)
      BY <1>2 DEF FetchFails, FetchReturns
    <2> QED
      BY <2>1, FetchEnds
  <1>3. CASE TimePasses
    <2>1. CASE UNCHANGED fetchVars
      BY <1>3, <2>1, FetcherInvKept DEF TimePasses, analysisVars
    <2>2. CASE FetchBreakerExpires(MaxGeneration)
      <3>1. /\ fetchBreaker \in Breaker /\ fetchBreaker.generation \in Nat
            /\ fetchBreaker' = Expired(fetchBreaker) /\ UNCHANGED fetching
        BY <2>2 DEF FetchBreakerExpires, FetcherInv, Breaker
      <3>2. /\ fetchBreaker' \in Breaker /\ fetchBreaker'.generation = fetchBreaker.generation + 1
            /\ fetchBreaker'.requests = 0 /\ fetchBreaker'.failures = 0
            /\ fetchBreaker'.successes = 0
        BY <3>1, BreakerExpired DEF Forgets
      <3>3. UNCHANGED stage
        BY <1>3 DEF TimePasses, analysisVars
      <3> QED
        BY <3>1, <3>2, <3>3 DEF FetcherInv, FetchCounts
    <2> QED
      BY <1>3, <2>1, <2>2 DEF TimePasses
  <1>4. ASSUME NEW part \in writing, WritePart(part)
        PROVE  FetcherInv'
    BY <1>4, FetcherInvKept DEF WritePart
  <1>5. ASSUME NEW link \in DOMAIN check, CheckLink(link)
        PROVE  FetcherInv'
    BY <1>5, FetcherInvKept DEF CheckLink, analysisVars
  <1>6. CASE AnalyzeReturns \/ ChecksReturn
    BY <1>6, FetcherInvKept DEF AnalyzeReturns, ChecksReturn
  <1>7. CASE UNCHANGED pageVars
    BY <1>7, FetcherInvKept DEF pageVars, analysisVars
  <1> QED
    BY <1>1, <1>2, <1>3, <1>4, <1>5, <1>6, <1>7 DEF PageNext, Work

\* The links of a page that has been analyzed are what was extracted: a finite list.
LEMMA ToBeChecked ==
  ASSUME AnalysisTypes, ResultsSoFar, stage = "analyze", Analyzed
  PROVE  /\ results.links = AnalyzeLinks(page)
         /\ IsFiniteSet(LinksToCheck(AnalyzeLinks(page).external))
         /\ LinksToCheck(AnalyzeLinks(page).external) \subseteq ToSet(AnalyzeLinks(page).external)
         /\ \/ LinksToCheck(AnalyzeLinks(page).external) = ToSet(AnalyzeLinks(page).external)
            \/ Cardinality(LinksToCheck(AnalyzeLinks(page).external)) = MaxLinksToCheck
  <1>1. page \in Pages
    BY DEF ResultsSoFar
  <1>2. results.links = AnalyzeLinks(page)
    <2>1. "links" \in Parts(options) \ writing /\ "links" \in DOMAIN NoResults
      BY DEF Analyzed, Parts, NoResults
    <2>2. results["links"] = Extract(page, "links")
      BY <2>1 DEF ResultsSoFar
    <2> QED
      BY <2>2 DEF Extract
  <1>3. AnalyzeLinks(page).external \in Seq({anchor.url : anchor \in ToSet(page.anchors)})
    BY <1>1, PageLinks DEF LinkAnalysis
  <1> QED
    BY <1>2, <1>3, LinksChecked

LEMMA NothingChecked == <<>> \in [{} -> Goroutines] /\ DOMAIN <<>> = {}
  OBVIOUS

LEMMA CheckerStep ==
  ASSUME FetcherInv, CheckerInv, AnalysisTypes, ResultsSoFar, [PageNext]_pageVars
  PROVE  CheckerInv'
  <1>0. /\ linkBreaker \in Breaker /\ linkBreaker.generation \in Nat /\ failures \in Nat
        /\ linkBreaker.requests \in Nat /\ linkBreaker.failures \in Nat
        /\ linkBreaker.successes \in Nat
    BY DEF CheckerInv, Breaker
  \* A page comes in, or the goroutines are spawned: none of them is making a call.
  <1>a. ASSUME UNCHANGED <<linkBreaker, failures>>, stage # "check",
               IsFiniteSet(DOMAIN check'), check' \in [DOMAIN check' -> Goroutines],
               \A link \in DOMAIN check' : check'[link].stage = "spawned",
               stage' # "check" => DOMAIN check' = {},
               inaccessible' = <<>>
        PROVE  CheckerInv'
    <2>1. UnderWay = {}
      BY <1>a DEF CheckerInv, UnderWay
    <2>2. UnderWay' = {}
      BY <1>a DEF UnderWay, Stage
    <2>3. LinkCounts'
      BY <1>a, <2>1, <2>2 DEF CheckerInv, LinkCounts
    <2>4. inaccessible' \in Seq(Entries')
      BY <1>a
    <2> QED
      BY <1>0, <1>a, <2>3, <2>4 DEF CheckerInv, Stage
  <1>1. ASSUME NEW url \in Urls, Fetch(url)
        PROVE  CheckerInv'
    <2>0. check' = <<>>
      BY <1>1 DEF Fetch
    <2>1. DOMAIN check' = {} /\ check' \in [DOMAIN check' -> Goroutines]
      BY <2>0, NothingChecked
    <2>2. stage = "idle" /\ stage' # "check"
      BY <1>1 DEF Fetch
    <2> QED
      BY <1>1, <1>a, <2>1, <2>2, FS_EmptySet DEF Fetch
  <1>2. CASE FetchFails \/ FetchReturns
    BY <1>2, CheckerInvKept DEF FetchFails, FetchReturns
  <1>3. CASE TimePasses
    <2>1. CASE stage # "check"
      BY <1>3, <2>1, CheckerInvKept DEF TimePasses, analysisVars
    <2>2. CASE stage = "check"
      <3>1. /\ linkBreaker' = Expired(linkBreaker) /\ UNCHANGED <<check, inaccessible, failures, stage>>
        BY <1>3, <2>2 DEF TimePasses, LinkBreakerExpires, analysisVars
      <3>2. /\ linkBreaker' \in Breaker /\ linkBreaker'.generation = linkBreaker.generation + 1
            /\ linkBreaker'.requests = 0 /\ linkBreaker'.failures = 0 /\ linkBreaker'.successes = 0
        BY <1>0, <3>1, BreakerExpired DEF Forgets
      <3>3. \A link \in DOMAIN check :
              /\ check[link].generation \in Nat
              /\ Stage(link) = "checking" => check[link].generation <= linkBreaker.generation
        BY DEF CheckerInv, Goroutines
      <3>4. UnderWay' = {}
        BY <1>0, <3>1, <3>2, <3>3 DEF UnderWay, Stage
      <3>5. Cardinality(UnderWay') = 0
        BY <3>4, FS_EmptySet
      <3>6. LinkCounts'
        BY <3>2, <3>5 DEF LinkCounts
      <3>7. \A link \in DOMAIN check' :
              check'[link].stage = "checking" => check'[link].generation <= linkBreaker'.generation
        BY <1>0, <3>1, <3>2, <3>3 DEF Stage
      <3> QED
        BY <2>2, <3>1, <3>2, <3>6, <3>7 DEF CheckerInv, Stage, Entries
    <2> QED
      BY <2>1, <2>2
  <1>4. ASSUME NEW part \in writing, WritePart(part)
        PROVE  CheckerInv'
    BY <1>4 DEF WritePart, CheckerInv, LinkCounts, UnderWay, Stage, Entries, checkVars
  <1>5. ASSUME NEW link \in DOMAIN check, CheckLink(link)
        PROVE  CheckerInv'
    BY <1>5, CheckLinkKeeps DEF CheckLink, analysisVars
  <1>6. CASE AnalyzeReturns
    <2>1. CASE UNCHANGED checkVars /\ stage' = "idle"
      BY <1>6, <2>1, CheckerInvKept DEF AnalyzeReturns
    <2>2. CASE stage' = "check" /\ Spawn(results.links.external)
      <3>1. stage = "analyze" /\ Analyzed
        BY <1>6 DEF AnalyzeReturns
      <3> DEFINE links == LinksToCheck(AnalyzeLinks(page).external)
      <3>2. IsFiniteSet(links) /\ results.links.external = AnalyzeLinks(page).external
        BY <3>1, ToBeChecked
      <3>3. /\ check' = [link \in links |-> Goroutine("spawned", 0, 0)] /\ inaccessible' = <<>>
            /\ UNCHANGED <<linkBreaker, failures>>
        BY <2>2, <3>2 DEF Spawn
      <3> HIDE DEF links
      <3>4. /\ DOMAIN check' = links /\ check' \in [DOMAIN check' -> Goroutines]
            /\ \A link \in DOMAIN check' : check'[link].stage = "spawned"
        BY <3>3 DEF Goroutine, Goroutines, Statuses
      <3> QED
        BY <1>a, <2>2, <3>1, <3>2, <3>3, <3>4
    <2> QED
      BY <1>6, <2>1, <2>2 DEF AnalyzeReturns
  <1>7. CASE ChecksReturn
    BY <1>7 DEF ChecksReturn, AllChecked, CheckerInv, LinkCounts, UnderWay, Stage, Entries, checkVars
  <1>8. CASE UNCHANGED pageVars
    BY <1>8 DEF CheckerInv, LinkCounts, UnderWay, Stage, Entries, checkVars, pageVars, analysisVars
  <1> QED
    BY <1>1, <1>2, <1>3, <1>4, <1>5, <1>6, <1>7, <1>8 DEF PageNext, Work

LEMMA AnalysisStep ==
  ASSUME AnalysisTypes, [PageNext]_pageVars
  PROVE  AnalysisTypes'
  <1>1. ASSUME NEW url \in Urls, Fetch(url)
        PROVE  AnalysisTypes'
    <2>1. left' \in 0..MaxPages
      <3>1. left > 0 /\ left' = left - 1
        BY <1>1 DEF Fetch
      <3>2. left \in 0..MaxPages /\ MaxPages \in Nat
        BY PageAssumption DEF AnalysisTypes
      <3> QED
        BY <3>1, <3>2
    <2>2. error' \in {"INVALID_URL", "CIRCUIT_BREAKER_OPEN"} \cup FetchOutcomes
      <3>1. RefusedFetch(url) \in {"INVALID_URL", "CIRCUIT_BREAKER_OPEN"} \cup FetchOutcomes
        BY DEF RefusedFetch, FetchOutcomes
      <3>2. error' = RefusedFetch(url)
        BY <1>1 DEF Fetch
      <3> QED
        BY <3>1, <3>2
    <2>3. /\ stage' \in {"idle", "fetch", "analyze", "check"}
          /\ page' = NoPage /\ options' \in Options /\ UNCHANGED writing
      BY <1>1 DEF Fetch
    <2> QED
      BY <2>1, <2>2, <2>3 DEF AnalysisTypes
  <1>2. CASE FetchFails
    BY <1>2 DEF FetchFails, AnalysisTypes
  <1>3. CASE FetchReturns
    BY <1>3 DEF FetchReturns, AnalysisTypes, Parts
  <1>4. ASSUME NEW part \in writing, WritePart(part)
        PROVE  AnalysisTypes'
    BY <1>4 DEF WritePart, AnalysisTypes
  <1>5. ASSUME NEW link \in DOMAIN check, CheckLink(link)
        PROVE  AnalysisTypes'
    BY <1>5 DEF CheckLink, analysisVars, AnalysisTypes
  <1>6. CASE AnalyzeReturns
    BY <1>6 DEF AnalyzeReturns, AnalysisTypes
  <1>7. CASE ChecksReturn
    BY <1>7 DEF ChecksReturn, AnalysisTypes
  <1>8. CASE TimePasses \/ UNCHANGED pageVars
    BY <1>8 DEF TimePasses, pageVars, analysisVars, AnalysisTypes
  <1> QED
    BY <1>1, <1>2, <1>3, <1>4, <1>5, <1>6, <1>7, <1>8 DEF PageNext, Work

-----------------------------------------------------------------------------
(* The results                                                             *)

\* A part that is written is as the page has it, and the others are as they were.
LEMMA WriteKeeps ==
  ASSUME AnalysisTypes, ResultsSoFar, NEW part \in writing, WritePart(part)
  PROVE  ResultsSoFar'
  <1>1. /\ stage \in {"analyze", "check"} /\ page \in Pages /\ writing \subseteq Parts(options)
        /\ results = [p \in DOMAIN NoResults |-> results[p]]
        /\ \A p \in DOMAIN NoResults :
             results[p] = IF p \in Parts(options) \ writing THEN Extract(page, p) ELSE NoResults[p]
        /\ stage = "check" => writing = {}
    BY DEF ResultsSoFar, WritePart
  <1>2. /\ results' = [results EXCEPT ![part] = Extract(page, part)]
        /\ writing' = writing \ {part} /\ UNCHANGED <<stage, page, options, inaccessible>>
    BY DEF WritePart, checkVars
  <1>3. /\ results' = [p \in DOMAIN NoResults |-> results'[p]]
        /\ \A p \in DOMAIN NoResults :
             results'[p] = IF p = part THEN Extract(page, part) ELSE results[p]
    <2> HIDE DEF NoResults, Extract
    <2> QED
      BY <1>1, <1>2
  <1>4. \A p \in DOMAIN NoResults :
          results'[p] = IF p \in Parts(options) \ writing' THEN Extract(page, p) ELSE NoResults[p]
    BY <1>1, <1>2, <1>3
  <1>5. stage # "check"
    BY <1>1
  <1> QED
    BY <1>1, <1>2, <1>3, <1>4, <1>5 DEF ResultsSoFar, Finished

\* What is finished without checks has the links as they were extracted.
LEMMA ReturnKeeps ==
  ASSUME AnalysisTypes, ResultsSoFar, Reported, AnalyzeReturns
  PROVE  ResultsSoFar'
  <1>1. /\ stage = "analyze" /\ Analyzed /\ UNCHANGED <<page, options, writing, results>>
        /\ \/ stage' = "check"
           \/ stage' = "idle" /\ UNCHANGED inaccessible
    BY DEF AnalyzeReturns, checkVars
  <1>2. /\ page \in Pages /\ writing = {}
        /\ results = [p \in DOMAIN NoResults |-> results[p]]
        /\ \A p \in DOMAIN NoResults :
             results[p] = IF p \in Parts(options) THEN Extract(page, p) ELSE NoResults[p]
    BY <1>1 DEF ResultsSoFar, Analyzed
  <1>3. CASE stage' = "check"
    BY <1>1, <1>2, <1>3 DEF ResultsSoFar, Finished
  <1>4. CASE stage' = "idle" /\ UNCHANGED inaccessible
    <2>1. PartsWritten'
      BY <1>1, <1>2 DEF PartsWritten
    <2>2. results.links = AnalyzeLinks(page) /\ inaccessible = <<>>
      BY <1>1, ToBeChecked DEF Reported
    <2>3. AnalyzeLinks(page) = [AnalyzeLinks(page) EXCEPT !.inaccessible = <<>>]
      <3>1. AnalyzeLinks(page) \in LinkAnalysis(page.anchors)
        BY <1>2, PageLinks
      <3> QED
        BY <3>1 DEF LinkAnalysis
    <2> QED
      BY <1>1, <1>2, <1>4, <2>1, <2>2, <2>3 DEF ResultsSoFar, Finished
  <1> QED
    BY <1>1, <1>3, <1>4

\* The report goes into the links, and into nothing else.
LEMMA ReportKeeps ==
  ASSUME AnalysisTypes, ResultsSoFar, ChecksReturn
  PROVE  ResultsSoFar'
  <1>1. /\ stage = "check" /\ stage' = "idle" /\ UNCHANGED <<page, options, writing, inaccessible>>
        /\ results' = [results EXCEPT !.links.inaccessible = inaccessible]
    BY DEF ChecksReturn, checkVars
  <1>2. /\ page \in Pages /\ writing = {}
        /\ results = [p \in DOMAIN NoResults |-> results[p]]
        /\ \A p \in DOMAIN NoResults :
             results[p] = IF p \in Parts(options) THEN Extract(page, p) ELSE NoResults[p]
    BY <1>1 DEF ResultsSoFar
  <1>3. "links" \in DOMAIN NoResults /\ "links" \in Parts(options)
    BY DEF NoResults, Parts
  <1>4. results.links = AnalyzeLinks(page)
    BY <1>2, <1>3 DEF Extract
  <1>5. /\ results' = [p \in DOMAIN NoResults |-> results'[p]]
        /\ DOMAIN results' = DOMAIN NoResults
        /\ \A p \in DOMAIN NoResults \ {"links"} : results'[p] = results[p]
        /\ results'.links = [results.links EXCEPT !.inaccessible = inaccessible]
    BY <1>1, <1>2, <1>3
  <1>6. PartsWritten'
    BY <1>1, <1>2, <1>5 DEF PartsWritten
  <1> QED
    BY <1>1, <1>2, <1>4, <1>5, <1>6 DEF ResultsSoFar, Finished

LEMMA ResultsStep ==
  ASSUME AnalysisTypes, ResultsSoFar, Reported, [PageNext]_pageVars
  PROVE  ResultsSoFar'
  <1>0. NoResults = [part \in DOMAIN NoResults |-> NoResults[part]]
    BY DEF NoResults
  <1>1. ASSUME NEW url \in Urls, Fetch(url)
        PROVE  ResultsSoFar'
    <2>1. stage' \in {"idle", "fetch"} /\ page' = NoPage /\ results' = NoResults
      BY <1>1 DEF Fetch
    <2> QED
      BY <1>0, <2>1 DEF ResultsSoFar, Finished
  <1>2. CASE FetchFails
    <2>1. stage = "fetch" /\ stage' = "idle" /\ UNCHANGED <<page, results>>
      BY <1>2 DEF FetchFails
    <2> QED
      BY <2>1 DEF ResultsSoFar, Finished
  <1>3. CASE FetchReturns
    <2>1. /\ stage = "fetch" /\ stage' = "analyze" /\ page' \in Pages /\ UNCHANGED <<options, results>>
          /\ writing' = Parts(options)
      BY <1>3 DEF FetchReturns
    <2>2. results = NoResults
      BY <2>1 DEF ResultsSoFar
    <2> QED
      BY <1>0, <2>1, <2>2 DEF ResultsSoFar, Finished
  <1>4. ASSUME NEW part \in writing, WritePart(part)
        PROVE  ResultsSoFar'
    BY <1>4, WriteKeeps
  <1>5. ASSUME NEW link \in DOMAIN check, CheckLink(link)
        PROVE  ResultsSoFar'
    <2>1. stage = "check" /\ UNCHANGED analysisVars
      BY <1>5 DEF CheckLink
    <2> QED
      BY <2>1 DEF ResultsSoFar, Finished, analysisVars
  <1>6. CASE AnalyzeReturns
    BY <1>6, ReturnKeeps
  <1>7. CASE ChecksReturn
    BY <1>7, ReportKeeps
  <1>8. CASE TimePasses \/ UNCHANGED pageVars
    <2>1. UNCHANGED <<inaccessible, stage, page, options, writing, results>>
      BY <1>8 DEF TimePasses, LinkBreakerExpires, pageVars, checkVars, analysisVars
    <2> QED
      BY <2>1 DEF ResultsSoFar, Finished, PartsWritten
  <1> QED
    BY <1>1, <1>2, <1>3, <1>4, <1>5, <1>6, <1>7, <1>8 DEF PageNext, Work

-----------------------------------------------------------------------------
(* The breaker that is blamed                                              *)

LEMMA CheckLinkBlames ==
  ASSUME CheckerInv, OpenAfterFailures, BlamedAfterFailures,
         NEW link \in DOMAIN check, CheckStep(link)
  PROVE  OpenAfterFailures' /\ BlamedAfterFailures'
  <1>0. /\ linkBreaker \in Breaker /\ linkBreaker.failures \in Nat /\ linkBreaker.requests \in Nat
        /\ failures \in Nat /\ linkBreaker.failures <= failures
        /\ linkBreaker.state # "closed" => failures >= 4
        /\ \A other \in DOMAIN check : check[other].status = 503 => failures >= 4
    BY DEF CheckerInv, OpenAfterFailures, Breaker
  <1>1. /\ DOMAIN check' = DOMAIN check
        /\ \A other \in DOMAIN check \ {link} : check'[other] = check[other]
        /\ Begins(link) \/ Rejected(link) \/ Succeeds(link) \/ Fails(link) \/ Listed(link)
    BY CheckEffects
  <1>2. /\ failures' \in {failures, failures + 1} /\ linkBreaker'.failures <= failures'
        /\ linkBreaker'.state # "closed" => failures' >= 4
    <2>1. CASE Begins(link)
      BY <1>0, <2>1, BreakerAsked DEF Begins
    <2>2. CASE Rejected(link) \/ Listed(link)
      BY <1>0, <2>2 DEF Rejected, Listed
    <2>3. CASE Succeeds(link)
      <3>1. /\ failures' = failures /\ linkBreaker' \in Breaker
            /\ linkBreaker'.failures <= linkBreaker.failures
            /\ linkBreaker'.state \in {linkBreaker.state, "closed"}
        BY <2>3 DEF Succeeds, AfterSuccess, CallEnds
      <3>2. linkBreaker'.failures \in Nat
        BY <3>1 DEF Breaker
      <3> QED
        BY <1>0, <3>1, <3>2
    <2>4. CASE Fails(link)
      <3>1. /\ failures' = failures + 1 /\ linkBreaker' \in Breaker
            /\ linkBreaker'.failures <= linkBreaker.failures + 1
            /\ \/ linkBreaker'.state = linkBreaker.state \/ linkBreaker.state = "half-open"
               \/ /\ linkBreaker.requests >= 5
                  /\ 10 * (linkBreaker.failures + 1) >= 8 * linkBreaker.requests
        BY <2>4 DEF Fails, AfterFailure, CallEnds
      <3>2. linkBreaker'.failures \in Nat
        BY <3>1 DEF Breaker
      <3>3. linkBreaker'.state # "closed" => failures' >= 4
        <4>1. CASE linkBreaker.state # "closed"
          BY <1>0, <3>1, <4>1
        <4>2. CASE /\ linkBreaker.requests >= 5
                   /\ 10 * (linkBreaker.failures + 1) >= 8 * linkBreaker.requests
          BY <1>0, <3>1, <4>2
        <4> QED
          BY <3>1, <4>1, <4>2
      <3> QED
        BY <1>0, <3>1, <3>2, <3>3
    <2> QED
      BY <1>1, <2>1, <2>2, <2>3, <2>4
  <1>3. check'[link].status = 503 => failures' >= 4
    <2>1. CASE Rejected(link)
      BY <1>0, <2>1 DEF Rejected
    <2>2. CASE Listed(link)
      BY <1>0, <2>2 DEF Listed, Goroutine
    <2>3. CASE Begins(link) \/ Succeeds(link) \/ Fails(link)
      <3>1. check'[link].status \in {0, 200, 404}
        BY <2>3 DEF Begins, Succeeds, Fails, Goroutine
      <3> QED
        BY <3>1
    <2> QED
      BY <1>1, <2>1, <2>2, <2>3
  <1>4. OpenAfterFailures'
    BY <1>0, <1>1, <1>2, <1>3 DEF OpenAfterFailures
  <1>5. BlamedAfterFailures'
    <2>1. CASE inaccessible' = inaccessible
      BY <1>0, <1>2, <2>1 DEF BlamedAfterFailures
    <2>2. CASE Listed(link) /\ inaccessible' = Append(inaccessible, Entry(link))
      <3>1. inaccessible \in Seq(Entries) /\ Entry(link).status = check[link].status
        BY DEF CheckerInv, Entry
      <3>2. ASSUME NEW i \in DOMAIN inaccessible', inaccessible'[i].status = 503
            PROVE  \/ check[link].status = 503
                   \/ \E j \in DOMAIN inaccessible : inaccessible[j].status = 503
        BY <2>2, <3>1, <3>2
      <3> QED
        BY <1>0, <1>2, <3>2 DEF BlamedAfterFailures
    <2> QED
      BY <1>1, <2>1, <2>2 DEF Begins, Rejected, Succeeds, Fails, Listed
  <1> QED
    BY <1>4, <1>5

LEMMA BlamedStep ==
  ASSUME CheckerInv, OpenAfterFailures, BlamedAfterFailures, [PageNext]_pageVars
  PROVE  OpenAfterFailures' /\ BlamedAfterFailures'
  <1>1. ASSUME UNCHANGED checkVars
        PROVE  OpenAfterFailures' /\ BlamedAfterFailures'
    BY <1>1 DEF OpenAfterFailures, BlamedAfterFailures, checkVars
  <1>2. ASSUME UNCHANGED <<linkBreaker, failures>>, inaccessible' = <<>>,
               \A link \in DOMAIN check' : check'[link].status = 0
        PROVE  OpenAfterFailures' /\ BlamedAfterFailures'
    BY <1>2 DEF OpenAfterFailures, BlamedAfterFailures
  <1>3. ASSUME NEW url \in Urls, Fetch(url)
        PROVE  OpenAfterFailures' /\ BlamedAfterFailures'
    <2>1. check' = <<>> /\ inaccessible' = <<>> /\ UNCHANGED <<linkBreaker, failures>>
      BY <1>3 DEF Fetch
    <2>2. \A link \in DOMAIN check' : check'[link].status = 0
      BY <2>1, NothingChecked
    <2> QED
      BY <1>2, <2>1, <2>2
  <1>4. ASSUME NEW link \in DOMAIN check, CheckLink(link)
        PROVE  OpenAfterFailures' /\ BlamedAfterFailures'
    BY <1>4, CheckLinkBlames DEF CheckLink
  <1>5. CASE AnalyzeReturns
    <2>1. CASE Spawn(results.links.external)
      <3>1. /\ inaccessible' = <<>> /\ UNCHANGED <<linkBreaker, failures>>
            /\ \A link \in DOMAIN check' : check'[link].status = 0
        BY <2>1 DEF Spawn, Goroutine
      <3> QED
        BY <1>2, <3>1
    <2> QED
      BY <1>1, <1>5, <2>1 DEF AnalyzeReturns
  <1>6. CASE TimePasses
    <2>1. CASE LinkBreakerExpires(MaxGeneration)
      <3>1. linkBreaker' = Expired(linkBreaker) /\ UNCHANGED <<check, inaccessible, failures>>
        BY <2>1 DEF LinkBreakerExpires
      <3>2. linkBreaker \in Breaker /\ failures \in Nat
        BY DEF CheckerInv
      <3>3. /\ linkBreaker'.failures = 0
            /\ linkBreaker'.state = IF linkBreaker.state = "open" THEN "half-open" ELSE "closed"
        BY <3>1, <3>2, BreakerExpired DEF Forgets
      <3> QED
        BY <3>1, <3>2, <3>3 DEF OpenAfterFailures, BlamedAfterFailures
    <2> QED
      BY <1>1, <1>6, <2>1 DEF TimePasses
  <1> QED
    BY <1>1, <1>3, <1>4, <1>5, <1>6
    DEF PageNext, Work, FetchFails, FetchReturns, WritePart, ChecksReturn, pageVars

-----------------------------------------------------------------------------
(* The report of the links                                                 *)

\* The entries agree with the goroutines that are done, each of which has made one.
EntriesAgree ==
  /\ ToSet(inaccessible) = {Entry(link) : link \in BadOnes}
  /\ Len(inaccessible) = Cardinality(BadOnes)

LEMMA CheckLinkReports ==
  ASSUME CheckerInv, EntriesAgree, NEW link \in DOMAIN check, CheckStep(link)
  PROVE  EntriesAgree'
  <1>1. /\ DOMAIN check' = DOMAIN check
        /\ \A other \in DOMAIN check \ {link} : check'[other] = check[other]
        /\ Begins(link) \/ Rejected(link) \/ Succeeds(link) \/ Fails(link) \/ Listed(link)
    BY CheckEffects
  <1>2. IsFiniteSet(BadOnes)
    <2>1. BadOnes \in SUBSET DOMAIN check
      BY DEF BadOnes
    <2> QED
      BY <2>1, FS_Subset DEF CheckerInv
  <1>3. BadOnes' = {other \in DOMAIN check :
                      /\ check'[other].stage = "done"
                      /\ check'[other].status = 0 \/ check'[other].status >= 400}
    BY <1>1 DEF BadOnes, Stage, IsInaccessible
  <1>4. CASE Begins(link) \/ Rejected(link) \/ Succeeds(link) \/ Fails(link)
    <2>1. /\ Stage(link) # "done" /\ check'[link].stage # "done" /\ inaccessible' = inaccessible
      <3>1. Stage(link) \in {"spawned", "checking"} /\ inaccessible' = inaccessible
        BY <1>4 DEF Begins, Rejected, Succeeds, Fails
      <3>2. check'[link].stage \in {"checking", "checked"}
        BY <1>4 DEF Begins, Rejected, Succeeds, Fails, Goroutine
      <3> QED
        BY <3>1, <3>2
    <2>2. BadOnes' = BadOnes
      BY <1>1, <1>3, <2>1 DEF BadOnes, Stage, IsInaccessible
    <2>3. link \notin BadOnes
      BY <2>1 DEF BadOnes
    <2>4. {Entry(other) : other \in BadOnes}' = {Entry(other) : other \in BadOnes}
      BY <1>1, <2>2, <2>3 DEF Entry, BadOnes
    <2> QED
      BY <2>1, <2>2, <2>4 DEF EntriesAgree
  <1>5. CASE Listed(link)
    <2>1. /\ Stage(link) = "checked"
          /\ check'[link].stage = "done" /\ check'[link].status = check[link].status
      BY <1>5 DEF Listed, Goroutine
    <2>2. link \notin BadOnes
      BY <2>1 DEF BadOnes
    <2>3. \A other \in DOMAIN check : check'[other].status = check[other].status
      BY <1>1, <2>1
    <2>4. CASE IsInaccessible(link)
      <3>1. inaccessible' = Append(inaccessible, Entry(link))
        BY <1>5, <2>4 DEF Listed
      <3>2. BadOnes' = BadOnes \cup {link}
        BY <1>1, <1>3, <2>1, <2>4 DEF BadOnes, Stage, IsInaccessible
      <3>3. Cardinality(BadOnes') = Cardinality(BadOnes) + 1
        BY <1>2, <2>2, <3>2, FS_AddElement
      <3>4. {Entry(other) : other \in BadOnes}' = {Entry(other) : other \in BadOnes} \cup {Entry(link)}
        BY <2>3, <3>2 DEF Entry, BadOnes
      <3>5. /\ Len(inaccessible') = Len(inaccessible) + 1
            /\ ToSet(inaccessible') = ToSet(inaccessible) \cup {Entry(link)}
        <4>1. inaccessible \in Seq(Entries) /\ Entry(link) \in Entries
          BY DEF CheckerInv, Goroutines, Entry, Entries
        <4> QED
          BY <3>1, <4>1, OneMore
      <3> QED
        BY <3>3, <3>4, <3>5 DEF EntriesAgree
    <2>5. CASE ~ IsInaccessible(link)
      <3>1. inaccessible' = inaccessible
        BY <1>5, <2>5 DEF Listed
      <3>2. BadOnes' = BadOnes
        BY <1>1, <1>3, <2>1, <2>5 DEF BadOnes, Stage, IsInaccessible
      <3>3. {Entry(other) : other \in BadOnes}' = {Entry(other) : other \in BadOnes}
        BY <2>3, <3>2 DEF Entry, BadOnes
      <3> QED
        BY <3>1, <3>2, <3>3 DEF EntriesAgree
    <2> QED
      BY <2>4, <2>5
  <1> QED
    BY <1>1, <1>4, <1>5

LEMMA NothingReported ==
  ASSUME inaccessible' = <<>>, \A link \in DOMAIN check' : check'[link].stage # "done"
  PROVE  EntriesAgree'
  <1>1. BadOnes' = {}
    BY DEF BadOnes, Stage
  <1>2. ToSet(inaccessible') = {} /\ Len(inaccessible') = 0
    BY DEF ToSet
  <1> QED
    BY <1>1, <1>2, FS_EmptySet DEF EntriesAgree

LEMMA ReportedStep ==
  ASSUME CheckerInv, AnalysisTypes, ResultsSoFar, Reported, [PageNext]_pageVars
  PROVE  Reported'
  <1>0. EntriesAgree
    BY DEF EntriesAgree, Reported
  <1>a. ASSUME UNCHANGED <<check, inaccessible>>
        PROVE  EntriesAgree'
    BY <1>0, <1>a DEF EntriesAgree, BadOnes, Stage, IsInaccessible, Entry
  <1>1. ASSUME NEW url \in Urls, Fetch(url)
        PROVE  Reported'
    <2>1. /\ check' = <<>> /\ inaccessible' = <<>> /\ page' = NoPage
          /\ stage' \in {"idle", "fetch"}
      BY <1>1 DEF Fetch
    <2>2. DOMAIN check' = {}
      BY <2>1, NothingChecked
    <2>3. EntriesAgree'
      BY <2>1, <2>2, NothingReported
    <2> QED
      BY <2>1, <2>2, <2>3 DEF Reported, EntriesAgree, Finished
  <1>2. CASE FetchFails
    <2>1. /\ stage = "fetch" /\ stage' = "idle"
          /\ UNCHANGED <<check, inaccessible, page>>
      BY <1>2 DEF FetchFails, checkVars
    <2> QED
      BY <1>a, <2>1 DEF Reported, EntriesAgree, Finished, ResultsSoFar
  <1>3. CASE FetchReturns
    <2>1. stage = "fetch" /\ stage' = "analyze" /\ UNCHANGED <<check, inaccessible>>
      BY <1>3 DEF FetchReturns, checkVars
    <2> QED
      BY <1>a, <2>1 DEF Reported, EntriesAgree, Finished
  <1>4. ASSUME NEW part \in writing, WritePart(part)
        PROVE  Reported'
    <2>1. UNCHANGED <<check, inaccessible, stage, page, options>>
      BY <1>4 DEF WritePart, checkVars
    <2> QED
      BY <1>a, <2>1 DEF Reported, EntriesAgree, Finished
  <1>5. ASSUME NEW link \in DOMAIN check, CheckLink(link)
        PROVE  Reported'
    <2>1. stage = "check" /\ UNCHANGED <<stage, page, options>> /\ CheckStep(link)
      BY <1>5 DEF CheckLink, analysisVars
    <2>2. EntriesAgree' /\ DOMAIN check' = DOMAIN check
      BY <1>0, <2>1, CheckLinkReports, CheckEffects
    <2> QED
      BY <2>1, <2>2 DEF Reported, EntriesAgree, Finished
  <1>6. CASE AnalyzeReturns
    <2> DEFINE links == LinksToCheck(AnalyzeLinks(page).external)
    <2>1. stage = "analyze" /\ Analyzed /\ UNCHANGED <<page, options>>
      BY <1>6 DEF AnalyzeReturns
    <2>2. /\ results.links.external = AnalyzeLinks(page).external
          /\ links \subseteq ToSet(AnalyzeLinks(page).external)
      BY <2>1, ToBeChecked
    <2> HIDE DEF links
    <2>3. CASE "check" \in options /\ results.links.external # <<>>
      <3>1. /\ stage' = "check" /\ inaccessible' = <<>>
            /\ check' = [link \in links |-> Goroutine("spawned", 0, 0)]
        BY <1>6, <2>2, <2>3 DEF AnalyzeReturns, Spawn, links
      <3>2. DOMAIN check' = links /\ \A link \in DOMAIN check' : check'[link].stage # "done"
        BY <3>1 DEF Goroutine
      <3>3. EntriesAgree'
        BY <3>1, <3>2, NothingReported
      <3> QED
        BY <2>1, <2>3, <3>1, <3>2, <3>3 DEF Reported, EntriesAgree, Finished, links
    <2>4. CASE ~ ("check" \in options /\ results.links.external # <<>>)
      <3>1. stage' = "idle" /\ UNCHANGED <<check, inaccessible>>
        BY <1>6, <2>4 DEF AnalyzeReturns, checkVars
      <3>2. "check" \in options => links = {}
        <4>1. ToSet(<<>>) = {}
          BY DEF ToSet
        <4> QED
          BY <2>2, <2>4, <4>1
      <3>3. DOMAIN check = {}
        BY <2>1 DEF Reported
      <3> QED
        BY <1>a, <2>1, <3>1, <3>2, <3>3 DEF Reported, EntriesAgree, Finished, links
    <2> QED
      BY <2>3, <2>4
  <1>7. CASE ChecksReturn
    <2>1. /\ stage = "check" /\ stage' = "idle"
          /\ UNCHANGED <<check, inaccessible, page, options>>
      BY <1>7 DEF ChecksReturn, checkVars
    <2> QED
      BY <1>a, <2>1 DEF Reported, EntriesAgree, Finished
  <1>8. CASE TimePasses \/ UNCHANGED pageVars
    <2>1. UNCHANGED <<check, inaccessible, stage, page, options>>
      BY <1>8 DEF TimePasses, LinkBreakerExpires, pageVars, checkVars, analysisVars
    <2> QED
      BY <1>a, <2>1 DEF Reported, EntriesAgree, Finished
  <1> QED
    BY <1>1, <1>2, <1>3, <1>4, <1>5, <1>6, <1>7, <1>8 DEF PageNext, Work

-----------------------------------------------------------------------------
(* Theorems                                                                *)

\* A breaker that remembers has counted what it remembers.
LEMMA RemembersCounts ==
  ASSUME NEW calls \in Nat, NEW failed \in Nat, failed <= calls,
         NEW b \in Remembering(calls, failed)
  PROVE  /\ b \in Breaker /\ b.generation \in Nat \ {0} /\ b.state = "closed"
         /\ b.failures \in Nat /\ b.successes \in Nat /\ b.requests = b.failures + b.successes
  <1>1. ClosedBreaker = [state |-> "closed", generation |-> 1, requests |-> 0, failures |-> 0,
                         successes |-> 0]
    BY DEF ClosedBreaker, NewGeneration
  <1>2. \/ b = [state |-> "closed", generation |-> 1, requests |-> 0, failures |-> 0,
                successes |-> 0]
        \/ b = [state |-> "closed", generation |-> 1, requests |-> calls, failures |-> failed,
                successes |-> calls - failed]
    BY <1>1 DEF Remembering
  <1> QED
    BY <1>2 DEF Breaker

LEMMA PageInitially == PageInit => PageInv
  <1> SUFFICES ASSUME PageInit PROVE PageInv
    OBVIOUS
  <1>1. /\ fetchBreaker \in Breaker /\ fetchBreaker.generation \in Nat \ {0}
        /\ fetchBreaker.failures \in Nat /\ fetchBreaker.successes \in Nat
        /\ fetchBreaker.requests = fetchBreaker.failures + fetchBreaker.successes
    <2>1. fetchBreaker \in Remembering(2, 2)
      BY DEF PageInit
    <2> QED
      BY <2>1, RemembersCounts
  <1>2. /\ linkBreaker \in Breaker /\ linkBreaker.state = "closed"
        /\ linkBreaker.failures \in Nat /\ linkBreaker.successes \in Nat
        /\ linkBreaker.requests = linkBreaker.failures + linkBreaker.successes
    <2>1. linkBreaker \in Remembering(4, 3)
      BY DEF PageInit
    <2> QED
      BY <2>1, RemembersCounts
  <1>3. check = <<>> /\ DOMAIN check = {} /\ check \in [DOMAIN check -> Goroutines]
    BY NothingChecked DEF PageInit
  <1>4. FetcherInv
    <2>1. fetching = 0 /\ stage = "idle"
      BY DEF PageInit
    <2>2. fetching # fetchBreaker.generation /\ fetching <= fetchBreaker.generation
      BY <1>1, <2>1
    <2> QED
      BY <1>1, <2>1, <2>2 DEF FetcherInv, FetchCounts
  <1>5. CheckerInv
    <2>1. UnderWay = {}
      BY <1>3 DEF UnderWay
    <2>2. LinkCounts
      <3>1. Cardinality(UnderWay) = 0
        BY <2>1, FS_EmptySet
      <3> QED
        BY <1>2, <3>1 DEF LinkCounts
    <2>3. failures \in Nat /\ inaccessible \in Seq(Entries)
      <3>1. failures = linkBreaker.failures /\ inaccessible = <<>>
        BY DEF PageInit
      <3> QED
        BY <1>2, <3>1
    <2> QED
      <3>1. IsFiniteSet(DOMAIN check)
        BY <1>3, FS_EmptySet
      <3>2. \A link \in DOMAIN check : FALSE
        BY <1>3
      <3> QED
        BY <1>2, <1>3, <2>2, <2>3, <3>1, <3>2 DEF CheckerInv
  <1>6. AnalysisTypes
    <2>1. stage = "idle" /\ page = NoPage
      BY DEF PageInit
    <2>2. options = {} /\ writing = {}
      BY DEF PageInit
    <2>3. left \in 0..MaxPages
      <3>1. left = MaxPages
        BY DEF PageInit
      <3> QED
        BY <3>1, PageAssumption
    <2>4. error \in {"INVALID_URL", "CIRCUIT_BREAKER_OPEN"} \cup FetchOutcomes
      <3>1. error = ""
        BY DEF PageInit
      <3> QED
        BY <3>1 DEF FetchOutcomes
    <2> QED
      BY <2>1, <2>2, <2>3, <2>4 DEF AnalysisTypes
  <1>7. ResultsSoFar
    <2>1. NoResults = [part \in DOMAIN NoResults |-> NoResults[part]]
      BY DEF NoResults
    <2>2. stage = "idle" /\ page = NoPage /\ results = NoResults
      BY DEF PageInit
    <2> QED
      BY <2>1, <2>2 DEF ResultsSoFar, Finished
  <1>8. OpenAfterFailures /\ BlamedAfterFailures
    <2>1. failures = linkBreaker.failures /\ inaccessible = <<>>
      BY DEF PageInit
    <2>2. DOMAIN inaccessible = {}
      BY <2>1, NothingChecked
    <2> QED
      BY <1>2, <1>3, <2>1, <2>2 DEF OpenAfterFailures, BlamedAfterFailures
  <1>9. Reported
    <2>1. BadOnes = {} /\ ToSet(inaccessible) = {} /\ Len(inaccessible) = 0
      BY <1>3 DEF PageInit, BadOnes, ToSet
    <2> QED
      BY <1>3, <2>1, FS_EmptySet DEF PageInit, Reported, Finished
  <1> QED
    BY <1>4, <1>5, <1>6, <1>7, <1>8, <1>9 DEF PageInv

LEMMA PageInvHolds == PageSpec => []PageInv
  <1>1. PageInv /\ [PageNext]_pageVars => PageInv'
    BY FetcherStep, CheckerStep, AnalysisStep, ResultsStep, BlamedStep, ReportedStep DEF PageInv
  <1> QED
    BY <1>1, PageInitially, PTL DEF PageSpec

\* The types of the variables; and each breaker's requests of its generation are its failures, its
\* successes and the calls under way, whatever calls end after their generation has.
THEOREM PageTypeCorrect == PageSpec => []PageTypeOK
  BY PageInvHolds, TypesFromParts, PTL DEF PageInv

\* A link is not reported as inaccessible without having been asked before four checks have failed.
THEOREM BlamedOnlyAfterFailures == PageSpec => []BlamedAfterFailures
  BY PageInvHolds, PTL DEF PageInv

\* The report of a finished analysis has exactly the links that were checked and not answered well,
\* each once and with the status its goroutine found; and unless the limit was reached, those
\* checked are all links outside of the site.
THEOREM ReportIsComplete == PageSpec => []ReportComplete
  <1>1. PageInv => ReportComplete
    <2> SUFFICES ASSUME PageInv, Finished PROVE ReportComplete
      BY DEF ReportComplete
    <2> DEFINE external == AnalyzeLinks(page).external
    <2>1. /\ page \in Pages
          /\ results.links = [AnalyzeLinks(page) EXCEPT !.inaccessible = inaccessible]
      BY DEF PageInv, ResultsSoFar
    <2>2. results.links.external = external /\ results.links.inaccessible = inaccessible
      <3>1. AnalyzeLinks(page) \in LinkAnalysis(page.anchors)
        BY <2>1, PageLinks
      <3> QED
        BY <2>1, <3>1 DEF LinkAnalysis
    <2>3. /\ LinksToCheck(external) \subseteq ToSet(external)
          /\ \/ LinksToCheck(external) = ToSet(external)
             \/ Cardinality(LinksToCheck(external)) = MaxLinksToCheck
      <3>1. external \in Seq({anchor.url : anchor \in ToSet(page.anchors)})
        BY <2>1, PageLinks DEF LinkAnalysis
      <3> HIDE DEF external
      <3> QED
        BY <3>1, LinksChecked
    <2>4. DOMAIN check = IF "check" \in options THEN LinksToCheck(external) ELSE {}
      BY DEF PageInv, Reported
    <2>5. BadOnes = {link \in DOMAIN check : IsInaccessible(link)}
      BY DEF PageInv, CheckerInv, Finished, BadOnes
    <2>6. /\ ToSet(inaccessible) = {Entry(link) : link \in BadOnes}
          /\ Len(inaccessible) = Cardinality(BadOnes)
      BY DEF PageInv, Reported
    <2> HIDE DEF external
    <2> QED
      BY <2>2, <2>3, <2>4, <2>5, <2>6 DEF ReportComplete, Entry
  <1> QED
    BY <1>1, PageInvHolds, PTL

\* The first mentions that may be followed are the places that add a link.
LEMMA LinkedAreAdded ==
  ASSUME NEW A, A = page.anchors, A \in Seq(ToSet(A))
  PROVE  Linked = LinksUpTo(A, Len(A))
  <1> DEFINE First(url, i) == /\ A[i].url = url /\ Followed(A[i])
                              /\ \A j \in 1..i - 1 : A[j].url = url => ~ Followed(A[j])
  <1>1. DOMAIN A = 1..Len(A) /\ Len(A) \in Nat
    OBVIOUS
  <1>2. \A url : FirstMention(url) = CHOOSE i \in 1..Len(A) : First(url, i)
    BY <1>1 DEF FirstMention, Followed
  <1>3. ASSUME NEW i \in 1..Len(A), NEW url, First(url, i)
        PROVE  FirstMention(url) = i
    <2>1. ASSUME NEW j \in 1..Len(A), First(url, j)
          PROVE  i = j
      <3>1. ~ (i < j) /\ ~ (j < i)
        BY <1>1, <1>3, <2>1
      <3> QED
        BY <1>1, <3>1
    <2> HIDE DEF First
    <2> QED
      BY <1>2, <1>3, <2>1
  <1>4. ASSUME NEW url \in Mentioned
        PROVE  \E i \in 1..Len(A) : First(url, i)
    <2> DEFINE places == {i \in 1..Len(A) : A[i].url = url /\ Followed(A[i])}
    <2>1. places # {} /\ places \subseteq Nat
      <3>1. PICK a \in ToSet(A) : Followed(a) /\ a.url = url
        BY DEF Mentioned, Followed
      <3>2. PICK i \in 1..Len(A) : A[i] = a
        BY <1>1, <3>1 DEF ToSet
      <3>3. i \in places
        BY <3>1, <3>2
      <3> QED
        BY <3>3
    <2>2. PICK i \in places : \A j \in places : i <= j
      <3> HIDE DEF places
      <3> QED
        BY <2>1, LeastNumber
    <2>3. First(url, i)
      BY <1>1, <2>2
    <2> QED
      BY <2>3
  <1>5. ASSUME NEW i \in 1..Len(A)
        PROVE  AddsLink(A, i) <=> First(A[i].url, i) /\ A[i].href \notin Skipped
    BY DEF AddsLink, SeenUpTo
  <1>6. ASSUME NEW i \in 1..Len(A), Followed(A[i])
        PROVE  A[i].url \in Mentioned
    BY <1>1, <1>6 DEF Mentioned, Followed, ToSet
  <1>7. ASSUME NEW url \in Linked PROVE url \in LinksUpTo(A, Len(A))
    <2>1. url \in Mentioned /\ A[FirstMention(url)].href \notin Skipped
      BY DEF Linked
    <2>2. PICK i \in 1..Len(A) : First(url, i)
      BY <1>4, <2>1
    <2>3. FirstMention(url) = i
      BY <1>3, <2>2
    <2>4. AddsLink(A, i) /\ A[i].url = url
      BY <1>5, <2>1, <2>2, <2>3
    <2> QED
      BY <2>4 DEF LinksUpTo
  <1>8. ASSUME NEW url \in LinksUpTo(A, Len(A)) PROVE url \in Linked
    <2>1. PICK i \in 1..Len(A) : AddsLink(A, i) /\ A[i].url = url
      BY DEF LinksUpTo
    <2>2. First(url, i) /\ A[i].href \notin Skipped
      BY <1>5, <2>1
    <2>3. FirstMention(url) = i
      BY <1>3, <2>2
    <2>4. url \in Mentioned
      BY <1>6, <2>1, <2>2
    <2> QED
      BY <2>2, <2>3, <2>4 DEF Linked
  <1> QED
    BY <1>7, <1>8

\* A finished analysis has every part that was asked for, as the page has it, and of the others
\* nothing, however the goroutines that write them interleave; and for pages of any length its
\* links are those of the reference: each URL whose first mention may be followed, counted once,
\* inside and outside of the site.
THEOREM PartsAreComplete == PageSpec => []PartsComplete
  <1>1. PageInv => PartsComplete
    <2> SUFFICES ASSUME PageInv, Finished PROVE PartsWritten /\ LinksCounted
      BY DEF PartsComplete
    <2> DEFINE A == page.anchors
               links == AnalyzeLinks(page)
    <2>1. /\ page \in Pages /\ PartsWritten
          /\ results.links = [links EXCEPT !.inaccessible = inaccessible]
      BY DEF PageInv, ResultsSoFar
    <2>2. /\ links \in LinkAnalysis(A)
          /\ links.total = Cardinality(LinksUpTo(A, Len(A)))
          /\ links.internal = Cardinality({url \in LinksUpTo(A, Len(A)) : Internal(url)})
          /\ links.internal + Len(links.external) = links.total
          /\ ToSet(links.external) = {url \in LinksUpTo(A, Len(A)) : ~ Internal(url)}
      BY <2>1, PageLinks
    <2>3. Linked = LinksUpTo(A, Len(A))
      BY <2>1, PagesAssumption, LinkedAreAdded
    <2> HIDE DEF A, links
    <2>4. /\ results.links.total = links.total /\ results.links.internal = links.internal
          /\ results.links.external = links.external
      BY <2>1, <2>2 DEF LinkAnalysis
    <2>5. LinksCounted
      BY <2>2, <2>3, <2>4 DEF LinksCounted, Internal
    <2> QED
      BY <2>1, <2>5
  <1> QED
    BY <1>1, PageInvHolds, PTL
=============================================================================
