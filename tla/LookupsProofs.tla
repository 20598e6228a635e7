---------------------------- MODULE LookupsProofs ----------------------------
(***************************************************************************)
(* What Lookups promises, for any finite fleet, any fences on the line,    *)
(* any cap on the answers and any preferences.                             *)
(*                                                                         *)
(* Sums and extremes of finite sets are reached by descent: if a subset    *)
(* had none, a smallest such subset would, and one element less has one.   *)
(***************************************************************************)
EXTENDS Lookups, FiniteSetTheorems, TLAPS

(* Functions on a finite set have a greatest value: by descent through its *)
(* subsets, the smallest that had none.                                    *)
LEMMA Largest ==
  ASSUME NEW S, IsFiniteSet(S), S # {}, NEW w \in [S -> Int]
  PROVE  \E m \in S : \A x \in S : w[x] <= w[m]
<1> DEFINE topped(T) == \E m \in T : \A x \in T : w[x] <= w[m]
           bad == {T \in SUBSET S : T # {} /\ ~ topped(T)}
<1> SUFFICES ASSUME bad # {} PROVE FALSE
  OBVIOUS
<1>1. bad \subseteq FiniteSubsetsOf(S)
  BY FS_Subset DEF FiniteSubsetsOf
<1>2. PICK T \in bad : \A U \in bad : ~ (<<U, T>> \in StrictSubsetOrdering(S))
  BY <1>1, FS_StrictSubsetOrderingWellFounded, WFMin
<1>3. PICK e \in T : T \subseteq S
  BY <1>2
<1>4. T \ {e} \notin bad
  BY <1>2, <1>3 DEF StrictSubsetOrdering
<1>5. CASE T \ {e} = {}
  <2>1. \A x \in T : w[x] <= w[e]
    BY <1>3, <1>5
  <2> QED BY <2>1, <1>2, <1>3
<1>6. CASE T \ {e} # {}
  <2>1. PICK m \in T \ {e} : \A x \in T \ {e} : w[x] <= w[m]
    BY <1>3, <1>4, <1>6
  <2>2. w[e] \in Int /\ w[m] \in Int /\ \A x \in T : w[x] \in Int
    BY <1>3, <2>1
  <2>3. CASE w[e] <= w[m]
    BY <2>1, <2>3, <1>2
  <2>4. CASE ~ (w[e] <= w[m])
    BY <2>1, <2>2, <2>4, <1>2, <1>3
  <2> QED BY <2>3, <2>4
<1> QED BY <1>5, <1>6

(* What Max and Min of the community modules return.                       *)
LEMMA MaxOf ==
  ASSUME NEW S, IsFiniteSet(S), S # {}, NEW w \in [S -> Int]
  PROVE  LET T == {w[x] : x \in S}
         IN  Max(T) \in T /\ \A x \in S : w[x] <= Max(T)
<1>1. PICK m \in S : \A x \in S : w[x] <= w[m]
  BY Largest
<1> DEFINE T == {w[x] : x \in S}
<1>2. w[m] \in T /\ (\A y \in T : w[m] >= y)
  BY <1>1
<1>3. Max(T) \in T /\ \A y \in T : Max(T) >= y
  BY <1>2 DEF Max
<1>4. T \subseteq Int
  OBVIOUS
<1> QED BY <1>3, <1>4

(* The least is the greatest of the negatives.                             *)
LEMMA MinOf ==
  ASSUME NEW S, IsFiniteSet(S), S # {}, NEW w \in [S -> Int]
  PROVE  LET T == {w[x] : x \in S}
         IN  Min(T) \in T /\ \A x \in S : Min(T) <= w[x]
<1> DEFINE neg == [x \in S |-> -w[x]]
<1>1. PICK m \in S : \A x \in S : neg[x] <= neg[m]
  <2>1. neg \in [S -> Int]
    OBVIOUS
  <2> HIDE DEF neg
  <2> QED BY <2>1, Largest
<1> DEFINE T == {w[x] : x \in S}
<1>2. w[m] \in T /\ (\A y \in T : w[m] <= y)
  BY <1>1
<1>3. Min(T) \in T /\ \A y \in T : Min(T) <= y
  BY <1>2 DEF Min
<1> QED BY <1>3

-----------------------------------------------------------------------------
(* What the fleet and the queries range over.                              *)
Fleet == [Vehicles -> [at : Int, rentable : BOOLEAN, range : Nat]]

Question ==
  [sum : Int, n : Nat \ {0}, radius : Nat, operators : SUBSET Operators,
   minRange : Nat, limit : Nat]

(* Who the API chooses from, and who of them the client lets through.      *)
Near(q) == {v \in Vehicles : OpOf[v] \in OperatorIDs(q.operators) /\ Inside(q, v)}

(* What the API chooses from is finite.                                    *)
LEMMA NearFinite ==
  ASSUME NEW q, NEW S \in SUBSET Near(q)
  PROVE  IsFiniteSet(S) /\ S \subseteq Vehicles
<1>1. S \in SUBSET Vehicles
  BY DEF Near
<1> QED BY <1>1, UpstreamAssumption, FS_Subset

(* Distances are natural numbers.                                          *)
LEMMA Measured ==
  ASSUME fleet \in Fleet, NEW q \in Question
  PROVE  \A v \in Vehicles : Far(q, v) \in Nat
<1>1. q.n \in Int /\ q.sum \in Int /\ \A v \in Vehicles : fleet[v].at \in Int
  BY DEF Fleet, Question
<1>2. \A v \in Vehicles : q.n * fleet[v].at \in Int
  BY <1>1
<1> QED BY <1>1, <1>2 DEF Far, Abs

(* What is left out of an answer is as far away as anything that is in it, *)
(* and nothing is left out unless the limit is reached.                    *)
LEMMA SentIs ==
  ASSUME NEW q \in Question, NEW raw \in Sent(q)
  PROVE  /\ raw \subseteq Near(q)
         /\ \A v \in raw, other \in Near(q) \ raw : Far(q, v) <= Far(q, other)
         /\ Cardinality(raw) \in Nat
         /\ raw # Near(q) => Cardinality(raw) = Limit(q)
<1> DEFINE size == Min({Limit(q), Cardinality(Near(q))})
<1>1. /\ raw \in SUBSET Near(q)
      /\ Cardinality(raw) = size
      /\ \A v \in raw, other \in Near(q) \ raw : Far(q, v) <= Far(q, other)
  BY DEF Sent, Near, kSubset
<1>2. IsFiniteSet(Near(q)) /\ Cardinality(Near(q)) \in Nat /\ Cardinality(raw) \in Nat
  BY <1>1, NearFinite, FS_CardinalityType
<1>3. Limit(q) \in Nat
  BY UpstreamAssumption DEF Limit, Question
<1>4. size = Limit(q) \/ size = Cardinality(Near(q))
  <2>1. \E x \in {Limit(q), Cardinality(Near(q))} :
          \A y \in {Limit(q), Cardinality(Near(q))} : x <= y
    BY <1>2, <1>3
  <2> QED BY <2>1 DEF Min
<1>5. Cardinality(raw) = Cardinality(Near(q)) => raw = Near(q)
  BY <1>1, <1>2, FS_Subset
<1> QED BY <1>1, <1>2, <1>4, <1>5

(* An answer that was not cut holds all there is to tell, and then any     *)
(* answer to the question would have been the same.                        *)
LEMMA UncutIsWhole ==
  ASSUME NEW q \in Question, q.limit = 0, NEW result \in Results(q), ~ result.truncated
  PROVE  /\ result.vehicles = Convert(Near(q), q)
         /\ \A other \in Results(q) : other.vehicles = result.vehicles /\ ~ other.truncated
<1>1. Limit(q) = MaxResults /\ MaxResults \in Nat
  BY UpstreamAssumption DEF Limit
<1>2. PICK raw \in Sent(q) : /\ result.vehicles = Convert(raw, q)
                             /\ result.truncated = Truncated(raw, q)
  BY DEF Results
<1>3. raw = Near(q) /\ Cardinality(raw) \in Nat /\ ~ (Cardinality(raw) >= MaxResults)
  <2>1. ~ Truncated(raw, q)
    BY <1>2
  <2>2. ~ (Cardinality(raw) >= MaxResults)
    BY <1>1, <2>1 DEF Truncated
  <2>3. Cardinality(raw) \in Nat /\ (raw # Near(q) => Cardinality(raw) = Limit(q))
    BY <1>2, SentIs
  <2> QED BY <1>1, <2>2, <2>3
<1>4. ASSUME NEW other \in Results(q)
      PROVE  other.vehicles = result.vehicles /\ ~ other.truncated
  <2>1. PICK also \in Sent(q) : /\ other.vehicles = Convert(also, q)
                                /\ other.truncated = Truncated(also, q)
    BY <1>4 DEF Results
  <2>2. Cardinality(also) <= Cardinality(Near(q))
    BY SentIs, NearFinite, FS_Subset
  <2>3. also = Near(q)
    BY <1>1, <1>3, <2>2, SentIs
  <2> QED BY <1>2, <1>3, <2>1, <2>3
<1> QED BY <1>2, <1>3, <1>4

-----------------------------------------------------------------------------
(* The circle around all fences covers each of them: what is within the    *)
(* radius of a fence is within that of the query that serves it.           *)
LEMMA Stretched ==
  ASSUME NEW n \in Nat, NEW d \in Int, NEW r \in Nat, Abs(d) <= r
  PROVE  Abs(n * d) <= n * r
<1>1. -r <= d /\ d <= r
  BY DEF Abs
<1>2. n * (r - d) >= 0 /\ n * (r + d) >= 0
  BY <1>1
<1>3. n * (r - d) = n * r - n * d /\ n * (r + d) = n * r + n * d
  OBVIOUS
<1>4. n * r \in Int /\ n * d \in Int
  OBVIOUS
<1> QED BY <1>2, <1>3, <1>4 DEF Abs

(* The triangle inequality on the line, n times over.                      *)
LEMMA Reaches ==
  ASSUME NEW n \in Nat, NEW a \in Int, NEW b \in Int, NEW s \in Int, NEW r \in Nat,
         Abs(a - b) <= r
  PROVE  Abs(n * a - s) <= Abs(s - n * b) + n * r
<1>1. Abs(n * (a - b)) <= n * r
  <2>1. a - b \in Int
    OBVIOUS
  <2> QED BY <2>1, Stretched
<1>2. n * (a - b) = n * a - n * b
  OBVIOUS
<1>3. n * a \in Int /\ n * b \in Int /\ n * r \in Int
  OBVIOUS
<1> QED BY <1>1, <1>2, <1>3 DEF Abs

(* A table of sums, subset by subset.                                      *)
Pick(s) == CHOOSE x \in s : TRUE
Adds(g, U) ==
  \A s \in SUBSET U :
    g[s] = IF s = {} THEN 0 ELSE place[Pick(s)].at + g[s \ {Pick(s)}]

(* Pick picks an element.                                                  *)
LEMMA Picked == ASSUME NEW s, s # {} PROVE Pick(s) \in s
  BY DEF Pick

(* Two tables of sums have the same entries.                               *)
LEMMA SumsAgree ==
  ASSUME NEW S, IsFiniteSet(S), NEW U \in SUBSET S, NEW V \in SUBSET S,
         NEW g, NEW h, Adds(g, U), Adds(h, V)
  PROVE  \A s \in SUBSET (U \cap V) : g[s] = h[s]
<1> DEFINE bad == {s \in SUBSET (U \cap V) : g[s] # h[s]}
<1> SUFFICES ASSUME bad # {} PROVE FALSE
  OBVIOUS
<1>1. bad \subseteq FiniteSubsetsOf(S)
  BY FS_Subset DEF FiniteSubsetsOf
<1>2. PICK s \in bad : \A t \in bad : ~ (<<t, s>> \in StrictSubsetOrdering(S))
  BY <1>1, FS_StrictSubsetOrderingWellFounded, WFMin
<1>3. s \in SUBSET U /\ s \in SUBSET V
  BY <1>2
<1>4. s # {}
  BY <1>2, <1>3 DEF Adds
<1>5. s \ {Pick(s)} \notin bad
  BY <1>2, <1>3, <1>4, Picked DEF StrictSubsetOrdering
<1>6. g[s \ {Pick(s)}] = h[s \ {Pick(s)}]
  BY <1>3, <1>5
<1> QED BY <1>2, <1>3, <1>4, <1>6 DEF Adds

(* A table of the sums of all subsets of a finite set, built from those of *)
(* its smaller subsets.                                                    *)
LEMMA SumsExist ==
  ASSUME NEW S, IsFiniteSet(S), \A x \in S : place[x].at \in Int
  PROVE  \E g \in [SUBSET S -> Int] : Adds(g, S)
<1> DEFINE good(U, g) == g \in [SUBSET U -> Int] /\ Adds(g, U)
           bad == {U \in SUBSET S : ~ \E g : good(U, g)}
<1> SUFFICES ASSUME bad # {} PROVE FALSE
  OBVIOUS
<1>1. bad \subseteq FiniteSubsetsOf(S)
  BY FS_Subset DEF FiniteSubsetsOf
<1>2. PICK U \in bad : \A T \in bad : ~ (<<T, U>> \in StrictSubsetOrdering(S))
  BY <1>1, FS_StrictSubsetOrderingWellFounded, WFMin
<1>3. ASSUME NEW T \in SUBSET U, T # U PROVE \E g : good(T, g)
  BY <1>2, <1>3 DEF StrictSubsetOrdering
<1> DEFINE G(T) == CHOOSE g : good(T, g)
<1>4. ASSUME NEW T \in SUBSET U, T # U PROVE good(T, G(T))
  BY <1>3, <1>4
<1>5. ASSUME NEW T \in SUBSET U, T # U, NEW t \in SUBSET T PROVE G(T)[t] = G(t)[t]
  <2>1. t \in SUBSET U /\ t # U /\ T \in SUBSET S /\ t \in SUBSET S /\ t \in SUBSET (T \cap t)
    BY <1>2, <1>5
  <2>2. PICK g, h : g = G(T) /\ h = G(t)
    OBVIOUS
  <2>3. Adds(g, T) /\ Adds(h, t)
    BY <1>4, <1>5, <2>1, <2>2
  <2>4. g[t] = h[t]
    <3> HIDE DEF G, good, bad
    <3>1. IsFiniteSet(S)
      OBVIOUS
    <3>2. \A u \in SUBSET (T \cap t) : g[u] = h[u]
      BY <3>1, <2>1, <2>3, SumsAgree
    <3> QED BY <3>2, <2>1
  <2> QED BY <2>2, <2>4
<1> DEFINE sum == [s \in SUBSET U |->
                     IF s = {} THEN 0
                     ELSE place[Pick(s)].at + G(s \ {Pick(s)})[s \ {Pick(s)}]]
<1>6. ASSUME NEW s \in SUBSET U, s # {}
      PROVE  /\ Pick(s) \in S /\ s \ {Pick(s)} \in SUBSET U /\ s \ {Pick(s)} # U
             /\ G(s \ {Pick(s)})[s \ {Pick(s)}] \in Int
  <2>1. Pick(s) \in s
    BY <1>6, Picked
  <2>2. Pick(s) \in S /\ s \ {Pick(s)} \in SUBSET U /\ s \ {Pick(s)} # U
    BY <1>2, <1>6, <2>1
  <2>3. good(s \ {Pick(s)}, G(s \ {Pick(s)}))
    BY <1>4, <2>2
  <2> QED BY <2>2, <2>3
<1>7. sum \in [SUBSET U -> Int]
  <2> HIDE DEF G
  <2> QED BY <1>6
<1>8. ASSUME NEW s \in SUBSET U, s # U PROVE sum[s] = G(s)[s]
  <2>1. Adds(G(s), s)
    BY <1>4, <1>8
  <2>2. CASE s = {}
    <3> HIDE DEF G
    <3> QED BY <2>1, <2>2 DEF Adds
  <2>3. CASE s # {}
    <3>1. G(s)[s] = place[Pick(s)].at + G(s)[s \ {Pick(s)}]
      BY <2>1, <2>3 DEF Adds
    <3>2. G(s)[s \ {Pick(s)}] = G(s \ {Pick(s)})[s \ {Pick(s)}]
      BY <1>5, <1>8
    <3> HIDE DEF G
    <3> QED BY <2>3, <3>1, <3>2
  <2> QED BY <2>2, <2>3
<1>9. Adds(sum, U)
  <2> SUFFICES ASSUME NEW s \in SUBSET U
               PROVE  sum[s] = IF s = {} THEN 0 ELSE place[Pick(s)].at + sum[s \ {Pick(s)}]
    BY DEF Adds
  <2>1. CASE s = {}
    BY <2>1
  <2>2. CASE s # {}
    <3>1. sum[s \ {Pick(s)}] = G(s \ {Pick(s)})[s \ {Pick(s)}]
      <4>1. s \ {Pick(s)} \in SUBSET U /\ s \ {Pick(s)} # U
        BY <1>6, <2>2
      <4> HIDE DEF sum, G
      <4> QED BY <1>8, <4>1
    <3> HIDE DEF G
    <3> QED BY <2>2, <3>1
  <2> QED BY <2>1, <2>2
<1>10. good(U, sum)
  <2> HIDE DEF sum
  <2> QED BY <1>7, <1>9
<1> QED BY <1>2, <1>10

(* The sum the folds of the community modules compute is an integer.       *)
LEMMA CentresAddUp ==
  ASSUME IsFiniteSet(FenceIds), \A f \in FenceIds : place[f].at \in Int
  PROVE  SumOfCentres \in Int
<1> DEFINE S == FenceIds
           it == CHOOSE g : g = [s \in SUBSET S |->
                                   IF s = {} THEN 0 ELSE place[Pick(s)].at + g[s \ {Pick(s)}]]
<1>0. PICK g \in [SUBSET S -> Int] : Adds(g, S)
  BY SumsExist
<1>1. Adds(it, S)
  <2>2. g = [s \in SUBSET S |-> IF s = {} THEN 0 ELSE place[Pick(s)].at + g[s \ {Pick(s)}]]
    BY <1>0 DEF Adds
  <2>3. it = [s \in SUBSET S |-> IF s = {} THEN 0 ELSE place[Pick(s)].at + it[s \ {Pick(s)}]]
    BY <2>2
  <2> HIDE DEF it
  <2> QED BY <2>3 DEF Adds
<1>2. SumOfCentres = it[S]
  BY Zenon DEF SumOfCentres, MapThenSumSet, MapThenFoldSet, Pick
<1>3. it[S] = g[S]
  <2> HIDE DEF it
  <2> QED BY <1>0, <1>1, SumsAgree
<1> QED BY <1>0, <1>2, <1>3

(* A sequence lists finitely many fences.                                  *)
LEMMA FencesFinite == IsFiniteSet(FenceIds) /\ Cardinality(FenceIds) \in Nat
<1>1. IsFiniteSet(DOMAIN Fences)
  <2>1. DOMAIN Fences = 1 .. Len(Fences) /\ Len(Fences) \in Nat
    BY CoalesceAssumption
  <2> QED BY <2>1, FS_Interval
<1>2. Fences \in Surjection(DOMAIN Fences, FenceIds)
  BY CoalesceAssumption DEF Surjection, FenceIds
<1> QED BY <1>1, <1>2, FS_Surjection, FS_CardinalityType

(* The places of the fences, and the sum of them.                          *)
LEMMA Sited ==
  ASSUME place \in Sites
  PROVE  /\ place \in [FenceIds -> [at : Int, radius : Nat \ {0}]]
         /\ SumOfCentres \in Int
<1>1. place \in [FenceIds -> [at : Int, radius : Nat \ {0}]]
  BY CoalesceAssumption
<1> QED BY <1>1, FencesFinite, CentresAddUp

(* No fence sticks out of the circle around all of them.                   *)
LEMMA BoundingRadiusBounds ==
  ASSUME place \in Sites, NEW f \in FenceIds
  PROVE  /\ Cardinality(FenceIds) \in Nat \ {0}
         /\ BoundingRadius \in Nat
         /\ Abs(SumOfCentres - Cardinality(FenceIds) * place[f].at)
              + Cardinality(FenceIds) * place[f].radius <= BoundingRadius
<1> DEFINE n == Cardinality(FenceIds)
           w == [g \in FenceIds |-> Abs(SumOfCentres - n * place[g].at) + n * place[g].radius]
<1>1. n \in Nat \ {0}
  BY FencesFinite, FS_EmptySet
<1>2. w \in [FenceIds -> Nat]
  <2>1. ASSUME NEW g \in FenceIds
        PROVE  Abs(SumOfCentres - n * place[g].at) + n * place[g].radius \in Nat
    <3>1. place[g].at \in Int /\ place[g].radius \in Nat /\ SumOfCentres \in Int
      BY Sited
    <3>2. n * place[g].at \in Int /\ n * place[g].radius \in Nat
      BY <1>1, <3>1
    <3> QED BY <3>1, <3>2 DEF Abs
  <2> QED BY <2>1
<1>3. BoundingRadius = Max({w[g] : g \in FenceIds})
  BY DEF BoundingRadius
<1>4. BoundingRadius \in {w[g] : g \in FenceIds} /\ w[f] <= BoundingRadius
  <2>1. w \in [FenceIds -> Int]
    BY <1>2
  <2> HIDE DEF w
  <2> QED BY <1>3, <2>1, FencesFinite, MaxOf
<1> QED BY <1>1, <1>2, <1>4

(* The query that serves a fence covers it, shared or not, though its      *)
(* radius is whole metres (groupFences).                                   *)
LEMMA Covered ==
  ASSUME fleet \in Fleet, place \in Sites, NEW f \in FenceIds
  PROVE  /\ GroupOf(f) \in Question
         /\ GroupOf(f).operators = {} /\ GroupOf(f).minRange = 0 /\ GroupOf(f).limit = 0
         /\ \A v \in Vehicles : Away(f, v) <= place[f].radius => Inside(GroupOf(f), v)
<1> DEFINE n == Cardinality(FenceIds)
<1>1. /\ place[f].at \in Int /\ place[f].radius \in Nat /\ SumOfCentres \in Int
      /\ n \in Nat \ {0} /\ BoundingRadius \in Nat
      /\ Abs(SumOfCentres - n * place[f].at) + n * place[f].radius <= BoundingRadius
  BY Sited, BoundingRadiusBounds
<1>2. CASE BoundingRadius <= n * MaxQueryRadiusM
  <2> DEFINE r == BoundingRadius \div n + 1
  <2>1. GroupOf(f) = Query(SumOfCentres, n, r, {}, 0, 0)
    BY <1>2 DEF GroupOf
  <2>2. r \in Nat /\ BoundingRadius <= n * r
    BY <1>1
  <2>3. ASSUME NEW v \in Vehicles, Away(f, v) <= place[f].radius
        PROVE  Abs(n * fleet[v].at - SumOfCentres) <= n * r
    <3>1. fleet[v].at \in Int
      BY DEF Fleet
    <3>2. Abs(n * fleet[v].at - SumOfCentres)
            <= Abs(SumOfCentres - n * place[f].at) + n * place[f].radius
      BY <1>1, <2>3, <3>1, Reaches DEF Away
    <3>3. n * fleet[v].at \in Int /\ n * place[f].at \in Int /\ n * r \in Int
          /\ n * place[f].radius \in Int
      BY <1>1, <2>2, <3>1
    <3> QED BY <1>1, <2>2, <3>2, <3>3 DEF Abs
  <2> QED BY <1>1, <2>1, <2>2, <2>3 DEF Query, Question, Inside, Far
<1>3. CASE ~ (BoundingRadius <= n * MaxQueryRadiusM)
  <2>1. GroupOf(f) = Query(place[f].at, 1, place[f].radius, {}, 0, 0)
    BY <1>3 DEF GroupOf
  <2>2. \A v \in Vehicles : fleet[v].at \in Int
    BY DEF Fleet
  <2> QED BY <1>1, <2>1, <2>2 DEF Query, Question, Inside, Far, Away
<1> QED BY <1>2, <1>3

-----------------------------------------------------------------------------
(* Who is far, what is sent and what is read of it depends on the fleet    *)
(* and the site of the fences only.                                        *)
LEMMA Unmoved ==
  ASSUME UNCHANGED <<fleet, place>>
  PROVE  /\ \A q : \A v : Far(q, v)' = Far(q, v)
         /\ \A q : \A raw : Convert(raw, q)' = Convert(raw, q)
         /\ \A q : Results(q)' = Results(q)
         /\ \A f : GroupOf(f)' = GroupOf(f)
         /\ \A f : \A v : Away(f, v)' = Away(f, v)
         /\ \A vehicles, f : Within(vehicles, f)' = Within(vehicles, f)
         /\ \A vehicles, f, o : Readings(vehicles, f, o)' = Readings(vehicles, f, o)
<1>1. \A q : \A v : Far(q, v)' = Far(q, v)
  BY DEF Far
<1>2. \A q : \A v : Inside(q, v)' = Inside(q, v)
  BY <1>1 DEF Inside
<1>3. \A q : \A raw : Convert(raw, q)' = Convert(raw, q)
  BY <1>2 DEF Convert
<1>4. \A q : Sent(q)' = Sent(q)
  BY <1>1, <1>2 DEF Sent
<1>5. \A q : Results(q)' = Results(q)
  BY <1>3, <1>4 DEF Results, Truncated
<1>6. SumOfCentres' = SumOfCentres
  BY DEF SumOfCentres, MapThenSumSet, MapThenFoldSet
<1>7. BoundingRadius' = BoundingRadius
  BY <1>6 DEF BoundingRadius
<1>8. \A f : GroupOf(f)' = GroupOf(f)
  BY <1>6, <1>7 DEF GroupOf
<1>9. \A f : \A v : Away(f, v)' = Away(f, v)
  BY DEF Away
<1>10. \A vehicles, f : Within(vehicles, f)' = Within(vehicles, f)
  BY <1>9 DEF Within
<1>11. \A vehicles, f : Closest(vehicles, f)' = Closest(vehicles, f)
  BY <1>9 DEF Closest
<1>12. \A vehicles, f, o : Readings(vehicles, f, o)' = Readings(vehicles, f, o)
  <2>1. \A f, o : Probe(f, o)' = Probe(f, o)
    BY DEF Probe
  <2>2. \A vehicles, f : NearestOf(vehicles, f)' = NearestOf(vehicles, f)
    BY <1>11 DEF NearestOf
  <2> QED BY <1>5, <1>11, <2>1, <2>2 DEF Readings
<1> QED BY <1>1, <1>3, <1>5, <1>8, <1>9, <1>10, <1>12

(* Whom an answer names can be rented and is within the radius asked for.  *)
LEMMA Answers ==
  ASSUME NEW q \in Question, NEW result \in Results(q)
  PROVE  /\ result.vehicles \subseteq Near(q)
         /\ \A v \in result.vehicles : fleet[v].rentable /\ Inside(q, v) /\ v \in Vehicles
<1>1. PICK raw \in Sent(q) : result.vehicles = Convert(raw, q)
  BY DEF Results
<1>2. raw \subseteq Near(q)
  BY SentIs
<1> QED BY <1>1, <1>2 DEF Convert, Near

(* An answer that was not cut holds all a fence has, after within.         *)
LEMMA WholeCount ==
  ASSUME fleet \in Fleet, place \in Sites, NEW f \in FenceIds,
         NEW result \in Results(GroupOf(f)), ~ result.truncated
  PROVE  Within(result.vehicles, f) = Rentable(f, place[f].radius)
<1> DEFINE q == GroupOf(f)
<1>1. /\ q \in Question /\ q.operators = {} /\ q.minRange = 0 /\ q.limit = 0
      /\ \A v \in Vehicles : Away(f, v) <= place[f].radius => Inside(q, v)
  BY Covered
<1>2. result.vehicles = Convert(Near(q), q)
  <2> HIDE DEF q
  <2>1. result \in Results(q)
    BY DEF q
  <2> QED BY <1>1, <2>1, UncutIsWhole
<1>3. \A v \in Vehicles : OpOf[v] \in OperatorIDs(q.operators) /\ fleet[v].range >= q.minRange
  BY <1>1, UpstreamAssumption DEF OperatorIDs, Fleet
<1> HIDE DEF q
<1> QED BY <1>1, <1>2, <1>3 DEF Within, Convert, Near, Rentable

-----------------------------------------------------------------------------
(* The fleet is parked, and the same as before until a watch is armed.     *)
Standing ==
  /\ fleet \in Fleet /\ before \in Fleet /\ place \in Sites
  /\ armed = NoWatch => fleet = before
  /\ \A v \in Vehicles : fleet[v].at = before[v].at

(* A reply that did not fail is a result of the query that serves the      *)
(* fence.                                                                  *)
Replied ==
  /\ done \in Int
  /\ \A f \in FenceIds : reply[f] # Failed => done # -1 /\ reply[f] \in Results(GroupOf(f))

(* What was counted and read in the fence served last follows from its     *)
(* reply.                                                                  *)
Counted ==
  \A f \in Served :
    /\ inside = Within(reply[f].vehicles, f)
    /\ reply[f].truncated => truncated
    /\ \A o \in Operators : reading[o] \in Readings(inside, f, o)

(* A board was told of the fleet as it stands, from a result of its query. *)
Told ==
  /\ told # NoBoard => armed = NoWatch
  /\ \A q \in told.query : q \in Question /\ q.limit = 0
  /\ \A q \in told.query : \A summary \in told.summary :
       \E result \in Results(q) : summary = Summary(q, result.vehicles)

(* A baseline that was not cut holds whatever matched when it was read.    *)
Armed ==
  \A f \in armed.fence : \A watch \in armed.watch :
    /\ watch.minRange \in Nat
    /\ \A v \in Vehicles :
         (/\ ~ armed.truncated /\ before[v].rentable
          /\ before[v].range >= watch.minRange
          /\ OpOf[v] \in OperatorIDs(watch.operators)
          /\ Abs(before[v].at - place[f].at) <= place[f].radius)
         => v \in armed.baseline

(* The last two speak of the board told, and are kept because the fleet    *)
(* stays.                                                                  *)
IInv ==
  /\ Standing /\ Replied /\ Counted /\ Told /\ Armed
  /\ NothingBetterLeftOut /\ BrandHolds

(* What the tick counted in the fence it served last.                      *)
LEMMA ServedIs ==
  ASSUME Standing, Replied, Counted, NEW f \in Served
  PROVE  /\ f \in FenceIds /\ place[f].at \in Int /\ place[f].radius \in Nat
         /\ reply[f] \in Results(GroupOf(f))
         /\ inside \subseteq Rentable(f, place[f].radius)
         /\ ~ truncated => inside = Rentable(f, place[f].radius)
<1>1. f \in FenceIds /\ reply[f] # Failed
  BY DEF Served, FenceIds
<1>2. place[f].at \in Int /\ place[f].radius \in Nat
  BY <1>1, Sited DEF Standing
<1>3. reply[f] \in Results(GroupOf(f))
  BY <1>1 DEF Replied
<1>4. inside = Within(reply[f].vehicles, f) /\ (reply[f].truncated => truncated)
  BY DEF Counted
<1>5. inside \subseteq Rentable(f, place[f].radius)
  <2>1. GroupOf(f) \in Question
    BY <1>1, Covered DEF Standing
  <2>2. \A v \in reply[f].vehicles : fleet[v].rentable /\ v \in Vehicles
    BY <1>3, <2>1, Answers
  <2> QED BY <1>4, <2>2 DEF Within, Rentable
<1>6. ~ truncated => inside = Rentable(f, place[f].radius)
  BY <1>1, <1>3, <1>4, WholeCount DEF Standing
<1> QED BY <1>1, <1>2, <1>3, <1>5, <1>6

(* Nothing is overlooked in the fence served last.                         *)
LEMMA Overlooked == Standing /\ Replied /\ Counted => NothingOverlooked
  BY ServedIs DEF NothingOverlooked

(* Whatever fires on a parked fleet was serviced since its baseline.       *)
LEMMA Fires == Standing /\ Replied /\ Counted /\ Armed => ParkedFleetFiresNothing
<1> SUFFICES ASSUME Standing, Replied, Counted, Armed,
                    NEW f \in armed.fence \cap Served, NEW watch \in armed.watch,
                    NEW v \in Matches(inside, watch) \ armed.baseline, ~ armed.truncated
             PROVE  /\ fleet[v] # before[v]
                    /\ ~ before[v].rentable \/ before[v].range < watch.minRange
  BY DEF ParkedFleetFiresNothing
<1>1. /\ v \in Vehicles /\ fleet[v].rentable /\ Away(f, v) <= place[f].radius
      /\ OpOf[v] \in OperatorIDs(watch.operators) /\ fleet[v].range >= watch.minRange
  BY ServedIs DEF Matches, Rentable
<1>2. Abs(before[v].at - place[f].at) <= place[f].radius
  BY <1>1 DEF Away, Standing
<1>3. ~ (before[v].rentable /\ before[v].range >= watch.minRange)
  BY <1>1, <1>2 DEF Armed
<1>4. before[v].range \in Nat /\ watch.minRange \in Nat
  BY <1>1 DEF Standing, Fleet, Armed
<1> QED BY <1>1, <1>3, <1>4

(* How far a vehicle is from a fence, and from a query about its place.    *)
LEMMA Measure ==
  ASSUME Standing, NEW f \in FenceIds
  PROVE  /\ \A v \in Vehicles : Away(f, v) \in Nat
         /\ \A q : \A v \in Vehicles :
              q.sum = place[f].at /\ q.n = 1 => Far(q, v) = Away(f, v)
<1>1. place[f].at \in Int /\ \A v \in Vehicles : fleet[v].at \in Int
  BY Sited DEF Standing, Fleet
<1> QED BY <1>1 DEF Away, Far, Abs

(* Closest is the distance of some vehicle, and of none less.              *)
LEMMA ClosestIs ==
  ASSUME Standing, NEW f \in FenceIds, NEW S \in SUBSET Vehicles, S # {}
  PROVE  /\ \E v \in S : Away(f, v) = Closest(S, f)
         /\ \A v \in S : Closest(S, f) <= Away(f, v)
         /\ Closest(S, f) \in Nat
<1> DEFINE w == [v \in S |-> Away(f, v)]
<1>1. w \in [S -> Int] /\ \A v \in S : Away(f, v) \in Nat
  BY Measure
<1>2. IsFiniteSet(S)
  BY UpstreamAssumption, FS_Subset
<1>3. Closest(S, f) = Min({w[v] : v \in S})
  BY DEF Closest
<1>4. Closest(S, f) \in {w[v] : v \in S} /\ \A v \in S : Closest(S, f) <= w[v]
  <2> HIDE DEF w
  <2> QED BY <1>1, <1>2, <1>3, MinOf
<1> QED BY <1>1, <1>4

(* Two sets whose nearest are each no farther than some of the other's.    *)
LEMMA SameClosest ==
  ASSUME Standing, NEW f \in FenceIds,
         NEW S \in SUBSET Vehicles, NEW T \in SUBSET S, T # {},
         \A v \in S : \E u \in T : Away(f, u) <= Away(f, v)
  PROVE  Closest(S, f) = Closest(T, f)
<1>1. PICK v \in S : Away(f, v) = Closest(S, f)
  BY ClosestIs
<1>2. PICK u \in T : Away(f, u) <= Away(f, v)
  OBVIOUS
<1>3. Closest(T, f) <= Away(f, u)
  BY ClosestIs
<1>4. PICK t \in T : Away(f, t) = Closest(T, f)
  BY ClosestIs
<1>5. Closest(S, f) <= Away(f, t)
  BY ClosestIs
<1>6. Away(f, u) \in Nat /\ Away(f, v) \in Nat /\ Away(f, t) \in Nat
  BY Measure
<1> QED BY <1>1, <1>2, <1>3, <1>4, <1>5, <1>6

(* The wider of the reach and a fence.                                     *)
LEMMA WiderReach ==
  ASSUME NEW r \in Nat
  PROVE  /\ Max({ReachM, r}) \in Nat
         /\ \A d \in Nat : d <= Max({ReachM, r}) <=> (d <= ReachM \/ d <= r)
<1>1. \E x \in {ReachM, r} : \A y \in {ReachM, r} : x >= y
  BY CoalesceAssumption
<1>2. Max({ReachM, r}) \in {ReachM, r} /\ \A y \in {ReachM, r} : Max({ReachM, r}) >= y
  BY <1>1 DEF Max
<1>3. ReachM \in Nat
  BY CoalesceAssumption
<1>4. \/ Max({ReachM, r}) = ReachM /\ r <= ReachM
      \/ Max({ReachM, r}) = r /\ ReachM <= r
  BY <1>2
<1> HIDE DEF Max
<1>5. CASE Max({ReachM, r}) = ReachM /\ r <= ReachM
  BY <1>3, <1>5
<1>6. CASE Max({ReachM, r}) = r /\ ReachM <= r
  BY <1>3, <1>6
<1> QED BY <1>4, <1>5, <1>6

(* What a probe may come back with, where the operator has no vehicle to   *)
(* rent in the fence.                                                      *)
LEMMA Probed ==
  ASSUME Standing, NEW f \in FenceIds, NEW o \in Operators,
         NEW own \in SUBSET Vehicles,
         own = {v \in Rentable(f, ReachM) : OpOf[v] = o},
         NEW spoilt \in SUBSET Vehicles,
         spoilt = {v \in Vehicles :
                     /\ OpOf[v] = o /\ ~ fleet[v].rentable
                     /\ Away(f, v) <= IF own = {} THEN ReachM ELSE NearestOf(own, f)},
         NEW result \in Results(Probe(f, o))
  PROVE  \/ NearestOf(result.vehicles, f) = NearestOf(own, f)
         \/ Cardinality(spoilt) >= ProbeCount
<1> DEFINE q == Probe(f, o)
<1>1. /\ q \in Question /\ q.operators = {o} /\ q.minRange = 0 /\ q.radius = ReachM
      /\ q.n = 1 /\ q.sum = place[f].at /\ q.limit = ProbeCount
      /\ Limit(q) = ProbeCount
  <2>1. place[f].at \in Int
    BY Sited DEF Standing
  <2> QED BY <2>1, CoalesceAssumption, UpstreamAssumption DEF Probe, Query, Question, Limit
<1>2. PICK raw \in Sent(q) : result.vehicles = Convert(raw, q)
  BY DEF Results
<1> HIDE DEF q
<1>3. \A v \in Vehicles : /\ Far(q, v) = Away(f, v) /\ Far(q, v) \in Nat
                          /\ fleet[v].range >= 0
                          /\ (Inside(q, v) <=> Away(f, v) <= ReachM)
                          /\ (OpOf[v] \in OperatorIDs(q.operators) <=> OpOf[v] = o)
  <2>1. \A v \in Vehicles : Far(q, v) = Away(f, v) /\ Away(f, v) \in Nat
    BY <1>1, Measure
  <2>2. \A v \in Vehicles : fleet[v].range >= 0
    BY DEF Standing, Fleet
  <2>3. 1 * ReachM = ReachM
    BY CoalesceAssumption
  <2> QED BY <1>1, <2>1, <2>2, <2>3 DEF Inside, OperatorIDs
<1>4. Near(q) = {v \in Vehicles : OpOf[v] = o /\ Away(f, v) <= ReachM}
  BY <1>3 DEF Near
<1>5. /\ raw \subseteq Near(q)
      /\ \A v \in raw, other \in Near(q) \ raw : Far(q, v) <= Far(q, other)
      /\ raw # Near(q) => Cardinality(raw) = ProbeCount
  BY <1>1, SentIs
<1>6. result.vehicles = raw \cap own
  BY <1>1, <1>2, <1>3, <1>4, <1>5 DEF Convert, Rentable
<1>7. own \subseteq Near(q) /\ Near(q) \subseteq Vehicles
  BY <1>4 DEF Rentable
<1>8. CASE own \subseteq raw
  <2>1. result.vehicles = own
    BY <1>6, <1>8
  <2> QED BY <2>1
<1>9. CASE ~ (own \subseteq raw)
  <2>1. PICK left \in own : left \notin raw
    BY <1>9
  <2>2. \A v \in raw : Away(f, v) <= Away(f, left)
    BY <1>3, <1>5, <1>7, <2>1
  <2>3. CASE \E u \in raw \cap own : \A v \in own : Away(f, u) <= Away(f, v)
    <3>1. raw \cap own # {} /\ raw \cap own \in SUBSET own
      BY <2>3
    <3>2. \A v \in own : \E u \in raw \cap own : Away(f, u) <= Away(f, v)
      BY <2>3
    <3>3. Closest(own, f) = Closest(raw \cap own, f)
      BY <3>1, <3>2, SameClosest
    <3> QED BY <3>1, <3>3, <1>6 DEF NearestOf
  <2>4. CASE ~ \E u \in raw \cap own : \A v \in own : Away(f, u) <= Away(f, v)
    <3>1. PICK best \in own : Away(f, best) = Closest(own, f)
      BY <2>1, ClosestIs
    <3>2. \A v \in own : Away(f, best) <= Away(f, v)
      BY <2>1, <3>1, ClosestIs
    <3>3. best \notin raw
      BY <2>4, <3>2
    <3>4. \A v \in raw : Away(f, v) <= Away(f, best)
      BY <1>3, <1>5, <1>7, <3>3
    <3>5. \A v \in raw : v \notin own
      <4> SUFFICES ASSUME NEW v \in raw, v \in own PROVE FALSE
        OBVIOUS
      <4>1. \A w \in own : Away(f, v) <= Away(f, w)
        BY <3>2, <3>4, <1>3, <1>7
      <4> QED BY <2>4, <4>1
    <3>6. \A v \in raw : v \in Vehicles /\ OpOf[v] = o /\ ~ fleet[v].rentable
      BY <1>4, <1>5, <3>5 DEF Rentable
    <3>7. NearestOf(own, f) = Away(f, best)
      BY <3>1 DEF NearestOf
    <3>8. raw \in SUBSET spoilt
      BY <3>4, <3>6, <3>7
    <3>9. IsFiniteSet(spoilt) /\ Cardinality(raw) <= Cardinality(spoilt)
          /\ Cardinality(spoilt) \in Nat
      BY <3>8, UpstreamAssumption, FS_Subset, FS_CardinalityType
    <3>10. Cardinality(raw) = ProbeCount
      BY <1>5, <1>7, <2>1
    <3> QED BY <3>9, <3>10, CoalesceAssumption
  <2> QED BY <2>3, <2>4
<1> QED BY <1>8, <1>9

(* The reading of each operator is its nearest vehicle, in the fence or    *)
(* beyond.                                                                 *)
LEMMA Readable == Standing /\ Replied /\ Counted => ReadingsAreTrue
<1> SUFFICES ASSUME Standing, Replied, Counted, NEW f \in Served, NEW o \in Operators, ~ truncated
             PROVE  LET own == {v \in Rentable(f, Max({ReachM, place[f].radius})) : OpOf[v] = o}
                        nearest == NearestOf(own, f)
                        spoilt == {v \in Vehicles :
                                     /\ OpOf[v] = o /\ ~ fleet[v].rentable
                                     /\ Away(f, v) <= IF own = {} THEN ReachM ELSE nearest}
                    IN  reading[o] \in {Unread, nearest} \/ Cardinality(spoilt) >= ProbeCount
  BY DEF ReadingsAreTrue
<1> DEFINE wide == Max({ReachM, place[f].radius})
           own == {v \in Rentable(f, wide) : OpOf[v] = o}
           present == {v \in inside : OpOf[v] = o}
           spoilt == {v \in Vehicles :
                        /\ OpOf[v] = o /\ ~ fleet[v].rentable
                        /\ Away(f, v) <= IF own = {} THEN ReachM ELSE NearestOf(own, f)}
<1>1. f \in FenceIds /\ place[f].radius \in Nat /\ inside = Rentable(f, place[f].radius)
  BY ServedIs
<1>2. \A v \in Vehicles : /\ Away(f, v) \in Nat
                          /\ (Away(f, v) <= wide
                             <=> (Away(f, v) <= ReachM \/ Away(f, v) <= place[f].radius))
  BY <1>1, Measure, WiderReach
<1>3. own \subseteq Vehicles /\ present \subseteq own /\ spoilt \subseteq Vehicles
  BY <1>1, <1>2 DEF Rentable
<1>4. reading[o] \in Readings(inside, f, o)
  BY DEF Counted
<1>5. CASE present # {}
  <2>1. \A v \in own : \E u \in present : Away(f, u) <= Away(f, v)
    <3> SUFFICES ASSUME NEW v \in own PROVE \E u \in present : Away(f, u) <= Away(f, v)
      OBVIOUS
    <3>1. PICK u \in present : TRUE
      BY <1>5
    <3>2. /\ Away(f, v) \in Nat /\ Away(f, u) \in Nat
          /\ Away(f, u) <= place[f].radius
          /\ (v \in present \/ ~ (Away(f, v) <= place[f].radius))
      BY <1>1, <1>2, <1>3 DEF Rentable
    <3> QED BY <1>1, <3>2
  <2>2. Closest(own, f) = Closest(present, f)
    <3> HIDE DEF own, present
    <3> QED BY <1>1, <1>3, <1>5, <2>1, SameClosest
  <2>3. reading[o] = Closest(present, f)
    BY <1>4, <1>5 DEF Readings
  <2>4. own # {}
    BY <1>3, <1>5
  <2>5. reading[o] = NearestOf(own, f)
    BY <2>2, <2>3, <2>4 DEF NearestOf
  <2> QED BY <2>5
<1>6. CASE present = {}
  <2>1. own = {v \in Rentable(f, ReachM) : OpOf[v] = o}
    BY <1>1, <1>2, <1>6 DEF Rentable
  <2>2. reading[o] = Unread \/ \E r \in Results(Probe(f, o)) : reading[o] = NearestOf(r.vehicles, f)
    BY <1>4, <1>6 DEF Readings
  <2>3. ASSUME NEW r \in Results(Probe(f, o))
        PROVE  NearestOf(r.vehicles, f) = NearestOf(own, f) \/ Cardinality(spoilt) >= ProbeCount
    <3>1. spoilt = {v \in Vehicles :
                     /\ OpOf[v] = o /\ ~ fleet[v].rentable
                     /\ Away(f, v) <= IF own = {} THEN ReachM ELSE NearestOf(own, f)}
      OBVIOUS
    <3> HIDE DEF own, spoilt
    <3> QED BY <1>1, <1>3, <2>1, <3>1, Probed
  <2> QED BY <2>2, <2>3
<1> QED BY <1>5, <1>6

(* Board and tick name the same numbers and distances.                     *)
LEMMA Agrees == Standing /\ Replied /\ Counted /\ Told => BoardAgreesWithTick
<1> SUFFICES ASSUME Standing, Replied, Counted, Told, ~ truncated,
                    NEW f \in Served, NEW q \in told.query, NEW summary \in told.summary,
                    q = Query(place[f].at, 1, place[f].radius, {}, 0, 0),
                    NEW uncut \in Results(q), ~ uncut.truncated, NEW o \in Operators
             PROVE  LET own == {v \in inside : OpOf[v] = o}
                    IN  IF own = {} THEN o \notin DOMAIN summary
                        ELSE /\ o \in DOMAIN summary
                             /\ summary[o].count = Cardinality(own)
                             /\ summary[o].nearest = reading[o]
  BY DEF BoardAgreesWithTick
<1> DEFINE own == {v \in inside : OpOf[v] = o}
<1>1. /\ f \in FenceIds /\ place[f].at \in Int /\ place[f].radius \in Nat
      /\ inside = Rentable(f, place[f].radius)
  BY ServedIs
<1>2. /\ q \in Question /\ q.limit = 0 /\ q.sum = place[f].at /\ q.n = 1
      /\ q.radius = place[f].radius /\ q.operators = {} /\ q.minRange = 0
  BY <1>1 DEF Told, Query
<1>3. PICK result \in Results(q) : summary = Summary(q, result.vehicles)
  BY DEF Told
<1>4. result.vehicles = Convert(Near(q), q)
  BY <1>2, UncutIsWhole
<1>5. \A v \in Vehicles : /\ Far(q, v) = Away(f, v)
                          /\ (Inside(q, v) <=> Away(f, v) <= place[f].radius)
                          /\ OpOf[v] \in OperatorIDs(q.operators)
                          /\ fleet[v].range >= q.minRange
  <2>1. \A v \in Vehicles : Far(q, v) = Away(f, v)
    BY <1>1, <1>2, Measure
  <2>2. 1 * place[f].radius = place[f].radius
    BY <1>1
  <2> QED BY <1>2, <2>1, <2>2, UpstreamAssumption DEF Inside, OperatorIDs, Standing, Fleet
<1>6. result.vehicles = inside
  BY <1>1, <1>4, <1>5 DEF Convert, Near, Rentable
<1>7. summary = Summary(q, inside)
  BY <1>3, <1>6
<1>8. DOMAIN summary = {OpOf[v] : v \in inside}
  BY <1>7 DEF Summary
<1>9. CASE own = {}
  BY <1>8, <1>9
<1>10. CASE own # {}
  <2>1. o \in DOMAIN summary
    BY <1>8, <1>10
  <2>2. summary[o].count = Cardinality(own) /\ summary[o].nearest = Min({Far(q, v) : v \in own})
    BY <1>7, <1>8, <2>1 DEF Summary
  <2>3. {Far(q, v) : v \in own} = {Away(f, v) : v \in own}
    BY <1>1, <1>5 DEF Rentable
  <2>4. reading[o] = Closest(own, f)
    <3>1. reading[o] \in Readings(inside, f, o)
      BY DEF Counted
    <3> QED BY <1>10, <3>1 DEF Readings
  <2>5. summary[o].nearest = Closest(own, f)
    BY <2>2, <2>3 DEF Closest
  <2> QED BY <1>10, <2>1, <2>2, <2>4, <2>5
<1> QED BY <1>9, <1>10

-----------------------------------------------------------------------------
(* Products by a positive factor keep the order.                           *)
LEMMA Scaled ==
  ASSUME NEW b \in Nat \ {0}, NEW x \in Int, NEW y \in Int
  PROVE  /\ b * x \in Int /\ b * y \in Int
         /\ x <= y => b * x <= b * y
         /\ x + 1 <= y => b * x + b <= b * y
         /\ b * x < b * y + b => x <= y
<1>1. b * x \in Int /\ b * y \in Int
  OBVIOUS
<1>2. x <= y => b * x <= b * y
  <2> SUFFICES ASSUME x <= y PROVE b * x <= b * y
    OBVIOUS
  <2>1. b * (y - x) >= 0 /\ b * (y - x) = b * y - b * x
    OBVIOUS
  <2> QED BY <1>1, <2>1
<1>3. x + 1 <= y => b * x + b <= b * y
  <2> SUFFICES ASSUME x + 1 <= y PROVE b * x + b <= b * y
    OBVIOUS
  <2>1. b * (y - x - 1) >= 0 /\ b * (y - x - 1) = b * y - b * x - b
    OBVIOUS
  <2> QED BY <1>1, <2>1
<1>4. b * x < b * y + b => x <= y
  <2> SUFFICES ASSUME ~ (x <= y) PROVE ~ (b * x < b * y + b)
    OBVIOUS
  <2>1. y + 1 <= x
    OBVIOUS
  <2>2. b * (x - y - 1) >= 0 /\ b * (x - y - 1) = b * x - b * y - b
    BY <2>1
  <2> QED BY <1>1, <2>2
<1> QED BY <1>1, <1>2, <1>3, <1>4

(* The quotient cut toward zero is less than one away from the exact one,  *)
(* and never on its far side.                                              *)
LEMMA CutIs ==
  ASSUME NEW a \in Int, NEW b \in Nat \ {0}
  PROVE  /\ Cut(a, b) \in Int
         /\ a >= 0 => Cut(a, b) >= 0 /\ b * Cut(a, b) <= a /\ a < b * Cut(a, b) + b
         /\ a < 0 => Cut(a, b) <= 0 /\ a <= b * Cut(a, b) /\ b * Cut(a, b) < a + b
<1>1. ASSUME NEW n \in Nat
      PROVE  n \div b \in Nat /\ b * (n \div b) <= n /\ n < b * (n \div b) + b
  <2>1. n = b * (n \div b) + (n % b) /\ n \div b \in Int /\ n % b \in 0 .. b - 1
    OBVIOUS
  <2>2. b * (n \div b) <= n /\ n < b * (n \div b) + b
    BY <2>1
  <2>3. b * 0 < b * (n \div b) + b
    BY <2>2
  <2>4. 0 <= n \div b
    BY <2>1, <2>3, Scaled
  <2> QED BY <2>1, <2>2, <2>4
<1>2. CASE a >= 0
  BY <1>1, <1>2 DEF Cut
<1>3. CASE a < 0
  <2>1. -a \in Nat
    BY <1>3
  <2> DEFINE c == (-a) \div b
  <2>2. c \in Nat /\ b * c <= -a /\ -a < b * c + b
    BY <1>1, <2>1
  <2>3. Cut(a, b) = -c
    BY <1>3 DEF Cut
  <2> HIDE DEF c
  <2>4. b * (-c) = -(b * c) /\ b * c \in Int
    BY <2>2
  <2> QED BY <1>3, <2>2, <2>3, <2>4
<1> QED BY <1>2, <1>3

(* Cutting toward zero keeps the order.                                    *)
LEMMA CutKeepsOrder ==
  ASSUME NEW b \in Nat \ {0}, NEW a \in Int, NEW c \in Int, a <= c
  PROVE  Cut(a, b) <= Cut(c, b)
<1>1. /\ Cut(a, b) \in Int
      /\ a >= 0 => Cut(a, b) >= 0 /\ b * Cut(a, b) <= a /\ a < b * Cut(a, b) + b
      /\ a < 0 => Cut(a, b) <= 0 /\ a <= b * Cut(a, b) /\ b * Cut(a, b) < a + b
  BY CutIs
<1>2. /\ Cut(c, b) \in Int
      /\ c >= 0 => Cut(c, b) >= 0 /\ b * Cut(c, b) <= c /\ c < b * Cut(c, b) + b
      /\ c < 0 => Cut(c, b) <= 0 /\ c <= b * Cut(c, b) /\ b * Cut(c, b) < c + b
  BY CutIs
<1>3. /\ b * Cut(a, b) \in Int /\ b * Cut(c, b) \in Int
      /\ b * Cut(a, b) < b * Cut(c, b) + b => Cut(a, b) <= Cut(c, b)
  BY <1>1, <1>2, Scaled
<1> QED BY <1>1, <1>2, <1>3

(* What a score is made of, before it is cut.                              *)
Span == ComfortM - FloorM
Worth(q, v) == Span * (OperatorBonus[OpOf[v]] - Far(q, v)) - LowBatteryPenalty(v)

(* The exact worth behind a score, and the most a low battery takes off    *)
(* it.                                                                     *)
LEMMA Scores ==
  ASSUME fleet \in Fleet, NEW q \in Question, NEW v \in Vehicles
  PROVE  /\ Span \in Nat \ {0} /\ 2 * Span \in Nat \ {0}
         /\ OperatorBonus[OpOf[v]] \in Int /\ Far(q, v) \in Nat
         /\ LowBatteryPenalty(v) \in Nat
         /\ fleet[v].range >= ComfortM => LowBatteryPenalty(v) = 0
         /\ ~ Dropped(v) => LowBatteryPenalty(v) <= Span * LowPenalty
         /\ Worth(q, v) \in Int
         /\ Score(q, v) = Cut(20 * Worth(q, v) + Span, 2 * Span)
<1>1. /\ Span \in Nat \ {0} /\ ComfortM \in Nat /\ FloorM \in Nat /\ LowPenalty \in Nat
      /\ OperatorBonus[OpOf[v]] \in Int /\ fleet[v].range \in Nat
  BY PrefsAssumption, UpstreamAssumption DEF Span, Fleet
<1>2. Far(q, v) \in Nat
  BY Measured
<1>3. /\ LowBatteryPenalty(v) \in Nat
      /\ ~ Dropped(v) => LowBatteryPenalty(v) <= Span * LowPenalty
  <2>1. CASE fleet[v].range >= ComfortM
    BY <1>1, <2>1 DEF LowBatteryPenalty
  <2>2. CASE ~ (fleet[v].range >= ComfortM)
    <3>1. LowBatteryPenalty(v) = LowPenalty * (ComfortM - fleet[v].range)
      BY <2>2 DEF LowBatteryPenalty
    <3>2. ComfortM - fleet[v].range \in Nat
      BY <1>1, <2>2
    <3>3. LowPenalty * (ComfortM - fleet[v].range) \in Nat
      BY <1>1, <3>2
    <3>4. ASSUME ~ Dropped(v)
          PROVE  LowPenalty * (ComfortM - fleet[v].range) <= Span * LowPenalty
      <4>1. ComfortM - fleet[v].range <= Span
        BY <1>1, <3>4 DEF Dropped, Span
      <4>2. CASE LowPenalty = 0
        BY <1>1, <3>2, <4>2
      <4>3. CASE LowPenalty # 0
        <5>1. LowPenalty * (ComfortM - fleet[v].range) <= LowPenalty * Span
          BY <1>1, <3>2, <4>1, <4>3, Scaled
        <5>2. LowPenalty * Span = Span * LowPenalty
          BY <1>1
        <5> QED BY <5>1, <5>2
      <4> QED BY <4>2, <4>3
    <3> QED BY <3>1, <3>3, <3>4
  <2> QED BY <2>1, <2>2
<1>4. Worth(q, v) \in Int
  <2>1. OperatorBonus[OpOf[v]] - Far(q, v) \in Int
    BY <1>1, <1>2
  <2>2. Span * (OperatorBonus[OpOf[v]] - Far(q, v)) \in Int
    BY <1>1, <2>1
  <2> QED BY <1>3, <2>2 DEF Worth
<1>5. Score(q, v) = Cut(20 * Worth(q, v) + Span, 2 * Span)
  <2>1. Score(q, v) = Cut(2 * (10 * Worth(q, v)) + Span, 2 * Span)
    BY DEF Score, Worth, Span
  <2>2. 2 * (10 * Worth(q, v)) = 20 * Worth(q, v)
    BY <1>4
  <2> QED BY <2>1, <2>2
<1>6. 2 * Span \in Nat \ {0}
  BY <1>1
<1>7. fleet[v].range >= ComfortM => LowBatteryPenalty(v) = 0
  BY DEF LowBatteryPenalty
<1> QED BY <1>1, <1>2, <1>3, <1>4, <1>5, <1>6, <1>7

(* Of one operator, the nearer with no less range is never below.          *)
LEMMA NearerScoresMore ==
  ASSUME fleet \in Fleet, NEW q \in Question, NEW u \in Vehicles, NEW v \in Vehicles,
         OpOf[u] = OpOf[v], Far(q, v) < Far(q, u), fleet[u].range <= fleet[v].range
  PROVE  ~ Before(q, u, v)
<1>1. /\ Span \in Nat \ {0} /\ 2 * Span \in Nat \ {0}
      /\ OperatorBonus[OpOf[v]] \in Int
      /\ Far(q, u) \in Nat /\ Far(q, v) \in Nat
      /\ LowBatteryPenalty(u) \in Nat /\ LowBatteryPenalty(v) \in Nat
      /\ Worth(q, u) \in Int /\ Worth(q, v) \in Int
      /\ Score(q, u) = Cut(20 * Worth(q, u) + Span, 2 * Span)
      /\ Score(q, v) = Cut(20 * Worth(q, v) + Span, 2 * Span)
  BY Scores
<1>2. LowBatteryPenalty(v) <= LowBatteryPenalty(u)
  <2>1. /\ fleet[u].range \in Nat /\ fleet[v].range \in Nat /\ ComfortM \in Nat
        /\ LowPenalty \in Nat
    BY PrefsAssumption DEF Fleet
  <2>2. CASE fleet[v].range >= ComfortM
    BY <1>1, <2>2 DEF LowBatteryPenalty
  <2>3. CASE ~ (fleet[v].range >= ComfortM)
    <3>1. /\ LowBatteryPenalty(v) = LowPenalty * (ComfortM - fleet[v].range)
          /\ LowBatteryPenalty(u) = LowPenalty * (ComfortM - fleet[u].range)
      BY <2>1, <2>3 DEF LowBatteryPenalty
    <3>2. /\ ComfortM - fleet[v].range \in Int /\ ComfortM - fleet[u].range \in Int
          /\ ComfortM - fleet[v].range <= ComfortM - fleet[u].range
      BY <2>1
    <3>3. CASE LowPenalty = 0
      BY <3>1, <3>2, <3>3
    <3>4. CASE LowPenalty # 0
      BY <2>1, <3>1, <3>2, <3>4, Scaled
    <3> QED BY <3>3, <3>4
  <2> QED BY <2>2, <2>3
<1>3. Worth(q, u) <= Worth(q, v)
  <2> DEFINE x == OperatorBonus[OpOf[v]] - Far(q, u)
             y == OperatorBonus[OpOf[v]] - Far(q, v)
  <2>1. x \in Int /\ y \in Int /\ x <= y
    BY <1>1
  <2>2. Worth(q, u) = Span * x - LowBatteryPenalty(u)
    BY DEF Worth
  <2>3. Worth(q, v) = Span * y - LowBatteryPenalty(v)
    BY DEF Worth
  <2> HIDE DEF x, y
  <2>4. Span * x \in Int /\ Span * y \in Int /\ Span * x <= Span * y
    BY <1>1, <2>1, Scaled
  <2> QED BY <1>1, <1>2, <2>2, <2>3, <2>4
<1>4. Score(q, u) <= Score(q, v) /\ Score(q, u) \in Int /\ Score(q, v) \in Int
  <2>1. /\ 20 * Worth(q, u) + Span \in Int /\ 20 * Worth(q, v) + Span \in Int
        /\ 20 * Worth(q, u) + Span <= 20 * Worth(q, v) + Span
    BY <1>1, <1>3
  <2> QED BY <1>1, <2>1, CutKeepsOrder, CutIs
<1> QED BY <1>1, <1>4 DEF Before

(* Rounding two scores moves their difference by less than a metre, and    *)
(* distances are whole: the gap loses nothing to it.                       *)
LEMMA GapHolds ==
  ASSUME fleet \in Fleet, NEW q \in Question, NEW u \in Vehicles, NEW v \in Vehicles,
         ~ Dropped(v), Before(q, u, v)
  PROVE  Far(q, v) - Far(q, u) >=
           OperatorBonus[OpOf[v]] - OperatorBonus[OpOf[u]]
             - (IF fleet[v].range >= ComfortM THEN 0 ELSE LowPenalty)
<1>1. /\ Span \in Nat \ {0} /\ 2 * Span \in Nat \ {0}
      /\ OperatorBonus[OpOf[u]] \in Int /\ OperatorBonus[OpOf[v]] \in Int
      /\ Far(q, u) \in Nat /\ Far(q, v) \in Nat
      /\ LowBatteryPenalty(u) \in Nat /\ LowBatteryPenalty(v) \in Nat
      /\ fleet[v].range >= ComfortM => LowBatteryPenalty(v) = 0
      /\ LowBatteryPenalty(v) <= Span * LowPenalty
      /\ Worth(q, u) \in Int /\ Worth(q, v) \in Int
      /\ Score(q, u) = Cut(20 * Worth(q, u) + Span, 2 * Span)
      /\ Score(q, v) = Cut(20 * Worth(q, v) + Span, 2 * Span)
  BY Scores
<1> DEFINE lost == IF fleet[v].range >= ComfortM THEN 0 ELSE LowPenalty
           x == OperatorBonus[OpOf[u]] - Far(q, u)
           y == OperatorBonus[OpOf[v]] - Far(q, v)
<1>2. lost \in Nat /\ LowBatteryPenalty(v) <= Span * lost /\ x \in Int /\ y \in Int
  BY <1>1, PrefsAssumption
<1>3. Worth(q, u) = Span * x - LowBatteryPenalty(u) /\ Worth(q, v) = Span * y - LowBatteryPenalty(v)
  BY DEF Worth
<1>4. 20 * Worth(q, v) < 20 * Worth(q, u) + 4 * Span
  <2> DEFINE a == 20 * Worth(q, u) + Span
             c == 20 * Worth(q, v) + Span
             b == 2 * Span
  <2>1. a \in Int /\ c \in Int /\ b \in Nat \ {0}
    BY <1>1
  <2>2. Cut(c, b) <= Cut(a, b)
    <3>1. Score(q, v) <= Score(q, u)
      <4>1. Score(q, v) \in Int /\ Score(q, u) \in Int
        BY <1>1, <2>1, CutIs
      <4> QED BY <4>1 DEF Before
    <3> QED BY <1>1, <3>1
  <2> HIDE DEF a, b, c
  <2>3. Cut(a, b) \in Int /\ Cut(c, b) \in Int
    BY <2>1, CutIs
  <2>4. /\ b * Cut(a, b) \in Int /\ b * Cut(c, b) \in Int
        /\ b * Cut(c, b) <= b * Cut(a, b)
    BY <2>1, <2>2, <2>3, Scaled
  <2>5. b * Cut(a, b) < a + b
    BY <2>1, <2>4, CutIs
  <2>6. c < b * Cut(c, b) + b
    BY <2>1, <2>4, CutIs
  <2>7. c < a + 2 * b
    BY <2>1, <2>4, <2>5, <2>6
  <2> QED BY <1>1, <2>7 DEF a, b, c
<1>5. y - lost <= x
  <2> HIDE DEF x, y, lost
  <2>1. /\ Span * x \in Int /\ Span * y \in Int /\ Span * lost \in Int
        /\ Span * (y - lost) = Span * y - Span * lost
    BY <1>1, <1>2
  <2>2. 20 * (Span * y - Span * lost) < 20 * (Span * x) + 4 * Span
    BY <1>1, <1>2, <1>3, <1>4, <2>1
  <2>3. Span * (y - lost) < Span * x + Span
    BY <1>1, <2>1, <2>2
  <2>4. y - lost \in Int
    BY <1>2
  <2> QED BY <1>1, <1>2, <2>3, <2>4, Scaled
<1>6. lost = IF fleet[v].range >= ComfortM THEN 0 ELSE LowPenalty
  OBVIOUS
<1> QED BY <1>1, <1>2, <1>5

-----------------------------------------------------------------------------
(* A ranking lists every vehicle that is not dropped: a sequence without   *)
(* repetition, as long as the set, leaves none out.                        *)
LEMMA Listed ==
  ASSUME NEW vehicles \in SUBSET Vehicles, NEW q, NEW s \in Rankings(q, vehicles)
  PROVE  /\ Len(s) \in Nat /\ DOMAIN s = 1 .. Len(s)
         /\ s \in Seq(Vehicles)
         /\ \A i \in 1 .. Len(s) : s[i] \in vehicles /\ ~ Dropped(s[i])
         /\ \A v \in vehicles : ~ Dropped(v) => \E i \in 1 .. Len(s) : s[i] = v
         /\ \A i, j \in 1 .. Len(s) : i < j => Before(q, s[i], s[j])
<1> DEFINE kept == {v \in vehicles : ~ Dropped(v)}
           n == Cardinality(kept)
<1>1. /\ s \in [1 .. n -> kept] /\ \A i, j \in 1 .. n : i # j => s[i] # s[j]
      /\ \A i, j \in DOMAIN s : i < j => Before(q, s[i], s[j])
  BY DEF Rankings, SetToSeqs
<1>2. IsFiniteSet(kept) /\ n \in Nat
  <2>1. kept \in SUBSET Vehicles
    OBVIOUS
  <2> HIDE DEF kept
  <2> QED BY <2>1, UpstreamAssumption, FS_Subset, FS_CardinalityType
<1>3. s \in Surjection(1 .. n, kept)
  <2>1. s \in Injection(1 .. n, kept)
    BY <1>1 DEF Injection, IsInjective
  <2>2. Cardinality(1 .. n) = n
    <3> HIDE DEF n
    <3>1. Cardinality(1 .. n) = IF 1 > n THEN 0 ELSE n - 1 + 1
      BY <1>2, FS_Interval
    <3> QED BY <1>2, <3>1
  <2> HIDE DEF kept
  <2> QED BY <1>2, <2>1, <2>2, FS_Injection
<1>4. \A v \in kept : \E i \in 1 .. n : s[i] = v
  BY <1>3 DEF Surjection
<1>5. s \in Seq(Vehicles) /\ Len(s) = n
  <2>1. s \in [1 .. n -> Vehicles]
    BY <1>1
  <2> HIDE DEF n
  <2> QED BY <1>2, <2>1
<1> HIDE DEF n
<1> QED BY <1>1, <1>2, <1>4, <1>5

(* A board lists the best vehicles of an answer, in order, and what is cut *)
(* off its end ranks below all of them.                                    *)
LEMMA Offered ==
  ASSUME fleet \in Fleet, NEW q \in Question, NEW result \in Results(q), NEW limit \in Nat,
         NEW board \in Assemble(q, result.vehicles, limit)
  PROVE  /\ board.query = {q} /\ board.summary = {Summary(q, result.vehicles)}
         /\ \A i \in DOMAIN board.options :
              /\ i \in Nat \ {0} /\ board.options[i] \in result.vehicles
              /\ board.options[i] \in Vehicles /\ ~ Dropped(board.options[i])
         /\ \A i, j \in DOMAIN board.options :
              i < j => Before(q, board.options[i], board.options[j])
         /\ \A v \in result.vehicles : \A i \in DOMAIN board.options :
              ~ Dropped(v) => \/ \E j \in DOMAIN board.options : board.options[j] = v
                              \/ Before(q, board.options[i], v)
<1>1. PICK s \in Rankings(q, result.vehicles) :
        /\ board.query = {q} /\ board.summary = {Summary(q, result.vehicles)}
        /\ board.options = IF limit > 0 /\ Len(s) > limit THEN SubSeq(s, 1, limit) ELSE s
  <2>1. PICK s \in Rankings(q, result.vehicles) :
          board = [query |-> {q},
                   options |-> IF limit > 0 /\ Len(s) > limit THEN SubSeq(s, 1, limit) ELSE s,
                   summary |-> {Summary(q, result.vehicles)}]
    BY Zenon DEF Assemble
  <2> QED BY <2>1
<1>2. result.vehicles \in SUBSET Vehicles
  BY Answers
<1>3. /\ Len(s) \in Nat /\ DOMAIN s = 1 .. Len(s) /\ s \in Seq(Vehicles)
      /\ \A i \in 1 .. Len(s) : s[i] \in result.vehicles /\ ~ Dropped(s[i])
      /\ \A v \in result.vehicles : ~ Dropped(v) => \E i \in 1 .. Len(s) : s[i] = v
      /\ \A i, j \in 1 .. Len(s) : i < j => Before(q, s[i], s[j])
  <2>1. PICK vehicles \in SUBSET Vehicles : vehicles = result.vehicles
    BY <1>2
  <2>2. s \in Rankings(q, vehicles)
    BY <2>1
  <2>3. /\ Len(s) \in Nat /\ DOMAIN s = 1 .. Len(s)
        /\ s \in Seq(Vehicles)
        /\ \A i \in 1 .. Len(s) : s[i] \in vehicles /\ ~ Dropped(s[i])
        /\ \A v \in vehicles : ~ Dropped(v) => \E i \in 1 .. Len(s) : s[i] = v
        /\ \A i, j \in 1 .. Len(s) : i < j => Before(q, s[i], s[j])
    BY <2>2, Listed, Zenon
  <2> QED BY <2>1, <2>3
<1>4. PICK m \in 0 .. Len(s) : /\ DOMAIN board.options = 1 .. m
                               /\ \A i \in 1 .. m : board.options[i] = s[i]
  <2>1. CASE limit > 0 /\ Len(s) > limit
    <3>1. board.options = SubSeq(s, 1, limit)
      BY <1>1, <2>1
    <3>2. DOMAIN board.options = 1 .. limit /\ \A i \in 1 .. limit : board.options[i] = s[i]
      BY <1>3, <2>1, <3>1
    <3>3. limit \in 0 .. Len(s)
      BY <1>3, <2>1
    <3> QED BY <3>2, <3>3
  <2>2. CASE ~ (limit > 0 /\ Len(s) > limit)
    <3>1. board.options = s
      BY <1>1, <2>2
    <3>2. Len(s) \in 0 .. Len(s)
      BY <1>3
    <3> QED BY <1>3, <3>1, <3>2
  <2> QED BY <2>1, <2>2
<1>5. \A i \in 1 .. m : i \in 1 .. Len(s)
  BY <1>3
<1>6. ASSUME NEW v \in result.vehicles, NEW i \in 1 .. m, ~ Dropped(v),
             ~ \E j \in 1 .. m : board.options[j] = v
      PROVE  Before(q, board.options[i], v)
  <2>1. PICK j \in 1 .. Len(s) : s[j] = v
    BY <1>3, <1>6
  <2>2. j \notin 1 .. m
    BY <1>4, <1>6, <2>1
  <2>3. i < j /\ i \in 1 .. Len(s)
    BY <1>3, <1>5, <2>1, <2>2
  <2> QED BY <1>3, <1>4, <2>1, <2>3
<1>7. \A i \in 1 .. m : /\ i \in Nat \ {0} /\ board.options[i] \in result.vehicles
                        /\ board.options[i] \in Vehicles /\ ~ Dropped(board.options[i])
  BY <1>2, <1>3, <1>4, <1>5
<1>8. \A i, j \in 1 .. m : i < j => Before(q, board.options[i], board.options[j])
  BY <1>3, <1>4, <1>5
<1> QED BY <1>1, <1>4, <1>6, <1>7, <1>8

(* The dominating scooter is in the answer, or the dominated would not be: *)
(* the API sends the nearest, and the filters favour it.                   *)
LEMMA NothingBetter ==
  ASSUME fleet \in Fleet, NEW q \in Question, NEW result \in Results(q), NEW limit \in Nat,
         NEW board \in Assemble(q, result.vehicles, limit),
         NEW i \in DOMAIN board.options, NEW v \in Vehicles,
         fleet[v].rentable, OpOf[v] = OpOf[board.options[i]],
         Far(q, v) < Far(q, board.options[i]),
         fleet[v].range >= fleet[board.options[i]].range
  PROVE  \E j \in 1 .. i - 1 : board.options[j] = v
<1> DEFINE u == board.options[i]
<1>1. /\ \A k \in DOMAIN board.options : k \in Nat \ {0}
      /\ u \in result.vehicles /\ u \in Vehicles /\ ~ Dropped(u)
      /\ \A k, j \in DOMAIN board.options :
              k < j => Before(q, board.options[k], board.options[j])
      /\ \A w \in result.vehicles :
              ~ Dropped(w) => \/ \E j \in DOMAIN board.options : board.options[j] = w
                              \/ Before(q, u, w)
  BY Offered
<1>2. PICK raw \in Sent(q) : result.vehicles = Convert(raw, q)
  BY DEF Results
<1>3. /\ raw \subseteq Near(q)
      /\ \A w \in raw, other \in Near(q) \ raw : Far(q, w) <= Far(q, other)
  BY SentIs
<1>4. /\ Far(q, u) \in Nat /\ Far(q, v) \in Nat /\ q.n * q.radius \in Int
      /\ fleet[u].range \in Nat /\ fleet[v].range \in Nat /\ q.minRange \in Nat
      /\ FloorM \in Nat
  <2>1. Far(q, u) \in Nat /\ Far(q, v) \in Nat
    BY <1>1, Measured
  <2>2. q.n \in Int /\ q.radius \in Int /\ q.minRange \in Nat
    BY DEF Question
  <2>3. q.n * q.radius \in Int
    BY <2>2
  <2> QED BY <1>1, <2>1, <2>2, <2>3, PrefsAssumption DEF Fleet
<1>5. /\ u \in raw /\ fleet[u].range >= q.minRange /\ Inside(q, u)
      /\ OpOf[u] \in OperatorIDs(q.operators)
  BY <1>1, <1>2, <1>3 DEF Convert, Near
<1>6. Inside(q, v) /\ v \in Near(q)
  BY <1>4, <1>5 DEF Inside, Near
<1>7. v \in raw
  BY <1>3, <1>4, <1>5, <1>6
<1>8. v \in result.vehicles /\ ~ Dropped(v)
  BY <1>1, <1>2, <1>4, <1>5, <1>6, <1>7 DEF Convert, Dropped
<1>9. ~ Before(q, u, v)
  BY <1>1, <1>4, NearerScoresMore
<1>10. PICK j \in DOMAIN board.options : board.options[j] = v
  BY <1>1, <1>8, <1>9
<1>11. ~ (i < j) /\ i # j /\ i \in Int /\ j \in Int
  BY <1>1, <1>4, <1>9, <1>10
<1>12. j >= 1
  BY <1>1, <1>10
<1>13. j \in 1 .. i - 1
  BY <1>11, <1>12
<1> QED BY <1>10, <1>13

-----------------------------------------------------------------------------
(* Nothing fetched, counted, told or armed.                                *)
LEMMA StartsHolding == Init => IInv
<1> SUFFICES ASSUME Init PROVE IInv
  OBVIOUS
<1>1. /\ place \in Sites /\ reply = [f \in FenceIds |-> Failed] /\ done = -1
      /\ told = NoBoard /\ armed = NoWatch /\ before = fleet
  BY DEF Init, TickInit
<1>2. fleet \in Fleet
  <2>1. PICK parked \in [Vehicles -> [at : Ground, rentable : BOOLEAN]] :
          fleet = [v \in Vehicles |-> [at |-> parked[v].at, rentable |-> parked[v].rentable,
                                      range |-> RangeOf[v]]]
    BY DEF Init
  <2>2. \A v \in Vehicles : /\ parked[v].at \in Int /\ parked[v].rentable \in BOOLEAN
                            /\ RangeOf[v] \in Nat
    BY LookupsAssumption
  <2> QED BY <2>1, <2>2 DEF Fleet
<1>3. Standing
  BY <1>1, <1>2 DEF Standing
<1>4. Replied
  BY <1>1 DEF Replied
<1>5. Served = {}
  <2>1. DOMAIN Fences = 1 .. Len(Fences) /\ Len(Fences) \in Nat
    BY CoalesceAssumption
  <2> QED BY <1>1, <2>1 DEF Served
<1>6. Counted
  BY <1>5 DEF Counted
<1>7. Told /\ NothingBetterLeftOut /\ BrandHolds
  BY <1>1 DEF Told, NoBoard, NothingBetterLeftOut, BrandHolds
<1>8. Armed
  BY <1>1 DEF Armed, NoWatch
<1> QED BY <1>3, <1>4, <1>6, <1>7, <1>8 DEF IInv

(* Before its first fence the tick has served none.                        *)
LEMMA Unserved ==
  ASSUME done \in Int, done < 1
  PROVE  Served = {}
<1>1. DOMAIN Fences = 1 .. Len(Fences) /\ Len(Fences) \in Nat
  BY CoalesceAssumption
<1> QED BY <1>1 DEF Served

(* What no step touches but the one it is about.                           *)
LEMMA Untouched ==
  ASSUME IInv, UNCHANGED <<fleet, place>>
  PROVE  /\ UNCHANGED <<before, armed>> => Standing'
         /\ UNCHANGED <<done, reply>> => Replied'
         /\ UNCHANGED <<told, armed>> => (Told /\ NothingBetterLeftOut /\ BrandHolds)'
         /\ UNCHANGED <<armed, before>> => Armed'
<1>1. /\ \A q : \A v : Far(q, v)' = Far(q, v)
      /\ \A q : Results(q)' = Results(q)
      /\ \A f : GroupOf(f)' = GroupOf(f)
  BY Unmoved
<1>2. \A q : \A vehicles : Summary(q, vehicles)' = Summary(q, vehicles)
  BY <1>1 DEF Summary
<1>3. UNCHANGED <<before, armed>> => Standing'
  BY DEF IInv, Standing, Fleet
<1>4. UNCHANGED <<done, reply>> => Replied'
  BY <1>1 DEF IInv, Replied
<1>5. UNCHANGED <<told, armed>> => Told'
  BY <1>1, <1>2 DEF IInv, Told
<1>6. UNCHANGED told => NothingBetterLeftOut'
  BY <1>1 DEF IInv, NothingBetterLeftOut
<1>7. UNCHANGED told => BrandHolds'
  BY <1>1 DEF IInv, BrandHolds
<1>8. UNCHANGED <<armed, before>> => Armed'
  BY DEF IInv, Armed
<1> QED BY <1>3, <1>4, <1>5, <1>6, <1>7, <1>8

(* Replies are results of the queries that serve the fences.               *)
LEMMA FetchHolds ==
  ASSUME IInv, Fetch, UNCHANGED <<fleet, told, armed, before>>
  PROVE  IInv'
<1>1. done' = 0 /\ UNCHANGED <<fleet, place>>
  BY DEF Fetch
<1>2. Replied'
  <2>1. \A f \in FenceIds : reply'[f] = Failed \/ reply'[f] \in Results(GroupOf(f))
    BY DEF Fetch
  <2>2. \A f \in FenceIds : Results(GroupOf(f))' = Results(GroupOf(f))
    BY <1>1, Unmoved
  <2> QED BY <1>1, <2>1, <2>2 DEF Replied
<1>3. Counted'
  <2>1. Served' = {}
    <3>1. DOMAIN Fences = 1 .. Len(Fences) /\ Len(Fences) \in Nat
      BY CoalesceAssumption
    <3> QED BY <1>1, <3>1 DEF Served
  <2> QED BY <2>1 DEF Counted
<1> QED BY <1>1, <1>2, <1>3, Untouched DEF IInv

(* The fence served is counted from its reply.                             *)
LEMMA ServeHolds ==
  ASSUME IInv, Serve, UNCHANGED <<fleet, told, armed, before>>
  PROVE  IInv'
<1>1. /\ done' = done + 1 /\ UNCHANGED <<fleet, place, reply>>
      /\ done \in 0 .. Len(Fences) - 1 /\ reply[Turn] # Failed
      /\ inside' = Within(reply[Turn].vehicles, Turn)
      /\ truncated' = (truncated \/ reply[Turn].truncated)
      /\ \A o \in Operators : reading'[o] \in Readings(inside', Turn, o)
  BY DEF Serve
<1>2. Replied'
  <2>1. \A f \in FenceIds : GroupOf(f)' = GroupOf(f) /\ Results(GroupOf(f))' = Results(GroupOf(f))
    BY <1>1, Unmoved
  <2>2. done' # -1 /\ done' \in Int
    BY <1>1
  <2> QED BY <1>1, <2>1, <2>2 DEF IInv, Replied
<1>3. Counted'
  <2>1. \A f : f \in Served' => f = Turn
    BY <1>1 DEF Served, Turn
  <2>2. /\ \A vehicles, f : Within(vehicles, f)' = Within(vehicles, f)
        /\ \A vehicles, f, o : Readings(vehicles, f, o)' = Readings(vehicles, f, o)
    BY <1>1, Unmoved
  <2>3. \A f \in Served' : inside' = Within(reply[f].vehicles, f)
    BY <1>1, <2>1
  <2>4. \A f \in Served' : reply[f].truncated => truncated'
    BY <1>1, <2>1
  <2>5. \A f \in Served' : \A o \in Operators : reading'[o] \in Readings(inside', f, o)
    BY <1>1, <2>1
  <2> QED BY <1>1, <2>2, <2>3, <2>4, <2>5 DEF Counted
<1> QED BY <1>1, <1>2, <1>3, Untouched DEF IInv

(* A fence passed over is not counted.                                     *)
LEMMA SkipHolds ==
  ASSUME IInv, Skip, UNCHANGED <<fleet, told, armed, before>>
  PROVE  IInv'
<1>1. /\ done' = done + 1 /\ UNCHANGED <<fleet, place, reply>>
      /\ done \in 0 .. Len(Fences) - 1 /\ reply[Turn] = Failed
  BY DEF Skip
<1>2. Replied'
  <2>1. \A f \in FenceIds : GroupOf(f)' = GroupOf(f) /\ Results(GroupOf(f))' = Results(GroupOf(f))
    BY <1>1, Unmoved
  <2>2. done' # -1 /\ done' \in Int
    BY <1>1
  <2> QED BY <1>1, <2>1, <2>2 DEF IInv, Replied
<1>3. Served' = {}
  BY <1>1 DEF Served, Turn
<1>4. Counted'
  BY <1>3 DEF Counted
<1> QED BY <1>1, <1>2, <1>4, Untouched DEF IInv

(* A board is assembled from a result of its query.                        *)
LEMMA AskHolds ==
  ASSUME IInv, NEW f \in Asked, Ask(f)
  PROVE  IInv'
<1>1. /\ done = -1 /\ armed = NoWatch /\ UNCHANGED <<fleet, place, tickVars, armed, before>>
  BY DEF Ask, Quiet
<1>2. PICK radius \in Nat, limit \in Nat : ComputeBoard(place[f].at, radius, {}, limit)
  <2>1. PICK ask \in Asks : ComputeBoard(place[f].at, IF ask.radius > 0 THEN ask.radius
                                                     ELSE place[f].radius, {}, ask.limit)
    BY DEF Ask
  <2>2. ask.radius \in Nat /\ ask.limit \in Nat /\ place[f].radius \in Nat
    BY LookupsAssumption, Sited DEF IInv, Standing
  <2> QED BY <2>1, <2>2
<1> DEFINE q == Query(place[f].at, 1, radius, {}, 0, 0)
<1>3. PICK result \in Results(q) : told' \in Assemble(q, result.vehicles, limit)
  BY <1>2 DEF ComputeBoard
<1>4. q \in Question /\ q.limit = 0
  <2>1. place[f].at \in Int
    BY LookupsAssumption, Sited DEF IInv, Standing
  <2> QED BY <2>1 DEF Query, Question
<1> HIDE DEF q
<1>5. fleet \in Fleet
  BY DEF IInv, Standing
<1>6. PICK board \in Assemble(q, result.vehicles, limit) : told' = board
  BY <1>3
<1>7. /\ board.query = {q} /\ board.summary = {Summary(q, result.vehicles)}
      /\ \A i \in DOMAIN board.options :
           board.options[i] \in Vehicles /\ ~ Dropped(board.options[i])
      /\ \A i, j \in DOMAIN board.options :
           i < j => Before(q, board.options[i], board.options[j])
  BY <1>4, <1>5, Offered
<1>8. /\ \A p : \A v : Far(p, v)' = Far(p, v)
      /\ \A p : Results(p)' = Results(p)
  BY <1>1, Unmoved
<1>9. Told'
  <2>1. \A p : \A vehicles : Summary(p, vehicles)' = Summary(p, vehicles)
    BY <1>1, <1>8 DEF Summary
  <2> QED BY <1>1, <1>4, <1>6, <1>7, <1>8, <2>1 DEF Told
<1>10. NothingBetterLeftOut'
  <2>1. \A i \in DOMAIN board.options : \A v \in Vehicles :
          (/\ fleet[v].rentable /\ OpOf[v] = OpOf[board.options[i]]
           /\ Far(q, v) < Far(q, board.options[i])
           /\ fleet[v].range >= fleet[board.options[i]].range)
          => \E j \in 1 .. i - 1 : board.options[j] = v
    BY <1>4, <1>5, NothingBetter
  <2> QED BY <1>1, <1>6, <1>7, <1>8, <2>1 DEF NothingBetterLeftOut
<1>11. BrandHolds'
  <2>1. \A i, j \in DOMAIN board.options :
          i < j => Far(q, board.options[j]) - Far(q, board.options[i]) >=
            OperatorBonus[OpOf[board.options[j]]] - OperatorBonus[OpOf[board.options[i]]]
              - (IF fleet[board.options[j]].range >= ComfortM THEN 0 ELSE LowPenalty)
    BY <1>4, <1>5, <1>7, GapHolds
  <2> QED BY <1>1, <1>6, <1>7, <1>8, <2>1 DEF BrandHolds
<1>12. Standing' /\ Replied' /\ Armed'
  BY <1>1, Untouched DEF tickVars
<1>13. Counted'
  <2>1. Served' = {}
    <3>1. Served = {}
      BY <1>1, Unserved
    <3> QED BY <1>1, <3>1 DEF Served, tickVars
  <2> QED BY <2>1 DEF Counted
<1> QED BY <1>9, <1>10, <1>11, <1>12, <1>13 DEF IInv

(* A baseline that was not cut holds all its query matches.                *)
LEMMA ArmHolds ==
  ASSUME IInv, NEW f \in Asked, Arm(f)
  PROVE  IInv'
<1>1. /\ done = -1 /\ told = NoBoard /\ armed = NoWatch
      /\ UNCHANGED <<fleet, place, tickVars, told, before>>
  BY DEF Arm, Quiet
<1>2. PICK watch \in WatchKinds :
       \E result \in Results(Query(place[f].at, 1, place[f].radius,
                                   watch.operators, watch.minRange, 0)) :
         armed' = [fence |-> {f}, watch |-> {watch},
                   baseline |-> result.vehicles, truncated |-> result.truncated]
  BY DEF Arm
<1> DEFINE q == Query(place[f].at, 1, place[f].radius, watch.operators, watch.minRange, 0)
<1>3. PICK result \in Results(q) :
         armed' = [fence |-> {f}, watch |-> {watch},
                   baseline |-> result.vehicles, truncated |-> result.truncated]
  BY <1>2
<1>4. /\ place[f].at \in Int /\ place[f].radius \in Nat /\ f \in FenceIds
      /\ watch.operators \in SUBSET Operators /\ watch.minRange \in Nat
      /\ fleet = before /\ fleet \in Fleet
  BY <1>1, LookupsAssumption, Sited DEF IInv, Standing
<1>5. /\ q \in Question /\ q.limit = 0 /\ q.n = 1 /\ q.sum = place[f].at
      /\ q.radius = place[f].radius /\ q.operators = watch.operators
      /\ q.minRange = watch.minRange
  BY <1>4 DEF Query, Question
<1> HIDE DEF q
<1>6. ~ result.truncated => result.vehicles = Convert(Near(q), q)
  BY <1>5, UncutIsWhole
<1>7. \A v \in Vehicles : Inside(q, v) <=> Abs(before[v].at - place[f].at) <= place[f].radius
  <2>1. \A v \in Vehicles : 1 * fleet[v].at = before[v].at
    BY <1>4 DEF Fleet
  <2>2. 1 * place[f].radius = place[f].radius
    BY <1>4
  <2> QED BY <1>5, <2>1, <2>2 DEF Inside, Far
<1>8. Armed'
  <2>1. \A v \in Vehicles :
          (/\ ~ result.truncated /\ before[v].rentable /\ before[v].range >= watch.minRange
           /\ OpOf[v] \in OperatorIDs(watch.operators)
           /\ Abs(before[v].at - place[f].at) <= place[f].radius)
          => v \in result.vehicles
    BY <1>4, <1>5, <1>6, <1>7 DEF Convert, Near
  <2>2. /\ armed'.fence = {f} /\ armed'.watch = {watch}
        /\ armed'.baseline = result.vehicles /\ armed'.truncated = result.truncated
    BY <1>3
  <2> QED BY <1>1, <1>4, <2>1, <2>2 DEF Armed
<1>9. Standing'
  BY <1>1, <1>4 DEF IInv, Standing, Fleet
<1>10. Told'
  BY <1>1 DEF Told, NoBoard
<1>11. NothingBetterLeftOut' /\ BrandHolds'
  BY <1>1 DEF NothingBetterLeftOut, BrandHolds, NoBoard
<1>12. Replied'
  BY <1>1, Untouched DEF tickVars
<1>13. Counted'
  <2>1. Served' = {}
    <3>1. Served = {}
      BY <1>1, Unserved
    <3> QED BY <1>1, <3>1 DEF Served, tickVars
  <2> QED BY <2>1 DEF Counted
<1> QED BY <1>8, <1>9, <1>10, <1>11, <1>12, <1>13 DEF IInv

(* Servicing moves nobody and happens after the baseline only.             *)
LEMMA ServiceHolds ==
  ASSUME IInv, NEW v \in Serviced, Service(v)
  PROVE  IInv'
<1>1. /\ armed # NoWatch /\ done = -1 /\ fleet = before
      /\ UNCHANGED <<place, tickVars, told, armed, before>>
      /\ fleet' = [fleet EXCEPT ![v].range = FullM] \/ fleet' = [fleet EXCEPT ![v].rentable = ~ @]
  BY DEF Service
<1>2. told = NoBoard
  BY <1>1 DEF IInv, Told
<1>3. Standing'
  <2>1. fleet \in Fleet /\ FullM \in Nat /\ v \in Vehicles
    BY LookupsAssumption DEF IInv, Standing
  <2>2. fleet' \in Fleet /\ \A w \in Vehicles : fleet'[w].at = fleet[w].at
    <3>1. CASE fleet' = [fleet EXCEPT ![v].range = FullM]
      BY <2>1, <3>1 DEF Fleet
    <3>2. CASE fleet' = [fleet EXCEPT ![v].rentable = ~ @]
      <4>1. fleet' = [fleet EXCEPT ![v] = [fleet[v] EXCEPT !.rentable = ~ fleet[v].rentable]]
        BY <2>1, <3>2 DEF Fleet
      <4>2. (~ fleet[v].rentable) \in BOOLEAN
        OBVIOUS
      <4>3. [fleet[v] EXCEPT !.rentable = ~ fleet[v].rentable]
              \in [at : {fleet[v].at}, rentable : BOOLEAN, range : Nat]
        BY <2>1, <4>2 DEF Fleet
      <4> QED BY <2>1, <4>1, <4>3 DEF Fleet
    <3> QED BY <1>1, <3>1, <3>2
  <2> QED BY <1>1, <2>2 DEF IInv, Standing, Fleet
<1>4. Replied'
  BY <1>1 DEF IInv, Replied, tickVars
<1>5. Counted'
  <2>1. Served' = {}
    <3>1. Served = {}
      BY <1>1, Unserved
    <3> QED BY <1>1, <3>1 DEF Served, tickVars
  <2> QED BY <2>1 DEF Counted
<1>6. Told'
  BY <1>1, <1>2 DEF Told, NoBoard
<1>7. NothingBetterLeftOut' /\ BrandHolds'
  BY <1>1, <1>2 DEF NothingBetterLeftOut, BrandHolds, NoBoard
<1>8. Armed'
  BY <1>1 DEF IInv, Armed
<1> QED BY <1>3, <1>4, <1>5, <1>6, <1>7, <1>8 DEF IInv

(* Nothing changes.                                                        *)
LEMMA StutterHolds == IInv /\ UNCHANGED vars => IInv'
<1> SUFFICES ASSUME IInv, UNCHANGED vars PROVE IInv'
  OBVIOUS
<1>1. UNCHANGED <<fleet, place, reply, done, inside, reading, truncated, told, armed, before>>
  BY DEF vars, tickVars
<1>2. Counted'
  <2>1. \A f : f \in Served' => f \in Served
    BY <1>1 DEF Served
  <2>2. /\ \A vehicles, f : Within(vehicles, f)' = Within(vehicles, f)
        /\ \A vehicles, f, o : Readings(vehicles, f, o)' = Readings(vehicles, f, o)
    BY <1>1, Unmoved
  <2> QED BY <1>1, <2>1, <2>2 DEF IInv, Counted
<1> QED BY <1>1, <1>2, Untouched DEF IInv

(* One case for each action.                                               *)
LEMMA StepsHold == IInv /\ [Next]_vars => IInv'
<1> SUFFICES ASSUME IInv, [Next]_vars PROVE IInv'
  OBVIOUS
<1>1. CASE Tick
  BY <1>1, FetchHolds, ServeHolds, SkipHolds DEF Tick
<1>2. ASSUME NEW f \in Asked, Ask(f) PROVE IInv'
  BY <1>2, AskHolds
<1>3. ASSUME NEW f \in Asked, Arm(f) PROVE IInv'
  BY <1>3, ArmHolds
<1>4. ASSUME NEW v \in Serviced, Service(v) PROVE IInv'
  BY <1>4, ServiceHolds
<1>5. CASE UNCHANGED vars
  BY <1>5, StutterHolds
<1> QED BY <1>1, <1>2, <1>3, <1>4, <1>5 DEF Next

(* The invariant holds throughout.                                         *)
LEMMA AlwaysHolds == Spec => []IInv
  BY StartsHolding, StepsHold, PTL DEF Spec

(* Whatever the sites of the fences, the fleet and the cap: a tick counts  *)
(* in each fence exactly what can be rented in it, shared query or not,    *)
(* unless an answer was cut (groupFences, BoundingRadiusM, within).        *)
THEOREM NothingIsOverlooked == Spec => []NothingOverlooked
<1>1. IInv => NothingOverlooked
  BY Overlooked DEF IInv
<1> QED BY <1>1, AlwaysHolds, PTL

(* A reading is the distance of the nearest of its operator, unless an     *)
(* answer was cut or ProbeCount vehicles nobody can rent stand nearer      *)
(* (recordNearest, nearestOf).                                             *)
THEOREM ReadingsAreRight == Spec => []ReadingsAreTrue
<1>1. IInv => ReadingsAreTrue
  BY Readable DEF IInv
<1> QED BY <1>1, AlwaysHolds, PTL

(* A board of a fence and the tick's record of it name the same counts and *)
(* the same nearest (computeBoard, Assemble, recordFence).                 *)
THEOREM BoardAndTickAgree == Spec => []BoardAgreesWithTick
<1>1. IInv => BoardAgreesWithTick
  BY Agrees DEF IInv
<1> QED BY <1>1, AlwaysHolds, PTL

(* On a parked fleet a watch fires for serviced vehicles only, unless its  *)
(* baseline was cut (createWatch, within, matches).                        *)
THEOREM ParkedFleetIsQuiet == Spec => []ParkedFleetFiresNothing
<1>1. IInv => ParkedFleetFiresNothing
  BY Fires DEF IInv
<1> QED BY <1>1, AlwaysHolds, PTL

(* Under any preferences, no scooter on a board is dominated by one below  *)
(* it or missing (score, Assemble).                                        *)
THEOREM BoardLeavesNothingBetterOut == Spec => []NothingBetterLeftOut
<1>1. IInv => NothingBetterLeftOut
  BY DEF IInv
<1> QED BY <1>1, AlwaysHolds, PTL

(* Under any preferences, the gap between two operators is kept in spite   *)
(* of rounding, less LowPenalty for a low battery (score, round1).         *)
THEOREM BoardKeepsTheGap == Spec => []BrandHolds
<1>1. IInv => BrandHolds
  BY DEF IInv
<1> QED BY <1>1, AlwaysHolds, PTL
=============================================================================
